---------------------------- MODULE PresenceProofs ----------------------------
(***************************************************************************)
(* Proofs about tokens and streams, for any number of tokens, of requests  *)
(* served at once and of streams.  A request may act for a seat its player *)
(* has left long ago: nothing here assumes more of the seat it holds than  *)
(* that it is one of the four.                                             *)
(***************************************************************************)
EXTENDS Presence, SeatsProofs, FiniteSetTheorems

Counted(s) == {i \in Streams : stream[i].seat = s}

PresenceInv ==
  /\ TypeOK
  /\ LobbyOK(lobby)
  /\ TokenNamesItsSeat
  /\ CountersCountStreams

USE DEF Position

-----------------------------------------------------------------------------
(* Lobby and types *)

\* A table leaves the lobby of a released account consistent, and frees its seats or
\* none.
LEMMA ReleaseOK ==
  ASSUME PresenceInv, NEW a \in Accounts, ReleaseAccount(a)
  PROVE  /\ LobbyOK(lobby')
         /\ Occupied(lobby) \ SeatsOf(lobby, a) \subseteq Occupied(lobby')
<1> DEFINE A == SeatsOf(lobby, a)
<1>1. A \in SUBSET Occupied(lobby) /\ A \in SUBSET Position /\ lobby \in Lobby
  BY DEF SeatsOf, Occupied, PresenceInv, TypeOK
<1> HIDE DEF A
<1>2. CASE Waiting(lobby)
  <2>1. lobby' = LeaveAll(lobby, A) BY <1>2 DEF ReleaseAccount, A
  <2> QED BY <1>1, <1>2, <2>1, LeaveAllOK DEF PresenceInv, A
<1>3. CASE ~Waiting(lobby)
  <2>1. lobby' = HandToBot(lobby, A) BY <1>3 DEF ReleaseAccount, A
  <2> QED BY <1>1, <2>1, HandToBotOK, SameSeatsOK DEF PresenceInv, A
<1> QED BY <1>2, <1>3

LEMMA LobbyStep ==
  ASSUME PresenceInv, [Next]_vars
  PROVE  LobbyOK(lobby')
<1> USE DEF PresenceInv
<1>0. lobby \in Lobby BY DEF TypeOK
<1>1. ASSUME NEW w \in Workers, NEW ready \in BOOLEAN, PlayerReady(w, ready)
      PROVE  LobbyOK(lobby')
  BY <1>0, <1>1, SetReadyOK DEF PlayerReady, CanSetReady
<1>2. ASSUME NEW w \in Workers, OwnerStarts(w)
      PROVE  LobbyOK(lobby')
  BY <1>0, <1>2, StartOK, SeatBotsAndStartOK
     DEF OwnerStarts, CanStart, CanStartWithBots, Owns
<1>3. ASSUME NEW w \in Workers, NEW to \in Position, PlayerMoves(w, to)
      PROVE  LobbyOK(lobby')
  <2>1. authorized[w].seat \in Position
    BY <1>3 DEF PlayerMoves, CanChooseSeat, Occupied
  <2> QED BY <1>0, <1>3, <2>1, ChooseSeatOK DEF PlayerMoves
<1>4. ASSUME NEW w \in Workers, PlayerLeaves(w)
      PROVE  LobbyOK(lobby')
  BY <1>0, <1>4, LeaveOK DEF PlayerLeaves, CanLeave
<1>5. ASSUME NEW w \in Workers, NEW i \in Streams, StreamOpens(w, i)
      PROVE  LobbyOK(lobby')
  <2>1. authorized[w].seat \in Position
    BY <1>5 DEF StreamOpens, CanReconnect, Occupied
  <2> QED BY <1>0, <1>5, <2>1, ReconnectOK, SameSeatsOK DEF StreamOpens
<1>6. ASSUME NEW t \in Tokens, NEW a \in Accounts \cup {NoAccount}, PlayerJoins(t, a)
      PROVE  LobbyOK(lobby')
  BY <1>0, <1>6, JoinOK DEF PlayerJoins
<1>7. ASSUME NEW i \in Streams, SeatDisconnects(i)
      PROVE  LobbyOK(lobby')
  <2>1. ending[i] \in Position BY <1>7 DEF SeatDisconnects, TypeOK, NoSeat
  <2> QED BY <1>0, <1>7, <2>1, DisconnectOK, SameSeatsOK DEF SeatDisconnects
<1>8. ASSUME NEW expired \in SUBSET Disconnected(lobby), SweepReplaces(expired)
      PROVE  LobbyOK(lobby')
  <2>1. expired \in SUBSET Position BY DEF Disconnected, Occupied
  <2> QED BY <1>0, <1>8, <2>1, ReplaceExpiredOK, SameSeatsOK DEF SweepReplaces
<1>9. CASE SweepFills
  BY <1>0, <1>9, FillWithBotsOK DEF SweepFills
<1>10. CASE \E a \in Accounts : ReleaseAccount(a)
  BY <1>10, ReleaseOK
<1>11. ASSUME UNCHANGED lobby PROVE LobbyOK(lobby')
  BY <1>11
<1> QED
  BY <1>1, <1>2, <1>3, <1>4, <1>5, <1>6, <1>7, <1>8, <1>9, <1>10, <1>11
  DEF Next, RequestStep, Authorize, OtherAction, StreamEnds, vars

\* The parts of the state that are not the lobby.
Rest ==
  /\ tokens \in [Tokens -> Position \cup {NoSeat}]
  /\ authorized \in [Workers -> Held \cup {NoRequest}]
  /\ stream \in [Streams -> Held \cup {NoRequest}]
  /\ streams \in [Position -> Nat]
  /\ ending \in [Streams -> Position \cup {NoSeat}]
  /\ removed \in BOOLEAN
  /\ player \in [Position -> Tokens \cup {NoToken}]
  /\ streamed \subseteq Tokens

LEMMA RestStep ==
  ASSUME PresenceInv, [Next]_vars
  PROVE  Rest'
<1> USE DEF Rest
<1>0. Rest BY DEF PresenceInv, TypeOK
<1>1. ASSUME NEW w \in Workers, NEW t \in Tokens, Authorize(w, t) PROVE Rest'
  BY <1>0, <1>1 DEF Authorize, MayAct, Held, NoSeat
<1>2. ASSUME NEW w \in Workers, OtherAction(w) PROVE Rest'
  BY <1>0, <1>2 DEF OtherAction, Served
<1>3. ASSUME NEW w \in Workers, NEW ready \in BOOLEAN, PlayerReady(w, ready) PROVE Rest'
  BY <1>0, <1>3 DEF PlayerReady, Served
<1>4. ASSUME NEW w \in Workers, OwnerStarts(w) PROVE Rest'
  BY <1>0, <1>4 DEF OwnerStarts, Served
<1>5. ASSUME NEW w \in Workers, NEW to \in Position, PlayerMoves(w, to) PROVE Rest'
  <2>1. authorized[w].seat \in Position
    BY <1>5 DEF PlayerMoves, CanChooseSeat, Occupied
  <2>2. tokens' \in [Tokens -> Position \cup {NoSeat}]
    BY <1>0, <1>5, <2>1 DEF PlayerMoves, MoveTokens
  <2>3. player' \in [Position -> Tokens \cup {NoToken}]
    BY <1>0, <1>5, <2>1 DEF PlayerMoves
  <2> QED BY <1>0, <1>5, <2>2, <2>3 DEF PlayerMoves, Served
<1>6. ASSUME NEW w \in Workers, PlayerLeaves(w) PROVE Rest'
  <2>1. tokens' \in [Tokens -> Position \cup {NoSeat}]
    BY <1>0, <1>6 DEF PlayerLeaves, Revoke
  <2>2. player' \in [Position -> Tokens \cup {NoToken}]
    BY <1>0, <1>6 DEF PlayerLeaves
  <2>3. removed' \in BOOLEAN
    BY <1>0, <1>6 DEF PlayerLeaves
  <2> QED BY <1>0, <1>6, <2>1, <2>2, <2>3 DEF PlayerLeaves, Served
<1>7. ASSUME NEW w \in Workers, NEW i \in Streams, StreamOpens(w, i) PROVE Rest'
  <2>1. authorized[w] \in Held
    BY <1>0, <1>7 DEF StreamOpens, Served
  <2> QED BY <1>0, <1>7, <2>1 DEF StreamOpens, Served, Held
<1>8. ASSUME NEW t \in Tokens, NEW a \in Accounts \cup {NoAccount}, PlayerJoins(t, a)
      PROVE  Rest'
  <2>1. First(Free(lobby)) \in Position
    BY <1>8, FirstIsIn DEF PlayerJoins, CanJoin, Free
  <2> QED BY <1>0, <1>8, <2>1 DEF PlayerJoins
<1>9. ASSUME NEW i \in Streams, StreamEnds(i) PROVE Rest'
  <2>1. stream[i].seat \in Position
    BY <1>0, <1>9 DEF StreamEnds, Held
  <2> QED BY <1>0, <1>9, <2>1 DEF StreamEnds, OneStreamFewer
<1>10. ASSUME NEW i \in Streams, SeatDisconnects(i) PROVE Rest'
  BY <1>0, <1>10 DEF SeatDisconnects
<1>11. ASSUME NEW expired \in SUBSET Disconnected(lobby), SweepReplaces(expired) PROVE Rest'
  BY <1>0, <1>11 DEF SweepReplaces
<1>12. CASE SweepFills
  BY <1>0, <1>12 DEF SweepFills
<1>13. ASSUME NEW a \in Accounts, ReleaseAccount(a) PROVE Rest'
  <2>1. tokens' \in [Tokens -> Position \cup {NoSeat}]
    BY <1>0, <1>13 DEF ReleaseAccount, Revoke
  <2>2. player' \in [Position -> Tokens \cup {NoToken}]
    BY <1>0, <1>13 DEF ReleaseAccount
  <2>3. removed' \in BOOLEAN
    BY <1>13 DEF ReleaseAccount
  <2> QED BY <1>0, <1>13, <2>1, <2>2, <2>3 DEF ReleaseAccount
<1>14. CASE UNCHANGED vars
  BY <1>0, <1>14 DEF vars
<1> QED
  BY <1>1, <1>2, <1>3, <1>4, <1>5, <1>6, <1>7, <1>8, <1>9, <1>10, <1>11, <1>12, <1>13,
     <1>14
  DEF Next, RequestStep

-----------------------------------------------------------------------------
(* Tokens *)

\* A step that leaves the tokens and their players alone and frees no seat.
LEMMA TokensKept ==
  ASSUME PresenceInv, UNCHANGED <<tokens, player>>, Occupied(lobby) \subseteq Occupied(lobby')
  PROVE  TokenNamesItsSeat'
BY DEF PresenceInv, TokenNamesItsSeat

LEMMA MoveKeepsTokens ==
  ASSUME PresenceInv, NEW w \in Workers, NEW to \in Position, PlayerMoves(w, to)
  PROVE  TokenNamesItsSeat'
<1> USE DEF PresenceInv
<1> DEFINE s == authorized[w].seat
<1>1. /\ s \in Position /\ s \in Occupied(lobby) /\ lobby \in Lobby
      /\ lobby' = ChooseSeat(lobby, s, to) /\ CanChooseSeat(lobby, s, to)
  BY DEF PlayerMoves, CanChooseSeat, Occupied, TypeOK
<1>2. Occupied(lobby') = (Occupied(lobby) \ {s}) \cup {to}
  BY <1>1, ChooseSeatOK
<1>3. /\ tokens' = [t \in Tokens |-> IF tokens[t] = s THEN to ELSE tokens[t]]
      /\ player' = IF to = s THEN player ELSE [player EXCEPT ![to] = player[s], ![s] = NoToken]
  BY DEF PlayerMoves, MoveTokens
<1>4. /\ tokens \in [Tokens -> Position \cup {NoSeat}]
      /\ player \in [Position -> Tokens \cup {NoToken}]
      /\ NoToken \notin Tokens /\ NoSeat \notin Position
  BY PresenceAssumption DEF TypeOK, NoSeat
<1> HIDE DEF s
<1>5. CASE to = s
  <2>1. tokens' = tokens BY <1>3, <1>4, <1>5
  <2> QED BY <1>2, <1>3, <1>5, <2>1, TokensKept
<1>6. CASE to # s
  <2>1. to \notin Occupied(lobby)
    BY <1>1, <1>6 DEF CanChooseSeat, Free
  <2>2. player[to] = NoToken
    BY <2>1 DEF TokenNamesItsSeat
  <2>3. ASSUME NEW t \in Tokens, tokens'[t] # NoSeat
        PROVE  player'[tokens'[t]] = t
    <3>1. CASE tokens[t] = s
      BY <1>1, <1>3, <1>4, <1>6, <2>3, <3>1 DEF TokenNamesItsSeat
    <3>2. CASE tokens[t] # s
      <4>1. tokens'[t] = tokens[t] /\ player[tokens[t]] = t
        BY <1>3, <2>3, <3>2 DEF TokenNamesItsSeat
      <4>2. tokens[t] # to BY <1>4, <2>2, <4>1
      <4> QED BY <1>3, <1>4, <1>6, <2>3, <3>2, <4>1, <4>2
    <3> QED BY <3>1, <3>2
  <2>4. ASSUME NEW p \in Position, player'[p] # NoToken
        PROVE  p \in Occupied(lobby') /\ tokens'[player'[p]] = p
    <3>1. CASE p = to
      <4>1. player'[p] = player[s]
        BY <1>1, <1>3, <1>4, <1>6, <3>1
      <4>2. player[s] \in Tokens /\ tokens[player[s]] = s
        BY <1>1, <1>4, <2>4, <4>1 DEF TokenNamesItsSeat
      <4> QED BY <1>2, <1>3, <3>1, <4>1, <4>2
    <3>2. CASE p # to
      <4>1. p # s
        BY <1>1, <1>3, <1>4, <1>6, <2>4, <3>2
      <4>2. player'[p] = player[p]
        BY <1>3, <1>4, <1>6, <3>2, <4>1
      <4>3. player[p] \in Tokens /\ tokens[player[p]] = p /\ p \in Occupied(lobby)
        BY <1>4, <2>4, <4>2 DEF TokenNamesItsSeat
      <4> QED BY <1>2, <1>3, <4>1, <4>2, <4>3
    <3> QED BY <3>1, <3>2
  <2> QED BY <2>3, <2>4 DEF TokenNamesItsSeat
<1> QED BY <1>5, <1>6

\* Leaving and releasing: the tokens of the seats freed go with their players.
LEMMA RevokeKeepsTokens ==
  ASSUME PresenceInv, NEW S \in SUBSET Position, Revoke(S),
         player' = [s \in Position |-> IF s \in S THEN NoToken ELSE player[s]],
         Occupied(lobby) \ S \subseteq Occupied(lobby')
  PROVE  TokenNamesItsSeat'
<1> USE DEF PresenceInv
<1>1. /\ tokens \in [Tokens -> Position \cup {NoSeat}]
      /\ player \in [Position -> Tokens \cup {NoToken}]
      /\ NoToken \notin Tokens /\ NoSeat \notin Position
  BY PresenceAssumption DEF TypeOK, NoSeat
<1>2. tokens' = [t \in Tokens |-> IF tokens[t] \in S THEN NoSeat ELSE tokens[t]]
  BY DEF Revoke
<1>3. ASSUME NEW t \in Tokens, tokens'[t] # NoSeat
      PROVE  player'[tokens'[t]] = t
  <2>1. tokens'[t] = tokens[t] /\ tokens[t] \notin S /\ tokens[t] \in Position
    BY <1>1, <1>2, <1>3
  <2> QED BY <1>1, <2>1 DEF TokenNamesItsSeat
<1>4. ASSUME NEW p \in Position, player'[p] # NoToken
      PROVE  p \in Occupied(lobby') /\ tokens'[player'[p]] = p
  <2>1. player'[p] = player[p] /\ p \notin S BY <1>4
  <2>2. player[p] \in Tokens /\ tokens[player[p]] = p /\ p \in Occupied(lobby)
    BY <1>1, <1>4, <2>1 DEF TokenNamesItsSeat
  <2> QED BY <1>2, <2>1, <2>2
<1> QED BY <1>3, <1>4 DEF TokenNamesItsSeat

LEMMA JoinKeepsTokens ==
  ASSUME PresenceInv, NEW t \in Tokens, NEW a \in Accounts \cup {NoAccount}, PlayerJoins(t, a)
  PROVE  TokenNamesItsSeat'
<1> USE DEF PresenceInv
<1> DEFINE f == First(Free(lobby))
<1>1. /\ f \in Position /\ f \in Free(lobby) /\ lobby \in Lobby
      /\ lobby' = Join(lobby, a) /\ CanJoin(lobby)
      /\ tokens' = [tokens EXCEPT ![t] = f] /\ player' = [player EXCEPT ![f] = t]
      /\ tokens[t] = NoSeat
  BY FirstIsIn DEF PlayerJoins, CanJoin, Free, TypeOK, Fresh
<1>2. Occupied(lobby') = Occupied(lobby) \cup {f}
  BY <1>1, JoinOK
<1>3. /\ tokens \in [Tokens -> Position \cup {NoSeat}]
      /\ player \in [Position -> Tokens \cup {NoToken}]
      /\ NoToken \notin Tokens /\ NoSeat \notin Position
  BY PresenceAssumption DEF TypeOK, NoSeat
<1>4. player[f] = NoToken
  BY <1>1 DEF TokenNamesItsSeat, Free
<1> HIDE DEF f
<1>5. ASSUME NEW u \in Tokens, tokens'[u] # NoSeat
      PROVE  player'[tokens'[u]] = u
  <2>1. CASE u = t BY <1>1, <1>3, <2>1
  <2>2. CASE u # t
    <3>1. tokens'[u] = tokens[u] /\ player[tokens[u]] = u /\ tokens[u] \in Position
      BY <1>1, <1>3, <1>5, <2>2 DEF TokenNamesItsSeat
    <3>2. tokens[u] # f BY <1>3, <1>4, <3>1
    <3> QED BY <1>1, <1>3, <3>1, <3>2
  <2> QED BY <2>1, <2>2
<1>6. ASSUME NEW p \in Position, player'[p] # NoToken
      PROVE  p \in Occupied(lobby') /\ tokens'[player'[p]] = p
  <2>1. CASE p = f BY <1>1, <1>2, <1>3, <2>1
  <2>2. CASE p # f
    <3>1. player'[p] = player[p] BY <1>1, <1>3, <2>2
    <3>2. player[p] \in Tokens /\ tokens[player[p]] = p /\ p \in Occupied(lobby)
      BY <1>3, <1>6, <3>1 DEF TokenNamesItsSeat
    <3>3. player[p] # t BY <1>1, <1>3, <3>2
    <3> QED BY <1>1, <1>2, <1>3, <3>1, <3>2, <3>3
  <2> QED BY <2>1, <2>2
<1> QED BY <1>5, <1>6 DEF TokenNamesItsSeat

\* The lobby steps that only change what is in the seats.
LEMMA TokensStep ==
  ASSUME PresenceInv, [Next]_vars
  PROVE  TokenNamesItsSeat'
<1>0. lobby \in Lobby /\ LobbyOK(lobby) BY DEF PresenceInv, TypeOK
<1>1. ASSUME NEW w \in Workers, NEW ready \in BOOLEAN, PlayerReady(w, ready)
      PROVE  TokenNamesItsSeat'
  BY <1>0, <1>1, SetReadyOK, TokensKept DEF PlayerReady, CanSetReady
<1>2. ASSUME NEW w \in Workers, OwnerStarts(w)
      PROVE  TokenNamesItsSeat'
  <2>1. LobbyOK(lobby') /\ ~Waiting(lobby')
    BY <1>0, <1>2, StartOK, SeatBotsAndStartOK
       DEF OwnerStarts, CanStart, CanStartWithBots, Owns
  <2>2. Occupied(lobby') = Position BY <2>1 DEF LobbyOK, Free, Occupied
  <2> QED BY <1>2, <2>2, TokensKept DEF OwnerStarts, Occupied
<1>3. ASSUME NEW w \in Workers, NEW to \in Position, PlayerMoves(w, to)
      PROVE  TokenNamesItsSeat'
  BY <1>3, MoveKeepsTokens
<1>4. ASSUME NEW w \in Workers, PlayerLeaves(w)
      PROVE  TokenNamesItsSeat'
  <2> DEFINE s == authorized[w].seat
  <2>1. /\ s \in Occupied(lobby) /\ s \in Position /\ Waiting(lobby)
        /\ lobby' = Leave(lobby, s) /\ Revoke({s})
        /\ player' = [player EXCEPT ![s] = NoToken]
    BY <1>4 DEF PlayerLeaves, CanLeave, Occupied
  <2> HIDE DEF s
  <2>2. Occupied(lobby') = Occupied(lobby) \ {s} BY <1>0, <2>1, LeaveOK
  <2>3. player' = [p \in Position |-> IF p \in {s} THEN NoToken ELSE player[p]]
    BY <2>1 DEF PresenceInv, TypeOK
  <2> QED BY <2>1, <2>2, <2>3, RevokeKeepsTokens
<1>5. ASSUME NEW w \in Workers, NEW i \in Streams, StreamOpens(w, i)
      PROVE  TokenNamesItsSeat'
  <2>1. authorized[w].seat \in Position
    BY <1>5 DEF StreamOpens, CanReconnect, Occupied
  <2> QED BY <1>0, <1>5, <2>1, ReconnectOK, SameSeatsOK, TokensKept DEF StreamOpens
<1>6. ASSUME NEW t \in Tokens, NEW a \in Accounts \cup {NoAccount}, PlayerJoins(t, a)
      PROVE  TokenNamesItsSeat'
  BY <1>6, JoinKeepsTokens
<1>7. ASSUME NEW i \in Streams, SeatDisconnects(i)
      PROVE  TokenNamesItsSeat'
  <2>1. ending[i] \in Position BY <1>7 DEF SeatDisconnects, PresenceInv, TypeOK, NoSeat
  <2> QED BY <1>0, <1>7, <2>1, DisconnectOK, SameSeatsOK, TokensKept DEF SeatDisconnects
<1>8. ASSUME NEW expired \in SUBSET Disconnected(lobby), SweepReplaces(expired)
      PROVE  TokenNamesItsSeat'
  <2>1. expired \in SUBSET Position BY DEF Disconnected, Occupied
  <2> QED BY <1>0, <1>8, <2>1, ReplaceExpiredOK, SameSeatsOK, TokensKept DEF SweepReplaces
<1>9. CASE SweepFills
  <2>1. LobbyOK(lobby') /\ ~Waiting(lobby') BY <1>0, <1>9, FillWithBotsOK DEF SweepFills
  <2>2. Occupied(lobby') = Position BY <2>1 DEF LobbyOK, Free, Occupied
  <2> QED BY <1>9, <2>2, TokensKept DEF SweepFills, Occupied
<1>10. ASSUME NEW a \in Accounts, ReleaseAccount(a)
       PROVE  TokenNamesItsSeat'
  <2>1. SeatsOf(lobby, a) \in SUBSET Position BY DEF SeatsOf, Occupied
  <2>2. Revoke(SeatsOf(lobby, a)) BY <1>10 DEF ReleaseAccount
  <2>3. player' = [s \in Position |-> IF s \in SeatsOf(lobby, a) THEN NoToken ELSE player[s]]
    BY <1>10 DEF ReleaseAccount
  <2> QED BY <1>10, <2>1, <2>2, <2>3, ReleaseOK, RevokeKeepsTokens
<1>11. ASSUME UNCHANGED <<lobby, tokens, player>> PROVE TokenNamesItsSeat'
  BY <1>11, TokensKept
<1> QED
  BY <1>1, <1>2, <1>3, <1>4, <1>5, <1>6, <1>7, <1>8, <1>9, <1>10, <1>11
  DEF Next, RequestStep, Authorize, OtherAction, StreamEnds, vars

-----------------------------------------------------------------------------
(* Streams *)

\* The streams counted for a seat are finitely many.
LEMMA CountedIsFinite ==
  ASSUME NEW S \in SUBSET Streams
  PROVE  IsFiniteSet(S) /\ Cardinality(S) \in Nat
<1>1. IsFiniteSet(Streams) BY PresenceAssumption
<1>2. IsFiniteSet(S) BY <1>1, FS_Subset
<1> QED BY <1>2, FS_CardinalityType

LEMMA OpeningIsCounted ==
  ASSUME PresenceInv, NEW w \in Workers, NEW i \in Streams, StreamOpens(w, i)
  PROVE  CountersCountStreams'
<1> USE DEF PresenceInv
<1> DEFINE h == authorized[w]
<1>1. /\ h \in Held /\ h.seat \in Position /\ stream[i] = NoRequest
      /\ stream' = [stream EXCEPT ![i] = h]
      /\ streams' = [streams EXCEPT ![h.seat] = @ + 1]
      /\ stream \in [Streams -> Held \cup {NoRequest}] /\ streams \in [Position -> Nat]
  BY DEF StreamOpens, Served, TypeOK, Held
<1> HIDE DEF h
<1>2. ASSUME NEW s \in Position
      PROVE  streams'[s] = Cardinality({j \in Streams : stream'[j].seat = s})
  <2> DEFINE S == Counted(s)
             T == {j \in Streams : stream'[j].seat = s}
  <2>1. streams[s] = Cardinality(S) BY DEF CountersCountStreams, Counted
  <2>2. IsFiniteSet(S) BY CountedIsFinite DEF Counted
  <2>3. i \notin S BY <1>1 DEF Counted, NoRequest, NoSeat
  <2>4. CASE s = h.seat
    <3>1. T = S \cup {i} BY <1>1, <2>4 DEF Counted
    <3>2. Cardinality(S \cup {i}) = Cardinality(S) + 1
      <4> HIDE DEF S
      <4> QED BY <2>2, <2>3, FS_AddElement
    <3> QED BY <1>1, <2>1, <2>4, <3>1, <3>2
  <2>5. CASE s # h.seat
    <3>1. T = S BY <1>1, <2>3, <2>5 DEF Counted
    <3> QED BY <1>1, <2>1, <2>5, <3>1
  <2> QED BY <2>4, <2>5
<1> QED BY <1>2 DEF CountersCountStreams

LEMMA EndingIsCounted ==
  ASSUME PresenceInv, NEW i \in Streams, StreamEnds(i)
  PROVE  CountersCountStreams'
<1> USE DEF PresenceInv
<1> DEFINE h == stream[i]
<1>1. /\ h \in Held /\ h.seat \in Position
      /\ stream' = [stream EXCEPT ![i] = NoRequest]
      /\ streams' = [streams EXCEPT ![h.seat] = IF @ = 0 THEN 0 ELSE @ - 1]
      /\ stream \in [Streams -> Held \cup {NoRequest}] /\ streams \in [Position -> Nat]
  BY DEF StreamEnds, OneStreamFewer, TypeOK, Held
<1>2. ASSUME NEW s \in Position
      PROVE  streams'[s] = Cardinality({j \in Streams : stream'[j].seat = s})
  <2> DEFINE S == Counted(s)
             T == {j \in Streams : stream'[j].seat = s}
  <2>1. streams[s] = Cardinality(S) /\ Cardinality(S) \in Nat
    BY CountedIsFinite DEF CountersCountStreams, Counted
  <2>2. IsFiniteSet(S) BY CountedIsFinite DEF Counted
  <2>3. CASE s = h.seat
    <3>1. T = S \ {i} BY <1>1, <2>3 DEF Counted, NoRequest, NoSeat
    <3>2. i \in S BY <2>3 DEF Counted
    <3>3. Cardinality(S \ {i}) = Cardinality(S) - 1
      <4> HIDE DEF S
      <4> QED BY <2>2, <3>2, FS_RemoveElement
    <3>4. Cardinality(S) # 0
      <4> HIDE DEF S
      <4> QED BY <2>2, <3>2, FS_EmptySet
    <3> QED BY <1>1, <2>1, <2>3, <3>1, <3>3, <3>4
  <2>4. CASE s # h.seat
    <3>1. T = S BY <1>1, <2>4 DEF Counted, NoRequest, NoSeat
    <3> QED BY <1>1, <2>1, <2>4, <3>1
  <2> QED BY <2>3, <2>4
<1> QED BY <1>2 DEF CountersCountStreams

LEMMA StreamsStep ==
  ASSUME PresenceInv, [Next]_vars
  PROVE  CountersCountStreams'
<1>1. ASSUME UNCHANGED <<stream, streams>> PROVE CountersCountStreams'
  BY <1>1 DEF PresenceInv, CountersCountStreams
<1>2. ASSUME NEW w \in Workers, NEW i \in Streams, StreamOpens(w, i)
      PROVE  CountersCountStreams'
  BY <1>2, OpeningIsCounted
<1>3. ASSUME NEW i \in Streams, StreamEnds(i) PROVE CountersCountStreams'
  BY <1>3, EndingIsCounted
<1> QED
  BY <1>1, <1>2, <1>3
  DEF Next, RequestStep, Authorize, OtherAction, PlayerReady, OwnerStarts, PlayerMoves,
      PlayerLeaves, PlayerJoins, SeatDisconnects, SweepReplaces, SweepFills,
      ReleaseAccount, vars

-----------------------------------------------------------------------------
(* Whoever is gone is noticed *)

Connected(l, s) == l.seats[s].connection = "connected"

\* At a public table a request, and a stream, is that of the seat its token is for, as
\* long as the token is for any: nobody moves, and a token that is reused was in no
\* request and no stream.
HeldInv ==
  /\ \A w \in Workers :
       authorized[w].token \in Tokens /\ tokens[authorized[w].token] # NoSeat =>
         authorized[w].seat = tokens[authorized[w].token]
  /\ \A i \in Streams :
       stream[i].token \in Tokens /\ tokens[stream[i].token] # NoSeat =>
         stream[i].seat = tokens[stream[i].token]

\* The player of a seat had a stream and has none left, and no end of one is pending.
Gone(s) ==
  /\ player[s] \in streamed /\ OwnStreams(player[s]) = {} /\ streams[s] = 0
  /\ \A i \in Streams : ending[i] # s

NoticedInv ==
  lobby.public => HeldInv /\ \A s \in Position : Gone(s) => ~Connected(lobby, s)

\* A stream that is open has no end pending, which its own end would overwrite.
EndsInv == \A i \in Streams : stream[i] # NoRequest => ending[i] = NoSeat

\* A step after which no player who stays is connected who was not before.
Calm ==
  /\ lobby'.public = lobby.public
  /\ \A s \in Position : player'[s] # NoToken =>
       player'[s] = player[s] /\ (Connected(lobby', s) => Connected(lobby, s))

LEMMA CalmIsNoticed ==
  ASSUME PresenceInv, NoticedInv, Calm, UNCHANGED <<stream, streams, ending, streamed>>,
         \A w \in Workers : authorized'[w] \in {authorized[w], NoRequest},
         \A t \in Tokens : tokens'[t] \in {tokens[t], NoSeat}
  PROVE  NoticedInv'
<1> SUFFICES ASSUME lobby'.public
             PROVE  HeldInv' /\ \A s \in Position : Gone(s)' => ~Connected(lobby', s)
  BY DEF NoticedInv, Connected
<1>1. lobby.public /\ HeldInv BY DEF Calm, NoticedInv
<1>2. NoToken \notin Tokens BY PresenceAssumption
<1>3. HeldInv' BY <1>1, <1>2 DEF HeldInv, NoRequest
<1>4. ASSUME NEW s \in Position, Gone(s)' PROVE ~Connected(lobby', s)
  <2>1. player'[s] # NoToken BY <1>2, <1>4 DEF Gone, PresenceInv, TypeOK
  <2>2. player'[s] = player[s] /\ (Connected(lobby', s) => Connected(lobby, s))
    BY <2>1 DEF Calm
  <2>3. Gone(s) BY <1>4, <2>2 DEF Gone, OwnStreams
  <2> QED BY <1>1, <2>2, <2>3 DEF NoticedInv
<1> QED BY <1>3, <1>4

\* Leaving changes the seats left, and no other.
LEMMA LeaveSeats ==
  ASSUME NEW l \in Lobby, NEW s \in Position
  PROVE  Leave(l, s) \in Lobby /\ Leave(l, s).seats = [l.seats EXCEPT ![s] = Vacant]
<1> DEFINE left == [l EXCEPT !.seats[s] = Vacant]
<1>1. left \in Lobby /\ left.seats = [l.seats EXCEPT ![s] = Vacant]
  BY DEF Lobby, Seat, Vacant, Kind, Connection
<1>2. Occupied(left) # {} => First(Occupied(left)) \in Position
  BY FirstIsIn DEF Occupied
<1>3. /\ Leave(l, s) \in {left, [left EXCEPT !.owner = First(Occupied(left))]}
      /\ Occupied(left) = {} => Leave(l, s) = left
  BY DEF Leave
<1> HIDE DEF left
<1> QED BY <1>1, <1>2, <1>3 DEF Lobby

LEMMA LeaveAllSeats ==
  ASSUME NEW l \in Lobby, NEW A \in SUBSET Position
  PROVE  \A p \in Position \ A : LeaveAll(l, A).seats[p] = l.seats[p]
<1> DEFINE out(k, s) == IF s \in A THEN Leave(k, s) ELSE k
           Kept(k) == k \in Lobby /\ \A p \in Position \ A : k.seats[p] = l.seats[p]
<1>1. ASSUME NEW k, NEW s \in Position, Kept(k) PROVE Kept(out(k, s))
  <2>1. CASE s \in A
    <3>1. Leave(k, s) \in Lobby /\ Leave(k, s).seats = [k.seats EXCEPT ![s] = Vacant]
      BY <1>1, LeaveSeats
    <3>2. \A p \in Position \ A : Leave(k, s).seats[p] = k.seats[p]
      BY <1>1, <2>1, <3>1 DEF Lobby
    <3> QED BY <1>1, <2>1, <3>1, <3>2
  <2>2. CASE s \notin A BY <1>1, <2>2
  <2> QED BY <2>1, <2>2
<1>2. Kept(l) OBVIOUS
<1>3. 0 \in Position /\ 1 \in Position /\ 2 \in Position /\ 3 \in Position OBVIOUS
<1>4. Kept(LeaveAll(l, A))
  <2> HIDE DEF Kept
  <2> DEFINE l0 == out(l, 0)  l1 == out(l0, 1)  l2 == out(l1, 2)  l3 == out(l2, 3)
  <2>1. LeaveAll(l, A) = l3 BY DEF LeaveAll
  <2> HIDE DEF out
  <2>2. Kept(l0) BY <1>1, <1>2, <1>3
  <2> HIDE DEF l0
  <2>3. Kept(l1) BY <1>1, <1>3, <2>2
  <2> HIDE DEF l1
  <2>4. Kept(l2) BY <1>1, <1>3, <2>3
  <2> HIDE DEF l2
  <2>5. Kept(l3) BY <1>1, <1>3, <2>4
  <2> QED BY <2>1, <2>5
<1> QED BY <1>4

\* The steps of a request that are neither a move nor a stream connect nobody: a bot that
\* is seated is not connected.
LEMMA RequestNotices ==
  ASSUME PresenceInv, NoticedInv, NEW w \in Workers,
         \/ OtherAction(w) \/ OwnerStarts(w) \/ PlayerLeaves(w)
         \/ \E ready \in BOOLEAN : PlayerReady(w, ready)
  PROVE  NoticedInv'
<1> USE DEF PresenceInv
<1>0. lobby \in Lobby /\ LobbyOK(lobby) BY DEF TypeOK
<1>1. \A v \in Workers : authorized'[v] \in {authorized[v], NoRequest}
  BY DEF OtherAction, OwnerStarts, PlayerLeaves, PlayerReady, Served, TypeOK
<1>2. CASE OtherAction(w)
  <2>1. Calm BY <1>2 DEF OtherAction, Calm, Connected
  <2> QED BY <1>1, <1>2, <2>1, CalmIsNoticed DEF OtherAction
<1>3. ASSUME NEW ready \in BOOLEAN, PlayerReady(w, ready) PROVE NoticedInv'
  <2>1. Calm
    BY <1>0, <1>3 DEF PlayerReady, CanSetReady, SetReady, Calm, Connected, Lobby, Seat
  <2> QED BY <1>1, <1>3, <2>1, CalmIsNoticed DEF PlayerReady
<1>4. CASE OwnerStarts(w)
  <2>1. Calm
    <3>1. CASE lobby' = Start(lobby)
      BY <1>0, <1>4, <3>1 DEF OwnerStarts, Start, Calm, Connected, Lobby
    <3>2. CASE lobby' = SeatBotsAndStart(lobby)
      BY <1>0, <1>4, <3>2
      DEF OwnerStarts, SeatBotsAndStart, Calm, Connected, Lobby, Bot
    <3> QED BY <1>4, <3>1, <3>2 DEF OwnerStarts
  <2> QED BY <1>1, <1>4, <2>1, CalmIsNoticed DEF OwnerStarts
<1>5. CASE PlayerLeaves(w)
  <2> DEFINE s == authorized[w].seat
  <2>1. /\ s \in Position /\ lobby' = Leave(lobby, s) /\ Revoke({s})
        /\ s \in Occupied(lobby) /\ Waiting(lobby)
        /\ player' = [player EXCEPT ![s] = NoToken]
        /\ UNCHANGED <<stream, streams, ending, streamed>>
    BY <1>5 DEF PlayerLeaves, CanLeave, Occupied
  <2> HIDE DEF s
  <2>2. /\ lobby'.seats = [lobby.seats EXCEPT ![s] = Vacant]
        /\ lobby'.public = lobby.public
    BY <1>0, <2>1, LeaveSeats, LeaveOK DEF SameRules
  <2>3. Calm BY <1>0, <2>1, <2>2 DEF Calm, Connected, TypeOK, Lobby
  <2>4. \A t \in Tokens : tokens'[t] \in {tokens[t], NoSeat} BY <2>1 DEF Revoke
  <2> QED BY <1>1, <2>1, <2>3, <2>4, CalmIsNoticed
<1> QED BY <1>2, <1>3, <1>4, <1>5

\* Nor do the server's own steps.
LEMMA ServerNotices ==
  ASSUME PresenceInv, NoticedInv,
         \/ \E expired \in SUBSET Disconnected(lobby) : SweepReplaces(expired)
         \/ SweepFills
         \/ \E a \in Accounts : ReleaseAccount(a)
  PROVE  NoticedInv'
<1> USE DEF PresenceInv
<1>0. lobby \in Lobby /\ LobbyOK(lobby) BY DEF TypeOK
<1>1. CASE \E expired \in SUBSET Disconnected(lobby) : SweepReplaces(expired)
  <2>1. PICK expired \in SUBSET Disconnected(lobby) : SweepReplaces(expired) BY <1>1
  <2>2. Calm
    BY <1>0, <2>1 DEF SweepReplaces, ReplaceExpired, Calm, Connected, Lobby, Seat
  <2> QED BY <2>1, <2>2, CalmIsNoticed DEF SweepReplaces
<1>2. CASE SweepFills
  <2>1. Calm
    <3> DEFINE r == MarkEveryoneReady(lobby)
    <3>1. r \in Lobby /\ r.public = lobby.public
      BY <1>0, MarkEveryoneReadyOK DEF SameRules
    <3>2. \A s \in Position : r.seats[s].connection = lobby.seats[s].connection
      BY <1>0 DEF MarkEveryoneReady, Lobby, Seat
    <3>3. lobby' = SeatBotsAndStart(r) /\ UNCHANGED player
      BY <1>2 DEF SweepFills, FillWithBots
    <3> HIDE DEF r
    <3>4. /\ lobby'.public = r.public
          /\ \A s \in Position : Connected(lobby', s) => Connected(r, s)
      BY <3>1, <3>3 DEF SeatBotsAndStart, Connected, Lobby, Bot
    <3> QED BY <3>1, <3>2, <3>3, <3>4 DEF Calm, Connected
  <2> QED BY <1>2, <2>1, CalmIsNoticed DEF SweepFills
<1>3. ASSUME NEW a \in Accounts, ReleaseAccount(a) PROVE NoticedInv'
  <2> DEFINE A == SeatsOf(lobby, a)
  <2>1. /\ A \in SUBSET Occupied(lobby) /\ A \in SUBSET Position
        /\ Revoke(A) /\ UNCHANGED <<authorized, stream, streams, ending, streamed>>
        /\ player' = [s \in Position |-> IF s \in A THEN NoToken ELSE player[s]]
        /\ lobby' = IF Waiting(lobby) THEN LeaveAll(lobby, A) ELSE HandToBot(lobby, A)
    BY <1>3 DEF ReleaseAccount, SeatsOf, Occupied
  <2> HIDE DEF A
  <2>2. lobby'.public = lobby.public
    BY <1>0, <2>1, LeaveAllOK, HandToBotOK DEF SameRules, SameSeats
  <2>3. \A s \in Position \ A : lobby'.seats[s] = lobby.seats[s]
    <3>1. CASE Waiting(lobby) BY <1>0, <2>1, <3>1, LeaveAllSeats
    <3>2. CASE ~Waiting(lobby) BY <1>0, <2>1, <3>2 DEF HandToBot, Lobby
    <3> QED BY <3>1, <3>2
  <2>4. Calm BY <2>1, <2>2, <2>3 DEF Calm, Connected
  <2>5. \A t \in Tokens : tokens'[t] \in {tokens[t], NoSeat} BY <2>1 DEF Revoke
  <2> QED BY <2>1, <2>4, <2>5, CalmIsNoticed
<1> QED BY <1>1, <1>2, <1>3

LEMMA AuthorizeNotices ==
  ASSUME PresenceInv, NoticedInv, NEW w \in Workers, NEW t \in Tokens, Authorize(w, t)
  PROVE  NoticedInv'
<1>1. /\ authorized' = [authorized EXCEPT ![w] = [token |-> t, seat |-> tokens[t]]]
      /\ UNCHANGED <<lobby, tokens, stream, streams, ending, player, streamed>>
      /\ authorized \in [Workers -> Held \cup {NoRequest}]
  BY DEF Authorize, PresenceInv, TypeOK
<1>2. HeldInv => HeldInv' BY <1>1 DEF HeldInv
<1> QED BY <1>1, <1>2 DEF NoticedInv, Gone, OwnStreams, Connected

\* Nobody moves at a public table.
LEMMA MoveNotices ==
  ASSUME PresenceInv, NEW w \in Workers, NEW to \in Position, PlayerMoves(w, to)
  PROVE  NoticedInv'
<1>1. /\ authorized[w].seat \in Position /\ lobby \in Lobby /\ LobbyOK(lobby)
      /\ CanChooseSeat(lobby, authorized[w].seat, to)
      /\ lobby' = ChooseSeat(lobby, authorized[w].seat, to)
  BY DEF PlayerMoves, CanChooseSeat, Occupied, PresenceInv, TypeOK
<1>2. lobby'.public = lobby.public BY <1>1, ChooseSeatOK DEF SameRules
<1> QED BY <1>1, <1>2 DEF CanChooseSeat, NoticedInv

LEMMA JoinNotices ==
  ASSUME PresenceInv, NoticedInv, NEW t \in Tokens, NEW a \in Accounts \cup {NoAccount},
         PlayerJoins(t, a)
  PROVE  NoticedInv'
<1> USE DEF PresenceInv
<1> DEFINE f == First(Free(lobby))
           k == [lobby EXCEPT !.seats[f] = Human(a)]
<1>1. /\ f \in Position /\ f \in Free(lobby) /\ lobby \in Lobby /\ Fresh(t)
      /\ lobby' = Join(lobby, a)
      /\ tokens' = [tokens EXCEPT ![t] = f] /\ player' = [player EXCEPT ![f] = t]
      /\ streamed' = streamed \ {t}
      /\ UNCHANGED <<authorized, stream, streams, ending>>
      /\ tokens \in [Tokens -> Position \cup {NoSeat}]
      /\ player \in [Position -> Tokens \cup {NoToken}]
      /\ authorized \in [Workers -> Held \cup {NoRequest}]
      /\ stream \in [Streams -> Held \cup {NoRequest}]
      /\ streamed \subseteq Tokens
  BY FirstIsIn DEF PlayerJoins, CanJoin, Free, TypeOK
<1>2. /\ lobby'.public = lobby.public
      /\ \A s \in Position \ {f} : lobby'.seats[s].connection = lobby.seats[s].connection
  <2>1. k \in Lobby /\ k.public = lobby.public
    BY <1>1 DEF Lobby, Human, Seat, Kind, Connection
  <2>2. \A s \in Position \ {f} : k.seats[s] = lobby.seats[s]
    BY <1>1 DEF Lobby
  <2>3. lobby' \in {k, [MarkEveryoneReady(k) EXCEPT !.status = "inProgress"]}
    BY <1>1 DEF Join
  <2> HIDE DEF k, f
  <2>4. MarkEveryoneReady(k) \in Lobby /\ MarkEveryoneReady(k).public = k.public
    BY <2>1, MarkEveryoneReadyOK DEF SameRules
  <2>5. \A s \in Position : MarkEveryoneReady(k).seats[s].connection = k.seats[s].connection
    BY <2>1 DEF MarkEveryoneReady, Lobby, Seat
  <2>6. /\ [MarkEveryoneReady(k) EXCEPT !.status = "inProgress"].public
             = MarkEveryoneReady(k).public
        /\ [MarkEveryoneReady(k) EXCEPT !.status = "inProgress"].seats
             = MarkEveryoneReady(k).seats
    BY <2>4 DEF Lobby
  <2>7. CASE lobby' = k BY <2>1, <2>2, <2>7
  <2>8. CASE lobby' = [MarkEveryoneReady(k) EXCEPT !.status = "inProgress"]
    <3>1. lobby'.public = k.public /\ lobby'.seats = MarkEveryoneReady(k).seats
      BY <2>4, <2>6, <2>8
    <3> QED BY <2>1, <2>2, <2>5, <3>1
  <2> QED BY <2>3, <2>7, <2>8
<1> HIDE DEF f, k
<1> SUFFICES ASSUME lobby'.public
             PROVE  HeldInv' /\ \A s \in Position : Gone(s)' => ~Connected(lobby', s)
  BY DEF NoticedInv, Connected
<1>3. lobby.public /\ HeldInv BY <1>2 DEF NoticedInv
<1>4. HeldInv' BY <1>1, <1>3 DEF HeldInv, Fresh
<1>5. ASSUME NEW s \in Position, Gone(s)' PROVE ~Connected(lobby', s)
  <2>1. s # f BY <1>1, <1>5 DEF Gone
  <2>2. Gone(s) BY <1>1, <1>5, <2>1 DEF Gone, OwnStreams
  <2> QED BY <1>2, <1>3, <2>1, <2>2 DEF NoticedInv, Connected
<1> QED BY <1>4, <1>5

LEMMA OpeningNotices ==
  ASSUME PresenceInv, NoticedInv, NEW w \in Workers, NEW i \in Streams, StreamOpens(w, i)
  PROVE  NoticedInv'
<1> USE DEF PresenceInv
<1> DEFINE h == authorized[w]
<1>1. /\ h \in Held /\ h.seat \in Position /\ h.token \in Tokens
      /\ lobby \in Lobby /\ lobby' = Reconnect(lobby, h.seat)
      /\ stream[i] = NoRequest /\ stream' = [stream EXCEPT ![i] = h]
      /\ streams' = [streams EXCEPT ![h.seat] = @ + 1]
      /\ authorized' = [authorized EXCEPT ![w] = NoRequest]
      /\ streamed' = streamed \cup {h.token}
      /\ UNCHANGED <<tokens, ending, player>>
      /\ stream \in [Streams -> Held \cup {NoRequest}] /\ streams \in [Position -> Nat]
      /\ authorized \in [Workers -> Held \cup {NoRequest}]
      /\ streamed \subseteq Tokens /\ NoToken \notin Tokens
  BY PresenceAssumption DEF StreamOpens, Served, TypeOK, Held
<1>2. /\ lobby'.public = lobby.public
      /\ \A s \in Position \ {h.seat} : lobby'.seats[s] = lobby.seats[s]
  BY <1>1 DEF Reconnect, Lobby
<1> SUFFICES ASSUME lobby'.public
             PROVE  HeldInv' /\ \A s \in Position : Gone(s)' => ~Connected(lobby', s)
  BY DEF NoticedInv, Connected
<1>3. lobby.public /\ HeldInv BY <1>2 DEF NoticedInv
<1>4. h.token \in Tokens /\ tokens[h.token] # NoSeat => h.seat = tokens[h.token]
  BY <1>3 DEF HeldInv
<1> HIDE DEF h
<1>5. HeldInv'
  <2>1. \A v \in Workers : authorized'[v] \in {authorized[v], NoRequest}
    BY <1>1
  <2>2. \A j \in Streams : stream'[j] \in {stream[j], h} BY <1>1
  <2> QED BY <1>1, <1>3, <1>4, <2>1, <2>2 DEF HeldInv, NoRequest
<1>6. ASSUME NEW s \in Position, Gone(s)' PROVE ~Connected(lobby', s)
  <2>1. s # h.seat
    <3>1. streams'[h.seat] = streams[h.seat] + 1 /\ streams[h.seat] \in Nat BY <1>1
    <3>2. streams'[s] = 0 BY <1>6 DEF Gone
    <3> QED BY <3>1, <3>2
  <2>2. player[s] # h.token
    <3>1. stream'[i].token = h.token BY <1>1
    <3> QED BY <1>1, <1>6, <3>1 DEF Gone, OwnStreams
  <2>3. Gone(s)
    <3>1. player[s] \in streamed BY <1>1, <1>6, <2>2 DEF Gone
    <3>2. OwnStreams(player[s]) = {}
      <4>1. \A j \in Streams : stream'[j].token # player[s]
        BY <1>1, <1>6 DEF Gone, OwnStreams
      <4>2. stream[i].token # player[s] BY <1>1, <3>1 DEF NoRequest
      <4> QED BY <1>1, <4>1, <4>2 DEF OwnStreams
    <3>3. streams[s] = 0 BY <1>1, <1>6, <2>1 DEF Gone
    <3> QED BY <1>1, <1>6, <3>1, <3>2, <3>3 DEF Gone
  <2> QED BY <1>2, <1>3, <2>1, <2>3 DEF NoticedInv, Connected
<1> QED BY <1>5, <1>6

\* A stream that ends was counted for the seat of its player, if its token still has one.
LEMMA EndingNotices ==
  ASSUME PresenceInv, NoticedInv, EndsInv, NEW i \in Streams, StreamEnds(i)
  PROVE  NoticedInv'
<1> USE DEF PresenceInv
<1> DEFINE h == stream[i]
<1>1. /\ h \in Held /\ h.seat \in Position /\ h.token \in Tokens
      /\ stream' = [stream EXCEPT ![i] = NoRequest]
      /\ streams' = [streams EXCEPT ![h.seat] = IF @ = 0 THEN 0 ELSE @ - 1]
      /\ ending' = [ending EXCEPT ![i] = IF streams'[h.seat] = 0 THEN h.seat ELSE NoSeat]
      /\ UNCHANGED <<lobby, tokens, authorized, player, streamed>>
      /\ stream \in [Streams -> Held \cup {NoRequest}] /\ streams \in [Position -> Nat]
      /\ ending \in [Streams -> Position \cup {NoSeat}] /\ ending[i] = NoSeat
      /\ streamed \subseteq Tokens /\ NoToken \notin Tokens /\ NoSeat \notin Position
  BY PresenceAssumption
  DEF StreamEnds, OneStreamFewer, LastOne, TypeOK, Held, EndsInv, NoSeat
<1> SUFFICES ASSUME lobby.public
             PROVE  HeldInv' /\ \A s \in Position : Gone(s)' => ~Connected(lobby', s)
  BY <1>1 DEF NoticedInv, Connected
<1>2. HeldInv BY DEF NoticedInv
<1>3. h.token \in Tokens /\ tokens[h.token] # NoSeat => h.seat = tokens[h.token]
  BY <1>2 DEF HeldInv
<1> HIDE DEF h
<1>4. HeldInv' BY <1>1, <1>2 DEF HeldInv, NoRequest
<1>5. ASSUME NEW s \in Position, Gone(s)' PROVE ~Connected(lobby', s)
  <2>1. s # h.seat
    <3> SUFFICES ASSUME s = h.seat PROVE FALSE OBVIOUS
    <3>1. streams'[h.seat] = 0 BY <1>5 DEF Gone
    <3>2. ending'[i] = s BY <1>1, <3>1
    <3> QED BY <1>5, <3>2 DEF Gone
  <2>2. Gone(s)
    <3>1. player[s] \in streamed /\ player[s] \in Tokens BY <1>1, <1>5 DEF Gone
    <3>2. tokens[player[s]] = s BY <1>1, <3>1 DEF TokenNamesItsSeat
    <3>3. h.token # player[s] BY <1>1, <1>3, <2>1, <3>2
    <3>4. OwnStreams(player[s]) = {}
      <4>1. \A j \in Streams : stream'[j].token # player[s]
        BY <1>1, <1>5 DEF Gone, OwnStreams
      <4>2. stream[i].token # player[s] BY <3>3 DEF h
      <4> QED BY <1>1, <4>1, <4>2 DEF OwnStreams
    <3>5. streams[s] = 0 BY <1>1, <1>5, <2>1 DEF Gone
    <3>6. \A j \in Streams : ending[j] # s BY <1>1, <1>5 DEF Gone
    <3> QED BY <3>1, <3>4, <3>5, <3>6 DEF Gone
  <2> QED BY <1>1, <2>2 DEF NoticedInv, Connected
<1> QED BY <1>4, <1>5

LEMMA DisconnectNotices ==
  ASSUME PresenceInv, NoticedInv, NEW i \in Streams, SeatDisconnects(i)
  PROVE  NoticedInv'
<1> USE DEF PresenceInv
<1> DEFINE e == ending[i]
<1>1. /\ e \in Position /\ lobby \in Lobby
      /\ ending' = [ending EXCEPT ![i] = NoSeat]
      /\ lobby' = IF e \in Occupied(lobby) THEN Disconnect(lobby, e) ELSE lobby
      /\ UNCHANGED <<tokens, authorized, stream, streams, player, streamed>>
      /\ ending \in [Streams -> Position \cup {NoSeat}] /\ NoSeat \notin Position
      /\ streamed \subseteq Tokens /\ NoToken \notin Tokens
  BY PresenceAssumption DEF SeatDisconnects, TypeOK, NoSeat
<1> HIDE DEF e
<1>2. /\ lobby'.public = lobby.public
      /\ \A s \in Position \ {e} : lobby'.seats[s] = lobby.seats[s]
      /\ e \in Occupied(lobby) => ~Connected(lobby', e)
  BY <1>1 DEF Disconnect, Connected, Lobby
<1> SUFFICES ASSUME lobby.public
             PROVE  HeldInv' /\ \A s \in Position : Gone(s)' => ~Connected(lobby', s)
  BY <1>2 DEF NoticedInv, Connected
<1>3. HeldInv' BY <1>1 DEF NoticedInv, HeldInv
<1>4. ASSUME NEW s \in Position, Gone(s)' PROVE ~Connected(lobby', s)
  <2>1. CASE s = e
    <3>1. player[s] \in Tokens BY <1>1, <1>4 DEF Gone
    <3>2. s \in Occupied(lobby) BY <1>1, <3>1 DEF TokenNamesItsSeat
    <3> QED BY <1>2, <2>1, <3>2
  <2>2. CASE s # e
    <3>1. \A j \in Streams : ending[j] # s BY <1>1, <1>4, <2>2 DEF Gone, e
    <3>2. Gone(s) BY <1>1, <1>4, <3>1 DEF Gone, OwnStreams
    <3> QED BY <1>2, <2>2, <3>2 DEF NoticedInv, Connected
  <2> QED BY <2>1, <2>2
<1> QED BY <1>3, <1>4

LEMMA NoticedStep ==
  ASSUME PresenceInv, NoticedInv, EndsInv, [Next]_vars
  PROVE  NoticedInv'
<1>1. CASE UNCHANGED vars
  BY <1>1 DEF vars, NoticedInv, HeldInv, Gone, OwnStreams, Connected
<1>2. CASE Next
  BY <1>2, RequestNotices, ServerNotices, AuthorizeNotices, MoveNotices, JoinNotices,
     OpeningNotices, EndingNotices, DisconnectNotices
  DEF Next, RequestStep
<1> QED BY <1>1, <1>2

LEMMA EndsStep ==
  ASSUME PresenceInv, EndsInv, [Next]_vars
  PROVE  EndsInv'
<1> USE DEF EndsInv
<1>0. /\ stream \in [Streams -> Held \cup {NoRequest}]
      /\ ending \in [Streams -> Position \cup {NoSeat}]
  BY DEF PresenceInv, TypeOK
<1>1. ASSUME UNCHANGED <<stream, ending>> PROVE EndsInv'
  BY <1>1
<1>2. ASSUME NEW w \in Workers, NEW i \in Streams, StreamOpens(w, i) PROVE EndsInv'
  BY <1>0, <1>2 DEF StreamOpens
<1>3. ASSUME NEW i \in Streams, StreamEnds(i) PROVE EndsInv'
  BY <1>0, <1>3 DEF StreamEnds
<1>4. ASSUME NEW i \in Streams, SeatDisconnects(i) PROVE EndsInv'
  BY <1>0, <1>4 DEF SeatDisconnects
<1> QED
  BY <1>1, <1>2, <1>3, <1>4
  DEF Next, RequestStep, Authorize, OtherAction, PlayerReady, OwnerStarts, PlayerMoves,
      PlayerLeaves, PlayerJoins, SweepReplaces, SweepFills, ReleaseAccount, vars

-----------------------------------------------------------------------------
(* The theorems *)

\* The inductive invariant: types, a consistent lobby, tokens that name the seats of
\* their players, and counters that count the streams.  The lobby's part is needed for
\* the seats a join, a move or a leave takes and frees.
THEOREM PresenceInvariance == Spec => []PresenceInv
<1>1. Init => PresenceInv
  <2> SUFFICES ASSUME Init PROVE PresenceInv OBVIOUS
  <2>1. PICK t \in Tokens, account \in Accounts \cup {NoAccount}, public \in Publics,
             target \in Targets :
          /\ lobby = Open(account, public, target)
          /\ tokens = [u \in Tokens |-> IF u = t THEN 0 ELSE NoSeat]
          /\ player = [s \in Position |-> IF s = 0 THEN t ELSE NoToken]
          /\ authorized = [w \in Workers |-> NoRequest]
          /\ stream = [i \in Streams |-> NoRequest]
          /\ streams = [s \in Position |-> 0]
          /\ ending = [i \in Streams |-> NoSeat]
          /\ removed = FALSE /\ streamed = {}
    BY DEF Init
  <2>2. public \in BOOLEAN BY PresenceAssumption
  <2>3. LobbyOK(lobby) BY <2>1, <2>2, OpenOK
  <2>4. TypeOK
    <3>1. lobby \in Lobby BY <2>3 DEF LobbyOK
    <3>2. tokens \in [Tokens -> Position \cup {NoSeat}]
      BY <2>1
    <3>3. player \in [Position -> Tokens \cup {NoToken}]
      BY <2>1
    <3>4. /\ authorized \in [Workers -> Held \cup {NoRequest}]
          /\ stream \in [Streams -> Held \cup {NoRequest}]
          /\ streams \in [Position -> Nat]
          /\ ending \in [Streams -> Position \cup {NoSeat}]
          /\ removed \in BOOLEAN /\ streamed \subseteq Tokens
      BY <2>1
    <3> QED BY <3>1, <3>2, <3>3, <3>4 DEF TypeOK
  <2>5. Occupied(lobby) = {0}
    BY <2>1 DEF Open, Occupied, Human, Vacant
  <2>6. TokenNamesItsSeat
    BY <2>1, <2>5, PresenceAssumption DEF TokenNamesItsSeat, NoSeat
  <2>7. CountersCountStreams
    <3>1. ASSUME NEW s \in Position PROVE {i \in Streams : stream[i].seat = s} = {}
      BY <2>1 DEF NoRequest, NoSeat
    <3> QED BY <2>1, <3>1, FS_EmptySet DEF CountersCountStreams
  <2> QED BY <2>3, <2>4, <2>6, <2>7 DEF PresenceInv
<1>2. PresenceInv /\ [Next]_vars => PresenceInv'
  BY LobbyStep, RestStep, TokensStep, StreamsStep
  DEF PresenceInv, Rest, TypeOK, LobbyOK
<1> QED BY <1>1, <1>2, PTL DEF Spec

\* Every part of the state of tokens and streams keeps its type.
THEOREM PresenceTyping == Spec => []TypeOK
BY PresenceInvariance, PTL DEF PresenceInv

\* A token acts for the seat its player is in, whatever the requests read before.
THEOREM PresenceTokens == Spec => []TokenNamesItsSeat
BY PresenceInvariance, PTL DEF PresenceInv

\* The counter of a seat is the number of its open streams.
THEOREM PresenceCounters == Spec => []CountersCountStreams
BY PresenceInvariance, PTL DEF PresenceInv

LEMMA NoticedStart == Init => NoticedInv /\ EndsInv
<1> SUFFICES ASSUME Init PROVE NoticedInv /\ EndsInv OBVIOUS
<1>1. /\ authorized = [w \in Workers |-> NoRequest]
      /\ stream = [i \in Streams |-> NoRequest]
      /\ ending = [i \in Streams |-> NoSeat]
      /\ streamed = {}
  BY DEF Init
<1>2. HeldInv BY <1>1, PresenceAssumption DEF HeldInv, NoRequest
<1>3. \A s \in Position : ~Gone(s) BY <1>1 DEF Gone
<1> QED BY <1>1, <1>2, <1>3 DEF NoticedInv, EndsInv

\* At a public table, a player who had a stream and has none left is seen to be gone as
\* soon as the end of the last one is through, whatever requests, joins, reused tokens and
\* sweeps come between.
THEOREM PresenceGoneIsNoticed == Spec => []GoneIsNoticed
<1>1. PresenceInv /\ NoticedInv => GoneIsNoticed
  BY DEF NoticedInv, Gone, GoneIsNoticed, Connected
<1>2. PresenceInv /\ NoticedInv /\ EndsInv /\ [Next]_vars => NoticedInv' /\ EndsInv'
  BY NoticedStep, EndsStep
<1> QED BY <1>1, <1>2, NoticedStart, PresenceInvariance, PTL DEF Spec

=============================================================================
