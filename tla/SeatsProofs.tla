----------------------------- MODULE SeatsProofs -----------------------------
(***************************************************************************)
(* What every operation on a lobby preserves: its type, an owner who sits  *)
(* at the table, and four taken seats once the game is on.  The proofs of  *)
(* the table cite these lemmas, one per operation.                         *)
(***************************************************************************)
EXTENDS Seats, TLAPS

OwnerSeated(l) == Occupied(l) # {} => l.owner \in Occupied(l)

LobbyOK(l) ==
  /\ l \in Lobby
  /\ OwnerSeated(l)
  /\ ~Waiting(l) => Free(l) = {}

\* What an operation leaves alone in every lobby.
SameRules(l, k) == k.target = l.target /\ k.public = l.public

-----------------------------------------------------------------------------
(* Smallest elements *)

\* Every non-empty set of numbers up to four has a smallest element: the CHOOSEs of
\* the lobby and of the bots' moves pick it.
LEMMA SmallestExists ==
  ASSUME NEW S \in SUBSET (0..4), S # {}
  PROVE  \E n \in S : \A m \in S : n <= m
<1>1. CASE 0 \in S BY <1>1
<1>2. CASE 0 \notin S /\ 1 \in S BY <1>2
<1>3. CASE 0 \notin S /\ 1 \notin S /\ 2 \in S BY <1>3
<1>4. CASE 0 \notin S /\ 1 \notin S /\ 2 \notin S /\ 3 \in S BY <1>4
<1>5. CASE 0 \notin S /\ 1 \notin S /\ 2 \notin S /\ 3 \notin S
  <2>1. \A n \in S : n = 4 BY <1>5
  <2>2. 4 \in S BY <2>1
  <2> QED BY <2>1, <2>2
<1> QED BY <1>1, <1>2, <1>3, <1>4, <1>5

\* The first seat of a non-empty set of seats is one of them.
LEMMA FirstIsIn ==
  ASSUME NEW S \in SUBSET Position, S # {}
  PROVE  First(S) \in S
<1>1. \E n \in S : \A m \in S : n <= m BY SmallestExists DEF Position
<1> QED BY <1>1 DEF First

-----------------------------------------------------------------------------
(* Opening a table *)

LEMMA OpenOK ==
  ASSUME NEW a \in Accounts \cup {NoAccount}, NEW p \in BOOLEAN, NEW t \in Targets
  PROVE  LobbyOK(Open(a, p, t)) /\ Waiting(Open(a, p, t)) /\ Open(a, p, t).target = t
BY DEF LobbyOK, Open, Lobby, Seat, Kind, Connection, Human, Vacant, Position, OwnerSeated,
       Occupied, Free, Waiting

LEMMA LocalLobbyOK ==
  ASSUME NEW H \in SUBSET Position,
         NEW a \in Accounts \cup {NoAccount}, NEW t \in Targets
  PROVE  /\ LobbyOK(LocalLobby(H, a, t)) 
         /\ ~Waiting(LocalLobby(H, a, t)) /\ LocalLobby(H, a, t).target = t
<1> DEFINE l == LocalLobby(H, a, t)
<1>1. l.owner \in Position
  <2>1. CASE H = {} BY <2>1 DEF LocalLobby, Position
  <2>2. CASE H # {} BY <2>2, FirstIsIn DEF LocalLobby
  <2> QED BY <2>1, <2>2
<1>2. l.seats \in [Position -> Seat]
  BY DEF LocalLobby, Seat, Kind, Connection, Human, Bot
<1>3. l \in Lobby
  BY <1>1, <1>2 DEF LocalLobby, Lobby
<1>4. Occupied(l) = Position
  BY DEF LocalLobby, Occupied, Human, Bot
<1> QED BY <1>1, <1>3, <1>4 DEF LobbyOK, OwnerSeated, Free, Waiting, LocalLobby

-----------------------------------------------------------------------------
(* Before the game *)

LEMMA MarkEveryoneReadyOK ==
  ASSUME NEW l \in Lobby
  PROVE  /\ MarkEveryoneReady(l) \in Lobby
         /\ Occupied(MarkEveryoneReady(l)) = Occupied(l)
         /\ MarkEveryoneReady(l).owner = l.owner
         /\ MarkEveryoneReady(l).status = l.status
         /\ SameRules(l, MarkEveryoneReady(l))
<1>1. \A s \in Position : MarkEveryoneReady(l).seats[s].kind = l.seats[s].kind
  BY DEF MarkEveryoneReady, Lobby, Seat
<1>2. MarkEveryoneReady(l).seats \in [Position -> Seat]
  BY DEF MarkEveryoneReady, Lobby, Seat
<1> QED BY <1>1, <1>2 DEF MarkEveryoneReady, Lobby, Occupied, SameRules

LEMMA JoinOK ==
  ASSUME NEW l \in Lobby, LobbyOK(l), CanJoin(l), NEW a \in Accounts \cup {NoAccount}
  PROVE  /\ LobbyOK(Join(l, a))
         /\ Occupied(Join(l, a)) = Occupied(l) \cup {First(Free(l))}
         /\ Join(l, a).target = l.target
<1> DEFINE f == First(Free(l))
           k == [l EXCEPT !.seats[f] = Human(a)]
<1>1. f \in Free(l) /\ f \in Position
  BY FirstIsIn DEF CanJoin, Free
<1>2. Human(a) \in Seat
  BY DEF Human, Seat, Kind, Connection
<1>3. k \in Lobby /\ Occupied(k) = Occupied(l) \cup {f} /\ k.owner = l.owner
        /\ k.target = l.target /\ k.status = "waiting" /\ k.public = l.public
  BY <1>1, <1>2 DEF Lobby, Occupied, Human, CanJoin, Waiting
<1>4. OwnerSeated(k)
  BY <1>3 DEF LobbyOK, OwnerSeated, CanJoin
<1>5. CASE l.public /\ Free(k) = {}
  <2> DEFINE r == MarkEveryoneReady(k)
             j == [r EXCEPT !.status = "inProgress"]
  <2>1. /\ r \in Lobby /\ Occupied(r) = Occupied(k) /\ r.owner = k.owner
        /\ r.target = k.target
    BY <1>3, MarkEveryoneReadyOK DEF SameRules
  <2>2. j \in Lobby /\ Occupied(j) = Occupied(r) /\ j.owner = r.owner /\ j.target = r.target
    BY <2>1 DEF Lobby, Occupied
  <2>3. Join(l, a) = j
    BY <1>5 DEF Join
  <2> QED BY <2>1, <2>2, <2>3, <1>3, <1>4, <1>5 DEF LobbyOK, OwnerSeated, Free
<1>6. CASE ~(l.public /\ Free(k) = {})
  <2>1. Join(l, a) = k BY <1>6 DEF Join
  <2> QED BY <2>1, <1>3, <1>4 DEF LobbyOK, Waiting
<1> QED BY <1>5, <1>6

LEMMA LeaveOK ==
  ASSUME NEW l \in Lobby, LobbyOK(l), Waiting(l), NEW s \in Occupied(l)
  PROVE  /\ LobbyOK(Leave(l, s)) /\ Waiting(Leave(l, s))
         /\ Occupied(Leave(l, s)) = Occupied(l) \ {s}
         /\ SameRules(l, Leave(l, s))
<1> DEFINE k == [l EXCEPT !.seats[s] = Vacant]
<1>1. Vacant \in Seat
  BY DEF Vacant, Seat, Kind, Connection
<1>2. k \in Lobby /\ Occupied(k) = Occupied(l) \ {s} /\ k.owner = l.owner
        /\ k.status = "waiting" /\ SameRules(l, k)
  BY <1>1 DEF Lobby, Occupied, Vacant, Waiting, SameRules
<1>3. CASE l.owner = s /\ Occupied(k) # {}
  <2>1. First(Occupied(k)) \in Occupied(k) /\ Occupied(k) \subseteq Position
    BY <1>3, FirstIsIn DEF Occupied
  <2> DEFINE j == [k EXCEPT !.owner = First(Occupied(k))]
  <2>2. j \in Lobby /\ Occupied(j) = Occupied(k) /\ j.owner = First(Occupied(k))
          /\ j.status = k.status /\ SameRules(k, j)
    BY <1>2, <2>1 DEF Lobby, Occupied, SameRules
  <2>3. Leave(l, s) = j BY <1>3 DEF Leave
  <2> QED BY <1>2, <2>1, <2>2, <2>3 DEF LobbyOK, OwnerSeated, Waiting, SameRules
<1>4. CASE ~(l.owner = s /\ Occupied(k) # {})
  <2>1. Leave(l, s) = k BY <1>4 DEF Leave
  <2> QED BY <1>2, <1>4, <2>1 DEF LobbyOK, OwnerSeated, Waiting
<1> QED BY <1>3, <1>4

\* The seats of a deleted account leave one after the other.
LEMMA LeaveAllOK ==
  ASSUME NEW l \in Lobby, LobbyOK(l), Waiting(l), NEW A \in SUBSET Occupied(l)
  PROVE  /\ LobbyOK(LeaveAll(l, A)) /\ Waiting(LeaveAll(l, A))
         /\ Occupied(LeaveAll(l, A)) = Occupied(l) \ A
         /\ SameRules(l, LeaveAll(l, A))
<1> DEFINE out(k, s) == IF s \in A THEN Leave(k, s) ELSE k
           Good(k, S) == /\ LobbyOK(k) /\ Waiting(k) /\ SameRules(l, k)
                         /\ Occupied(k) = Occupied(l) \ (A \cap S)
<1>1. ASSUME NEW k, NEW S \in SUBSET Position, NEW s \in Position \ S, Good(k, S)
      PROVE  Good(out(k, s), S \cup {s})
  <2>1. CASE s \in A
    <3>1. k \in Lobby /\ s \in Occupied(k) BY <1>1, <2>1 DEF LobbyOK
    <3>2. /\ LobbyOK(Leave(k, s)) /\ Waiting(Leave(k, s))
          /\ Occupied(Leave(k, s)) = Occupied(k) \ {s}
          /\ SameRules(k, Leave(k, s))
      BY <3>1, <1>1, LeaveOK
    <3> QED BY <3>2, <1>1, <2>1 DEF SameRules
  <2>2. CASE s \notin A
    BY <1>1, <2>2
  <2> QED BY <2>1, <2>2
<1>2. Good(l, {}) BY DEF SameRules
<1>3. Good(LeaveAll(l, A), {0} \cup {1} \cup {2} \cup {3})
  <2> HIDE DEF Good
  <2> DEFINE l0 == out(l, 0)  l1 == out(l0, 1)  l2 == out(l1, 2)  l3 == out(l2, 3)
  <2>1. Good(l0, {} \cup {0})
    <3>1. {} \in SUBSET Position /\ 0 \in Position \ {} BY DEF Position
    <3> QED BY <1>1, <1>2, <3>1
  <2>2. Good(l1, {0} \cup {1})
    <3>1. {0} \in SUBSET Position /\ 1 \in Position \ {0} BY DEF Position
    <3>2. {} \cup {0} = {0} OBVIOUS
    <3> HIDE DEF l0, out
    <3> QED BY <1>1, <2>1, <3>1, <3>2
  <2>3. Good(l2, {0} \cup {1} \cup {2})
    <3>1. {0} \cup {1} \in SUBSET Position /\ 2 \in Position \ ({0} \cup {1}) BY DEF Position
    <3> HIDE DEF l1, out
    <3> QED BY <1>1, <2>2, <3>1
  <2>4. Good(l3, {0} \cup {1} \cup {2} \cup {3})
    <3>1. /\ {0} \cup {1} \cup {2} \in SUBSET Position
          /\ 3 \in Position \ ({0} \cup {1} \cup {2})
      BY DEF Position
    <3> HIDE DEF l2, out
    <3> QED BY <1>1, <2>3, <3>1
  <2>5. LeaveAll(l, A) = l3 BY DEF LeaveAll
  <2> QED BY <2>4, <2>5
<1>4. A \cap ({0} \cup {1} \cup {2} \cup {3}) = A
  <2>1. \A s \in Occupied(l) : s \in {0} \cup {1} \cup {2} \cup {3}
    BY DEF Occupied, Position
  <2> QED BY <2>1
<1> QED BY <1>3, <1>4

LEMMA ChooseSeatOK ==
  ASSUME NEW l \in Lobby, LobbyOK(l), NEW s \in Position, NEW to \in Position,
         CanChooseSeat(l, s, to)
  PROVE  /\ LobbyOK(ChooseSeat(l, s, to)) /\ Waiting(ChooseSeat(l, s, to))
         /\ Occupied(ChooseSeat(l, s, to)) = (Occupied(l) \ {s}) \cup {to}
         /\ SameRules(l, ChooseSeat(l, s, to))
<1> DEFINE k == ChooseSeat(l, s, to)
<1>1. CASE to = s
  BY <1>1 DEF CanChooseSeat, ChooseSeat, SameRules
<1>2. CASE to # s
  <2>1. Vacant \in Seat BY DEF Vacant, Seat, Kind, Connection
  <2>2. k = [l EXCEPT !.seats[to] = l.seats[s], !.seats[s] = Vacant,
                      !.owner = IF l.owner = s THEN to ELSE @]
    BY <1>2 DEF ChooseSeat
  <2>3. /\ k.seats = [l.seats EXCEPT ![to] = l.seats[s], ![s] = Vacant]
        /\ k.owner = IF l.owner = s THEN to ELSE l.owner
        /\ k.status = "waiting" /\ SameRules(l, k)
    BY <2>2 DEF Lobby, CanChooseSeat, Waiting, SameRules
  <2>4. k \in Lobby
    <3>1. l.seats[s] \in Seat /\ l.owner \in Position BY DEF Lobby
    <3>2. k.seats \in [Position -> Seat] BY <2>1, <2>3, <3>1 DEF Lobby
    <3>3. k.owner \in Position BY <2>3, <3>1
    <3> QED BY <2>2, <3>2, <3>3 DEF Lobby
  <2>5. Occupied(k) = (Occupied(l) \ {s}) \cup {to}
    BY <1>2, <2>3 DEF Lobby, Occupied, Vacant, CanChooseSeat
  <2> QED BY <1>2, <2>3, <2>4, <2>5 DEF LobbyOK, OwnerSeated, Waiting, CanChooseSeat
<1> QED BY <1>1, <1>2

LEMMA SetReadyOK ==
  ASSUME NEW l \in Lobby, LobbyOK(l), NEW s \in Occupied(l), NEW ready \in BOOLEAN
  PROVE  /\ LobbyOK(SetReady(l, s, ready))
         /\ Occupied(SetReady(l, s, ready)) = Occupied(l)
         /\ SetReady(l, s, ready).status = l.status
         /\ SameRules(l, SetReady(l, s, ready))
<1> DEFINE k == SetReady(l, s, ready)
<1>1. /\ k \in Lobby /\ k.owner = l.owner /\ k.status = l.status /\ SameRules(l, k)
      /\ \A p \in Position : k.seats[p].kind = l.seats[p].kind
  BY DEF SetReady, Lobby, Seat, SameRules, Occupied
<1> QED BY <1>1 DEF LobbyOK, OwnerSeated, Waiting, Free, Occupied

LEMMA StartOK ==
  ASSUME NEW l \in Lobby, LobbyOK(l), Free(l) = {}
  PROVE  LobbyOK(Start(l)) /\ ~Waiting(Start(l)) /\ SameRules(l, Start(l))
BY DEF Start, LobbyOK, Lobby, OwnerSeated, Occupied, Free, Waiting, SameRules

\* Bots take every free seat: the table is full, whoever sat there keeps the seat.
LEMMA SeatBotsAndStartOK ==
  ASSUME NEW l \in Lobby, LobbyOK(l), Waiting(l), Occupied(l) # {}
  PROVE  /\ LobbyOK(SeatBotsAndStart(l)) /\ ~Waiting(SeatBotsAndStart(l))
         /\ SameRules(l, SeatBotsAndStart(l))
<1> DEFINE k == SeatBotsAndStart(l)
<1>1. Bot \in Seat BY DEF Bot, Seat, Kind, Connection
<1>2. /\ k \in Lobby /\ k.owner = l.owner /\ k.status = "inProgress" /\ SameRules(l, k)
  BY <1>1 DEF SeatBotsAndStart, Lobby, SameRules
<1>3. Occupied(k) = Position
  BY DEF SeatBotsAndStart, Lobby, Occupied, Free, Bot
<1> QED BY <1>2, <1>3 DEF LobbyOK, OwnerSeated, Waiting, Free, Lobby

LEMMA FillWithBotsOK ==
  ASSUME NEW l \in Lobby, LobbyOK(l), CanFillWithBots(l)
  PROVE  /\ LobbyOK(FillWithBots(l)) /\ ~Waiting(FillWithBots(l))
         /\ SameRules(l, FillWithBots(l))
<1> DEFINE r == MarkEveryoneReady(l)
<1>1. /\ r \in Lobby /\ Occupied(r) = Occupied(l) /\ r.owner = l.owner
      /\ r.status = l.status /\ SameRules(l, r)
  BY MarkEveryoneReadyOK
<1>2. LobbyOK(r) /\ Waiting(r) /\ Occupied(r) # {}
  BY <1>1 DEF LobbyOK, OwnerSeated, Waiting, CanFillWithBots
<1> QED BY <1>1, <1>2, SeatBotsAndStartOK DEF FillWithBots, SameRules

LEMMA SetTargetOK ==
  ASSUME NEW l \in Lobby, LobbyOK(l), NEW t \in Targets
  PROVE  /\ LobbyOK(SetTarget(l, t)) /\ Occupied(SetTarget(l, t)) = Occupied(l)
         /\ SetTarget(l, t).status = l.status
BY DEF SetTarget, LobbyOK, Lobby, OwnerSeated, Occupied, Free, Waiting

-----------------------------------------------------------------------------
(* Presence and accounts: nobody's seat is freed *)

\* Two lobbies that differ in the connections and accounts of their seats only.
SameSeats(l, k) ==
  /\ k.owner = l.owner /\ k.status = l.status /\ SameRules(l, k)
  /\ \A p \in Position : k.seats[p].kind = l.seats[p].kind

LEMMA SameSeatsOK ==
  ASSUME NEW l \in Lobby, LobbyOK(l), NEW k \in Lobby, SameSeats(l, k)
  PROVE  /\ LobbyOK(k) /\ Occupied(k) = Occupied(l)
         /\ Waiting(k) = Waiting(l)
BY DEF LobbyOK, OwnerSeated, Occupied, Free, Waiting, SameSeats

LEMMA DisconnectOK ==
  ASSUME NEW l \in Lobby, NEW s \in Position
  PROVE  Disconnect(l, s) \in Lobby /\ SameSeats(l, Disconnect(l, s))
BY DEF Disconnect, Lobby, Seat, Connection, SameSeats, SameRules

LEMMA ReconnectOK ==
  ASSUME NEW l \in Lobby, NEW s \in Position
  PROVE  Reconnect(l, s) \in Lobby /\ SameSeats(l, Reconnect(l, s))
BY DEF Reconnect, Lobby, Seat, Connection, SameSeats, SameRules

LEMMA ReplaceExpiredOK ==
  ASSUME NEW l \in Lobby, NEW D \in SUBSET Position
  PROVE  ReplaceExpired(l, D) \in Lobby /\ SameSeats(l, ReplaceExpired(l, D))
<1>1. ReplaceExpired(l, D).seats \in [Position -> Seat]
  BY DEF ReplaceExpired, Lobby, Seat, Connection
<1>2. \A p \in Position : ReplaceExpired(l, D).seats[p].kind = l.seats[p].kind
  BY DEF ReplaceExpired, Lobby, Seat
<1> QED BY <1>1, <1>2 DEF ReplaceExpired, Lobby, SameSeats, SameRules

LEMMA HandToBotOK ==
  ASSUME NEW l \in Lobby, NEW D \in SUBSET Position
  PROVE  HandToBot(l, D) \in Lobby /\ SameSeats(l, HandToBot(l, D))
<1>1. HandToBot(l, D).seats \in [Position -> Seat]
  <2>1. \A p \in Position :
          [l.seats[p] EXCEPT !.account = NoAccount, !.connection = "takeover"] \in Seat
    BY DEF Lobby, Seat, Connection
  <2> QED BY <2>1 DEF HandToBot, Lobby
<1>2. \A p \in Position : HandToBot(l, D).seats[p].kind = l.seats[p].kind
  BY DEF HandToBot, Lobby, Seat
<1> QED BY <1>1, <1>2 DEF HandToBot, Lobby, SameSeats, SameRules

LEMMA ForgetAccountOK ==
  ASSUME NEW l \in Lobby, NEW D \in SUBSET Position
  PROVE  ForgetAccount(l, D) \in Lobby /\ SameSeats(l, ForgetAccount(l, D))
<1>1. ForgetAccount(l, D).seats \in [Position -> Seat]
  BY DEF ForgetAccount, Lobby, Seat
<1>2. \A p \in Position : ForgetAccount(l, D).seats[p].kind = l.seats[p].kind
  BY DEF ForgetAccount, Lobby, Seat
<1> QED BY <1>1, <1>2 DEF ForgetAccount, Lobby, SameSeats, SameRules

=============================================================================
