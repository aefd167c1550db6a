------------------------------ MODULE Presence ------------------------------
(***************************************************************************)
(* Who a request acts for, and who is there (beelot-server,                *)
(* tables/registry.rs and routes/events.rs).  A player holds a token; a    *)
(* request reads the seat of its token under one lock and acts at the      *)
(* table under another.  An open event stream is a player's presence: its  *)
(* seat's counter goes down under one lock when it ends, and the last one  *)
(* disconnects the seat under another.  Between the two locks anything may *)
(* happen.  One online table is modelled; its lobby is that of Seats.      *)
(*                                                                         *)
(* Two variables are no state of the program: player and streamed remember *)
(* who sits where and who ever had a stream, to state the properties with. *)
(***************************************************************************)
EXTENDS Seats

CONSTANTS
  Publics,   \* whether the tables that may be opened are public ones
  Tokens,    \* player tokens; one is reused once nothing refers to it any more
  NoToken,
  Workers,   \* the threads that serve requests: the bound on requests at once
  Streams    \* event streams: the bound on those open or ending at once

ASSUME PresenceAssumption ==
  /\ Publics \subseteq BOOLEAN
  /\ NoToken \notin Tokens
  /\ Tokens # {}
  /\ IsFiniteSet(Streams)

VARIABLES
  lobby,
  tokens,     \* the seat each token acts for
  authorized, \* the token and the seat a worker has read for the request it serves
  stream,     \* the token a stream was opened with, and the seat it counts for
  streams,    \* the streams counted for each seat
  ending,     \* the seat an ended stream, the last one, is about to disconnect
  removed,    \* the registry no longer has the table
  player,     \* the token of the player in each seat
  streamed    \* the tokens that have opened a stream

vars == <<lobby, tokens, authorized, stream, streams, ending, removed, player, streamed>>

NoSeat == 4
Held == [token : Tokens, seat : Position]
NoRequest == [token |-> NoToken, seat |-> NoSeat]

-----------------------------------------------------------------------------
(* Requests *)

\* A token nothing refers to stands for a newly generated one.
Fresh(t) == /\ tokens[t] = NoSeat
            /\ \A w \in Workers : authorized[w].token # t
            /\ \A i \in Streams : stream[i].token # t

TokensStay(from, to) == UNCHANGED tokens

\* move_tokens
MoveTokens(from, to) ==
  tokens' = [t \in Tokens |-> IF tokens[t] = from THEN to ELSE tokens[t]]

\* revoke
Revoke(S) == tokens' = [t \in Tokens |-> IF tokens[t] \in S THEN NoSeat ELSE tokens[t]]

\* handle and actor: the table is still in the registry, and the token names a seat.
MayAct(t) == ~removed /\ tokens[t] # NoSeat

\* authorize: the worker reads the token's seat.
Authorize(w, t) ==
  /\ authorized[w] = NoRequest
  /\ MayAct(t)
  /\ authorized' = [authorized EXCEPT ![w] = [token |-> t, seat |-> tokens[t]]]
  /\ UNCHANGED <<lobby, tokens, stream, streams, ending, removed, player, streamed>>

\* The worker has served its request.
Served(w) == authorized[w] # NoRequest /\ authorized' = [authorized EXCEPT ![w] = NoRequest]

\* An action the table refuses, or one that does not touch the lobby.
OtherAction(w) ==
  /\ Served(w)
  /\ UNCHANGED <<lobby, tokens, stream, streams, ending, removed, player, streamed>>

PlayerReady(w, ready) ==
  LET s == authorized[w].seat IN
  /\ Served(w)
  /\ CanSetReady(lobby, s)
  /\ lobby' = SetReady(lobby, s, ready)
  /\ UNCHANGED <<tokens, stream, streams, ending, removed, player, streamed>>

OwnerStarts(w) ==
  LET s == authorized[w].seat IN
  /\ Served(w)
  /\ \/ CanStart(lobby, s) /\ lobby' = Start(lobby)
     \/ CanStartWithBots(lobby, s) /\ lobby' = SeatBotsAndStart(lobby)
  /\ UNCHANGED <<tokens, stream, streams, ending, removed, player, streamed>>

\* act, moving: the tokens of the seat move with it.  The streams do not.
PlayerMoves(w, to) ==
  LET s == authorized[w].seat IN
  /\ Served(w)
  /\ CanChooseSeat(lobby, s, to)
  /\ lobby' = ChooseSeat(lobby, s, to)
  /\ MoveTokens(s, to)
  /\ player' = IF to = s THEN player
               ELSE [player EXCEPT ![to] = player[s], ![s] = NoToken]
  /\ UNCHANGED <<stream, streams, ending, removed, streamed>>

\* act, leaving: the tokens of the seat are revoked; an empty table is removed.
PlayerLeaves(w) ==
  LET s == authorized[w].seat IN
  /\ Served(w)
  /\ CanLeave(lobby, s)
  /\ lobby' = Leave(lobby, s)
  /\ Revoke({s})
  /\ removed' = (removed \/ Occupied(lobby') = {})
  /\ player' = [player EXCEPT ![s] = NoToken]
  /\ UNCHANGED <<stream, streams, ending, streamed>>

\* join and quick match: the token is issued under the table's lock.
PlayerJoins(t, account) ==
  LET s == First(Free(lobby)) IN
  /\ Fresh(t) /\ CanJoin(lobby)
  /\ lobby' = Join(lobby, account)
  /\ tokens' = [tokens EXCEPT ![t] = s]
  /\ player' = [player EXCEPT ![s] = t]
  /\ streamed' = streamed \ {t}
  /\ UNCHANGED <<authorized, stream, streams, ending, removed>>

-----------------------------------------------------------------------------
(* Event streams *)

\* events: the seat is connected and its stream counted under the table's lock; a bot
\* that took the seat over keeps it, and the request is then refused (OtherAction).
StreamOpens(w, i) ==
  LET held == authorized[w] IN
  /\ Served(w)
  /\ stream[i] = NoRequest /\ ending[i] = NoSeat
  /\ CanReconnect(lobby, held.seat)
  /\ lobby' = Reconnect(lobby, held.seat)
  /\ streams' = [streams EXCEPT ![held.seat] = @ + 1]
  /\ stream' = [stream EXCEPT ![i] = held]
  /\ streamed' = streamed \cup {held.token}
  /\ UNCHANGED <<tokens, ending, removed, player>>

NoStreamLeft(s) == streams' = [streams EXCEPT ![s] = 0]

OneStreamFewer(s) == streams' = [streams EXCEPT ![s] = IF @ = 0 THEN 0 ELSE @ - 1]

LastOfTwo(s) == streams'[s] = 1
LastOne(s) == streams'[s] = 0

\* leave, under the lock of the counters: the last stream is to disconnect the seat.
StreamEnds(i) ==
  LET s == stream[i].seat IN
  /\ stream[i] # NoRequest
  /\ stream' = [stream EXCEPT ![i] = NoRequest]
  /\ OneStreamFewer(s)
  /\ ending' = [ending EXCEPT ![i] = IF LastOne(s) THEN s ELSE NoSeat]
  /\ UNCHANGED <<lobby, tokens, authorized, removed, player, streamed>>

\* leave, later, under the table's lock; nobody may be in that seat by now.
SeatDisconnects(i) ==
  LET s == ending[i] IN
  /\ s # NoSeat
  /\ ending' = [ending EXCEPT ![i] = NoSeat]
  /\ lobby' = IF s \in Occupied(lobby) THEN Disconnect(lobby, s) ELSE lobby
  /\ UNCHANGED <<tokens, authorized, stream, streams, removed, player, streamed>>

-----------------------------------------------------------------------------
(* The server's own steps, for as long as the registry has the table *)

SweepReplaces(expired) ==
  /\ ~removed /\ expired # {}
  /\ lobby' = ReplaceExpired(lobby, expired)
  /\ UNCHANGED <<tokens, authorized, stream, streams, ending, removed, player, streamed>>

SweepFills ==
  /\ ~removed /\ CanFillWithBots(lobby)
  /\ lobby' = FillWithBots(lobby)
  /\ UNCHANGED <<tokens, authorized, stream, streams, ending, removed, player, streamed>>

\* release_account: the tokens of the account's seats are revoked with the seats, under
\* the same lock.
ReleaseAccount(account) ==
  LET seats == SeatsOf(lobby, account) IN
  /\ ~removed /\ seats # {}
  /\ lobby' = IF Waiting(lobby) THEN LeaveAll(lobby, seats) ELSE HandToBot(lobby, seats)
  /\ Revoke(seats)
  /\ removed' = (Occupied(lobby') = {})
  /\ player' = [s \in Position |-> IF s \in seats THEN NoToken ELSE player[s]]
  /\ UNCHANGED <<authorized, stream, streams, ending, streamed>>

-----------------------------------------------------------------------------
(* The specification *)

Init ==
  \E t \in Tokens, account \in Accounts \cup {NoAccount}, public \in Publics :
    /\ \E target \in Targets : lobby = Open(account, public, target)
    /\ tokens = [u \in Tokens |-> IF u = t THEN 0 ELSE NoSeat]
    /\ authorized = [w \in Workers |-> NoRequest]
    /\ stream = [i \in Streams |-> NoRequest]
    /\ streams = [s \in Position |-> 0]
    /\ ending = [i \in Streams |-> NoSeat]
    /\ removed = FALSE
    /\ player = [s \in Position |-> IF s = 0 THEN t ELSE NoToken]
    /\ streamed = {}

RequestStep(w) ==
  \/ \E t \in Tokens : Authorize(w, t)
  \/ OtherAction(w)
  \/ \E ready \in BOOLEAN : PlayerReady(w, ready)
  \/ OwnerStarts(w)
  \/ \E to \in Position : PlayerMoves(w, to)
  \/ PlayerLeaves(w)
  \/ \E i \in Streams : StreamOpens(w, i)

Next ==
  \/ \E w \in Workers : RequestStep(w)
  \/ \E t \in Tokens, a \in Accounts \cup {NoAccount} : PlayerJoins(t, a)
  \/ \E i \in Streams : StreamEnds(i) \/ SeatDisconnects(i)
  \/ \E expired \in SUBSET Disconnected(lobby) : SweepReplaces(expired)
  \/ SweepFills
  \/ \E a \in Accounts : ReleaseAccount(a)

Spec == Init /\ [][Next]_vars

\* A stream's end is a task the server has started and runs to its end; the sweep runs
\* every few seconds, and a disconnection lasts for the timeout in the end.
Fairness ==
  /\ \A i \in Streams : WF_vars(SeatDisconnects(i))
  /\ \A s \in Position :
       WF_vars(\E expired \in SUBSET Disconnected(lobby) :
                 s \in expired /\ SweepReplaces(expired))

FairSpec == Spec /\ Fairness

-----------------------------------------------------------------------------
(* What holds of tokens and streams *)

TypeOK ==
  /\ lobby \in Lobby
  /\ tokens \in [Tokens -> Position \cup {NoSeat}]
  /\ authorized \in [Workers -> Held \cup {NoRequest}]
  /\ stream \in [Streams -> Held \cup {NoRequest}]
  /\ streams \in [Position -> Nat]
  /\ ending \in [Streams -> Position \cup {NoSeat}]
  /\ removed \in BOOLEAN
  /\ player \in [Position -> Tokens \cup {NoToken}]
  /\ streamed \subseteq Tokens

\* A token acts for the seat its player is in and for no other, a seat has one token at
\* most, and whoever has lost the seat has lost the token: in whatever order moves,
\* leaves, joins and deleted accounts take the two locks.
TokenNamesItsSeat ==
  /\ \A t \in Tokens : tokens[t] # NoSeat => player[tokens[t]] = t
  /\ \A s \in Position : player[s] # NoToken => /\ s \in Occupied(lobby)
                                                /\ tokens[player[s]] = s

\* The counter of a seat is the number of its open streams, whoever opened them: the
\* saturating subtraction never hides a stream ended twice or never counted.
CountersCountStreams ==
  \A s \in Position : streams[s] = Cardinality({i \in Streams : stream[i].seat = s})

OwnStreams(t) == {i \in Streams : stream[i].token = t}

\* Where players keep their seats, at a public table, a player who had a stream and has
\* none left is seen to be gone, or is about to be: a connected seat has a player.
GoneIsNoticed ==
  lobby.public =>
    \A s \in Position :
      LET t == player[s] IN
      (/\ t \in streamed /\ OwnStreams(t) = {} /\ streams[s] = 0
       /\ \A i \in Streams : ending[i] # s)
        => lobby.seats[s].connection # "connected"

Abandoned(s, t) == player[s] = t /\ t \in streamed /\ streams[s] = 0

\* There, a player who closed the last stream of the seat and never comes back is
\* replaced by a bot, so the table does not wait for ever.
AbandonedSeatGoesToBot ==
  \A s \in Position, t \in Tokens :
    <>[](lobby.public /\ Abandoned(s, t)) => <>(lobby.seats[s].connection = "takeover")

-----------------------------------------------------------------------------
(* What the documents say, and the code does not hold *)

\* A seat is disconnected only once its last stream has closed.
OpenStreamKeepsSeat ==
  \A s \in Occupied(lobby) :
    streams[s] > 0 => lobby.seats[s].connection # "disconnected"

=============================================================================
