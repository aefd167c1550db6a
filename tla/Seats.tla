------------------------------- MODULE Seats --------------------------------
(***************************************************************************)
(* The lobby of one table: its four seats, its owner and its status        *)
(* (beelot-server, tables/seats.rs).  A lobby is a record and each method  *)
(* of `Lobby` is an operator on it; a method that can refuse has a guard   *)
(* Can... beside it.  The modules of the table, of its event streams and   *)
(* of the accounts all move a lobby with these operators.                  *)
(*                                                                         *)
(* Names are left out.  Clock times are left out too: a `Disconnected      *)
(* { since }` seat may expire at any later step, and the bot-fill deadline *)
(* of a waiting public table may pass at any step.                         *)
(***************************************************************************)
EXTENDS Positions, FiniteSets

CONSTANTS Accounts,   \* the accounts players may be signed in to
          Targets,    \* the match targets the rules offer
          NoAccount   \* a guest, a bot, or a deleted player

ASSUME SeatsAssumption ==
  /\ NoAccount \notin Accounts
  /\ Targets # {}

-----------------------------------------------------------------------------
(* The state *)

Kind == {"empty", "human", "bot"}
Connection == {"connected", "disconnected", "takeover"}

Seat == [kind : Kind, account : Accounts \cup {NoAccount},
         ready : BOOLEAN, connection : Connection]

Vacant == [kind |-> "empty", account |-> NoAccount,
           ready |-> FALSE, connection |-> "connected"]

Human(account) == [kind |-> "human", account |-> account,
                   ready |-> FALSE, connection |-> "connected"]

Bot == [kind |-> "bot", account |-> NoAccount,
        ready |-> TRUE, connection |-> "takeover"]

Lobby == [seats : [Position -> Seat], owner : Position,
          status : {"waiting", "inProgress"}, public : BOOLEAN,
          target : Targets]

Occupied(l) == {s \in Position : l.seats[s].kind # "empty"}
Free(l) == Position \ Occupied(l)
Waiting(l) == l.status = "waiting"

PlayedByBot(seat) == seat.kind = "bot" \/ seat.connection = "takeover"
Humans(l) == {s \in Occupied(l) : ~PlayedByBot(l.seats[s])}

\* The first seat of a non-empty set, in table order.
First(S) == CHOOSE s \in S : \A t \in S : s <= t

Owns(l, s) == l.owner = s /\ s \in Occupied(l)

-----------------------------------------------------------------------------
(* Opening a table *)

Open(account, public, target) ==
  [seats |-> [s \in Position |-> IF s = 0 THEN Human(account) ELSE Vacant],
   owner |-> 0, status |-> "waiting", public |-> public,
   target |-> target]

\* A local table starts at once; its humans may be one or several.
LocalLobby(humans, account, target) ==
  [seats |-> [s \in Position |-> IF s \in humans THEN Human(account) ELSE Bot],
   owner |-> IF humans = {} THEN 0 ELSE First(humans),
   status |-> "inProgress", public |-> FALSE,
   target |-> target]

-----------------------------------------------------------------------------
(* Before the game *)

MarkEveryoneReady(l) ==
  [l EXCEPT !.seats = [s \in Position |->
     IF s \in Occupied(l) THEN [l.seats[s] EXCEPT !.ready = TRUE] ELSE l.seats[s]]]

CanJoin(l) == Occupied(l) # {} /\ Waiting(l) /\ Free(l) # {}

Join(l, account) ==
  LET seated == [l EXCEPT !.seats[First(Free(l))] = Human(account)]
  IN  IF l.public /\ Free(seated) = {}
      THEN [MarkEveryoneReady(seated) EXCEPT !.status = "inProgress"]
      ELSE seated

CanLeave(l, s) == s \in Occupied(l) /\ Waiting(l)

Leave(l, s) ==
  LET left == [l EXCEPT !.seats[s] = Vacant]
  IN  IF l.owner = s /\ Occupied(left) # {}
      THEN [left EXCEPT !.owner = First(Occupied(left))]
      ELSE left

\* A deleted account leaves its waiting seats one after the other.
LeaveAll(l, A) ==
  LET out(k, s) == IF s \in A THEN Leave(k, s) ELSE k
  IN  out(out(out(out(l, 0), 1), 2), 3)

\* Moving to one's own seat is accepted and changes nothing.
CanChooseSeat(l, s, to) ==
  /\ Waiting(l) /\ ~l.public
  /\ s \in Occupied(l)
  /\ to = s \/ to \in Free(l)

ChooseSeatKeepingOwner(l, s, to) ==
  IF to = s THEN l ELSE [l EXCEPT !.seats[to] = l.seats[s], !.seats[s] = Vacant]

ChooseSeat(l, s, to) ==
  IF to = s
  THEN l
  ELSE [l EXCEPT !.seats[to] = l.seats[s], !.seats[s] = Vacant,
                 !.owner = IF l.owner = s THEN to ELSE @]

CanSetReady(l, s) == Waiting(l) /\ s \in Occupied(l)
SetReady(l, s, ready) == [l EXCEPT !.seats[s].ready = ready]

AllReady(l) == \A s \in Occupied(l) : l.seats[s].ready

CanStart(l, s) == Owns(l, s) /\ Waiting(l) /\ Free(l) = {} /\ AllReady(l)
Start(l) == [l EXCEPT !.status = "inProgress"]

SeatBotsAndStart(l) ==
  [l EXCEPT !.seats = [s \in Position |->
                         IF s \in Free(l) THEN Bot ELSE l.seats[s]],
            !.status = "inProgress"]

CanStartWithBots(l, s) == Owns(l, s) /\ Waiting(l) /\ AllReady(l)

CanFillWithBots(l) == l.public /\ Occupied(l) # {} /\ Waiting(l)
FillWithBots(l) == SeatBotsAndStart(MarkEveryoneReady(l))

\* set_target, set_announcements, set_all_trumps and set_spectators share these
\* conditions; the target stands for the rules the match is then played by.
CanSetTarget(l, s) == ~l.public /\ Owns(l, s) /\ Waiting(l)
SetTarget(l, target) == [l EXCEPT !.target = target]

-----------------------------------------------------------------------------
(* Presence: a bot that took a seat keeps it *)

Disconnect(l, s) ==
  IF l.seats[s].connection = "takeover"
  THEN l
  ELSE [l EXCEPT !.seats[s].connection = "disconnected"]

CanReconnectAny(l, s) == s \in Occupied(l)
CanReconnect(l, s) == s \in Occupied(l) /\ l.seats[s].connection # "takeover"
Reconnect(l, s) == [l EXCEPT !.seats[s].connection = "connected"]

Disconnected(l) == {s \in Occupied(l) : l.seats[s].connection = "disconnected"}

\* The seats D are those whose disconnection lasted for the whole timeout.
ReplaceExpired(l, D) ==
  [l EXCEPT !.seats = [s \in Position |->
     IF s \in D THEN [l.seats[s] EXCEPT !.connection = "takeover"] ELSE l.seats[s]]]

\* The seats A of a deleted account.  A local table has no takeover: there they only
\* lose their account; at an online table a bot plays them for good.
ForgetAccount(l, A) ==
  [l EXCEPT !.seats = [s \in Position |->
     IF s \in A THEN [l.seats[s] EXCEPT !.account = NoAccount] ELSE l.seats[s]]]

HandToBot(l, A) ==
  [l EXCEPT !.seats = [s \in Position |->
     IF s \in A
     THEN [l.seats[s] EXCEPT !.account = NoAccount, !.connection = "takeover"]
     ELSE l.seats[s]]]

SeatsOf(l, account) == {s \in Occupied(l) : l.seats[s].account = account}

=============================================================================
