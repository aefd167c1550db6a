------------------------------ MODULE Snapshots ------------------------------
(***************************************************************************)
(* What a browser tab holds of one online table (static/app-core.js): the  *)
(* newest snapshot it knows, the requests it waits for, and the table's    *)
(* event stream, which drops and is opened again.  The two views that draw *)
(* the table, OnlineTable and PrivateTable, are built on this module.      *)
(*                                                                         *)
(* A snapshot is its version: what it holds is the history of the table's  *)
(* changes up to it.  Of a change it matters whether it was a reaction or  *)
(* a call, and whose.                                                      *)
(***************************************************************************)
EXTENDS Naturals, FiniteSets

CONSTANTS
  MaxVersion,     \* the bound on the changes of the table
  Slots,          \* the bound on the requests at once
  AuctionLength   \* the calls of the auction, after which the cards are played

ASSUME SnapshotsAssumption ==
  MaxVersion \in Nat \ {0} /\ AuctionLength \in Nat \ {0}

VARIABLES
  version,  \* the table's version at the server
  changes,  \* what each version changed
  address,  \* whether the tab is at the table's page, or at the lobby page or another
  known,    \* the version of the newest snapshot kept, 0 if there is none
  stream,   \* the table's event stream
  calls,    \* the requests to the server
  opened,   \* whether the table's reactions were looked at before
  seen,     \* the newest reaction shown, or skipped when the table was opened
  shown     \* how often each reaction of another player was shown

reactionVars == <<opened, seen, shown>>
snapshotVars == <<version, changes, address, known, stream, calls, reactionVars>>

Version == 1..MaxVersion
Held == 0..MaxVersion
Reactions == {"theirReaction", "myReaction"}
Bids == {"theirCall", "myCall"}
Changes == {"other"} \cup Reactions \cup Bids
Loads == {"load", "fresh"}
Actions == {"act", "react", "call"}

Call == [kind : {"none"} \cup Loads \cup Actions, latest : BOOLEAN,
         answer : {"waiting", "ok", "refused", "failed"}, at : Held]

\* The wire holds the snapshots sent and not received; sent is the last one sent.
Stream == [state : {"none", "connecting", "open", "closed", "refused"},
           timer : BOOLEAN, wire : SUBSET Version, sent : Held]

NoCall == [kind |-> "none", latest |-> FALSE, answer |-> "waiting", at |-> 0]
NoStream == [state |-> "none", timer |-> FALSE, wire |-> {}, sent |-> 0]
NewStream == [NoStream EXCEPT !.state = "connecting"]

\* rememberSnapshot: the newest version is kept.
Newer(v, w) == IF v <= w THEN w ELSE v

-----------------------------------------------------------------------------
(* The server and the network *)

\* The calls of the auction by version v, and whether the cards are played by then.
BidsBy(v) == {w \in 1..v : changes[w] \in Bids}
OnBoard(v) == Cardinality(BidsBy(v)) >= AuctionLength

Change(kind) ==
  /\ version < MaxVersion
  /\ kind \in Bids => ~OnBoard(version)
  /\ version' = version + 1
  /\ changes' = [changes EXCEPT ![version + 1] = kind]

\* Another player, a bot, or a bot that plays an expired turn in the player's name.
OthersChange(kinds) ==
  /\ \E kind \in kinds \ {"myReaction"} : Change(kind)
  /\ UNCHANGED <<address, known, stream, calls, reactionVars>>

AnswerLoad(c) ==
  /\ calls[c].kind \in Loads /\ calls[c].answer = "waiting"
  /\ calls' = [calls EXCEPT ![c].answer = "ok", ![c].at = version]
  /\ UNCHANGED <<version, changes, address, known, stream, reactionVars>>

ChangeOf(kind) == CASE kind = "react" -> "myReaction" [] kind = "call" -> "myCall"
                    [] OTHER -> "other"

Accept(c) ==
  /\ calls[c].kind \in Actions /\ calls[c].answer = "waiting"
  /\ Change(ChangeOf(calls[c].kind))
  /\ calls' = [calls EXCEPT ![c].answer = "ok", ![c].at = version + 1]
  /\ UNCHANGED <<address, known, stream, reactionVars>>

Decline(c) ==
  /\ calls[c].kind \in Actions /\ calls[c].answer = "waiting"
  /\ calls' = [calls EXCEPT ![c].answer = "refused"]
  /\ UNCHANGED <<version, changes, address, known, stream, reactionVars>>

\* The request is lost, or its answer is: an action may have been done all the same.
Lose(c) ==
  /\ calls[c].kind # "none" /\ calls[c].answer \in {"waiting", "ok"}
  /\ calls' = [calls EXCEPT ![c].answer = "failed", ![c].at = 0]
  /\ UNCHANGED <<version, changes, address, known, stream, reactionVars>>

-----------------------------------------------------------------------------
(* The event stream *)

Connected ==
  /\ stream.state = "connecting"
  /\ stream' = [NoStream EXCEPT !.state = "open"]
  /\ UNCHANGED <<version, changes, address, known, calls, reactionVars>>

\* The server sends the table as it is, first when the stream opens, then when it has changed.
Push ==
  /\ stream.state = "open" /\ stream.sent < version
  /\ stream' = [stream EXCEPT !.wire = @ \cup {version}, !.sent = version]
  /\ UNCHANGED <<version, changes, address, known, calls, reactionVars>>

\* The browser reconnects by itself, unless the stream is closed for good.
Drop(state) ==
  /\ stream.state \in {"connecting", "open"}
  /\ stream' = [NoStream EXCEPT !.state = state, !.timer = TRUE]
  /\ UNCHANGED <<version, changes, address, known, calls, reactionVars>>

Refuse ==
  /\ stream.state = "open"
  /\ stream' = [NoStream EXCEPT !.state = "refused"]
  /\ UNCHANGED <<version, changes, address, known, calls, reactionVars>>

ReopenNever ==
  /\ stream.timer
  /\ stream' = [stream EXCEPT !.timer = FALSE]
  /\ UNCHANGED <<version, changes, address, known, calls, reactionVars>>

Reopen ==
  /\ stream.timer
  /\ stream' = IF stream.state = "open" THEN [stream EXCEPT !.timer = FALSE] ELSE NewStream
  /\ UNCHANGED <<version, changes, address, known, calls, reactionVars>>

\* openTableStream: a stream to this table, even one refused, is left alone.
Opened(s) == IF s.state = "none" THEN NewStream ELSE s

Oldest(v) == v \in stream.wire /\ \A w \in stream.wire : v <= w

Received(s, v) == [s EXCEPT !.wire = @ \ {v}]

-----------------------------------------------------------------------------
(* Requests of the tab *)

SupersededByNothing(cs) == cs

\* A new load supersedes the loads before it.
Superseded(cs) == [c \in Slots |-> [cs[c] EXCEPT !.latest = FALSE]]

Sent(cs, c, kind) ==
  [cs EXCEPT ![c] = [NoCall EXCEPT !.kind = kind, !.latest = kind \in Loads]]

Done(cs, c) == [cs EXCEPT ![c] = NoCall]

Idle(c) == calls[c].kind = "none"
Answered(c) == calls[c].kind # "none" /\ calls[c].answer # "waiting"

-----------------------------------------------------------------------------
(* Reactions *)

\* loadReactions: those the snapshot brings; a table opened anew shows none of them.
LoadReactions(at) ==
  LET new == {v \in Version : changes[v] \in Reactions /\ seen < v /\ v <= at}
  IN /\ opened' = TRUE
     /\ seen' = IF new = {} THEN seen ELSE CHOOSE v \in new : \A w \in new : w <= v
     /\ shown' = [v \in Version |->
          IF opened /\ v \in new /\ changes[v] = "theirReaction" /\ shown[v] < 2
          THEN shown[v] + 1 ELSE shown[v]]

ShowOwnReactionLast(at) ==
  /\ seen' = IF opened THEN at ELSE seen
  /\ UNCHANGED <<opened, shown>>

\* The player's own reaction is shown at once when the server has taken it.
ShowOwnReaction(at) ==
  /\ seen' = IF opened THEN Newer(seen, at) ELSE seen
  /\ UNCHANGED <<opened, shown>>

Network(kinds) ==
  \/ OthersChange(kinds)
  \/ \E c \in Slots : AnswerLoad(c) \/ Accept(c) \/ Decline(c) \/ Lose(c)
  \/ Connected
  \/ Push
  \/ \E state \in {"connecting", "closed"} : Drop(state)
  \/ Refuse
  \/ Reopen

SnapshotsInit ==
  /\ version = 1
  /\ changes = [v \in Version |-> "other"]
  /\ address = "away"
  /\ known = 0
  /\ stream = NoStream
  /\ calls = [c \in Slots |-> NoCall]
  /\ opened = FALSE
  /\ seen = 0
  /\ shown = [v \in Version |-> 0]

SnapshotsTypeOK ==
  /\ version \in Version
  /\ changes \in [Version -> Changes]
  /\ address \in {"table", "away"}
  /\ known \in Held
  /\ stream \in Stream
  /\ calls \in [Slots -> Call]
  /\ opened \in BOOLEAN
  /\ seen \in Held
  /\ shown \in [Version -> 0..2]

=============================================================================
