----------------------------- MODULE OnlineTable -----------------------------
(***************************************************************************)
(* The online table as the new table view draws it                         *)
(* (static/app-table-ui.js, loadOnlineTable).  Snapshots come from the     *)
(* event stream, from loads and from answers to actions, in any order; the *)
(* view must never go back to an older one, and must reach the newest.     *)
(***************************************************************************)
EXTENDS Snapshots

VARIABLE rendered  \* the version on screen, 0 before the first

onlineVars == <<snapshotVars, rendered>>

-----------------------------------------------------------------------------
(* Drawing *)

\* loadOnlineTable with a snapshot at hand: the newest is drawn, unless the screen is newer.
DrawNewest(place, newest, s) ==
  IF place = "table" /\ rendered <= newest
  THEN /\ rendered' = newest
       /\ stream' = Opened(s)
       /\ LoadReactions(newest)
  ELSE /\ stream' = s
       /\ UNCHANGED <<rendered, reactionVars>>

Unmoved == UNCHANGED <<version, changes, address>>

AwayWithStream == address' = "away" /\ UNCHANGED stream

\* renderView away from the table closes its stream.
Away ==
  /\ address' = "away"
  /\ stream' = NoStream

-----------------------------------------------------------------------------
(* The player *)

Enter(c) ==
  /\ address # "table"
  /\ address' = "table"
  /\ \/ /\ known = 0
        /\ Idle(c)
        /\ calls' = Sent(Superseded(calls), c, "load")
        /\ UNCHANGED <<stream, rendered, reactionVars>>
     \/ /\ known # 0
        /\ calls' = Superseded(calls)
        /\ DrawNewest("table", known, stream)
  /\ UNCHANGED <<version, changes, known>>

Leave ==
  /\ address = "table"
  /\ Away
  /\ UNCHANGED <<version, changes, known, calls, rendered, reactionVars>>

Press(c, kind) ==
  /\ address = "table" /\ rendered # 0
  /\ Idle(c)
  /\ calls' = Sent(calls, c, kind)
  /\ UNCHANGED <<version, changes, address, known, stream, rendered, reactionVars>>

-----------------------------------------------------------------------------
(* Answers, snapshots and timers *)

\* A completed trick was held long enough: the table is asked for what came after it.
CollectTrick(c) ==
  /\ address = "table" /\ rendered # 0
  /\ Idle(c)
  /\ calls' = Sent(Superseded(calls), c, "fresh")
  /\ UNCHANGED <<version, changes, address, known, stream, rendered, reactionVars>>

Deliver(v) ==
  /\ stream.state = "open" /\ Oldest(v)
  /\ known' = Newer(known, v)
  /\ calls' = Superseded(calls)
  /\ DrawNewest(address, known', Received(stream, v))
  /\ Unmoved

\* An answer a later load superseded is only remembered.
ReceiveLoad(c) ==
  /\ calls[c].kind \in Loads /\ calls[c].answer = "ok"
  /\ known' = Newer(known, calls[c].at)
  /\ calls' = Done(calls, c)
  /\ IF calls[c].latest /\ address = "table"
        /\ (calls[c].kind = "fresh" \/ rendered <= calls[c].at)
     THEN /\ rendered' = calls[c].at
          /\ stream' = Opened(stream)
          /\ LoadReactions(calls[c].at)
     ELSE UNCHANGED <<stream, rendered, reactionVars>>
  /\ Unmoved

\* A load that fails sends the player to the lobby page, wherever the tab is by then.
FailLoad(c) ==
  /\ calls[c].kind \in Loads /\ calls[c].answer = "failed"
  /\ calls' = Done(calls, c)
  /\ IF calls[c].latest THEN Away ELSE UNCHANGED <<address, stream>>
  /\ UNCHANGED <<version, changes, known, rendered, reactionVars>>

ReceiveAct(c) ==
  /\ calls[c].kind = "act" /\ calls[c].answer = "ok"
  /\ known' = Newer(known, calls[c].at)
  /\ calls' = Superseded(Done(calls, c))
  /\ DrawNewest(address, known', stream)
  /\ Unmoved

\* After a refusal the table is asked for anew; after a lost request it is left as it is.
FailAct(c) ==
  /\ calls[c].kind = "act" /\ calls[c].answer \in {"refused", "failed"}
  /\ calls' = IF calls[c].answer = "refused"
              THEN Sent(Superseded(calls), c, "fresh") ELSE Done(calls, c)
  /\ UNCHANGED <<version, changes, address, known, stream, rendered, reactionVars>>

ReceiveReact(c) ==
  /\ calls[c].kind = "react" /\ Answered(c)
  /\ calls' = Done(calls, c)
  /\ IF calls[c].answer = "ok"
     THEN known' = Newer(known, calls[c].at) /\ ShowOwnReaction(calls[c].at)
     ELSE UNCHANGED <<known, reactionVars>>
  /\ UNCHANGED <<version, changes, address, stream, rendered>>

Receive(c) == ReceiveLoad(c) \/ FailLoad(c) \/ ReceiveAct(c) \/ FailAct(c) \/ ReceiveReact(c)

OnlineStep ==
  \/ \E c \in Slots :
       \/ Enter(c)
       \/ \E kind \in {"act", "react"} : Press(c, kind)
       \/ CollectTrick(c)
       \/ Receive(c)
  \/ Leave
  \/ \E v \in Version : Deliver(v)

OnlineChanges == {"other", "theirReaction"}

OnlineInit == SnapshotsInit /\ rendered = 0

OnlineNext == OnlineStep \/ (Network(OnlineChanges) /\ UNCHANGED rendered)

OnlineSpec == OnlineInit /\ [][OnlineNext]_onlineVars

OnlineTypeOK == SnapshotsTypeOK /\ rendered \in Held

-----------------------------------------------------------------------------
(* Properties *)

\* A reaction of another player is shown at most once, however it reaches the tab.
TheirReactionOnce ==
  \A v \in Version : changes[v] = "theirReaction" => shown[v] < 2

\* A tab holds the table's stream, and with it the seat's presence, only at the table.
StreamOnlyAtTheTable == stream.state # "none" => address = "table"

=============================================================================
