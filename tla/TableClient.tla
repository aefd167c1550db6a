----------------------------- MODULE TableClient -----------------------------
(***************************************************************************)
(* One browser tab and an online table.  A flag kept on the device decides *)
(* once, when the page is loaded, which of the two views draws the table   *)
(* (static/app-core.js, legacyTable and viewForPath): OnlineTable or       *)
(* PrivateTable.  They share the snapshots, the stream and the reactions.  *)
(***************************************************************************)
EXTENDS OnlineTable, PrivateTable

CONSTANTS
  OnlineVersions,  \* the bound on the versions seen on the new view
  PrivateSlots     \* the bound on the requests at once on the old view

VARIABLE legacy  \* whether the old view draws the table

vars == <<snapshotVars, rendered, view, legacy>>

Init ==
  /\ legacy \in BOOLEAN
  /\ PrivateInit
  /\ ~legacy => ~view.looked
  /\ rendered = 0

OnNewView == ~legacy /\ UNCHANGED <<view, legacy>>
OnOldView == legacy /\ UNCHANGED <<rendered, legacy>>
Elsewhere == UNCHANGED <<rendered, view, legacy>>

KindsOfChanges == IF legacy THEN PrivateChanges ELSE OnlineChanges

\* Both views show the reactions alike: on the old view there are none, to keep it small.
Bounds ==
  /\ legacy => \A v \in Version : changes'[v] # "theirReaction"
  /\ legacy \/ version' <= OnlineVersions
  /\ legacy => \A c \in Slots \ PrivateSlots : calls'[c] = NoCall

Next ==
  /\ \/ OnlineStep /\ OnNewView
     \/ PrivateStep /\ OnOldView
     \/ Network(KindsOfChanges) /\ Elsewhere
  /\ Bounds

Spec == Init /\ [][Next]_vars

\* A connection that is tried again and again is made, and lasts long enough to bring a
\* snapshot, again and again; requests end, timers fire, and the page handles what arrives.
Fairness ==
  /\ SF_vars(Connected /\ Elsewhere)
  /\ SF_vars(Push /\ Elsewhere)
  /\ WF_vars(Reopen /\ Elsewhere)
  /\ SF_vars(\E v \in Version : (Deliver(v) /\ OnNewView) \/ (DeliverPrivate(v) /\ OnOldView))
  /\ WF_vars((RevealNext \/ CatchUp) /\ OnOldView)
  /\ \A c \in Slots :
       WF_vars(\/ (AnswerLoad(c) \/ Lose(c)) /\ Elsewhere
               \/ Receive(c) /\ OnNewView
               \/ ReceivePrivate(c) /\ OnOldView)

FairSpec == Spec /\ Fairness

TypeOK == OnlineTypeOK /\ PrivateTypeOK /\ legacy \in BOOLEAN

-----------------------------------------------------------------------------
(* Properties of the two views, each where it draws the table *)

\* The screen of the new view never goes back to an older state of the table, although
\* snapshots come back from loads, actions and the stream in any order.
OnlineScreenNeverGoesBack == [][rendered' >= rendered]_vars

\* On the new view, a tab holds the table's stream, and with it the seat's presence, only
\* at the table (the address is asked again after every await; renderView closes the rest).
OnlineStreamOnlyAtTheTable == ~legacy => StreamOnlyAtTheTable

\* The player is at the table, with a stream there that the server does not refuse.  On
\* the old view a player who comes back during a reveal may be there without a stream.
Present ==
  /\ address = "table" /\ stream.state # "refused"
  /\ legacy => stream.state # "none"

OnScreen == IF legacy THEN view.drawn ELSE rendered

\* Whoever stays present sees the newest state of the table in the end, whatever was lost,
\* refused or overtaken before (openTableStream's retries; the timer of app.js:130 that
\* draws a snapshot left aside during a reveal).
PresentSeesTheNewest == <>[]Present => <>[](OnScreen = version)

=============================================================================
