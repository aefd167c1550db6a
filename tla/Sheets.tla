------------------------------- MODULE Sheets -------------------------------
(***************************************************************************)
(* The addresses, the browser's history and the sheets of a tab            *)
(* (static/router.js, sheet.js, leave-confirm.js, and the setup, help,     *)
(* leave and hand-off sheets).  history.back() is answered later, by a     *)
(* popstate that says nothing of who asked for it, so the tab counts the   *)
(* steps back it asked for itself.                                         *)
(***************************************************************************)
EXTENDS Integers, Sequences

CONSTANTS
  MaxEntries,  \* the bound on the entries of the history
  MaxSteps     \* the bound on the player's steps in the history that are under way

ASSUME SheetsAssumption == MaxEntries \in Nat \ {0} /\ MaxSteps \in Nat

VARIABLES
  tab,       \* the history, what is drawn and what is open
  starting,  \* whether a game is being made from the setup sheet
  raced      \* whether something happened out of turn, see Orderly

sheetsVars == <<tab, starting, raced>>

Home == "/"
Setup == "/play/bot"
Crew == "/online/private"
CrewSetup == "/online/private/new"
Rules == "/rules"
Table == "/play/bot/game"
Paths == {Home, Setup, Crew, CrewSetup, Rules, Table}

\* routeFor: the sheet a route opens over its page.
RouteSheet(path) ==
  CASE path \in {Setup, CrewSetup} -> "setup" [] path = Rules -> "help" [] OTHER -> "none"

Modes == {"solo", "crew"}
SetupMode(path) == IF path = CrewSetup THEN "crew" ELSE "solo"
SetupPath(mode) == IF mode = "crew" THEN CrewSetup ELSE Setup
SetupHome(mode) == IF mode = "crew" THEN Crew ELSE Home

\* A sheet that is open: whether it has an entry of its own, and what follows when the
\* player dismisses it.
NoSheet == [sheet |-> "none", routed |-> FALSE, then |-> "nothing"]
SetupSheet == [sheet |-> "setup", routed |-> FALSE, then |-> "home"]
HelpOfRoute == [sheet |-> "help", routed |-> FALSE, then |-> "home"]
HelpOverSetup == [sheet |-> "help", routed |-> FALSE, then |-> "setup"]
HelpAtTable == [sheet |-> "help", routed |-> TRUE, then |-> "nothing"]
LeaveSheet == [sheet |-> "leave", routed |-> FALSE, then |-> "nothing"]
Cover == [sheet |-> "cover", routed |-> TRUE, then |-> "nothing"]
OpenSheets == {NoSheet, SetupSheet, HelpOfRoute, HelpOverSetup, HelpAtTable, LeaveSheet, Cover}

Entry == [path : Paths, sheet : {"none", "help", "cover"}]
Plain(path) == [path |-> path, sheet |-> "none"]

Here(t) == t.entries[t.at]
Address(t) == Here(t).path

-----------------------------------------------------------------------------
(* The history *)

Pushed(t, entry) ==
  [t EXCEPT !.entries = Append(SubSeq(@, 1, t.at), entry), !.at = @ + 1]

Replaced(t, entry) == [t EXCEPT !.entries[t.at] = entry]

\* history.back(), called by the tab itself.
WentBack(t) == [t EXCEPT !.queue = Append(@, "own"), !.pendingBack = @ + 1]

OnItsEntry(t) == t.open.routed /\ Here(t).sheet = t.open.sheet

-----------------------------------------------------------------------------
(* makeSheets *)

\* openSheet: the sheet that was open ends, and its entry serves the new one or is removed.
Opened(t, s) ==
  IF t.open.sheet = s.sheet THEN t
  ELSE LET reuse == OnItsEntry(t)
           own == [path |-> Address(t), sheet |-> s.sheet]
           u == [t EXCEPT !.open = s]
       IN CASE s.routed /\ reuse -> Replaced(u, own)
            [] s.routed /\ ~reuse -> Pushed(u, own)
            [] ~s.routed /\ reuse -> WentBack(u)
            [] OTHER -> u

\* finish for a sheet the player dismissed or was done with: its entry is removed.
Finished(t) ==
  LET u == [t EXCEPT !.open = NoSheet]
  IN IF OnItsEntry(t) THEN WentBack(u) ELSE u

\* closeAll: the entries are left as they are.
ClosedAll(t) == [t EXCEPT !.open = NoSheet]

-----------------------------------------------------------------------------
(* renderView and navigate *)

\* The sheet of the route opens over its page; a route without one ends a setup or help sheet.
RouteSheetDrawn(t) ==
  CASE RouteSheet(Address(t)) = "setup" ->
         [Opened(t, SetupSheet) EXCEPT !.mode = SetupMode(Address(t))]
    [] RouteSheet(Address(t)) = "help" -> Opened(t, HelpOfRoute)
    [] OTHER -> IF t.open.sheet \in {"setup", "help"} THEN ClosedAll(t) ELSE t

Rendered(t) ==
  RouteSheetDrawn([t EXCEPT !.shown = Address(t), !.playing = FALSE,
                            !.loading = @ \/ Address(t) = Table])

Navigated(t, path) == Rendered(Pushed(ClosedAll(t), Plain(path)))
NavigatedInPlace(t, path) == Rendered(Replaced(ClosedAll(t), Plain(path)))

\* The player puts the sheet away, and its onClose is told so.
Dismissed(t) ==
  CASE t.open.then = "home" ->
         NavigatedInPlace(Finished(t), IF t.open.sheet = "setup" THEN SetupHome(t.mode) ELSE Home)
    [] t.open.then = "setup" -> Opened(Finished(t), SetupSheet)
    [] OTHER -> Finished(t)

PoppedStateUncounted(t) ==
  CASE t.open.routed /\ t.open.sheet = "cover" -> Pushed(t, [path |-> Address(t), sheet |-> "cover"])
    [] t.open.routed /\ t.open.sheet # "cover" -> ClosedAll(t)
    [] OTHER -> Rendered(t)

\* handlePopState: a step back of the tab's own is swallowed; any other ends the routed
\* sheet, or is undone under the cover, or draws the page of the new address.
PoppedState(t) ==
  CASE t.pendingBack > 0 -> [t EXCEPT !.pendingBack = @ - 1]
    [] t.pendingBack = 0 /\ t.open.routed /\ t.open.sheet = "cover" ->
         Pushed(t, [path |-> Address(t), sheet |-> "cover"])
    [] t.pendingBack = 0 /\ t.open.routed /\ t.open.sheet # "cover" -> ClosedAll(t)
    [] OTHER -> Rendered(t)

-----------------------------------------------------------------------------
\* Orderly: the history changes while no step in it is under way, and a load arrives while
\* its table is shown.  What a tab draws otherwise is not promised.
Quiet(t) == t.queue = <<>>

Step(t) ==
  /\ Len(t.entries) <= MaxEntries
  /\ tab' = t

Changes(t, orderly) == Step(t) /\ raced' = (raced \/ ~orderly \/ ~Quiet(tab))

Free == tab.open.sheet = "none"

-----------------------------------------------------------------------------
(* The player *)

\* A link of the page, which is inert under a sheet.  No page links to the rules' address; a
\* match that is over is left by the links of its end.
Follow(path) ==
  /\ Free
  /\ path \in IF tab.shown = Table THEN {Home, Setup} ELSE {Home, Setup, Crew, CrewSetup}
  /\ Changes(Navigated(tab, path), TRUE)
  /\ UNCHANGED starting

\* The table's own link asks first, while a match is being played.
Leave ==
  /\ Free /\ tab.shown = Table
  /\ Changes(IF tab.playing THEN Opened(tab, LeaveSheet) ELSE Navigated(tab, Setup), TRUE)
  /\ UNCHANGED starting

ConfirmLeave ==
  /\ tab.open = LeaveSheet
  /\ Changes(Navigated(Finished(tab), Setup), TRUE)
  /\ UNCHANGED starting

OpenHelp ==
  /\ \/ Free /\ tab.shown = Table /\ Changes(Opened(tab, HelpAtTable), TRUE)
     \/ tab.open = SetupSheet /\ Changes(Opened(tab, HelpOverSetup), TRUE)
  /\ UNCHANGED starting

\* A button, Escape, a click beside the sheet or a drag of its grabber.
Dismiss ==
  /\ tab.open.sheet \in {"setup", "help", "leave"}
  /\ Changes(Dismissed(tab), TRUE)
  /\ UNCHANGED starting

\* The player says that they hold the device.
Ready ==
  /\ tab.open = Cover
  /\ Changes(Finished(tab), TRUE)
  /\ UNCHANGED starting

\* Another mode replaces the address, and draws no page.
ChooseMode(mode) ==
  /\ tab.open = SetupSheet /\ tab.mode # mode
  /\ Changes(Replaced([tab EXCEPT !.mode = mode], Plain(SetupPath(mode))), TRUE)
  /\ UNCHANGED starting

Submit ==
  /\ tab.open = SetupSheet /\ ~starting
  /\ starting' = TRUE
  /\ UNCHANGED <<tab, raced>>

\* The browser's own buttons, one entry at a time.
Browse(step) ==
  /\ Len(tab.queue) < MaxSteps
  /\ Changes([tab EXCEPT !.queue = Append(@, step)], TRUE)
  /\ UNCHANGED starting

-----------------------------------------------------------------------------
(* Answers *)

Started ==
  /\ starting
  /\ starting' = FALSE
  /\ Changes(Navigated(tab, Table), TRUE)

StartFails ==
  /\ starting
  /\ starting' = FALSE
  /\ UNCHANGED <<tab, raced>>

\* A load says that a match is played, and the cover may ask for the next player.
Load ==
  /\ tab.loading
  /\ LET t == [tab EXCEPT !.loading = FALSE, !.playing = TRUE]
         onTime == tab.shown = Table
     IN \/ Step(t) /\ raced' = (raced \/ ~onTime)
        \/ Changes(Opened(t, Cover), onTime)
  /\ UNCHANGED starting

LoadFails ==
  /\ tab.loading
  /\ Changes(NavigatedInPlace([tab EXCEPT !.loading = FALSE], Setup), tab.shown = Table)
  /\ UNCHANGED starting

\* A reload of the page shown: a move was made at the table.
LoadAgain ==
  /\ tab.shown = Table /\ Free /\ ~tab.loading
  /\ tab' = [tab EXCEPT !.loading = TRUE]
  /\ UNCHANGED <<starting, raced>>

\* The browser takes the next step, if there is an entry to go to, and says so.
Delta(step) == IF step = "forward" THEN 1 ELSE -1

Traverse ==
  /\ ~Quiet(tab)
  /\ LET to == tab.at + Delta(Head(tab.queue))
         t == [tab EXCEPT !.queue = Tail(@)]
     IN Step(IF to \in DOMAIN tab.entries THEN PoppedState([t EXCEPT !.at = to]) ELSE t)
  /\ UNCHANGED <<starting, raced>>

-----------------------------------------------------------------------------
Blank == [entries |-> <<>>, at |-> 1, open |-> NoSheet, mode |-> "solo", pendingBack |-> 0,
          queue |-> <<>>, shown |-> Home, playing |-> FALSE, loading |-> FALSE]

\* A tab opened at any address draws it.
SheetsInit ==
  /\ \E path \in Paths : tab = Rendered([Blank EXCEPT !.entries = <<Plain(path)>>])
  /\ starting = FALSE
  /\ raced = FALSE

SheetsNext ==
  \/ \E path \in Paths : Follow(path)
  \/ \E mode \in Modes : ChooseMode(mode)
  \/ \E step \in {"back", "forward"} : Browse(step)
  \/ Leave \/ ConfirmLeave \/ OpenHelp \/ Dismiss \/ Ready \/ Submit
  \/ Started \/ StartFails \/ Load \/ LoadFails \/ LoadAgain \/ Traverse

SheetsSpec == SheetsInit /\ [][SheetsNext]_sheetsVars

SheetsTypeOK ==
  /\ DOMAIN tab = DOMAIN Blank
  /\ tab.entries \in Seq(Entry) /\ Len(tab.entries) \in 1..MaxEntries
  /\ tab.at \in DOMAIN tab.entries
  /\ tab.open \in OpenSheets /\ tab.mode \in Modes
  /\ tab.queue \in Seq({"own", "back", "forward"})
  /\ tab.pendingBack \in 0..Len(tab.entries) /\ tab.shown \in Paths
  /\ {tab.playing, tab.loading, starting, raced} \subseteq BOOLEAN

-----------------------------------------------------------------------------
(* Properties *)

Settled == Quiet(tab) /\ ~raced

\* Every step back the tab waits for is one the browser still owes it, whatever the player
\* does meanwhile, so no later step of the player's is swallowed (pendingBack, makeSheets).
PendingBackIsOwed == Quiet(tab) => tab.pendingBack = 0

\* The page drawn is the one the address names, unless the setup sheet is choosing another
\* (navigate, handlePopState).
AddressIsShown ==
  Settled /\ tab.open.then = "nothing" => tab.shown = Address(tab)

\* A sheet the back button closes is on an entry of its own, so that the step back that
\* closes it, or that the cover undoes, does not leave the page (openSheet, handlePopState).
RoutedSheetHasItsEntry == Settled /\ tab.open.routed => OnItsEntry(tab)

\* The setup and the rules are open at their addresses and, but for the help at a table,
\* nowhere else, however the player got there or went back (renderView, onClose).
RouteSheetIsUp ==
  Settled => /\ RouteSheet(Address(tab)) # "none" => ~Free
             /\ tab.open.then # "nothing" => RouteSheet(Address(tab)) # "none"
             /\ "setup" \in {tab.open.sheet, tab.open.then} => RouteSheet(Address(tab)) = "setup"

\* However the player gets about, the history and what is open and drawn agree.
HistoryMatchesSheets ==
  SheetsTypeOK /\ PendingBackIsOwed /\ AddressIsShown /\ RoutedSheetHasItsEntry /\ RouteSheetIsUp

=============================================================================
