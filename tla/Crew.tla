-------------------------------- MODULE Crew --------------------------------
(***************************************************************************)
(* How one browser tab comes to online tables and leaves them: by a code,  *)
(* a friend's invitation or a quick match (static/app-auction.js,          *)
(* app-friends.js), beside the account and the friends of module Account.  *)
(* For the life of the tab sessionStorage keeps the token of each table it *)
(* has a seat at, and the session: the table entered last.                 *)
(*                                                                         *)
(* The tables are the server's; of each one the model keeps the seats this *)
(* tab has ever taken.  Others may fill a table, so entering one may       *)
(* always be refused.                                                      *)
(***************************************************************************)
EXTENDS Account

CONSTANTS
  Tables,
  MaxSeats,  \* the bound on the seats the tab takes
  GuestSteps, MemberSteps  \* the bounds on what a guest and a signed-in player do

ASSUME CrewAssumption == {MaxSeats, GuestSteps, MemberSteps} \subseteq Nat /\ None \notin Tables

VARIABLES
  seats,     \* the seats this tab has taken, as the server holds them
  tab,       \* the tokens, the session, the address, and a quick match under way
  stranded,  \* history: seats whose answer or whose leaving was lost
  left       \* what the player may still do

crewVars == <<server, page, calls, seats, tab, stranded, left>>

Seats == 1..MaxSeats
Away == None  \* an address that is no table's
ToTable(t) == [Nothing EXCEPT !.table = t]
LeaveFrom(t, n, why) == [Nothing EXCEPT !.table = t, !.seat = n, !.why = why]
NotTaken == [table |-> Away, state |-> "none"]

Spends == left > 0 /\ left' = left - 1

-----------------------------------------------------------------------------
(* The server *)

\* A seat at a table that is waiting: at the table of the code, or for a quick match at
\* any that is open.  Nobody is recognised: a tab may take a second seat at a table.
NextToTake(n) == \A m \in Seats : (seats[m] = NotTaken) <=> (m >= n)
StillOpen(t) == \A n \in Seats : seats[n].table = t => seats[n].state \in {"waiting", "left"}

ServeEnter(c) ==
  /\ Sent(c, "enter")
  /\ \/ \E t \in Tables, n \in Seats :
          /\ calls[c].about = For("quick") \/ calls[c].about.table = t
          /\ StillOpen(t) /\ NextToTake(n)
          /\ seats' = [seats EXCEPT ![n] = [table |-> t, state |-> "waiting"]]
          /\ Answer(c, "ok", [NoAnswer EXCEPT !.seat = n])
     \/ Answer(c, "refused", NoAnswer) /\ UNCHANGED seats
  /\ UNCHANGED <<server, page, tab, stranded, left>>

\* Only a waiting seat can be left.
ServeLeave(c) ==
  /\ Sent(c, "leave")
  /\ \/ \E n \in Seats :
          /\ n = calls[c].about.seat /\ seats[n].state = "waiting"
          /\ seats' = [seats EXCEPT ![n].state = "left"]
          /\ Answer(c, "ok", NoAnswer)
     \/ /\ \A n \in Seats : n = calls[c].about.seat => seats[n].state # "waiting"
        /\ Answer(c, "refused", NoAnswer) /\ UNCHANGED seats
  /\ UNCHANGED <<server, page, tab, stranded, left>>

\* The seats lost from sight with the request in c: one that was taken when its answer
\* was lost, or one that still waits when its leaving is.
StrandedBy(c) ==
  CASE calls[c].what = "enter" -> {n \in Seats : n = calls[c].answer.seat}
    [] calls[c].what = "leave" -> {n \in Seats : n = calls[c].about.seat /\ seats[n].state = "waiting"}
    [] OTHER -> {}

Drop(c) ==
  /\ Lose(c)
  /\ stranded' = stranded \cup StrandedBy(c)
  /\ UNCHANGED <<seats, tab, left>>

TableStarts(t) ==
  /\ \E n \in Seats : seats[n] = [table |-> t, state |-> "waiting"]
  /\ seats' = [n \in Seats |-> IF seats[n] = [table |-> t, state |-> "waiting"]
                               THEN [seats[n] EXCEPT !.state = "playing"] ELSE seats[n]]
  /\ UNCHANGED <<server, page, calls, tab, stranded, left>>

-----------------------------------------------------------------------------
(* The tab *)

NoTokens == [t \in Tables |-> NoSeat]
Forgotten(t) == [tab.tokens EXCEPT ![t] = NoSeat]

\* saveTableSession and enterPrivateTable: the tab goes to the table, wherever it was.
Enter(n) ==
  LET t == seats[n].table IN
  [tab EXCEPT !.tokens[t] = n, !.session = n, !.address = t]

JoinByCode(c, t) ==
  /\ Send(c, "enter", ToTable(t))
  /\ UNCHANGED <<server, page, seats, tab, stranded>>

\* renderInvite: the banner closes at once, whatever comes of the seat.
JoinInvited(c, t) ==
  /\ page.banner # None
  /\ page' = [page EXCEPT !.banner = None]
  /\ Send(c, "enter", [ToTable(t) EXCEPT !.invite = page.banner])
  /\ UNCHANGED <<server, seats, tab, stranded>>

\* The token that a request about the session's table carries.
SessionSeat == tab.tokens[seats[tab.session].table]

QuickMatchAtOnce(c) ==
  /\ ~tab.quick
  /\ tab' = [tab EXCEPT !.quick = TRUE, !.session = NoSeat,
                        !.tokens = IF tab.session = NoSeat THEN @
                                   ELSE Forgotten(seats[tab.session].table)]
  /\ Send(c, "enter", For("quick"))
  /\ UNCHANGED <<server, page, seats, stranded>>

\* A quick match first gives up the seat of the session.
QuickMatch(c) ==
  /\ ~tab.quick
  /\ tab' = [tab EXCEPT !.quick = TRUE]
  /\ IF tab.session = NoSeat
     THEN Send(c, "enter", For("quick"))
     ELSE Send(c, "leave", LeaveFrom(seats[tab.session].table, SessionSeat, "quick"))
  /\ UNCHANGED <<server, page, seats, stranded>>

\* The answer to the leaving is not looked at; the tab forgets the seat.
GivenUp(c) ==
  /\ Back(c, "leave") /\ calls[c].about.why = "quick"
  /\ tab' = [tab EXCEPT !.tokens = Forgotten(calls[c].about.table), !.session = NoSeat]
  /\ GoOn(c, "enter", For("quick"))
  /\ UNCHANGED <<server, page, seats, stranded, left>>

Entered(c) ==
  /\ Back(c, "enter")
  /\ LET about == calls[c].about
         invited == about.invite # None
         there == IF Ok(c) THEN Enter(calls[c].answer.seat) ELSE tab
     IN  /\ tab' = IF about = For("quick") THEN [there EXCEPT !.quick = FALSE] ELSE there
         /\ IF Ok(c) /\ invited THEN GoOn(c, "dismiss", [Nothing EXCEPT !.invite = about.invite]) ELSE Done(c)
  /\ UNCHANGED <<server, page, seats, stranded, left>>

\* The leave buttons act for the table at the address; those of the old view only when
\* it is the session's.
PressLeave(c) ==
  /\ tab.address \in Tables
  /\ \E view \in {"lobby"} \cup (IF tab.session # NoSeat /\ seats[tab.session].table = tab.address
                                 THEN {"privateTable"} ELSE {}) :
       Send(c, "leave", LeaveFrom(tab.address, tab.tokens[tab.address], view))
  /\ UNCHANGED <<server, page, seats, tab, stranded>>

\* Both views forget the table once it was left; the new one leaves the session.
Left(c) ==
  /\ Back(c, "leave") /\ calls[c].about.why # "quick"
  /\ tab' = IF ~Ok(c) THEN tab
            ELSE [tab EXCEPT !.tokens = Forgotten(calls[c].about.table), !.address = Away,
                             !.session = IF calls[c].about.why = "lobby" THEN @ ELSE NoSeat]
  /\ Done(c)
  /\ UNCHANGED <<server, page, seats, stranded, left>>

\* Links: the lists of open tables and of resumable ones, and every way home.
FollowLink(address) ==
  /\ address # tab.address
  /\ address \in {Away} \cup {t \in Tables : tab.tokens[t] # NoSeat}
  /\ tab' = [tab EXCEPT !.address = address]
  /\ UNCHANGED <<server, page, calls, seats, stranded>>

\* The tab is loaded again; requests in flight are abandoned.  Signing out does so too,
\* at home, whether or not its request reached the server.
Load(address) ==
  /\ page' = NewPage
  /\ calls' = NewCalls
  /\ tab' = [tab EXCEPT !.address = address, !.quick = FALSE]
  /\ stranded' = stranded \cup UNION {StrandedBy(c) : c \in Requests}
  /\ UNCHANGED seats

Reload == Load(tab.address) /\ UNCHANGED server

SignOut ==
  /\ page.account = "member"
  /\ Load(Away)
  /\ server' \in {server, [server EXCEPT !.member = FALSE]}

-----------------------------------------------------------------------------
(* The specification *)

NoMove == UNCHANGED <<seats, tab, stranded>>

\* A deletion and a friend's link take the tab away from any table.
Returns(c) ==
  /\ Return(c)
  /\ tab' = IF \/ Back(c, "delete") /\ Ok(c)
               \/ Back(c, "friendAction") /\ calls[c].about = For("link")
            THEN [tab EXCEPT !.address = Away] ELSE tab
  /\ UNCHANGED <<seats, stranded, left>>

CrewInit ==
  /\ AccountInit
  /\ seats = [n \in Seats |-> NotTaken]
  /\ tab = [tokens |-> NoTokens, session |-> NoSeat, address |-> Away, quick |-> FALSE]
  /\ stranded = {}
  /\ left = IF server.member THEN MemberSteps ELSE GuestSteps

PlayerStep ==
  /\ Spends
  /\ \/ \E c \in Requests :
          \/ (Press(c) /\ NoMove)
          \/ \E t \in Tables : JoinByCode(c, t) \/ JoinInvited(c, t)
          \/ QuickMatch(c)
          \/ PressLeave(c)
     \/ (AskDelete \/ CancelDelete) /\ NoMove
     \/ \E address \in Tables \cup {Away} : FollowLink(address)
     \/ Reload
     \/ SignOut

ServerStep ==
  \/ \E c \in Requests : \/ ServeAccountSide(c) /\ NoMove /\ UNCHANGED left
                         \/ ServeEnter(c) \/ ServeLeave(c) \/ Drop(c)
  \/ (FriendsChange \/ SessionEnds) /\ NoMove /\ UNCHANGED left
  \/ \E t \in Tables : TableStarts(t)

TabStep ==
  \E c \in Requests :
    \/ Returns(c)
    \/ Poll(c) /\ NoMove /\ UNCHANGED left
    \/ GivenUp(c) \/ Entered(c) \/ Left(c)

CrewNext == PlayerStep \/ ServerStep \/ TabStep

CrewSpec == CrewInit /\ [][CrewNext]_crewVars

\* The timer fires again and again, a request is answered in the end, and polls that are
\* made again and again are not all lost.
Kept == NoMove /\ UNCHANGED left

Fairness ==
  /\ WF_crewVars(\E c \in Requests : Poll(c) /\ Kept)
  /\ \A c \in Requests :
       /\ WF_crewVars((ServeAccountSide(c) /\ Kept) \/ ServeEnter(c) \/ ServeLeave(c))
       /\ WF_crewVars(Returns(c) \/ GivenUp(c) \/ Entered(c) \/ Left(c))
       /\ SF_crewVars(ServeFriends(c) /\ Kept)
       /\ SF_crewVars(Ok(c) /\ FriendsLoaded(c) /\ Returns(c))

CrewFairSpec == CrewSpec /\ Fairness

-----------------------------------------------------------------------------
(* Properties *)

CrewTypeOK ==
  /\ server.list \in Lists
  /\ page.banner \in Invites \cup {None}
  /\ \A n \in Seats : seats[n].table \in Tables \cup {Away}
  /\ tab.tokens \in [Tables -> Seats \cup {NoSeat}] /\ tab.session \in Seats \cup {NoSeat}
  /\ tab.address \in Tables \cup {Away}
  /\ stranded \subseteq Seats

\* However the polls, the reloads after a press and their answers cross, no invitation is
\* put before the player twice (app-friends.js, seenInvites).
InviteIsShownOnce ==
  [][page'.banner \notin {page.banner, None} => page'.banner \notin page.told]_crewVars

\* "A seat still held from an earlier visit would never be played; give it up before
\* taking a new one" (the quick match), and the leave buttons: the token of a seat that
\* still waits is not forgotten, unless the request to leave it was lost or the tab has
\* taken two seats at that table.
OnlySeatAt(t) == \A n \in Seats \ {tab.tokens[t]} : seats[n].table # t

SeatIsGivenUpFirst ==
  [][\A t \in Tables :
       (tab.tokens[t] # NoSeat /\ tab'.tokens[t] = NoSeat /\ OnlySeatAt(t)) =>
         tab.tokens[t] \in stranded' \/ seats[tab.tokens[t]].state # "waiting"]_crewVars

\* While the page polls for a signed-in player, the list it shows is the server's again
\* and again: an overtaken answer or a lost one does not last.
PolledListIsTheServers ==
  <>[](page.timer /\ server.member) => []<>(page.list = server.list)

=============================================================================
