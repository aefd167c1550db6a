------------------------------ MODULE Account -------------------------------
(***************************************************************************)
(* The player's account on one page of the app: whether the page knows     *)
(* the player as signed in (static/app.js, loadAccount and the passkey     *)
(* ceremonies), the deletion of the account, and the friends list with its *)
(* invitations, asked for again every twenty seconds (static/              *)
(* app-friends.js).  Answers of the server come back in any order.  What   *)
(* the server holds is modelled as the page reads it: the session of the   *)
(* browser, a friends list and the invitations still open.                 *)
(***************************************************************************)
EXTENDS Naturals, FiniteSets

CONSTANTS
  Invites,     \* the invitations friends may send
  None,        \* no invitation, or no table
  Lists,       \* the states the friends list goes through: 1..n
  MaxRequests  \* the bound on the requests in flight at once

ASSUME AccountAssumption == None \notin Invites /\ 1 \in Lists /\ MaxRequests \in Nat \ {0}

Requests == 1..MaxRequests

VARIABLES
  server,  \* whether the browser's session is signed in, and the account's friends
  page,    \* what the page has drawn and scheduled
  calls    \* the requests in flight

NoList == 0
NoSeat == 0

\* A request in flight, what it is about, and once it was served its answer.
Nothing == [why |-> "page", table |-> None, invite |-> None, seat |-> NoSeat]
NoAnswer == [member |-> FALSE, list |-> NoList, invites |-> {}, seat |-> NoSeat]
Asked(what, about) == [what |-> what, about |-> about, state |-> "sent", answer |-> NoAnswer]
NoRequest == Asked("none", Nothing)
For(why) == [Nothing EXCEPT !.why = why]

IsFree(c) == calls[c].what = "none"
Send(c, what, about) ==
  /\ IsFree(c) /\ \A d \in 1..(c - 1) : ~IsFree(d)
  /\ calls' = [calls EXCEPT ![c] = Asked(what, about)]
GoOn(c, what, about) == calls' = [calls EXCEPT ![c] = Asked(what, about)]
Done(c) == calls' = [calls EXCEPT ![c] = NoRequest]

Sent(c, what) == calls[c].what = what /\ calls[c].state = "sent"
Back(c, what) == calls[c].what = what /\ calls[c].state # "sent"
Ok(c) == calls[c].state = "ok"
Answer(c, state, answer) ==
  calls' = [calls EXCEPT ![c].state = state, ![c].answer = answer]

\* A request is lost on its way, or its answer is: the page takes both for a refusal.
Lose(c) ==
  /\ ~IsFree(c) /\ calls[c].state # "refused"
  /\ Answer(c, "refused", NoAnswer)
  /\ UNCHANGED <<server, page>>

-----------------------------------------------------------------------------
(* The server *)

ServeAccount(c) ==
  /\ Sent(c, "account")
  /\ Answer(c, "ok", [NoAnswer EXCEPT !.member = server.member])
  /\ UNCHANGED <<server, page>>

ServeFriends(c) ==
  /\ Sent(c, "friends")
  /\ IF server.member
     THEN Answer(c, "ok", [NoAnswer EXCEPT !.list = server.list, !.invites = server.invites])
     ELSE Answer(c, "refused", NoAnswer)
  /\ UNCHANGED <<server, page>>

\* Accepting, declining or removing a friend.
ServeFriendAction(c) ==
  /\ Sent(c, "friendAction")
  /\ \/ /\ server.member /\ server.list + 1 \in Lists
        /\ server' = [server EXCEPT !.list = @ + 1]
        /\ Answer(c, "ok", NoAnswer)
     \/ Answer(c, "refused", NoAnswer) /\ UNCHANGED server
  /\ UNCHANGED page

ServeDismiss(c) ==
  /\ Sent(c, "dismiss")
  /\ server' = [server EXCEPT !.invites = @ \ {calls[c].about.invite}]
  /\ Answer(c, "ok", NoAnswer)
  /\ UNCHANGED page

ServeCeremony(c) ==
  /\ Sent(c, "ceremony")
  /\ \/ /\ server' = [server EXCEPT !.member = TRUE]
        /\ Answer(c, "ok", NoAnswer)
     \/ Answer(c, "refused", NoAnswer) /\ UNCHANGED server
  /\ UNCHANGED page

\* How long ago the player signed in is not tracked: it may be too long at any time.
ServeDelete(c) ==
  /\ Sent(c, "delete")
  /\ IF server.member
     THEN \/ Answer(c, "reauthenticate", NoAnswer) /\ UNCHANGED server
          \/ /\ server' = [server EXCEPT !.member = FALSE, !.invites = {}]
             /\ Answer(c, "ok", NoAnswer)
     ELSE Answer(c, "refused", NoAnswer) /\ UNCHANGED server
  /\ UNCHANGED page

FriendsChange ==
  /\ server.member
  /\ \/ /\ server.list + 1 \in Lists
        /\ server' = [server EXCEPT !.list = @ + 1]
     \/ \E i \in Invites \ server.invited :
          server' = [server EXCEPT !.invites = @ \cup {i}, !.invited = @ \cup {i}]
  /\ UNCHANGED <<page, calls>>

\* The session expires, or another tab ends it.
SessionEnds ==
  /\ server.member
  /\ server' = [server EXCEPT !.member = FALSE]
  /\ UNCHANGED <<page, calls>>

-----------------------------------------------------------------------------
(* The page *)

\* What a page has before its first answer; it asks for the account as it opens.
NewPage ==
  [account |-> "unknown", timer |-> FALSE, list |-> NoList, seen |-> {}, told |-> {},
   banner |-> None, confirm |-> "closed", ceremony |-> FALSE]

NewCalls == [c \in Requests |-> IF c = 1 THEN Asked("account", Nothing) ELSE NoRequest]

\* loadAccount, and startFriendsPolling with its first request.  When a sign-in was
\* asked for by a deletion, the confirmation is shown again, empty.
AccountLoaded(c) ==
  LET confirm == IF calls[c].about = For("delete") THEN "shown" ELSE page.confirm IN
  /\ Back(c, "account")
  /\ CASE Ok(c) /\ calls[c].answer.member ->
            /\ page' = [page EXCEPT !.account = "member", !.timer = TRUE, !.confirm = confirm]
            /\ GoOn(c, "friends", Nothing)
       [] Ok(c) /\ ~calls[c].answer.member ->
            /\ page' = [page EXCEPT !.account = "guest", !.timer = FALSE,
                                    !.list = NoList, !.confirm = confirm]
            /\ Done(c)
       [] OTHER -> page' = [page EXCEPT !.confirm = confirm] /\ Done(c)
  /\ UNCHANGED server

PollUntilLoaded(c) ==
  /\ page.timer /\ page.list = NoList
  /\ Send(c, "friends", Nothing)
  /\ UNCHANGED <<server, page>>

\* The timer of startFriendsPolling.
Poll(c) ==
  /\ page.timer
  /\ Send(c, "friends", Nothing)
  /\ UNCHANGED <<server, page>>

Every(invites) == invites

\* newInvites: the invitations the page has not seen.
Fresh(invites) == invites \ page.seen

\* loadFriends: the first of the new invitations is shown, and none of them again.
FriendsLoaded(c) ==
  /\ Back(c, "friends")
  /\ IF Ok(c)
     THEN LET answer == calls[c].answer
              fresh == Fresh(answer.invites)
          IN  \E i \in (IF fresh = {} THEN {page.banner} ELSE fresh) :
                page' = [page EXCEPT !.list = answer.list, !.seen = @ \cup fresh,
                                     !.banner = i, !.told = @ \cup (fresh \cap {i})]
     ELSE page' = [page EXCEPT !.list = NoList]
  /\ Done(c)
  /\ UNCHANGED server

\* friendAction: the list is loaded again after the answer.
PressFriend(c) ==
  /\ page.list # NoList
  /\ Send(c, "friendAction", Nothing)
  /\ UNCHANGED <<server, page>>

\* addFriendFromLink, which a guest may open too.
OpenFriendLink(c) ==
  /\ Send(c, "friendAction", For("link"))
  /\ UNCHANGED <<server, page>>

FriendActionBack(c) ==
  /\ Back(c, "friendAction")
  /\ IF Ok(c) \/ calls[c].about = For("link") THEN GoOn(c, "friends", Nothing) ELSE Done(c)
  /\ UNCHANGED <<server, page>>

DismissInvite(c) ==
  /\ page.banner # None
  /\ page' = [page EXCEPT !.banner = None]
  /\ Send(c, "dismiss", [Nothing EXCEPT !.invite = page.banner])
  /\ UNCHANGED server

Dismissed(c) ==
  /\ Back(c, "dismiss")
  /\ Done(c)
  /\ UNCHANGED <<server, page>>

\* runCeremony of the sign-in panel, which guests see; its buttons are disabled meanwhile.
SignIn(c) ==
  /\ page.account = "guest" /\ ~page.ceremony
  /\ page' = [page EXCEPT !.ceremony = TRUE]
  /\ Send(c, "ceremony", Nothing)
  /\ UNCHANGED server

CeremonyBack(c) ==
  /\ Back(c, "ceremony")
  /\ LET forDeletion == calls[c].about = For("delete") IN
     /\ IF Ok(c)
        THEN GoOn(c, "account", IF forDeletion THEN For("delete") ELSE Nothing)
        ELSE Done(c)
     /\ page' = IF ~forDeletion THEN [page EXCEPT !.ceremony = FALSE]
                ELSE IF Ok(c) THEN page
                ELSE [page EXCEPT !.confirm = IF @ = "sent" THEN "shown" ELSE @]
  /\ UNCHANGED server

\* "Your data": the confirmation opens, and opens again, empty, when asked for again.
AskDelete ==
  /\ page.account = "member" /\ page.confirm # "shown"
  /\ page' = [page EXCEPT !.confirm = "shown"]
  /\ UNCHANGED <<server, calls>>

CancelDelete ==
  /\ page.confirm # "closed"
  /\ page' = [page EXCEPT !.confirm = "closed"]
  /\ UNCHANGED <<server, calls>>

\* The word is typed and the button pressed; it is disabled until the answer.
PressDelete(c) ==
  /\ page.confirm = "shown"
  /\ page' = [page EXCEPT !.confirm = "sent"]
  /\ Send(c, "delete", Nothing)
  /\ UNCHANGED server

\* Deleted: the confirmation closes and the account is loaded.  Asked to sign in again:
\* the ceremony begins.  Anything else: the button is enabled again.
DeleteBack(c) ==
  /\ Back(c, "delete")
  /\ CASE Ok(c) -> page' = [page EXCEPT !.confirm = "closed"] /\ GoOn(c, "account", Nothing)
       [] calls[c].state = "reauthenticate" -> GoOn(c, "ceremony", For("delete")) /\ UNCHANGED page
       [] OTHER -> page' = [page EXCEPT !.confirm = IF @ = "sent" THEN "shown" ELSE @] /\ Done(c)
  /\ UNCHANGED server

AccountInit ==
  /\ server \in {[member |-> m, list |-> 1, invites |-> {}, invited |-> {}] : m \in BOOLEAN}
  /\ page = NewPage
  /\ calls = NewCalls

ServeAccountSide(c) ==
  \/ ServeAccount(c) \/ ServeFriends(c) \/ ServeFriendAction(c)
  \/ ServeDismiss(c) \/ ServeCeremony(c) \/ ServeDelete(c)

Return(c) ==
  \/ AccountLoaded(c) \/ FriendsLoaded(c) \/ FriendActionBack(c)
  \/ Dismissed(c) \/ CeremonyBack(c) \/ DeleteBack(c)

Press(c) ==
  PressFriend(c) \/ OpenFriendLink(c) \/ DismissInvite(c) \/ SignIn(c) \/ PressDelete(c)

=============================================================================
