------------------------------ MODULE SoloGame ------------------------------
(***************************************************************************)
(* A match on this device, alone or passed between two players, as the tab *)
(* plays it (static/app-solo-table.js, app-auction.js, app-table-ui.js).   *)
(* There is no stream: each move is a request, and a load draws what came  *)
(* of it.  Loads carry no number, so the last answer to arrive is drawn.   *)
(***************************************************************************)
EXTENDS Integers, Sequences

CONSTANTS
  InOrder,      \* whether requests are served and answered in the order they were sent
  Tricks,       \* the tricks of a round
  MaxRequests   \* the bound on the requests at once

VARIABLES
  passAndPlay, \* whether two players pass the device to each other
  server,      \* the table at the server
  page,        \* the auction's page, the game's page, or any other
  requests,    \* the requests sent and not yet handled, oldest first
  screen,      \* the snapshot drawn last
  cover,       \* the player the device is to be passed to, while the cover asks
  shownTo,     \* the player who last said that they hold the device
  holdKey,     \* the completed trick waiting to be collected, 0 if none
  timers,      \* the tricks whose time on the table runs
  moving,      \* whether the page is about to move on from a finished auction, or another
               \* cover took the place of the one that would have led on
  calling,     \* whether a call of the player is being made
  resume,      \* whether the device remembers the match as one to resume
  lost,        \* when a request failed last: never, or before or since the player last chose a page
  missed       \* the trick whose time was up away from the table, if it is still the one waiting

tableVars == <<passAndPlay, server>>
drawVars == <<screen, cover, holdKey, timers, moving, resume, missed>>
vars == <<tableVars, page, requests, drawVars, shownTo, calling, lost>>

Stages == {"auction", "play", "review", "roundOver", "matchOver"}
Players == {"first", "second"}
NoPlayer == "nobody"
Humans == IF passAndPlay THEN Players ELSE {"first"}

\* What a snapshot says of the match, and whose hand it shows.
NothingDrawn == [stage |-> "none", trick |-> 0, viewer |-> "first"]
Snapshot == [stage : Stages, trick : 0..Tricks, viewer : Players]

Loads == {"loadAuction", "loadGame", "loadResume"}
Moves == {"bid", "card", "collect", "again"}

Request == [kind : Loads \cup Moves, answer : {"waiting", "ok", "refused", "lost"},
            brought : Snapshot \cup {NothingDrawn}]

Asked(kind) == [kind |-> kind, answer |-> "waiting", brought |-> NothingDrawn]

-----------------------------------------------------------------------------
(* The server *)

\* What a move makes of the table, with the bots' moves that follow it.  The viewer stays
\* in charge while a trick or a result is on the table.
Outcomes(kind) ==
  LET s == server
      To(stage, trick) == [stage : {stage}, trick : {trick},
                           viewer : IF stage \in {"auction", "play"} THEN Humans ELSE {s.viewer}]
  IN CASE kind = "bid" /\ s.stage = "auction" -> To("auction", 0) \cup To("play", 0)
       [] kind = "card" /\ s.stage = "play" ->
            IF s.trick + 1 < Tricks
            THEN To("play", s.trick) \cup To("review", s.trick + 1)
            ELSE To("play", s.trick) \cup To("roundOver", Tricks) \cup To("matchOver", Tricks)
       [] kind = "collect" /\ s.stage = "review" -> To("play", s.trick)
       [] kind = "again" /\ s.stage \in {"roundOver", "matchOver"} ->
            To("auction", 0) \cup To("play", 0)
       [] OTHER -> {}

Answered(i, answer) == requests' = [requests EXCEPT ![i].answer = answer]
Brought(i, s) == requests' = [requests EXCEPT ![i].answer = "ok", ![i].brought = s]

NextToServe(i) ==
  /\ i \in DOMAIN requests /\ requests[i].answer = "waiting"
  /\ InOrder => \A j \in 1..(i - 1) : requests[j].answer # "waiting"

Serve(i) ==
  /\ NextToServe(i)
  /\ \/ /\ requests[i].kind \in Loads
        /\ Brought(i, server) /\ UNCHANGED server
     \/ /\ requests[i].kind \in Moves
        /\ server' \in Outcomes(requests[i].kind)
        /\ Brought(i, server')
     \/ /\ requests[i].kind \in Moves
        /\ Outcomes(requests[i].kind) = {}
        /\ Answered(i, "refused") /\ UNCHANGED server
  /\ UNCHANGED <<passAndPlay, page, drawVars, shownTo, calling, lost>>

\* The network fails before or after the server did its part.
Fail(i) ==
  /\ i \in DOMAIN requests /\ requests[i].answer \in {"waiting", "ok"}
  /\ requests' = [requests EXCEPT ![i].answer = "lost", ![i].brought = NothingDrawn]
  /\ lost' = "since"
  /\ UNCHANGED <<tableVars, page, drawVars, shownTo, calling>>

-----------------------------------------------------------------------------
(* Moving between pages *)

LoadOf(place) == IF place = "auction" THEN <<Asked("loadAuction")>>
                 ELSE IF place = "game" THEN <<Asked("loadGame")>> ELSE <<>>

Without(i) == SubSeq(requests, 1, i - 1) \o SubSeq(requests, i + 1, Len(requests))

\* navigate: the cover ends with the page it lies over, and the new page loads its table.
Navigate(place, waiting) ==
  /\ page' = place
  /\ cover' = NoPlayer
  /\ moving' = IF moving \in {"covered", "dropped"} THEN "no" ELSE moving
  /\ requests' = waiting \o LoadOf(place)
  /\ UNCHANGED <<screen, holdKey, timers, resume, missed>>

Stay(waiting) == requests' = waiting /\ UNCHANGED <<page, drawVars>>

Room == Len(requests) < MaxRequests

\* The cover cannot be left: the back button is undone and the page behind it is inert.
GoTo(place) ==
  /\ place # page /\ cover = NoPlayer /\ Room
  /\ Navigate(place, requests)
  /\ lost' = IF lost = "since" THEN "before" ELSE lost
  /\ UNCHANGED <<tableVars, shownTo, calling>>

\* loadResumeCard: home asks for the match the device remembers.
AskForResume ==
  /\ page = "away" /\ resume /\ Room
  /\ Stay(Append(requests, Asked("loadResume")))
  /\ UNCHANGED <<tableVars, shownTo, calling, lost>>

-----------------------------------------------------------------------------
(* Drawing a snapshot *)

\* handOff: the cover asks for a player the device was not handed to last.
Covered(s) == passAndPlay /\ shownTo # s.viewer

Covering(s) == cover' = IF Covered(s) THEN s.viewer ELSE cover

\* rememberSoloMatch: a match is remembered until it is over; one passed around is not.
Remember(s) == resume' = IF passAndPlay THEN resume ELSE s.stage # "matchOver"

\* loadAuction, loadBidding: a finished auction moves on to the cards after a pause.
DrawAuction(s) ==
  /\ screen' = s
  /\ Covering(s)
  /\ Remember(s)
  /\ moving' = CASE s.stage # "auction" -> IF Covered(s) THEN "covered" ELSE "pausing"
                 [] moving = "covered" /\ Covered(s) -> "no"
                 [] OTHER -> moving
  /\ UNCHANGED <<holdKey, timers, missed>>

\* renderSolo: a completed trick is held once, and collected when its time is up.
DrawGame(s) ==
  /\ screen' = s
  /\ Covering(s)
  /\ Remember(s)
  /\ moving' = IF moving = "covered" /\ Covered(s) THEN "dropped" ELSE moving
  /\ IF s.stage = "review" /\ holdKey # s.trick
     THEN holdKey' = s.trick /\ timers' = timers \cup {s.trick} /\ missed' = 0
     ELSE UNCHANGED <<holdKey, timers, missed>>

-----------------------------------------------------------------------------
(* The player *)

AtHand == cover = NoPlayer /\ Room

\* submitBid: one call at a time; the player's call is on the table before it is made.
Bid ==
  /\ page = "auction" /\ screen.stage = "auction" /\ ~calling /\ AtHand
  /\ calling' = TRUE
  /\ Stay(Append(requests, Asked("bid")))
  /\ UNCHANGED <<tableVars, shownTo, lost>>

PlayCard ==
  /\ page = "game" /\ screen.stage = "play" /\ AtHand
  /\ Stay(Append(requests, Asked("card")))
  /\ UNCHANGED <<tableVars, shownTo, calling, lost>>

\* The next round, or the next match.
Again ==
  /\ page = "game" /\ screen.stage \in {"roundOver", "matchOver"} /\ AtHand
  /\ Stay(Append(requests, Asked("again")))
  /\ UNCHANGED <<tableVars, shownTo, calling, lost>>

ReadyForgettingWhy ==
  /\ cover # NoPlayer
  /\ shownTo' = cover
  /\ cover' = NoPlayer
  /\ moving' = IF moving = "covered" THEN "no" ELSE moving
  /\ UNCHANGED <<tableVars, page, requests, screen, holdKey, timers, resume, calling, lost, missed>>

Ready ==
  /\ cover # NoPlayer
  /\ shownTo' = cover
  /\ cover' = NoPlayer
  /\ moving' = IF moving = "covered" THEN "pausing" ELSE moving
  /\ UNCHANGED <<tableVars, page, requests, screen, holdKey, timers, resume, calling, lost, missed>>

-----------------------------------------------------------------------------
(* Timers *)

TimeUpKeepingTheTrick(trick) ==
  /\ trick \in timers
  /\ timers' = timers \ {trick}
  /\ requests' = IF holdKey = trick /\ page = "game" THEN Append(requests, Asked("collect")) ELSE requests
  /\ UNCHANGED <<tableVars, page, screen, cover, holdKey, moving, resume, missed, shownTo, calling, lost>>

\* collectBotTrickLater: only where the trick is still shown, and only the latest one.  Away
\* from the table nothing is cleared: the trick keeps waiting, with no time running for it.
TimeUp(trick) ==
  /\ trick \in timers
  /\ timers' = timers \ {trick}
  /\ IF holdKey = trick /\ page = "game"
     THEN holdKey' = 0 /\ requests' = Append(requests, Asked("collect")) /\ UNCHANGED missed
     ELSE missed' = (IF holdKey = trick THEN trick ELSE missed) /\ UNCHANGED <<holdKey, requests>>
  /\ UNCHANGED <<tableVars, page, screen, cover, moving, resume, shownTo, calling, lost>>

MoveOn ==
  /\ moving = "pausing"
  /\ IF page = "auction"
     THEN /\ page' = "game" /\ cover' = NoPlayer
          /\ requests' = requests \o LoadOf("game")
     ELSE UNCHANGED <<page, cover, requests>>
  /\ moving' = "no"
  /\ UNCHANGED <<tableVars, screen, holdKey, timers, resume, missed, shownTo, calling, lost>>

-----------------------------------------------------------------------------
(* Answers *)

NextToHandle(i) ==
  /\ i \in DOMAIN requests /\ requests[i].answer # "waiting"
  /\ InOrder => i = 1

Ok(i) == requests[i].answer = "ok"

\* A load draws what it brought, wherever the tab is by now; one that fails leaves the table,
\* and so does the game's load when it finds an auction.
ReceiveLoad(i) ==
  LET s == requests[i].brought
  IN /\ NextToHandle(i)
     /\ \/ /\ requests[i].kind = "loadAuction" /\ Ok(i)
           /\ DrawAuction(s) /\ requests' = Without(i) /\ UNCHANGED page
        \/ /\ requests[i].kind = "loadGame" /\ Ok(i) /\ s.stage # "auction"
           /\ DrawGame(s) /\ requests' = Without(i) /\ UNCHANGED page
        \/ /\ requests[i].kind \in {"loadAuction", "loadGame"}
           /\ ~Ok(i) \/ (requests[i].kind = "loadGame" /\ s.stage = "auction")
           /\ Navigate("away", Without(i))
        \/ /\ requests[i].kind = "loadResume"
           /\ resume' = (resume /\ IF Ok(i) THEN s.stage # "matchOver" ELSE requests[i].answer = "lost")
           /\ requests' = Without(i)
           /\ UNCHANGED <<page, screen, cover, holdKey, timers, moving, missed>>
     /\ UNCHANGED <<tableVars, shownTo, calling, lost>>

\* A finished auction leads to the cards; otherwise, or after a refusal, it is drawn again.
ReceiveBid(i) ==
  /\ NextToHandle(i) /\ requests[i].kind = "bid"
  /\ \/ Ok(i) /\ requests[i].brought.stage # "auction" /\ Navigate("game", Without(i))
     \/ /\ \/ Ok(i) /\ requests[i].brought.stage = "auction"
           \/ requests[i].answer = "refused"
        /\ Stay(Append(Without(i), Asked("loadAuction")))
     \/ requests[i].answer = "lost" /\ Stay(Without(i))
  /\ calling' = FALSE
  /\ UNCHANGED <<tableVars, shownTo, lost>>

\* A card taken, or a trick collected, is followed by a load; anything else is let be.
ReceiveMove(i) ==
  /\ NextToHandle(i) /\ requests[i].kind \in {"card", "collect"}
  /\ Stay(IF Ok(i) THEN Append(Without(i), Asked("loadGame")) ELSE Without(i))
  /\ UNCHANGED <<tableVars, shownTo, calling, lost>>

ReceiveAgain(i) ==
  /\ NextToHandle(i) /\ requests[i].kind = "again"
  /\ IF Ok(i) THEN Navigate("auction", Without(i)) ELSE Stay(Without(i))
  /\ UNCHANGED <<tableVars, shownTo, calling, lost>>

Receive(i) == ReceiveLoad(i) \/ ReceiveBid(i) \/ ReceiveMove(i) \/ ReceiveAgain(i)

-----------------------------------------------------------------------------
Index == 1..(MaxRequests + Tricks + 1)

\* startGame: the table is made and the auction's page opened.
Init ==
  /\ passAndPlay \in BOOLEAN
  /\ server = [stage |-> "auction", trick |-> 0, viewer |-> "first"]
  /\ page = "auction"
  /\ requests = LoadOf("auction")
  /\ screen = NothingDrawn
  /\ cover = NoPlayer
  /\ shownTo = NoPlayer
  /\ holdKey = 0
  /\ timers = {}
  /\ moving = "no"
  /\ calling = FALSE
  /\ resume = FALSE
  /\ lost = "never"
  /\ missed = 0

Next ==
  \/ \E i \in Index : Serve(i) \/ Fail(i) \/ Receive(i)
  \/ \E place \in {"auction", "game", "away"} : GoTo(place)
  \/ \E trick \in 1..Tricks : TimeUp(trick)
  \/ AskForResume \/ Bid \/ PlayCard \/ Again \/ Ready \/ MoveOn

Spec == Init /\ [][Next]_vars

\* Requests end, their answers are handled, and timers fire.
Fairness ==
  /\ WF_vars(\E i \in Index : Serve(i))
  /\ WF_vars(\E i \in Index : Receive(i))
  /\ WF_vars(\E trick \in 1..Tricks : TimeUp(trick))
  /\ WF_vars(MoveOn)

FairSpec == Spec /\ Fairness

TypeOK ==
  /\ passAndPlay \in BOOLEAN /\ calling \in BOOLEAN /\ resume \in BOOLEAN
  /\ lost \in {"never", "before", "since"} /\ missed \in {0, holdKey}
  /\ server \in Snapshot
  /\ page \in {"auction", "game", "away"}
  /\ requests \in Seq(Request) /\ Len(requests) <= MaxRequests + Tricks + 1
  /\ screen \in Snapshot \cup {NothingDrawn}
  /\ cover \in Players \cup {NoPlayer} /\ shownTo \in Players \cup {NoPlayer}
  /\ holdKey \in 0..Tricks /\ timers \subseteq 1..Tricks
  /\ moving \in {"no", "covered", "pausing", "dropped"}

-----------------------------------------------------------------------------
(* Properties *)

\* A solo match that is over is not offered again from the home page, once what the tab
\* asked for has arrived, if no request failed (rememberSoloMatch, loadResumeCard).
FinishedMatchIsForgotten ==
  lost = "never" /\ requests = <<>> /\ resume => server.stage # "matchOver"

\* A trick on the table is collected in the end for a player who stays there, whatever pages
\* they visited and whatever failed before they came, unless its time was up while they were
\* away: then it waits for ever (renderSolo holds a trick, collectBotTrickLater collects it).
TrickIsCollected ==
  (server.stage = "review" /\ page = "game" /\ lost # "since" /\ missed # server.trick)
    ~> (server.stage # "review" \/ page # "game" \/ lost = "since")

\* A finished auction leads a player who stays to the cards, under a cover and without one,
\* unless a cover of the game's page, drawn late, took the place of the one that leads on, or a
\* request failed since they came (loadBidding, and the action handOff keeps).
AuctionLeadsToTheCards ==
  (page = "auction" /\ server.stage # "auction" /\ lost # "since" /\ moving # "dropped")
    ~> (page # "auction" \/ cover # NoPlayer \/ server.stage = "auction" \/ lost = "since")

\* The tab takes the match from the auction to the cards, from trick to trick, and forgets
\* it when it is over.
MatchGoesOn ==
  []TypeOK /\ []FinishedMatchIsForgotten /\ TrickIsCollected /\ AuctionLeadsToTheCards

=============================================================================
