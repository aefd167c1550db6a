------------------------------ MODULE Moments -------------------------------
(***************************************************************************)
(* What a tab tells of the snapshots it draws: the bots' events and lines, *)
(* their greeting, the belote sticker and the spoken account of the game   *)
(* (static/bot-expression-state.js, bot-reactions.js, bot-lines.js,        *)
(* celebrations.js, game-events.js).  Each compares a snapshot with one    *)
(* drawn before.  Snapshots are skipped and drawn again, the device is     *)
(* handed to the other team, the tab leaves the table and comes back, and  *)
(* the page is reloaded.  The auctions are those of Contree; a snapshot    *)
(* taken during the play still holds the auction (Table.tla).              *)
(***************************************************************************)
EXTENDS Integers, Sequences, FiniteSetsExt

CONSTANTS
  Dealers,  \* the seats the deal goes round: 4 in the code, less here so that it comes round
  Rounds,   \* the bound on the rounds
  Tricks,   \* the tricks of a round
  Cards     \* the cards of a trick

ASSUME MomentsAssumption == {Dealers, Rounds, Tricks, Cards} \subseteq Nat \ {0}

VARIABLES
  server,    \* the game, as a snapshot taken now would say
  atTable,   \* whether the tab is at the table
  board,     \* the board the bots saw last (previousBoard)
  auction,   \* the auction the bots saw last
  greeted,   \* whether this visit's first snapshot was looked at for a greeting
  comment,   \* whether the round's line and its line on a big trick were said
  hello,     \* whether the session storage says that the game was greeted
  watcher,   \* the belote watcher of the game
  view,      \* the snapshot spoken last
  told,      \* the moments of the server's snapshot that were told already
  wrong,     \* whether a moment was told again, or one that the snapshot does not hold
  lines      \* the round the tab saw last in this visit, and the bots' lines on it

visitVars == <<board, auction, greeted, comment, lines>>
pageVars == <<watcher, view>>
toldVars == <<hello, told, wrong>>
vars == <<server, atTable, visitVars, pageVars, toldVars>>

None == [round |-> 0]
NoMessage == <<>>

Dealer(s) == s.round % Dealers

Start == [round |-> 1, stage |-> "auction", coinched |-> FALSE, tricks |-> 0, cards |-> 0,
          belote |-> 0, declarer |-> 0, complete |-> FALSE, scoreless |-> TRUE]

Snapshot == [round : 1..Rounds, stage : {"auction", "play", "result"}, coinched : BOOLEAN,
             tricks : 0..Tricks, cards : 0..Cards, belote : 0..2, declarer : {0, 1},
             complete : BOOLEAN, scoreless : BOOLEAN]

\* reviewingCompletedTrick
Reviewing(s) == s.cards = Cards

-----------------------------------------------------------------------------
(* The game: a call, a card, a trick collected, a round dealt *)

\* Each trick and each card has a number among those of the game.
TrickRank(s) == s.round * (Tricks + 1) + s.tricks

TrickOf(s) ==
  [i \in 1..s.cards |-> (TrickRank(s) - (IF Reviewing(s) THEN 1 ELSE 0)) * (Cards + 1) + i]

\* What there is to tell of a snapshot.
MomentsOf(s) ==
  UNION {{<<"greeting", 1>>},
         {<<k, s.round>> : k \in IF s.coinched THEN {"coinche"} ELSE {}},
         {<<k, 3 * s.round + s.belote>> : k \in IF s.belote > 0 THEN {"belote"} ELSE {}},
         {<<k, TrickRank(s)>> : k \in IF Reviewing(s) THEN {"trick", "trickSpoken"} ELSE {}},
         {<<k, s.round>> : k \in IF s.stage = "result" THEN {"round", "roundSpoken"} ELSE {}},
         {<<k, s.round>> : k \in IF s.complete THEN {"match", "matchSpoken"} ELSE {}},
         {<<"cardSpoken", TrickOf(s)[i]>> : i \in 1..s.cards}}

\* A coinche, or the last pass.
Call ==
  /\ server.stage = "auction"
  /\ \/ server' = [server EXCEPT !.coinched = TRUE]
     \/ server' = [server EXCEPT !.stage = "play"]

FillsTrick(s) == s.cards + 1 = Cards
EndsRound(s) == FillsTrick(s) /\ s.tricks + 1 = Tricks

\* A belote, then a rebelote, may be declared with a card, by one seat of a round.
Lay ==
  /\ server.stage = "play" /\ ~Reviewing(server)
  /\ \E belote \in {server.belote} \cup ({server.belote + 1} \ {3}),
        declarer \in IF server.belote = 0 THEN {0, 1} ELSE {server.declarer},
        complete \in IF EndsRound(server) THEN BOOLEAN ELSE {FALSE} :
       server' = [server EXCEPT !.cards = @ + 1, !.tricks = IF FillsTrick(server) THEN @ + 1 ELSE @,
                                !.belote = belote, !.declarer = declarer,
                                !.stage = IF EndsRound(server) THEN "result" ELSE @,
                                !.complete = complete]

\* The last trick, which the program plays along with the collection of the one before, is laid
\* here card by card: a tab that skips those snapshots sees what the program's sees.
Collect ==
  /\ server.stage = "play" /\ Reviewing(server)
  /\ server' = [server EXCEPT !.cards = 0]

Deal ==
  /\ server.stage = "result" /\ server.round < Rounds
  /\ server' = [Start EXCEPT !.round = server.round + 1, !.scoreless = server.complete]

Play ==
  /\ Call \/ Lay \/ Collect \/ Deal
  /\ told' = told \cap MomentsOf(server')
  /\ UNCHANGED <<atTable, visitVars, pageVars, hello, wrong>>

-----------------------------------------------------------------------------
(* The bots' events *)

SameRound(previous, s) ==
  /\ Dealer(previous) = Dealer(s)
  /\ s.tricks >= previous.tricks
  /\ ~(previous.stage = "result" /\ s.stage # "result")

\* botEvents: a completed trick, the end of a round and that of a match, since the board before.
BotEvents(previous, s) ==
  LET continuing == SameRound(previous, s)
      ended == s.stage = "result" /\ (continuing => previous.stage # "result")
      trick == /\ continuing /\ Reviewing(s)
               /\ Reviewing(previous) => previous.tricks # s.tricks
  IN IF previous = None THEN {}
     ELSE (IF trick THEN {<<"trick", TrickRank(s)>>} ELSE {})
            \cup (IF ended THEN {<<"round", s.round>>} ELSE {})
            \cup (IF ended /\ s.complete THEN {<<"match", s.round>>} ELSE {})

\* updateBidding: a coinche is told in an auction that the visit saw begin, or in a later one.
AuctionEvents(s) ==
  IF s.coinched /\ auction # None /\ (auction.dealer = Dealer(s) => ~auction.coinched)
  THEN {<<"coinche", s.round>>} ELSE {}

AuctionSeen(s) ==
  [round |-> s.round, dealer |-> Dealer(s),
   coinched |-> s.coinched \/ (auction # None /\ auction.dealer = Dealer(s) /\ auction.coinched)]

\* updateBoard: a coinche that no auction told of, then what happened on the board.
BoardEvents(s, seen) ==
  IF s.stage = "auction" THEN {}
  ELSE BotEvents(board, s) \cup
         (IF board # None /\ SameRound(board, s) /\ ~board.coinched /\ s.coinched
               /\ ~(seen.dealer = Dealer(s) /\ seen.coinched)
          THEN {<<"coinche", s.round>>} ELSE {})

\* greetingEvent, as updateBidding calls it: the page of the auction does not pass the score.
Greeting(s) == ~greeted /\ (s.stage = "auction" \/ s.scoreless)

Kinds(events) == {e[1] : e \in events}

\* commentFor: the kind of line said of the events, the match's first, then the coinche's, the
\* round's, and that of a big trick; "none" when nothing is.
LineFor(c, events, big) ==
  LET kinds == Kinds(events)
  IN CASE "match" \in kinds -> "match"
       [] "match" \notin kinds /\ c.shown -> "none"
       [] ~c.shown /\ "match" \notin kinds /\ "coinche" \in kinds -> "coinche"
       [] ~c.shown /\ kinds \cap {"match", "coinche"} = {} /\ "round" \in kinds -> "round"
       [] ~c.shown /\ kinds = {"trick"} /\ ~c.trickShown /\ big -> "trick"
       [] OTHER -> "none"

Commented(c, events, big) ==
  LET line == LineFor(c, events, big)
      ended == Kinds(events) \cap {"round", "match"} # {}
  IN [shown |-> ~ended /\ (c.shown \/ line = "coinche"),
      trickShown |-> ~ended /\ (c.trickShown \/ line = "trick")]

-----------------------------------------------------------------------------
(* The belote watcher and the spoken account *)

\* declarationMessage names the player and whether it is the rebelote; the team is the player's.
Message(s) == IF s.belote = 0 THEN NoMessage ELSE <<s.belote, s.declarer>>

Messages == {NoMessage} \cup ((1..2) \X {0, 1})

NewWatcher == [seen |-> FALSE, last |-> NoMessage, pending |-> NoMessage]

HeardAgain(s) ==
  IF ~watcher.seen THEN [watcher EXCEPT !.seen = TRUE, !.last = Message(s)]
  ELSE [watcher EXCEPT !.last = Message(s), !.pending = Message(s)]

\* watch: the first message is ignored; a declaration waits for a viewer of its team.
Heard(s) ==
  IF ~watcher.seen THEN [watcher EXCEPT !.seen = TRUE, !.last = Message(s)]
  ELSE IF Message(s) = watcher.last THEN watcher
  ELSE [watcher EXCEPT !.last = Message(s), !.pending = Message(s)]

Watched(s, team) ==
  IF watcher.seen /\ Heard(s).pending # NoMessage /\ Heard(s).pending[2] = team
  THEN [Heard(s) EXCEPT !.pending = NoMessage] ELSE Heard(s)

Sticker(s, team) ==
  IF Watched(s, team) = Heard(s) THEN {}
  ELSE {<<"belote", 3 * s.round + Heard(s).pending[1]>>}

\* gameEvents: the cards that are new, the trick's winner, the ends of the round and the match.
Spoken(previous, s) ==
  LET was == TrickOf(previous)
      is == TrickOf(s)
      extension == Len(was) <= Len(is) /\ was = SubSeq(is, 1, Len(was))
      trick == Reviewing(s) /\ (Reviewing(previous) => previous.tricks # s.tricks)
      round == s.stage = "result" /\ previous.stage # "result"
  IN IF previous = None \/ "auction" \in {previous.stage, s.stage} THEN {}
     ELSE {<<"cardSpoken", is[i]>> : i \in {j \in DOMAIN is : extension => j > Len(was)}}
            \cup (IF trick THEN {<<"trickSpoken", TrickRank(s)>>} ELSE {})
            \cup (IF round THEN {<<"roundSpoken", s.round>>} ELSE {})
            \cup (IF s.complete /\ ~previous.complete THEN {<<"matchSpoken", s.round>>} ELSE {})

-----------------------------------------------------------------------------
(* The tab *)

Tell(moments) ==
  /\ told' = told \cup moments
  /\ wrong' = (wrong \/ moments \cap told # {} \/ ~(moments \subseteq MomentsOf(server)))

\* updateBidding and updateBoard, each commented on.
Comment(s, first, second, big) ==
  LET c == Commented(comment, first, big)
      said == <<LineFor(comment, first, big), LineFor(c, second, big)>>
  IN /\ comment' = Commented(c, second, big)
     /\ lines' = [round |-> s.round,
                  said |-> (IF lines.round = s.round THEN lines.said ELSE 0)
                             + Cardinality({i \in {1, 2} : said[i] \in {"coinche", "round"}})]

\* loadAuction and renderSolo draw a snapshot, for the viewer whose team it is.
Draw ==
  /\ atTable
  /\ \E team \in {0, 1}, big \in BOOLEAN :
       LET s == server
           seen == AuctionSeen(s)
           playing == s.stage # "auction"
       IN /\ auction' = seen
          /\ board' = IF playing THEN s ELSE board
          /\ greeted' = TRUE
          /\ hello' = (hello \/ Greeting(s))
          /\ Comment(s, AuctionEvents(s), BoardEvents(s, seen), big)
          /\ watcher' = IF playing THEN Watched(s, team) ELSE watcher
          /\ view' = s
          /\ Tell((IF Greeting(s) /\ ~hello THEN {<<"greeting", 1>>} ELSE {})
                   \cup AuctionEvents(s) \cup BoardEvents(s, seen)
                   \cup (IF playing THEN Sticker(s, team) ELSE {}) \cup Spoken(view, s))
  /\ UNCHANGED <<server, atTable>>

NewVisit ==
  /\ board' = None /\ auction' = None /\ greeted' = FALSE
  /\ comment' = [shown |-> FALSE, trickShown |-> FALSE]
  /\ lines' = [round |-> 0, said |-> 0]

\* renderView, away from the table and back: the bots and their comments start anew.
Come ==
  /\ atTable' = ~atTable
  /\ NewVisit
  /\ UNCHANGED <<server, pageVars, toldVars>>

\* The page is loaded again: only the session storage survives.
Reload ==
  /\ atTable
  /\ NewVisit
  /\ watcher' = NewWatcher /\ view' = None
  /\ UNCHANGED <<server, atTable, toldVars>>

-----------------------------------------------------------------------------

Init ==
  /\ server = Start
  /\ atTable = FALSE
  /\ board = None /\ auction = None /\ greeted = FALSE
  /\ comment = [shown |-> FALSE, trickShown |-> FALSE]
  /\ lines = [round |-> 0, said |-> 0]
  /\ watcher = NewWatcher /\ view = None
  /\ hello = FALSE
  /\ told = {}
  /\ wrong = FALSE

Next == Play \/ Draw \/ Come \/ Reload

Spec == Init /\ [][Next]_vars

\* The types of the state.
TypeOK ==
  /\ server \in Snapshot /\ board \in Snapshot \cup {None} /\ view \in Snapshot \cup {None}
  /\ {atTable, greeted, hello, wrong} \subseteq BOOLEAN
  /\ auction \in [round : 1..Rounds, dealer : 0..(Dealers - 1), coinched : BOOLEAN] \cup {None}
  /\ comment \in [shown : BOOLEAN, trickShown : BOOLEAN]
  /\ lines \in [round : 0..Rounds, said : Nat]
  /\ watcher \in [seen : BOOLEAN, last : Messages, pending : Messages]
  /\ told \subseteq MomentsOf(server)

\* Whatever is skipped, drawn twice, left and come back to or reloaded, no moment of the game is
\* told twice, and none that the snapshot drawn does not hold: neither a bot's reaction nor its
\* greeting, neither a sticker nor a spoken sentence.
TellsEachMomentOnce == ~wrong

\* While a visit lasts, the bots say at most one line on a round: that on its coinche or that on
\* its end ("At most one result line per round", app-celebrations.js).
OneLineEachRound == lines.said <= 1

\* What is told is told once: each moment by itself, and one line for all those of a round.
EachMomentIsToldOnce == TypeOK /\ TellsEachMomentOnce /\ OneLineEachRound

=============================================================================
