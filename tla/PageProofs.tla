----------------------------- MODULE PageProofs -----------------------------
(***************************************************************************)
(* Theorems about what a tab tells of a game and about its addresses.      *)
(*                                                                         *)
(* Moments, for every number of dealers, rounds, tricks and cards: a       *)
(* moment is told again only if what it was compared with was forgotten,   *)
(* and whatever is forgotten (a visit's board and auction, a page's        *)
(* watcher and view) tells nothing the first time; so the invariant        *)
(* relates each moment told to what the tab still remembers of it.         *)
(*                                                                         *)
(* Sheets, for every length of the history: the browser owes the tab each  *)
(* step back that the tab waits for, and there is an entry for each of     *)
(* them to leave; while nothing happens out of turn, the tab is in one of  *)
(* a few situations that every press and every step lead to again.         *)
(***************************************************************************)
EXTENDS Moments, Sheets, SequenceTheorems, FiniteSetTheorems, TLAPS

-----------------------------------------------------------------------------
(* The invariant of what is told *)

\* A snapshot the game can give.
Given(s) ==
  /\ s \in Snapshot
  /\ s.stage = "auction" => s.tricks = 0 /\ s.cards = 0 /\ s.belote = 0
  /\ s.stage = "play" => s.tricks < Tricks
  /\ s.stage = "result" => s.tricks = Tricks /\ s.cards = Cards
  /\ s.complete => s.stage = "result"

\* The number of the trick whose cards are on view.
Trick(s) == TrickRank(s) - (IF Reviewing(s) THEN 1 ELSE 0)

\* The number of a card on view.
CardAt(s, i) == TrickOf(s)[i]

Types ==
  /\ Given(server) /\ board \in Snapshot \cup {None}
  /\ view = None \/ Given(view)
  /\ {atTable, greeted, hello} \subseteq BOOLEAN
  /\ auction \in [round : 1..Rounds, dealer : 0..(Dealers - 1), coinched : BOOLEAN] \cup {None}
  /\ comment \in [shown : BOOLEAN, trickShown : BOOLEAN]
  /\ lines \in [round : 0..Rounds, said : 0..1]
  /\ watcher \in [seen : BOOLEAN, last : Messages, pending : Messages]
  /\ told \subseteq MomentsOf(server)

\* What happened on the board was told of this very snapshot.
BoardTold ==
  \A k \in {"trick", "round", "match"}, n \in Nat : <<k, n>> \in told => board \in {None, server}

\* The coinche of an auction is remembered with its dealer.
CoincheSeen == auction # None /\ auction.dealer = Dealer(server) /\ auction.coinched
CoincheTold == \A n \in Nat : <<"coinche", n>> \in told => auction = None \/ CoincheSeen

GreetingTold == <<"greeting", 1>> \in told => hello

\* The watcher heard the message it told of, and nothing waits for a viewer.
BeloteTold ==
  /\ watcher.pending \in {NoMessage, watcher.last}
  /\ ~watcher.seen => watcher.pending = NoMessage
  /\ \A n \in Nat : <<"belote", n>> \in told /\ watcher.seen =>
       watcher.last = Message(server) /\ watcher.pending = NoMessage

\* The snapshot spoken last is none of a later trick, and holds the cards spoken of this one.
ViewIsPast ==
  view # None => \/ Trick(view) < Trick(server)
                 \/ Trick(view) = Trick(server) /\ view.cards <= server.cards

CardsTold ==
  \A i \in 1..server.cards : <<"cardSpoken", CardAt(server, i)>> \in told =>
    view = None \/ (Trick(view) = Trick(server) /\ i <= view.cards)

EndsTold ==
  \A k \in {"trickSpoken", "roundSpoken", "matchSpoken"}, n \in Nat :
    <<k, n>> \in told => view \in {None, server}

\* After a line on a round either no other is said until its end, or its end was just drawn.
LinesOK ==
  /\ lines.round <= server.round
  /\ lines.round = server.round /\ lines.said = 1 =>
       \/ comment.shown
       \/ server.stage = "result" /\ board = server /\ (server.coinched => CoincheSeen)

MomentsInv ==
  /\ Types /\ wrong = FALSE /\ BoardTold /\ CoincheTold /\ GreetingTold /\ BeloteTold
  /\ ViewIsPast /\ CardsTold /\ EndsTold /\ LinesOK


-----------------------------------------------------------------------------
(* Numbers *)

\* A multiple, with less than one more added, tells both.
LEMMA NumberTells ==
  ASSUME NEW a \in Int, NEW b \in Int, NEW C \in Nat, NEW i \in 1..C, NEW j \in 1..C,
         a * (C + 1) + i = b * (C + 1) + j
  PROVE  a = b /\ i = j
<1> DEFINE D == C + 1
<1>1. D \in Nat /\ D > 0 /\ i - j < D /\ j - i < D OBVIOUS
<1>2. a * D + i = b * D + j OBVIOUS
<1> HIDE DEF D
<1>3. ASSUME NEW x \in Int, NEW y \in Int, x < y PROVE y * D >= x * D + D
  <2>1. \A z \in Int : z >= 1 => z * D >= D BY <1>1
  <2>2. (y - x) * D = y * D - x * D BY <1>1
  <2>3. (y - x) * D >= D BY <1>3, <2>1
  <2>4. y * D \in Int /\ x * D \in Int BY <1>1
  <2> QED BY <1>1, <2>2, <2>3, <2>4
<1>4. a * D \in Int /\ b * D \in Int BY <1>1
<1>5. ~(a < b) BY <1>1, <1>2, <1>3, <1>4
<1>6. ~(b < a) BY <1>1, <1>2, <1>3, <1>4
<1>7. a = b BY <1>5, <1>6
<1> QED BY <1>2, <1>4, <1>7

\* The tricks of a game are numbered one after the other.
LEMMA TrickNumber ==
  ASSUME NEW s, Given(s)
  PROVE  TrickRank(s) \in Nat /\ Trick(s) \in Int /\ s.round \in Nat /\ s.tricks \in Nat
<1>1. s.round \in Nat /\ s.tricks \in Nat /\ Tricks \in Nat
  BY MomentsAssumption DEF Given, Snapshot
<1>2. s.round * (Tricks + 1) \in Nat BY <1>1
<1> QED BY <1>1, <1>2 DEF TrickRank, Trick

\* A card tells its trick and its place in it.
LEMMA CardTells ==
  ASSUME NEW s, NEW t, Given(s), Given(t), NEW i, i \in 1..s.cards, NEW j, j \in 1..t.cards,
         CardAt(s, i) = CardAt(t, j)
  PROVE  Trick(s) = Trick(t) /\ i = j
<1>1. Trick(s) \in Int /\ Trick(t) \in Int BY TrickNumber
<1>2. i \in 1..Cards /\ j \in 1..Cards /\ Cards \in Nat
  BY MomentsAssumption DEF Given, Snapshot
<1>3. CardAt(s, i) = Trick(s) * (Cards + 1) + i /\ CardAt(t, j) = Trick(t) * (Cards + 1) + j
  BY DEF CardAt, TrickOf, Trick
<1> DEFINE x == Trick(s)
           y == Trick(t)
<1>4. x * (Cards + 1) + i = y * (Cards + 1) + j BY <1>3
<1>5. x \in Int /\ y \in Int BY <1>1
<1> HIDE DEF x, y
<1>6. x = y /\ i = j BY <1>2, <1>4, <1>5, NumberTells
<1> QED BY <1>6 DEF x, y

\* What there is to tell, kind by kind.
LEMMA MomentsAre ==
  ASSUME NEW s, NEW k, NEW n
  PROVE  <<k, n>> \in MomentsOf(s) <=>
           \/ k = "greeting" /\ n = 1
           \/ s.coinched /\ k = "coinche" /\ n = s.round
           \/ s.belote > 0 /\ k = "belote" /\ n = 3 * s.round + s.belote
           \/ Reviewing(s) /\ k \in {"trick", "trickSpoken"} /\ n = TrickRank(s)
           \/ s.stage = "result" /\ k \in {"round", "roundSpoken"} /\ n = s.round
           \/ s.complete /\ k \in {"match", "matchSpoken"} /\ n = s.round
           \/ k = "cardSpoken" /\ \E i \in 1..s.cards : n = CardAt(s, i)
<1> DEFINE m == <<k, n>>
           In(S, x) == m \in {<<l, x>> : l \in S}
<1>1. \A S, x : In(S, x) <=> k \in S /\ n = x OBVIOUS
<1> HIDE DEF In
<1>2. m \in MomentsOf(s) <=>
        \/ m = <<"greeting", 1>>
        \/ In(IF s.coinched THEN {"coinche"} ELSE {}, s.round)
        \/ In(IF s.belote > 0 THEN {"belote"} ELSE {}, 3 * s.round + s.belote)
        \/ In(IF Reviewing(s) THEN {"trick", "trickSpoken"} ELSE {}, TrickRank(s))
        \/ In(IF s.stage = "result" THEN {"round", "roundSpoken"} ELSE {}, s.round)
        \/ In(IF s.complete THEN {"match", "matchSpoken"} ELSE {}, s.round)
        \/ m \in {<<"cardSpoken", CardAt(s, i)>> : i \in 1..s.cards}
  BY Zenon DEF MomentsOf, In, CardAt
<1>3. m \in {<<"cardSpoken", CardAt(s, i)>> : i \in 1..s.cards} <=>
        k = "cardSpoken" /\ \E i \in 1..s.cards : n = CardAt(s, i)
  OBVIOUS
<1>4. m = <<"greeting", 1>> <=> k = "greeting" /\ n = 1 OBVIOUS
<1> HIDE DEF m
<1>5. m \in MomentsOf(s) <=>
        \/ k = "greeting" /\ n = 1
        \/ s.coinched /\ k = "coinche" /\ n = s.round
        \/ s.belote > 0 /\ k = "belote" /\ n = 3 * s.round + s.belote
        \/ Reviewing(s) /\ k \in {"trick", "trickSpoken"} /\ n = TrickRank(s)
        \/ s.stage = "result" /\ k \in {"round", "roundSpoken"} /\ n = s.round
        \/ s.complete /\ k \in {"match", "matchSpoken"} /\ n = s.round
        \/ k = "cardSpoken" /\ \E i \in 1..s.cards : n = CardAt(s, i)
  BY <1>1, <1>2, <1>3, <1>4
<1> QED BY <1>5 DEF m

\* What a moment to tell says of the snapshot.
LEMMA MomentSays ==
  ASSUME NEW s, NEW k, NEW n, <<k, n>> \in MomentsOf(s)
  PROVE  /\ k = "coinche" => s.coinched /\ n = s.round
         /\ k = "belote" => s.belote > 0 /\ n = 3 * s.round + s.belote
         /\ k \in {"trick", "trickSpoken"} => Reviewing(s) /\ n = TrickRank(s)
         /\ k \in {"round", "roundSpoken"} => s.stage = "result"
         /\ k \in {"match", "matchSpoken"} => s.complete
BY MomentsAre

\* A card to tell is one of the snapshot.
LEMMA CardSays ==
  ASSUME NEW s, NEW k, NEW n, <<k, n>> \in MomentsOf(s)
  PROVE  k = "cardSpoken" => \E i \in 1..s.cards : n = CardAt(s, i)
BY MomentsAre

\* A card on view in two snapshots is the same card of the same trick.
LEMMA CardIsShared ==
  ASSUME NEW s, NEW t, Given(s), Given(t), NEW i \in 1..t.cards, NEW n, n = CardAt(t, i),
         <<"cardSpoken", n>> \in MomentsOf(s)
  PROVE  Trick(s) = Trick(t) /\ i \in 1..s.cards /\ n = CardAt(s, i)
<1>1. PICK j \in 1..s.cards : n = CardAt(s, j) BY CardSays
<1>2. CardAt(s, j) = CardAt(t, i) BY <1>1
<1>3. Trick(s) = Trick(t) /\ j = i BY <1>2, CardTells
<1> QED BY <1>1, <1>3

-----------------------------------------------------------------------------
(* The game *)

\* A card laid down.
LEMMA LayGives ==
  ASSUME Given(server), Lay
  PROVE  /\ Given(server') /\ server'.round = server.round /\ server'.coinched = server.coinched
         /\ server'.cards = server.cards + 1
         /\ server'.tricks = server.tricks + (IF Reviewing(server') THEN 1 ELSE 0)
         /\ (server.belote > 0 => server'.declarer = server.declarer)
<1> DEFINE s == server
           t == server'
           full == FillsTrick(s)
           last == EndsRound(s)
<1>1. s \in Snapshot /\ s.stage = "play" /\ s.tricks < Tricks /\ s.cards # Cards
  BY DEF Lay, Given, Reviewing
<1>2. /\ s.tricks \in 0..Tricks /\ s.cards \in 0..Cards /\ s.belote \in 0..2 /\ s.declarer \in {0, 1}
      /\ s.round \in 1..Rounds /\ s.coinched \in BOOLEAN /\ s.scoreless \in BOOLEAN
      /\ Cards \in Nat \ {0} /\ Tricks \in Nat \ {0}
  BY <1>1, MomentsAssumption DEF Snapshot
<1>3. PICK belote \in {s.belote} \cup ({s.belote + 1} \ {3}),
           declarer \in IF s.belote = 0 THEN {0, 1} ELSE {s.declarer},
           complete \in IF last THEN BOOLEAN ELSE {FALSE} :
         t = [s EXCEPT !.cards = @ + 1, !.tricks = IF full THEN @ + 1 ELSE @,
                       !.belote = belote, !.declarer = declarer,
                       !.stage = IF last THEN "result" ELSE @, !.complete = complete]
  BY DEF Lay
<1>4. /\ belote \in 0..2 /\ declarer \in {0, 1} /\ complete \in BOOLEAN
      /\ (s.belote > 0 => declarer = s.declarer) /\ (complete => last)
  <2>1. s.belote \in {0, 1, 2} BY <1>2
  <2>2. belote \in 0..2 BY <2>1
  <2>3. declarer \in {0, 1} /\ (s.belote > 0 => declarer = s.declarer) BY <1>2
  <2>4. complete \in BOOLEAN /\ (complete => last) OBVIOUS
  <2> QED BY <2>2, <2>3, <2>4
<1>5. /\ t.cards = s.cards + 1 /\ t.tricks = (IF full THEN s.tricks + 1 ELSE s.tricks)
      /\ t.belote = belote /\ t.declarer = declarer /\ t.stage = (IF last THEN "result" ELSE "play")
      /\ t.complete = complete /\ t.round = s.round /\ t.coinched = s.coinched
      /\ t.scoreless = s.scoreless
  BY <1>1, <1>3 DEF Snapshot
<1>6. t.cards \in 0..Cards /\ t.tricks \in 0..Tricks BY <1>1, <1>2, <1>5
<1>7. t \in Snapshot
  <2>1. t = [round |-> t.round, stage |-> t.stage, coinched |-> t.coinched, tricks |-> t.tricks,
             cards |-> t.cards, belote |-> t.belote, declarer |-> t.declarer,
             complete |-> t.complete, scoreless |-> t.scoreless]
    BY <1>1, <1>3 DEF Snapshot
  <2>2. /\ t.round \in 1..Rounds /\ t.coinched \in BOOLEAN /\ t.scoreless \in BOOLEAN
    BY <1>2, <1>5
  <2>3. /\ t.stage \in {"auction", "play", "result"} /\ t.belote \in 0..2 /\ t.declarer \in {0, 1}
        /\ t.complete \in BOOLEAN
    BY <1>4, <1>5
  <2> QED BY <1>6, <2>1, <2>2, <2>3 DEF Snapshot
<1>8. t.tricks = s.tricks + (IF Reviewing(t) THEN 1 ELSE 0)
  BY <1>2, <1>5 DEF Reviewing, FillsTrick
<1>9. t.stage = "play" => t.tricks < Tricks
  BY <1>1, <1>2, <1>5 DEF FillsTrick, EndsRound
<1>10. t.stage = "result" => t.tricks = Tricks /\ t.cards = Cards
  BY <1>2, <1>5 DEF FillsTrick, EndsRound
<1>11. t.complete => t.stage = "result" BY <1>4, <1>5
<1>12. Given(t) BY <1>5, <1>7, <1>9, <1>10, <1>11 DEF Given
<1> QED BY <1>4, <1>5, <1>8, <1>12

\* Any other move keeps the cards of no trick.
LEMMA OthersGive ==
  ASSUME Given(server), Call \/ Collect \/ Deal
  PROVE  /\ Given(server') /\ server'.cards = 0 /\ ~Reviewing(server')
         /\ server'.stage # "result" /\ ~server'.complete
         /\ \/ /\ server'.round = server.round /\ server'.tricks = server.tricks
               /\ server'.belote = server.belote /\ server'.declarer = server.declarer
               /\ server.cards = 0 \/ Reviewing(server)
               /\ server.stage # "result"
            \/ /\ server'.round = server.round + 1 /\ server'.tricks = 0
               /\ server'.belote = 0 /\ ~server'.coinched
               /\ Reviewing(server)
<1>1. server \in Snapshot /\ Cards \in Nat \ {0} /\ Tricks \in Nat \ {0} /\ Rounds \in Nat \ {0}
  BY MomentsAssumption DEF Given
<1>2. CASE Call
  <2>1. server.stage = "auction" /\ server.cards = 0 /\ server.tricks = 0 /\ server.belote = 0
        /\ ~server.complete
    BY <1>2 DEF Call, Given
  <2>2. CASE server' = [server EXCEPT !.coinched = TRUE]
    BY <1>1, <2>1, <2>2 DEF Given, Snapshot, Reviewing
  <2>3. CASE server' = [server EXCEPT !.stage = "play"]
    BY <1>1, <2>1, <2>3 DEF Given, Snapshot, Reviewing
  <2> QED BY <1>2, <2>2, <2>3 DEF Call
<1>3. CASE Collect
  BY <1>1, <1>3 DEF Collect, Given, Snapshot, Reviewing
<1>4. CASE Deal
  <2>1. server.stage = "result" /\ server.round + 1 \in 1..Rounds
    BY <1>1, <1>4 DEF Deal, Snapshot
  <2>2. server' = [Start EXCEPT !.round = server.round + 1, !.scoreless = server.complete]
    BY <1>4 DEF Deal
  <2>3. server.complete \in BOOLEAN BY <1>1 DEF Snapshot
  <2>4. server' = [round |-> server.round + 1, stage |-> "auction", coinched |-> FALSE,
                   tricks |-> 0, cards |-> 0, belote |-> 0, declarer |-> 0, complete |-> FALSE,
                   scoreless |-> server.complete]
    BY <2>2 DEF Start
  <2>5. Given(server') BY <1>1, <2>1, <2>3, <2>4 DEF Given, Snapshot
  <2>6. Reviewing(server) BY <2>1 DEF Given, Reviewing
  <2>7. server'.cards # Cards BY <1>1, <2>4
  <2> QED BY <2>4, <2>5, <2>6, <2>7 DEF Reviewing
<1> QED BY <1>2, <1>3, <1>4

\* A move leads to a later trick, or to more cards of the same.
LEMMA MovesOn ==
  ASSUME Given(server), Play
  PROVE  /\ Given(server')
         /\ \/ Trick(server) < Trick(server')
            \/ Trick(server) = Trick(server') /\ server.cards <= server'.cards
<1>1. server \in Snapshot /\ Cards \in Nat \ {0} /\ Tricks \in Nat \ {0}
  BY MomentsAssumption DEF Given
<1>2. server.tricks \in 0..Tricks /\ server.cards \in 0..Cards /\ server.round \in Nat
  BY <1>1, TrickNumber DEF Snapshot
<1>3. TrickRank(server) \in Nat BY TrickNumber
<1>4. CASE Lay
  <2>1. Given(server') BY <1>4, LayGives
  <2>2. TrickRank(server') = TrickRank(server) + (IF Reviewing(server') THEN 1 ELSE 0)
    <3> DEFINE k == IF Reviewing(server') THEN 1 ELSE 0
    <3>1. server'.round = server.round /\ server'.tricks = server.tricks + k BY <1>4, LayGives
    <3>2. k \in Int /\ server.round * (Tricks + 1) \in Int BY <1>1, <1>2
    <3> HIDE DEF k
    <3>3. server.round * (Tricks + 1) + (server.tricks + k)
            = (server.round * (Tricks + 1) + server.tricks) + k
      BY <1>2, <3>2
    <3>4. TrickRank(server') = TrickRank(server) + k BY <3>1, <3>3 DEF TrickRank
    <3> QED BY <3>4 DEF k
  <2>3. ~Reviewing(server) BY <1>4 DEF Lay
  <2>4. Trick(server') = Trick(server) BY <1>3, <2>2, <2>3 DEF Trick
  <2>5. server.cards <= server'.cards BY <1>2, <1>4, LayGives
  <2> QED BY <2>1, <2>4, <2>5
<1>5. CASE Call \/ Collect \/ Deal
  <2>1. Given(server') /\ server'.cards = 0 /\ ~Reviewing(server') BY <1>5, OthersGive
  <2>2. Trick(server') = TrickRank(server') /\ TrickRank(server') \in Nat
    BY <2>1, TrickNumber DEF Trick
  <2>3. CASE /\ server'.round = server.round /\ server'.tricks = server.tricks
             /\ server.cards = 0 \/ Reviewing(server)
    <3>1. TrickRank(server') = TrickRank(server) BY <2>3 DEF TrickRank
    <3> QED BY <1>1, <1>3, <2>1, <2>2, <2>3, <3>1 DEF Trick, Reviewing
  <2>4. CASE server'.round = server.round + 1 /\ server'.tricks = 0 /\ Reviewing(server)
    <3>1. TrickRank(server') = (server.round + 1) * (Tricks + 1) + 0 BY <2>4 DEF TrickRank
    <3>2. (server.round + 1) * (Tricks + 1) = server.round * (Tricks + 1) + (Tricks + 1)
      BY <1>1, <1>2
    <3>3. server.round * (Tricks + 1) \in Int BY <1>1, <1>2
    <3>4. Trick(server) = TrickRank(server) - 1 BY <2>4 DEF Trick
    <3>5. TrickRank(server') > TrickRank(server) BY <1>1, <1>2, <3>1, <3>2, <3>3 DEF TrickRank
    <3> QED BY <1>3, <2>1, <2>2, <3>4, <3>5
  <2>5. \/ /\ server'.round = server.round /\ server'.tricks = server.tricks
           /\ server.cards = 0 \/ Reviewing(server)
        \/ server'.round = server.round + 1 /\ server'.tricks = 0 /\ Reviewing(server)
    BY <1>5, OthersGive
  <2> QED BY <2>3, <2>4, <2>5
<1> QED BY <1>4, <1>5 DEF Play

\* No two snapshots in a row complete a trick, end a round, or end a match.
LEMMA EndsPass ==
  ASSUME Given(server), Play
  PROVE  /\ ~(Reviewing(server) /\ Reviewing(server'))
         /\ ~(server.stage = "result" /\ server'.stage = "result")
         /\ ~(server.complete /\ server'.complete)
<1>1. CASE Lay
  <2>1. ~Reviewing(server) /\ server.stage = "play" BY <1>1 DEF Lay
  <2> QED BY <2>1 DEF Given
<1>2. CASE Call \/ Collect \/ Deal BY <1>2, OthersGive
<1> QED BY <1>1, <1>2 DEF Play

\* A round keeps its dealer, and a belote who declared it.
LEMMA RoundGoesOn ==
  ASSUME Given(server), Play
  PROVE  /\ server.round <= server'.round
         /\ server'.round = server.round => server.stage # "result"
         /\ server'.round = server.round => Dealer(server') = Dealer(server)
         /\ server.belote > 0 /\ server'.round = server.round => server'.declarer = server.declarer
<1>1. server.round \in Nat BY TrickNumber
<1>2. CASE Lay
  <2>1. server.stage # "result" BY <1>2 DEF Lay
  <2> QED BY <1>1, <1>2, <2>1, LayGives DEF Dealer
<1>3. CASE Call \/ Collect \/ Deal
  <2>1. CASE server'.round = server.round
    <3>1. server.stage # "result" /\ server'.declarer = server.declarer
      BY <1>1, <1>3, <2>1, OthersGive
    <3> QED BY <1>1, <2>1, <3>1 DEF Dealer
  <2>2. CASE server'.round = server.round + 1
    BY <1>1, <2>2
  <2> QED BY <1>3, <2>1, <2>2, OthersGive
<1> QED BY <1>2, <1>3 DEF Play

\* Whatever moves the game, the tab remembers of what it told what it needs.
LEMMA PlayKeeps == MomentsInv /\ Play => MomentsInv'
<1> SUFFICES ASSUME MomentsInv, Play PROVE MomentsInv'
  OBVIOUS
<1>1. /\ UNCHANGED <<atTable, board, auction, greeted, comment, lines, watcher, view, hello, wrong>>
      /\ told' = told \cap MomentsOf(server')
  BY DEF Play, visitVars, pageVars
<1>2. Given(server) /\ Given(server') BY MovesOn DEF MomentsInv, Types
<1>3. \A m \in told' : m \in told /\ m \in MomentsOf(server) /\ m \in MomentsOf(server')
  BY <1>1 DEF MomentsInv, Types
<1>4. server.round \in Nat /\ server'.round \in Nat BY <1>2, TrickNumber
<1>5. Types' BY <1>1, <1>2 DEF MomentsInv, Types
<1>6. BoardTold'
  <2> SUFFICES ASSUME NEW k \in {"trick", "round", "match"}, NEW n, <<k, n>> \in told' PROVE FALSE
    BY DEF BoardTold
  <2>1. <<k, n>> \in MomentsOf(server) /\ <<k, n>> \in MomentsOf(server') BY <1>3
  <2>2. CASE k = "trick" BY <1>2, <2>1, <2>2, MomentSays, EndsPass
  <2>3. CASE k = "round" BY <1>2, <2>1, <2>3, MomentSays, EndsPass
  <2>4. CASE k = "match" BY <1>2, <2>1, <2>4, MomentSays, EndsPass
  <2> QED BY <2>2, <2>3, <2>4
<1>7. EndsTold'
  <2> SUFFICES ASSUME NEW k \in {"trickSpoken", "roundSpoken", "matchSpoken"}, NEW n,
                      <<k, n>> \in told'
               PROVE  FALSE
    BY DEF EndsTold
  <2>1. <<k, n>> \in MomentsOf(server) /\ <<k, n>> \in MomentsOf(server') BY <1>3
  <2>2. CASE k = "trickSpoken" BY <1>2, <2>1, <2>2, MomentSays, EndsPass
  <2>3. CASE k = "roundSpoken" BY <1>2, <2>1, <2>3, MomentSays, EndsPass
  <2>4. CASE k = "matchSpoken" BY <1>2, <2>1, <2>4, MomentSays, EndsPass
  <2> QED BY <2>2, <2>3, <2>4
<1>8. CoincheTold'
  <2> SUFFICES ASSUME NEW n \in Nat, <<"coinche", n>> \in told'
               PROVE  (auction = None \/ CoincheSeen)'
    BY DEF CoincheTold
  <2>0. <<"coinche", n>> \in MomentsOf(server) /\ <<"coinche", n>> \in MomentsOf(server') BY <1>3
  <2>1. n = server.round /\ n = server'.round BY <2>0, MomentSays
  <2>2. auction = None \/ CoincheSeen BY <1>3 DEF MomentsInv, CoincheTold
  <2>3. Dealer(server') = Dealer(server) BY <1>2, <2>1, RoundGoesOn
  <2> QED BY <1>1, <2>2, <2>3 DEF CoincheSeen
<1>9. GreetingTold' BY <1>1 DEF MomentsInv, GreetingTold
<1>10. BeloteTold'
  <2>1. /\ watcher'.pending \in {NoMessage, watcher'.last}
        /\ ~watcher'.seen => watcher'.pending = NoMessage
    BY <1>1 DEF MomentsInv, BeloteTold
  <2>2. ASSUME NEW n \in Nat, <<"belote", n>> \in told', watcher'.seen
        PROVE  watcher'.last = Message(server') /\ watcher'.pending = NoMessage
    <3>1. n = 3 * server.round + server.belote /\ n = 3 * server'.round + server'.belote
          /\ server.belote > 0 /\ server'.belote > 0
      <4>1. <<"belote", n>> \in MomentsOf(server) /\ <<"belote", n>> \in MomentsOf(server')
        BY <1>3, <2>2
      <4> QED BY <4>1, MomentSays
    <3>2. server.belote \in 0..2 /\ server'.belote \in 0..2 BY <1>2 DEF Given, Snapshot
    <3>3. server'.round = server.round /\ server'.belote = server.belote BY <1>4, <3>1, <3>2
    <3>4. server'.declarer = server.declarer BY <1>2, <3>1, <3>3, RoundGoesOn
    <3>5. Message(server') = Message(server) BY <3>3, <3>4 DEF Message
    <3>6. watcher.last = Message(server) /\ watcher.pending = NoMessage
      BY <1>1, <1>3, <2>2 DEF MomentsInv, BeloteTold
    <3> QED BY <1>1, <3>5, <3>6
  <2> QED BY <2>1, <2>2 DEF BeloteTold
<1>11. ViewIsPast'
  <2> SUFFICES ASSUME view # None
               PROVE  \/ Trick(view) < Trick(server')
                      \/ Trick(view) = Trick(server') /\ view.cards <= server'.cards
    BY <1>1 DEF ViewIsPast
  <2>1. Given(view) BY DEF MomentsInv, Types
  <2>2. /\ Trick(view) \in Int /\ Trick(server) \in Int /\ Trick(server') \in Int
        /\ view.cards \in Int /\ server.cards \in Int /\ server'.cards \in Int
    BY <1>2, <2>1, TrickNumber, MomentsAssumption DEF Given, Snapshot
  <2> QED BY <1>2, <2>2, MovesOn DEF MomentsInv, ViewIsPast
<1>12. CardsTold'
  <2> SUFFICES ASSUME NEW i \in 1..server'.cards, <<"cardSpoken", CardAt(server', i)>> \in told'
               PROVE  view = None \/ (Trick(view) = Trick(server') /\ i <= view.cards)
    BY <1>1 DEF CardsTold
  <2>1. <<"cardSpoken", CardAt(server', i)>> \in MomentsOf(server) BY <1>3
  <2>2. /\ Trick(server) = Trick(server') /\ i \in 1..server.cards
        /\ CardAt(server', i) = CardAt(server, i)
    BY <1>2, <2>1, CardIsShared
  <2>3. <<"cardSpoken", CardAt(server, i)>> \in told BY <1>3, <2>2
  <2> QED BY <2>2, <2>3 DEF MomentsInv, CardsTold
<1>13. LinesOK'
  <2>1. lines' = lines /\ comment' = comment /\ lines.round \in Nat
    BY <1>1 DEF MomentsInv, Types
  <2>2. lines'.round <= server'.round
    BY <1>2, <1>4, <2>1, RoundGoesOn DEF MomentsInv, LinesOK
  <2>3. ASSUME lines'.round = server'.round, lines'.said = 1 PROVE comment'.shown
    <3>1. lines.round = server.round /\ server'.round = server.round
      BY <1>2, <1>4, <2>1, <2>3, RoundGoesOn DEF MomentsInv, LinesOK
    <3>2. server.stage # "result" BY <1>2, <3>1, RoundGoesOn
    <3> QED BY <2>1, <2>3, <3>1, <3>2 DEF MomentsInv, LinesOK
  <2> QED BY <2>2, <2>3 DEF LinesOK
<1> QED
  BY <1>1, <1>5, <1>6, <1>7, <1>8, <1>9, <1>10, <1>11, <1>12, <1>13 DEF MomentsInv

-----------------------------------------------------------------------------
(* What a drawing tells *)

\* These moments are of the snapshot drawn, and new.
New(moments) == moments \subseteq MomentsOf(server) /\ moments \cap told = {}

\* An auction seen in a snapshot that was coinched is remembered as coinched.
LEMMA SeenIs ==
  ASSUME MomentsInv
  PROVE  /\ AuctionSeen(server).dealer = Dealer(server)
         /\ AuctionSeen(server) # None
         /\ AuctionSeen(server) \in [round : 1..Rounds, dealer : 0..(Dealers - 1), coinched : BOOLEAN]
         /\ server.coinched \/ CoincheSeen => AuctionSeen(server).coinched
<1>1. server \in Snapshot /\ Dealers \in Nat \ {0} /\ Rounds \in Nat
  BY MomentsAssumption DEF MomentsInv, Types, Given
<1>2. server.round \in 1..Rounds /\ server.coinched \in BOOLEAN BY <1>1 DEF Snapshot
<1>3. Dealer(server) \in 0..(Dealers - 1) BY <1>1, <1>2 DEF Dealer
<1>4. /\ AuctionSeen(server).round = server.round
      /\ AuctionSeen(server).dealer = Dealer(server)
      /\ AuctionSeen(server).coinched = (server.coinched \/ (auction # None /\ auction.dealer = Dealer(server) /\ auction.coinched))
  BY DEF AuctionSeen
<1>5. AuctionSeen(server).coinched = (server.coinched \/ CoincheSeen) BY <1>4 DEF CoincheSeen
<1>6. None.round = 0 BY DEF None
<1>7. AuctionSeen(server) # None BY <1>1, <1>2, <1>4, <1>6
<1>8. CoincheSeen \in BOOLEAN
  BY DEF CoincheSeen, MomentsInv, Types
<1>9. AuctionSeen(server) \in [round : 1..Rounds, dealer : 0..(Dealers - 1), coinched : BOOLEAN]
  BY <1>2, <1>3, <1>8 DEF AuctionSeen, CoincheSeen
<1> QED BY <1>4, <1>5, <1>7, <1>9

\* A coinche is told of an auction that was not seen coinched.
LEMMA AuctionTells ==
  ASSUME MomentsInv
  PROVE  /\ AuctionEvents(server) \subseteq {<<"coinche", server.round>>}
         /\ AuctionEvents(server) # {} => server.coinched /\ ~CoincheSeen
         /\ New(AuctionEvents(server))
<1>1. /\ AuctionEvents(server) \subseteq {<<"coinche", server.round>>}
      /\ AuctionEvents(server) # {} => server.coinched /\ auction # None /\ ~CoincheSeen
  BY DEF AuctionEvents, CoincheSeen
<1>2. server.coinched => <<"coinche", server.round>> \in MomentsOf(server) BY MomentsAre
<1>3. server.round \in Nat BY TrickNumber DEF MomentsInv, Types
<1>4. auction # None /\ ~CoincheSeen => <<"coinche", server.round>> \notin told
  BY <1>3 DEF MomentsInv, CoincheTold
<1> QED BY <1>1, <1>2, <1>4 DEF New

\* On the board, what happened since the board before, which is not this one.
LEMMA BoardTells ==
  ASSUME MomentsInv, NEW m \in BoardEvents(server, AuctionSeen(server))
  PROVE  /\ server.stage # "auction" /\ board # None /\ board # server
         /\ \/ Reviewing(server) /\ m = <<"trick", TrickRank(server)>>
            \/ server.stage = "result" /\ m = <<"round", server.round>>
            \/ server.stage = "result" /\ server.complete /\ m = <<"match", server.round>>
<1> DEFINE seen == AuctionSeen(server)
           continuing == SameRound(board, server)
           ended == server.stage = "result" /\ (continuing => board.stage # "result")
           trick == /\ continuing /\ Reviewing(server)
                    /\ Reviewing(board) => board.tricks # server.tricks
<1>1. server.stage # "auction" BY DEF BoardEvents
<1>2. seen.dealer = Dealer(server) /\ (server.coinched => seen.coinched) BY SeenIs
<1>3. m \in BotEvents(board, server) BY <1>1, <1>2 DEF BoardEvents
<1>4. board # None BY <1>3 DEF BotEvents
<1>5. \/ trick /\ m = <<"trick", TrickRank(server)>>
      \/ ended /\ m = <<"round", server.round>>
      \/ ended /\ server.complete /\ m = <<"match", server.round>>
  BY <1>3, <1>4 DEF BotEvents
<1>6. server.tricks \in Int BY TrickNumber DEF MomentsInv, Types
<1>7. board = server => ~trick /\ ~ended BY <1>6 DEF SameRound
<1> QED BY <1>1, <1>4, <1>5, <1>7

\* All that is told of the board is of this board and new.
LEMMA BoardTellsNew ==
  ASSUME MomentsInv
  PROVE  New(BoardEvents(server, AuctionSeen(server)))
<1> SUFFICES ASSUME NEW m \in BoardEvents(server, AuctionSeen(server))
             PROVE  m \in MomentsOf(server) /\ m \notin told
  BY DEF New
<1>1. TrickRank(server) \in Nat /\ server.round \in Nat BY TrickNumber DEF MomentsInv, Types
<1>2. PICK k \in {"trick", "round", "match"}, n \in Nat : m = <<k, n>> /\ <<k, n>> \in MomentsOf(server)
  <2>1. CASE Reviewing(server) /\ m = <<"trick", TrickRank(server)>> BY <1>1, <2>1, MomentsAre
  <2>2. CASE server.stage = "result" /\ m = <<"round", server.round>> BY <1>1, <2>2, MomentsAre
  <2>3. CASE server.complete /\ m = <<"match", server.round>> BY <1>1, <2>3, MomentsAre
  <2> QED BY <2>1, <2>2, <2>3, BoardTells
<1>3. board \notin {None, server} BY BoardTells
<1> QED BY <1>2, <1>3 DEF MomentsInv, BoardTold

\* The watcher tells of the declaration on the snapshot, after a message it had not heard.
LEMMA StickerTells ==
  ASSUME MomentsInv, NEW team
  PROVE  New(Sticker(server, team))
<1> SUFFICES ASSUME Sticker(server, team) # {}
             PROVE  New(Sticker(server, team))
  BY DEF New
<1> DEFINE heard == Heard(server)
<1>1. Watched(server, team) # heard /\ Sticker(server, team) = {<<"belote", 3 * server.round + heard.pending[1]>>}
  BY DEF Sticker
<1>2. watcher.seen /\ heard.pending # NoMessage BY <1>1 DEF Watched
<1>3. watcher \in [seen : BOOLEAN, last : Messages, pending : Messages] BY DEF MomentsInv, Types
<1>4. heard.last = Message(server) /\ heard.pending = Message(server)
  <2>1. CASE Message(server) = watcher.last
    <3>1. heard = watcher BY <1>2, <2>1 DEF Heard
    <3> QED BY <1>2, <2>1, <3>1 DEF MomentsInv, BeloteTold
  <2>2. CASE Message(server) # watcher.last
    <3>1. heard = [watcher EXCEPT !.last = Message(server), !.pending = Message(server)]
      BY <1>2, <2>2 DEF Heard
    <3> QED BY <1>3, <3>1
  <2> QED BY <2>1, <2>2
<1>5. server.belote \in 0..2 /\ server.round \in Nat
  BY TrickNumber DEF MomentsInv, Types, Given, Snapshot
<1>6. server.belote > 0 /\ heard.pending[1] = server.belote
  BY <1>2, <1>4, <1>5 DEF Message
<1>7. <<"belote", 3 * server.round + server.belote>> \in MomentsOf(server) BY <1>6, MomentsAre
<1>8. <<"belote", 3 * server.round + server.belote>> \notin told
  <2> SUFFICES ASSUME <<"belote", 3 * server.round + server.belote>> \in told PROVE FALSE
    OBVIOUS
  <2>1. 3 * server.round + server.belote \in Nat BY <1>5
  <2>2. watcher.last = Message(server) /\ watcher.pending = NoMessage
    BY <1>2, <2>1 DEF MomentsInv, BeloteTold
  <2>3. heard = watcher BY <1>2, <2>2 DEF Heard
  <2> QED BY <1>2, <2>2, <2>3
<1> QED BY <1>1, <1>6, <1>7, <1>8 DEF New

\* After a drawing nothing waits if the declaration on the snapshot was told.
LEMMA WatchedKeeps ==
  ASSUME MomentsInv, NEW team
  PROVE  /\ Watched(server, team) \in [seen : BOOLEAN, last : Messages, pending : Messages]
         /\ Watched(server, team).pending \in {NoMessage, Watched(server, team).last}
         /\ ~Watched(server, team).seen => Watched(server, team).pending = NoMessage
         /\ \A n \in Nat : <<"belote", n>> \in told \cup Sticker(server, team)
                             /\ Watched(server, team).seen =>
              /\ Watched(server, team).last = Message(server)
              /\ Watched(server, team).pending = NoMessage
<1> DEFINE heard == Heard(server)
           w == Watched(server, team)
<1>1. watcher \in [seen : BOOLEAN, last : Messages, pending : Messages] BY DEF MomentsInv, Types
<1>2. Message(server) \in Messages /\ NoMessage \in Messages
  <2>1. server.belote \in 0..2 /\ server.declarer \in {0, 1}
    BY DEF MomentsInv, Types, Given, Snapshot
  <2> QED BY <2>1 DEF Message, Messages
<1>3. CASE ~watcher.seen
  <2>1. heard = [watcher EXCEPT !.seen = TRUE, !.last = Message(server)] BY <1>3 DEF Heard
  <2>2. w = heard BY <1>3 DEF Watched
  <2>3. Sticker(server, team) = {} BY <2>2 DEF Sticker
  <2>4. watcher.pending = NoMessage BY <1>3 DEF MomentsInv, BeloteTold
  <2>5. heard = [seen |-> TRUE, last |-> Message(server), pending |-> NoMessage]
    BY <1>1, <2>1, <2>4
  <2> QED BY <1>2, <2>2, <2>5
<1>4. CASE watcher.seen
  <2>1. heard \in [seen : BOOLEAN, last : Messages, pending : Messages] /\ heard.seen
    BY <1>1, <1>2, <1>4 DEF Heard
  <2>2. heard.last = Message(server) /\ heard.pending \in {NoMessage, Message(server)}
    BY <1>1, <1>4 DEF Heard, MomentsInv, BeloteTold
  <2>3. w \in {heard, [heard EXCEPT !.pending = NoMessage]} BY DEF Watched
  <2>4. w \in [seen : BOOLEAN, last : Messages, pending : Messages] /\ w.last = Message(server)
        /\ w.pending \in {NoMessage, Message(server)} /\ w.seen
    BY <1>2, <2>1, <2>2, <2>3
  <2>5. ASSUME NEW n \in Nat, <<"belote", n>> \in told PROVE w.pending = NoMessage
    <3>1. watcher.last = Message(server) /\ watcher.pending = NoMessage
      BY <1>4, <2>5 DEF MomentsInv, BeloteTold
    <3>2. heard = watcher BY <1>4, <3>1 DEF Heard
    <3> QED BY <1>1, <2>1, <2>3, <3>1, <3>2
  <2>6. ASSUME Sticker(server, team) # {} PROVE w.pending = NoMessage
    <3>1. w # heard BY <2>6 DEF Sticker
    <3> QED BY <2>1, <2>3, <3>1
  <2> QED BY <2>4, <2>5, <2>6
<1> QED BY <1>3, <1>4

\* The cards of the same trick in an earlier snapshot are a prefix of those in a later one.
LEMMA EarlierIsAPrefix ==
  ASSUME NEW s, NEW t, Given(s), Given(t), Trick(s) = Trick(t), s.cards <= t.cards
  PROVE  /\ Len(TrickOf(s)) = s.cards /\ Len(TrickOf(s)) <= Len(TrickOf(t))
         /\ TrickOf(s) = SubSeq(TrickOf(t), 1, Len(TrickOf(s)))
<1>1. s.cards \in Nat /\ t.cards \in Nat /\ Cards \in Nat /\ Trick(s) \in Int
  BY TrickNumber, MomentsAssumption DEF Given, Snapshot
<1> DEFINE x == Trick(s) * (Cards + 1)
           card(i) == x + i
<1>2. x \in Int BY <1>1
<1>3. TrickOf(s) = [i \in 1..s.cards |-> card(i)] /\ TrickOf(t) = [i \in 1..t.cards |-> card(i)]
  BY DEF TrickOf, Trick
<1> HIDE DEF x
<1>4. TrickOf(s) \in Seq(Int) /\ Len(TrickOf(s)) = s.cards
  BY <1>1, <1>2, <1>3
<1>5. TrickOf(t) \in Seq(Int) /\ Len(TrickOf(t)) = t.cards
  BY <1>1, <1>2, <1>3
<1>6. SubSeq(TrickOf(t), 1, s.cards) = [i \in 1..s.cards |-> TrickOf(t)[i]]
  BY <1>1, <1>5, SubSeqProperties
<1>7. \A i \in 1..s.cards : TrickOf(t)[i] = TrickOf(s)[i] BY <1>1, <1>3
<1>8. TrickOf(s) = [i \in 1..s.cards |-> TrickOf(s)[i]] BY <1>3
<1>9. SubSeq(TrickOf(t), 1, s.cards) = TrickOf(s)
  <2> DEFINE a == TrickOf(s)
             b == TrickOf(t)
  <2>1. \A i \in 1..s.cards : b[i] = a[i] BY <1>7
  <2> HIDE DEF a, b
  <2>2. [i \in 1..s.cards |-> b[i]] = [i \in 1..s.cards |-> a[i]] BY <2>1
  <2> QED BY <1>6, <1>8, <2>2 DEF a, b
<1> QED BY <1>1, <1>4, <1>5, <1>9

\* Of the snapshot spoken last, only what is new is spoken.
LEMMA SpokenTells ==
  ASSUME MomentsInv
  PROVE  /\ New(Spoken(view, server))
         /\ \A m \in Spoken(view, server) :
              \E k \in {"cardSpoken", "trickSpoken", "roundSpoken", "matchSpoken"} :
                \E n : m = <<k, n>>
<1> SUFFICES ASSUME NEW m \in Spoken(view, server)
             PROVE  /\ m \in MomentsOf(server) /\ m \notin told
                    /\ \E k \in {"cardSpoken", "trickSpoken", "roundSpoken", "matchSpoken"} :
                         \E n : m = <<k, n>>
  BY DEF New
<1> DEFINE was == TrickOf(view)
           is == TrickOf(server)
           extension == Len(was) <= Len(is) /\ was = SubSeq(is, 1, Len(was))
           trick == Reviewing(server) /\ (Reviewing(view) => view.tricks # server.tricks)
           round == server.stage = "result" /\ view.stage # "result"
           match == server.complete /\ ~view.complete
           fresh == {<<"cardSpoken", is[i]>> : i \in {j \in DOMAIN is : extension => j > Len(was)}}
<1>1. view # None BY DEF Spoken
<1>2. \/ m \in fresh
      \/ trick /\ m = <<"trickSpoken", TrickRank(server)>>
      \/ round /\ m = <<"roundSpoken", server.round>>
      \/ match /\ m = <<"matchSpoken", server.round>>
  BY <1>1 DEF Spoken
<1>3. Given(view) /\ Given(server) BY <1>1 DEF MomentsInv, Types
<1>4. TrickRank(server) \in Nat /\ server.round \in Nat BY <1>3, TrickNumber
<1>5. CASE m \in fresh
  <2>1. PICK i \in DOMAIN is : m = <<"cardSpoken", is[i]>> /\ (extension => i > Len(was))
    BY <1>5
  <2>2. i \in 1..server.cards BY DEF TrickOf
  <2>3. m = <<"cardSpoken", CardAt(server, i)>> BY <2>1 DEF CardAt
  <2>4. m \in MomentsOf(server) BY <2>2, <2>3, MomentsAre
  <2>5. ASSUME m \in told PROVE FALSE
    <3>1. Trick(view) = Trick(server) /\ i <= view.cards
      BY <1>1, <2>2, <2>3, <2>5 DEF MomentsInv, CardsTold
    <3>2. Trick(view) \in Int BY <1>3, TrickNumber
    <3>3. view.cards <= server.cards BY <1>1, <3>1, <3>2 DEF MomentsInv, ViewIsPast
    <3>4. Len(was) = view.cards /\ extension BY <1>3, <3>1, <3>3, EarlierIsAPrefix
    <3>5. view.cards \in Nat /\ i \in Nat
      BY <1>3, <2>2, MomentsAssumption DEF Given, Snapshot
    <3> QED BY <2>1, <3>1, <3>4, <3>5
  <2> QED BY <2>3, <2>4, <2>5
<1>6. CASE m \notin fresh
  <2>1. view # server
    <3>1. server.tricks \in Int BY <1>3, TrickNumber
    <3> QED BY <1>2, <1>6, <3>1
  <2>2. PICK k \in {"trickSpoken", "roundSpoken", "matchSpoken"}, n \in Nat :
          m = <<k, n>> /\ <<k, n>> \in MomentsOf(server)
    <3>1. CASE trick /\ m = <<"trickSpoken", TrickRank(server)>> BY <1>4, <3>1, MomentsAre
    <3>2. CASE round /\ m = <<"roundSpoken", server.round>> BY <1>4, <3>2, MomentsAre
    <3>3. CASE match /\ m = <<"matchSpoken", server.round>> BY <1>4, <3>3, MomentsAre
    <3> QED BY <1>2, <1>6, <3>1, <3>2, <3>3
  <2> QED BY <1>1, <2>1, <2>2 DEF MomentsInv, EndsTold
<1> QED BY <1>5, <1>6

-----------------------------------------------------------------------------
(* The bots' lines *)

\* A line on a coinche or on the end of a round is said when no other was.
LEMMA LineSays ==
  ASSUME NEW c, NEW events, NEW big, NEW l \in {"coinche", "round"}, LineFor(c, events, big) = l
  PROVE  ~c.shown /\ l \in Kinds(events)
BY DEF LineFor

\* A drawing says one such line at most, and after it none but at the end of a round.
LEMMA LinesSaid ==
  ASSUME MomentsInv, NEW big \in BOOLEAN,
         NEW first, first = AuctionEvents(server),
         NEW second, second = BoardEvents(server, AuctionSeen(server)),
         NEW c, c = Commented(comment, first, big),
         NEW said, said = <<LineFor(comment, first, big), LineFor(c, second, big)>>,
         NEW count, count = Cardinality({i \in {1, 2} : said[i] \in {"coinche", "round"}})
  PROVE  /\ count \in {0, 1}
         /\ Commented(c, second, big) \in [shown : BOOLEAN, trickShown : BOOLEAN]
         /\ lines.round = server.round /\ lines.said = 1 => count = 0
         /\ (lines.round = server.round /\ lines.said = 1) \/ count = 1 =>
              Commented(c, second, big).shown \/ server.stage = "result"
<1>1. comment \in [shown : BOOLEAN, trickShown : BOOLEAN] BY DEF MomentsInv, Types
<1>2. Kinds(first) \subseteq {"coinche"} /\ (first = {} => Kinds(first) = {})
  BY AuctionTells DEF Kinds
<1>3. Kinds(second) \subseteq {"trick", "round", "match"} /\ (second = {} => Kinds(second) = {})
  BY BoardTells DEF Kinds
<1>4. Kinds(second) \cap {"round", "match"} # {} => server.stage = "result"
  BY BoardTells DEF Kinds
<1>5. /\ c.shown = (comment.shown \/ said[1] = "coinche") /\ c.shown \in BOOLEAN
      /\ c.trickShown \in BOOLEAN
  BY <1>1, <1>2 DEF Commented
<1>6. said[1] \in {"coinche", "round"} => said[1] = "coinche" /\ ~comment.shown /\ first # {}
  BY <1>2, LineSays
<1>7. said[2] \in {"coinche", "round"} =>
        said[2] = "round" /\ ~c.shown /\ "round" \in Kinds(second) /\ second # {}
  BY <1>3, LineSays
<1>8. /\ Commented(c, second, big).shown
           = (Kinds(second) \cap {"round", "match"} = {} /\ (c.shown \/ said[2] = "coinche"))
      /\ Commented(c, second, big) \in [shown : BOOLEAN, trickShown : BOOLEAN]
  BY <1>5 DEF Commented
<1> DEFINE counted == {i \in {1, 2} : said[i] \in {"coinche", "round"}}
<1>9. \/ counted = {} /\ said[1] # "coinche" /\ count = 0
      \/ counted = {1} /\ said[1] = "coinche" /\ count = 1
      \/ counted = {2} /\ said[2] = "round" /\ count = 1
  <2>1. Cardinality({}) = 0 /\ Cardinality({1}) = 1 /\ Cardinality({2}) = 1
    BY FS_EmptySet, FS_Singleton
  <2>2. counted = {} \/ counted = {1} \/ counted = {2} BY <1>5, <1>6, <1>7
  <2>3. CASE counted = {} BY <2>1, <2>3
  <2>4. CASE counted = {1} BY <1>6, <2>1, <2>4
  <2>5. CASE counted = {2} BY <1>7, <2>1, <2>5
  <2> QED BY <2>2, <2>3, <2>4, <2>5
<1>10. ASSUME lines.round = server.round, lines.said = 1
       PROVE  count = 0 /\ (comment.shown \/ server.stage = "result")
  <2>1. CASE comment.shown BY <1>5, <1>6, <1>7, <1>9, <2>1
  <2>2. CASE server.stage = "result" /\ board = server /\ (server.coinched => CoincheSeen)
    <3>1. first = {} BY <2>2, AuctionTells
    <3>2. second = {} BY <2>2, BoardTells
    <3> QED BY <1>6, <1>7, <1>9, <2>2, <3>1, <3>2
  <2> QED BY <1>10, <2>1, <2>2 DEF MomentsInv, LinesOK
<1>11. ASSUME count = 1 PROVE c.shown \/ server.stage = "result"
  <2>1. CASE said[1] = "coinche" BY <1>5, <2>1
  <2>2. CASE said[2] = "round"
    <3>1. "round" \in Kinds(second) BY <1>7, <2>2
    <3> QED BY <1>4, <3>1
  <2> QED BY <1>9, <1>11, <2>1, <2>2
<1>12. c.shown => Commented(c, second, big).shown \/ server.stage = "result"
  BY <1>4, <1>8
<1> QED BY <1>5, <1>8, <1>9, <1>10, <1>11, <1>12

-----------------------------------------------------------------------------
(* The tab *)

\* What a drawing tells is of the snapshot drawn and new, and what it changes is remembered.
LEMMA DrawKeeps == MomentsInv /\ Draw => MomentsInv'
<1> SUFFICES ASSUME MomentsInv, Draw PROVE MomentsInv'
  OBVIOUS
<1> DEFINE seen == AuctionSeen(server)
           playing == server.stage # "auction"
           greeting == IF Greeting(server) /\ ~hello THEN {<<"greeting", 1>>} ELSE {}
           first == AuctionEvents(server)
           second == BoardEvents(server, seen)
           sticker(team) == IF playing THEN Sticker(server, team) ELSE {}
           spoken == Spoken(view, server)
           moments(team) == greeting \cup first \cup second \cup sticker(team) \cup spoken
<1>1. PICK team \in {0, 1}, big \in BOOLEAN :
        /\ auction' = seen
        /\ board' = IF playing THEN server ELSE board
        /\ greeted' = TRUE
        /\ hello' = (hello \/ Greeting(server))
        /\ Comment(server, first, second, big)
        /\ watcher' = IF playing THEN Watched(server, team) ELSE watcher
        /\ view' = server
        /\ Tell(moments(team))
  BY Zenon DEF Draw
<1>2. server' = server /\ atTable' = atTable BY DEF Draw
<1>3. Given(server) /\ server.round \in Nat BY TrickNumber DEF MomentsInv, Types
<1>4. New(greeting)
  <2>1. <<"greeting", 1>> \in MomentsOf(server) BY MomentsAre
  <2>2. ~hello => <<"greeting", 1>> \notin told BY DEF MomentsInv, GreetingTold
  <2> QED BY <2>1, <2>2 DEF New
<1>5. New(first) /\ New(second) /\ New(sticker(team)) /\ New(spoken)
  <2>1. New({}) BY DEF New
  <2> QED BY <2>1, AuctionTells, BoardTellsNew, StickerTells, SpokenTells
<1>6. New(moments(team))
  <2> HIDE DEF greeting, first, second, sticker, spoken
  <2> QED BY <1>4, <1>5 DEF New
<1>7. told' = told \cup moments(team) /\ wrong' = FALSE
  <2> HIDE DEF moments
  <2> QED BY <1>1, <1>6 DEF Tell, New, MomentsInv
<1>8. told' \subseteq MomentsOf(server')
  <2> HIDE DEF moments
  <2> QED BY <1>2, <1>6, <1>7 DEF New, MomentsInv, Types
<1>9. \A m \in moments(team) : \/ m = <<"greeting", 1>> /\ Greeting(server)
                               \/ m \in sticker(team)
                               \/ m[1] \notin {"greeting", "belote"}
  <2> SUFFICES ASSUME NEW m \in moments(team), m \notin greeting, m \notin sticker(team)
               PROVE  m[1] \notin {"greeting", "belote"}
    OBVIOUS
  <2>1. CASE m \in first BY <2>1, AuctionTells
  <2>2. CASE m \in second BY <2>2, BoardTells
  <2>3. CASE m \in spoken BY <2>3, SpokenTells
  <2> QED BY <2>1, <2>2, <2>3
<1>10. /\ auction' \in [round : 1..Rounds, dealer : 0..(Dealers - 1), coinched : BOOLEAN]
       /\ auction' # None /\ auction'.dealer = Dealer(server')
       /\ server.coinched => auction'.coinched
  BY <1>1, <1>2, SeenIs
<1>11. server.coinched => CoincheSeen' BY <1>10 DEF CoincheSeen
<1>12. PICK c, said, count :
         /\ c = Commented(comment, first, big)
         /\ said = <<LineFor(comment, first, big), LineFor(c, second, big)>>
         /\ count = Cardinality({i \in {1, 2} : said[i] \in {"coinche", "round"}})
         /\ comment' = Commented(c, second, big)
         /\ lines' = [round |-> server.round,
                      said |-> (IF lines.round = server.round THEN lines.said ELSE 0) + count]
  BY <1>1 DEF Comment
<1>13. /\ count \in {0, 1} /\ comment' \in [shown : BOOLEAN, trickShown : BOOLEAN]
       /\ lines.round = server.round /\ lines.said = 1 => count = 0
       /\ (lines.round = server.round /\ lines.said = 1) \/ count = 1 =>
            comment'.shown \/ server.stage = "result"
  <2> HIDE DEF first, second
  <2> QED BY <1>12, LinesSaid DEF first, second
<1>14. lines \in [round : 0..Rounds, said : 0..1] BY DEF MomentsInv, Types
<1>15. /\ lines'.round = server.round /\ lines'.said \in 0..1
       /\ lines'.said = 1 => comment'.shown \/ server.stage = "result"
  BY <1>12, <1>13, <1>14
<1>16. Types'
  <2>1. server.round \in 1..Rounds /\ MomentsAssumption
    BY <1>3, MomentsAssumption DEF Given, Snapshot
  <2>2. lines' \in [round : 0..Rounds, said : 0..1]
    BY <1>3, <1>12, <1>15, <2>1 DEF MomentsAssumption
  <2>3. watcher' \in [seen : BOOLEAN, last : Messages, pending : Messages]
    BY <1>1, WatchedKeeps DEF MomentsInv, Types
  <2>4. {atTable', greeted', hello'} \subseteq BOOLEAN
    BY <1>1, <1>2 DEF MomentsInv, Types, Greeting
  <2>5. Given(server') /\ board' \in Snapshot \cup {None} /\ (view' = None \/ Given(view'))
    BY <1>1, <1>2, <1>3 DEF MomentsInv, Types, Given
  <2> QED BY <1>8, <1>10, <1>13, <2>2, <2>3, <2>4, <2>5 DEF Types
<1>17. BoardTold'
  <2> SUFFICES ASSUME NEW k \in {"trick", "round", "match"}, NEW n, <<k, n>> \in told'
               PROVE  board' = server'
    BY DEF BoardTold
  <2>1. Reviewing(server) \/ server.stage = "result" BY <1>2, <1>3, <1>8, MomentSays DEF Given
  <2>2. playing BY <1>3, <2>1, MomentsAssumption DEF Given, Reviewing
  <2> QED BY <1>1, <1>2, <2>2
<1>18. CoincheTold' BY <1>2, <1>8, <1>11, MomentSays DEF CoincheTold
<1>19. GreetingTold'
  <2> SUFFICES ASSUME <<"greeting", 1>> \in told' PROVE hello'
    BY DEF GreetingTold
  <2>1. CASE <<"greeting", 1>> \in told BY <1>1, <2>1 DEF MomentsInv, GreetingTold
  <2>2. CASE <<"greeting", 1>> \in moments(team)
    <3>1. <<"greeting", 1>> \notin sticker(team) BY DEF Sticker
    <3> HIDE DEF moments, sticker
    <3> QED BY <1>1, <1>9, <2>2, <3>1
  <2> QED BY <1>7, <2>1, <2>2
<1>20. BeloteTold'
  <2>1. ASSUME NEW n, <<"belote", n>> \in told' PROVE playing /\ <<"belote", n>> \in told \cup sticker(team)
    <3>1. server.belote > 0 BY <1>2, <1>8, <2>1, MomentSays
    <3>2. playing BY <1>3, <3>1 DEF Given
    <3> HIDE DEF moments, sticker, playing
    <3> QED BY <1>7, <1>9, <2>1, <3>2
  <2>2. CASE playing
    <3>1. watcher' = Watched(server, team) /\ sticker(team) = Sticker(server, team) BY <1>1, <2>2
    <3> HIDE DEF sticker
    <3> QED BY <1>2, <2>1, <3>1, WatchedKeeps DEF BeloteTold
  <2>3. CASE ~playing
    <3>1. watcher' = watcher BY <1>1, <2>3
    <3> QED BY <2>1, <2>3, <3>1 DEF BeloteTold, MomentsInv
  <2> QED BY <2>2, <2>3
<1>21. ViewIsPast'
  <2>1. server.cards \in Int /\ Trick(server) \in Int
    BY <1>3, TrickNumber, MomentsAssumption DEF Given, Snapshot
  <2> QED BY <1>1, <1>2, <2>1 DEF ViewIsPast
<1>22. CardsTold'
  <2>1. server.cards \in Int BY <1>3, MomentsAssumption DEF Given, Snapshot
  <2> QED BY <1>1, <1>2, <2>1 DEF CardsTold
<1>23. EndsTold' BY <1>1, <1>2 DEF EndsTold
<1>24. LinesOK'
  <2>1. server.stage = "result" => board' = server' BY <1>1, <1>2
  <2> QED BY <1>2, <1>3, <1>11, <1>15, <2>1 DEF LinesOK
<1> QED
  BY <1>7, <1>16, <1>17, <1>18, <1>19, <1>20, <1>21, <1>22, <1>23, <1>24 DEF MomentsInv

\* A new visit remembers no board, no auction and no line, so it tells nothing of them at first.
LEMMA VisitKeeps ==
  ASSUME MomentsInv, NewVisit, UNCHANGED <<server, hello, told, wrong>>, atTable' \in BOOLEAN,
         (UNCHANGED <<watcher, view>>) \/ (watcher' = NewWatcher /\ view' = None)
  PROVE  MomentsInv'
<1>1. /\ server' = server /\ hello' = hello /\ told' = told /\ wrong' = wrong
      /\ board' = None /\ auction' = None /\ greeted' = FALSE
      /\ comment' = [shown |-> FALSE, trickShown |-> FALSE]
      /\ lines' = [round |-> 0, said |-> 0]
  BY DEF NewVisit
<1>2. Given(server) /\ Rounds \in Nat BY MomentsAssumption DEF MomentsInv, Types
<1>3. server.round \in Nat /\ server.round > 0 BY <1>2 DEF Given, Snapshot
<1>4. NewWatcher \in [seen : BOOLEAN, last : Messages, pending : Messages]
  BY DEF NewWatcher, Messages
<1>5. Types'
  <2>1. lines' \in [round : 0..Rounds, said : 0..1] BY <1>1, <1>2
  <2>2. comment' \in [shown : BOOLEAN, trickShown : BOOLEAN] BY <1>1
  <2>3. watcher' \in [seen : BOOLEAN, last : Messages, pending : Messages]
    BY <1>4 DEF MomentsInv, Types
  <2>4. {atTable', greeted', hello'} \subseteq BOOLEAN BY <1>1 DEF MomentsInv, Types
  <2>5. Given(server') /\ (view' = None \/ Given(view')) /\ told' \subseteq MomentsOf(server')
    BY <1>1 DEF MomentsInv, Types
  <2> QED BY <1>1, <2>1, <2>2, <2>3, <2>4, <2>5 DEF Types
<1>6. BoardTold' /\ CoincheTold' /\ GreetingTold'
  BY <1>1 DEF MomentsInv, BoardTold, CoincheTold, GreetingTold
<1>7. LinesOK' BY <1>1, <1>3 DEF LinesOK
<1>8. CASE UNCHANGED <<watcher, view>>
  <2>1. BeloteTold' /\ ViewIsPast' /\ CardsTold' /\ EndsTold'
    BY <1>1, <1>8 DEF MomentsInv, BeloteTold, ViewIsPast, CardsTold, EndsTold
  <2> QED BY <1>1, <1>5, <1>6, <1>7, <2>1 DEF MomentsInv
<1>9. CASE watcher' = NewWatcher /\ view' = None
  <2>1. BeloteTold' BY <1>9 DEF BeloteTold, NewWatcher
  <2>2. ViewIsPast' /\ CardsTold' /\ EndsTold' BY <1>9 DEF ViewIsPast, CardsTold, EndsTold
  <2> QED BY <1>1, <1>5, <1>6, <1>7, <2>1, <2>2 DEF MomentsInv
<1> QED BY <1>8, <1>9

\* The game starts with nothing told.
LEMMA InitTold == Init => MomentsInv
<1> SUFFICES ASSUME Init PROVE MomentsInv
  OBVIOUS
<1>1. MomentsAssumption /\ Rounds \in Nat \ {0} /\ Tricks \in Nat \ {0} /\ Cards \in Nat \ {0}
  BY MomentsAssumption
<1>2. Given(server) BY <1>1 DEF Init, Start, Given, Snapshot
<1>3. NewWatcher \in [seen : BOOLEAN, last : Messages, pending : Messages]
  BY DEF NewWatcher, Messages
<1>4. Types
  <2>1. lines \in [round : 0..Rounds, said : 0..1] BY <1>1 DEF Init
  <2>2. comment \in [shown : BOOLEAN, trickShown : BOOLEAN] BY DEF Init
  <2> QED BY <1>2, <1>3, <2>1, <2>2 DEF Init, Types
<1>5. BoardTold /\ CoincheTold /\ GreetingTold /\ BeloteTold /\ ViewIsPast /\ CardsTold /\ EndsTold
  BY DEF Init, BoardTold, CoincheTold, GreetingTold, BeloteTold, ViewIsPast, CardsTold, EndsTold,
         NewWatcher
<1>6. LinesOK BY DEF Init, Start, LinesOK
<1> QED BY <1>4, <1>5, <1>6 DEF Init, MomentsInv

\* The invariant of the told moments: what was told is remembered as long as the snapshot it was
\* told of lasts, by the visit, by the page or by the session storage.
THEOREM MomentsInvariance == Spec => []MomentsInv
<1>1. MomentsInv /\ [Next]_vars => MomentsInv'
  <2> SUFFICES ASSUME MomentsInv, [Next]_vars PROVE MomentsInv'
    OBVIOUS
  <2>1. CASE Play BY <2>1, PlayKeeps
  <2>2. CASE Draw BY <2>2, DrawKeeps
  <2>3. CASE Come
    <3>1. atTable' \in BOOLEAN BY <2>3 DEF Come
    <3> QED BY <2>3, <3>1, VisitKeeps DEF Come, pageVars, toldVars
  <2>4. CASE Reload
    <3>1. atTable' \in BOOLEAN BY <2>4 DEF Reload, MomentsInv, Types
    <3> QED BY <2>4, <3>1, VisitKeeps DEF Reload, toldVars
  <2>5. CASE UNCHANGED vars
    <3>1. UNCHANGED <<server, atTable, board, auction, greeted, comment, lines, watcher, view,
                      hello, told, wrong>>
      BY <2>5 DEF vars, visitVars, pageVars, toldVars
    <3> QED
      BY <3>1 DEF MomentsInv, Types, BoardTold, CoincheTold, CoincheSeen, GreetingTold, BeloteTold,
                  ViewIsPast, CardsTold, EndsTold, LinesOK
  <2> QED BY <2>1, <2>2, <2>3, <2>4, <2>5 DEF Next
<1> QED BY <1>1, InitTold, PTL DEF Spec

\* For every number of dealers, rounds, tricks and cards, and whatever is skipped, drawn twice,
\* left and come back to or reloaded: every moment is told once, of a snapshot that holds it, and
\* the bots say at most one line on a round.
THEOREM MomentsAreToldOnce == Spec => []EachMomentIsToldOnce
<1>1. MomentsInv => EachMomentIsToldOnce
  <2> SUFFICES ASSUME MomentsInv PROVE EachMomentIsToldOnce
    OBVIOUS
  <2>1. lines \in [round : 0..Rounds, said : 0..1] BY DEF MomentsInv, Types
  <2>2. lines \in [round : 0..Rounds, said : Nat] /\ lines.said <= 1 BY <2>1
  <2>3. TypeOK BY <2>2 DEF MomentsInv, Types, Given, TypeOK
  <2> QED BY <2>2, <2>3 DEF MomentsInv, EachMomentIsToldOnce, TellsEachMomentOnce, OneLineEachRound
<1> QED BY <1>1, MomentsInvariance, PTL

-----------------------------------------------------------------------------
(* The invariant of the history and the sheets *)

Tab ==
  [entries : Seq(Entry), at : Nat, open : OpenSheets, mode : Modes, pendingBack : Nat,
   queue : Seq({"own", "back", "forward"}), shown : Paths, playing : BOOLEAN, loading : BOOLEAN]

\* The steps back of the tab's own that the browser has not taken yet.
Own(q) == {i \in 1..Len(q) : q[i] = "own"}

\* Every step back the tab waits for has an entry to leave, and is under way.
Owed(t) ==
  /\ t.at \in 1..Len(t.entries)
  /\ t.pendingBack < t.at
  /\ t.open.routed => t.pendingBack + 1 < t.at
  /\ t.pendingBack <= Cardinality(Own(t.queue))

Sound(t) == t \in Tab /\ Owed(t)

Routed(path) == RouteSheet(path) # "none"

\* The page and the sheet are those of the address.
Drawn(t) ==
  /\ t.open.then = "nothing" => t.shown = Address(t)
  /\ t.open.then # "nothing" <=> Routed(Address(t))
  /\ t.open.then # "nothing" => Routed(t.shown)
  /\ "setup" \in {t.open.sheet, t.open.then} => RouteSheet(Address(t)) = "setup"

OnTable(t, n) == n \in 1..Len(t.entries) /\ t.entries[n].path = Table

\* A sheet with an entry is on the last one, and the entry before it is the table's own.
TakesItsEntry(t) ==
  OnItsEntry(t) /\ t.at = Len(t.entries) /\ OnTable(t, t.at) /\ OnTable(t, t.at - 1)

\* The tab's own step back leads from the entry of a sheet to that of its table.
OwnUnderWay(t) ==
  /\ t.queue = <<"own">> /\ t.pendingBack = 1 /\ t.open = NoSheet
  /\ OnTable(t, t.at) /\ OnTable(t, t.at - 1)

NoneOfOwn(t) ==
  /\ t.pendingBack = 0
  /\ t.queue = <<>> \/ t.queue = <<"back">> \/ t.queue = <<"forward">>

\* The rules' address is that of a tab opened there, which was nowhere else.
NoRules(t) == \A n \in 1..Len(t.entries) : t.entries[n].path # Rules
AtRules(t) ==
  Len(t.entries) = 1 /\ t.open = HelpOfRoute /\ t.shown = Rules /\ ~t.loading

Straight(t) ==
  /\ Drawn(t)
  /\ t.open.routed => TakesItsEntry(t)
  /\ OwnUnderWay(t) \/ NoneOfOwn(t)
  /\ NoRules(t) \/ AtRules(t)

SheetsInv ==
  /\ Sound(tab) /\ Len(tab.entries) <= MaxEntries
  /\ {starting, raced} \subseteq BOOLEAN
  /\ ~raced => Straight(tab) /\ (starting => NoRules(tab))

-----------------------------------------------------------------------------
(* Operations on the history *)

Steps == {"own", "back", "forward"}

\* What the browser has to take of the tab's own grows with each step back of it.
LEMMA OwnAppended ==
  ASSUME NEW q \in Seq(Steps), NEW x \in Steps
  PROVE  /\ Cardinality(Own(q)) \in Nat
         /\ x = "own" => Cardinality(Own(Append(q, x))) = Cardinality(Own(q)) + 1
         /\ x # "own" => Cardinality(Own(Append(q, x))) = Cardinality(Own(q))
<1> DEFINE n == Len(q)
           p == Append(q, x)
<1>1. n \in Nat /\ Len(p) = n + 1 /\ p[n + 1] = x /\ \A i \in 1..n : p[i] = q[i]
  BY AppendProperties, LenProperties
<1>2. IsFiniteSet(Own(q)) /\ n + 1 \notin Own(q)
  <2>1. IsFiniteSet(1..n) BY <1>1, FS_Interval
  <2> QED BY <1>1, <2>1, FS_Subset DEF Own
<1>3. x = "own" => Own(p) = Own(q) \cup {n + 1} BY <1>1 DEF Own
<1>4. x # "own" => Own(p) = Own(q) BY <1>1 DEF Own
<1> QED BY <1>2, <1>3, <1>4, FS_AddElement, FS_CardinalityType

\* It falls by one when the browser takes one of them, and by none else.
LEMMA OwnTaken ==
  ASSUME NEW q \in Seq(Steps), q # <<>>
  PROVE  /\ Tail(q) \in Seq(Steps) /\ Head(q) \in Steps
         /\ Head(q) = "own" => Cardinality(Own(q)) = Cardinality(Own(Tail(q))) + 1
         /\ Head(q) # "own" => Cardinality(Own(q)) = Cardinality(Own(Tail(q)))
<1> DEFINE n == Len(q)
           p == Tail(q)
<1>1. n \in Nat /\ n > 0 /\ p \in Seq(Steps) /\ Len(p) = n - 1 /\ Head(q) = q[1] /\ q[1] \in Steps
      /\ \A i \in 1..(n - 1) : p[i] = q[i + 1]
  BY HeadTailProperties, LenProperties, EmptySeq, ElementOfSeq
<1> DEFINE later == Own(q) \ {1}
           f == [i \in Own(p) |-> i + 1]
<1>2. f \in Bijection(Own(p), later)
  <2>1. f \in [Own(p) -> later] BY <1>1 DEF Own
  <2>2. \A i, j \in Own(p) : f[i] = f[j] => i = j BY <1>1 DEF Own
  <2>3. \A k \in later : k - 1 \in Own(p) /\ f[k - 1] = k BY <1>1 DEF Own
  <2> QED BY <2>1, <2>2, <2>3 DEF Bijection, Injection, Surjection, IsInjective
<1>3. IsFiniteSet(Own(p)) /\ IsFiniteSet(Own(q))
  <2>1. IsFiniteSet(1..n) /\ IsFiniteSet(1..(n - 1)) BY <1>1, FS_Interval
  <2> QED BY <1>1, <2>1, FS_Subset DEF Own
<1>4. IsFiniteSet(later) /\ Cardinality(later) = Cardinality(Own(p)) BY <1>2, <1>3, FS_Bijection DEF ExistsBijection
<1>5. Head(q) # "own" => later = Own(q) BY <1>1 DEF Own
<1>6. Head(q) = "own" => Own(q) = later \cup {1} /\ 1 \notin later BY <1>1 DEF Own
<1>7. Cardinality(later \cup {1}) = Cardinality(later) + 1 BY <1>4, FS_AddElement
<1> QED BY <1>1, <1>4, <1>5, <1>6, <1>7

\* An address is one of the program's.
LEMMA HereIs ==
  ASSUME NEW t \in Tab, t.at \in 1..Len(t.entries)
  PROVE  Here(t) = t.entries[t.at] /\ Here(t) \in Entry /\ Address(t) \in Paths
<1>1. t.entries \in Seq(Entry) BY DEF Tab
<1>2. t.entries[t.at] \in Entry BY <1>1, ElementOfSeq
<1>3. t.entries[t.at].path \in Paths BY <1>2 DEF Entry
<1> QED BY <1>2, <1>3 DEF Here, Address

\* A push takes the place after the present one and drops what came after it.
LEMMA PushedIs ==
  ASSUME NEW t \in Tab, t.at \in 1..Len(t.entries), NEW e \in Entry, NEW u, u = Pushed(t, e)
  PROVE  /\ u \in Tab /\ u.at = t.at + 1 /\ Len(u.entries) = u.at /\ u.entries[u.at] = e
         /\ \A i \in 1..t.at : u.entries[i] = t.entries[i]
         /\ u.open = t.open /\ u.mode = t.mode /\ u.pendingBack = t.pendingBack
         /\ u.queue = t.queue /\ u.shown = t.shown /\ u.loading = t.loading
<1> DEFINE s == SubSeq(t.entries, 1, t.at)
<1>1. t.entries \in Seq(Entry) /\ t.at \in Nat /\ Len(t.entries) \in Nat BY LenProperties DEF Tab
<1>2. s \in Seq(Entry) /\ Len(s) = t.at /\ \A i \in 1..t.at : s[i] = t.entries[i]
  BY <1>1, SubSeqProperties
<1> HIDE DEF s
<1>3. Append(s, e) \in Seq(Entry) /\ Len(Append(s, e)) = t.at + 1 /\ Append(s, e)[t.at + 1] = e
      /\ \A i \in 1..t.at : Append(s, e)[i] = t.entries[i]
  BY <1>1, <1>2, AppendProperties
<1> DEFINE w == Append(s, e)
<1>4. u = [t EXCEPT !.entries = w, !.at = t.at + 1] BY DEF Pushed, s, Tab
<1>5. w \in Seq(Entry) /\ Len(w) = t.at + 1 /\ w[t.at + 1] = e
      /\ \A i \in 1..t.at : w[i] = t.entries[i]
  BY <1>3
<1> HIDE DEF w
<1>6. u \in Tab /\ u.at = t.at + 1 /\ u.entries = w
  <2>1. t.at + 1 \in Nat BY <1>1
  <2> DEFINE k == t.at + 1
  <2>2. u = [t EXCEPT !.entries = w, !.at = k] BY <1>4
  <2> HIDE DEF k
  <2>3. u \in Tab /\ u.at = k /\ u.entries = w BY <1>5, <2>1, <2>2 DEF Tab, k
  <2> QED BY <2>3 DEF k
<1>7. /\ u.open = t.open /\ u.mode = t.mode /\ u.pendingBack = t.pendingBack
      /\ u.queue = t.queue /\ u.shown = t.shown /\ u.loading = t.loading
  BY <1>4 DEF Tab
<1> QED BY <1>1, <1>5, <1>6, <1>7

\* A replaced entry leaves the others alone.
LEMMA ReplacedIs ==
  ASSUME NEW t \in Tab, t.at \in 1..Len(t.entries), NEW e \in Entry, NEW u, u = Replaced(t, e)
  PROVE  /\ u \in Tab /\ u.at = t.at /\ Len(u.entries) = Len(t.entries) /\ u.entries[u.at] = e
         /\ \A i \in 1..Len(t.entries) : i # t.at => u.entries[i] = t.entries[i]
         /\ u.open = t.open /\ u.mode = t.mode /\ u.pendingBack = t.pendingBack
         /\ u.queue = t.queue /\ u.shown = t.shown /\ u.loading = t.loading
<1> DEFINE w == [t.entries EXCEPT ![t.at] = e]
<1>1. t.entries \in Seq(Entry) /\ t.at \in Nat BY DEF Tab
<1>2. w \in Seq(Entry) /\ Len(w) = Len(t.entries) /\ w[t.at] = e
      /\ \A i \in 1..Len(t.entries) : i # t.at => w[i] = t.entries[i]
  BY <1>1, ExceptSeq
<1>3. u = [t EXCEPT !.entries = w] BY DEF Replaced, Tab
<1> HIDE DEF w
<1>4. u \in Tab /\ u.at = t.at /\ u.entries = w BY <1>2, <1>3 DEF Tab
<1>5. /\ u.open = t.open /\ u.mode = t.mode /\ u.pendingBack = t.pendingBack
      /\ u.queue = t.queue /\ u.shown = t.shown /\ u.loading = t.loading
  BY <1>3 DEF Tab
<1> QED BY <1>1, <1>2, <1>4, <1>5

\* The tab's own step back is one more the browser owes it.
LEMMA WentBackIs ==
  ASSUME NEW t, Sound(t), t.open.routed = FALSE, NEW u, u = WentBack(t), t.pendingBack + 1 < t.at
  PROVE  /\ Sound(u) /\ u.queue = Append(t.queue, "own") /\ u.pendingBack = t.pendingBack + 1
         /\ u.entries = t.entries /\ u.at = t.at
         /\ u.open = t.open /\ u.mode = t.mode /\ u.shown = t.shown /\ u.loading = t.loading
<1> DEFINE q == Append(t.queue, "own")
           n == t.pendingBack + 1
<1>1. t \in Tab /\ t.queue \in Seq(Steps) /\ t.pendingBack \in Nat /\ t.at \in Nat
  BY DEF Sound, Tab, Steps
<1>2. q \in Seq(Steps) /\ n \in Nat BY <1>1 DEF Steps
<1>3. u = [t EXCEPT !.queue = q, !.pendingBack = n] BY <1>1 DEF WentBack, Tab
<1>4. Cardinality(Own(q)) = Cardinality(Own(t.queue)) + 1 /\ Cardinality(Own(t.queue)) \in Nat
  BY <1>1, OwnAppended DEF Steps
<1>5. n <= Cardinality(Own(q)) BY <1>1, <1>4 DEF Sound, Owed
<1> HIDE DEF q, n
<1>6. u \in Tab /\ u.queue = q /\ u.pendingBack = n /\ u.entries = t.entries /\ u.at = t.at
      /\ u.open = t.open /\ u.mode = t.mode /\ u.shown = t.shown /\ u.loading = t.loading
  BY <1>1, <1>2, <1>3 DEF Tab, Steps
<1>7. Owed(u) BY <1>5, <1>6 DEF Owed, Sound, n
<1> QED BY <1>6, <1>7 DEF Sound, q, n

\* The sheet that is open may be replaced by one with an entry only when there is one for it.
LEMMA OpenSet ==
  ASSUME NEW t, Sound(t), NEW s \in OpenSheets, NEW u, u = [t EXCEPT !.open = s],
         s.routed = FALSE \/ t.pendingBack + 1 < t.at
  PROVE  /\ Sound(u) /\ u.open = s /\ u.queue = t.queue /\ u.pendingBack = t.pendingBack
         /\ u.entries = t.entries /\ u.at = t.at
         /\ u.mode = t.mode /\ u.shown = t.shown /\ u.loading = t.loading
<1>1. t \in Tab BY DEF Sound
<1>2. u \in Tab /\ u.open = s /\ u.queue = t.queue /\ u.pendingBack = t.pendingBack
      /\ u.entries = t.entries /\ u.at = t.at
      /\ u.mode = t.mode /\ u.shown = t.shown /\ u.loading = t.loading
  BY <1>1 DEF Tab
<1>3. Owed(u) BY <1>2 DEF Owed, Sound
<1> QED BY <1>2, <1>3 DEF Sound

\* A sheet on its entry leaves it with a step back.
LEMMA OnItsEntryIs ==
  ASSUME NEW t, Sound(t), OnItsEntry(t)
  PROVE  t.open.routed /\ t.pendingBack + 1 < t.at
BY DEF OnItsEntry, Sound, Owed

\* A sheet is opened with an entry of its own, or without one.
LEMMA OpenedIs ==
  ASSUME NEW t, Sound(t), NEW s \in OpenSheets, NEW u, u = Opened(t, s)
  PROVE  /\ Sound(u) /\ u.shown = t.shown /\ u.mode = t.mode /\ u.loading = t.loading
         /\ t.open.sheet = s.sheet => u = t
         /\ t.open.sheet # s.sheet => u.open = s
         /\ t.open.sheet # s.sheet /\ ~s.routed /\ ~t.open.routed =>
              /\ u.entries = t.entries /\ u.at = t.at
              /\ u.queue = t.queue /\ u.pendingBack = t.pendingBack
         /\ t.open.sheet # s.sheet /\ s.routed =>
              /\ u.queue = t.queue /\ u.pendingBack = t.pendingBack
              /\ Address(u) = Address(t) /\ Here(u).sheet = s.sheet
              /\ OnItsEntry(t) => /\ u.at = t.at /\ Len(u.entries) = Len(t.entries)
                                  /\ \A i \in 1..Len(t.entries) : i # t.at => u.entries[i] = t.entries[i]
              /\ ~OnItsEntry(t) => /\ u.at = t.at + 1 /\ Len(u.entries) = u.at
                                   /\ \A i \in 1..t.at : u.entries[i] = t.entries[i]
<1>1. t \in Tab /\ t.at \in 1..Len(t.entries) /\ Len(t.entries) \in Nat
  BY LenProperties DEF Sound, Owed, Tab
<1> DEFINE reuse == OnItsEntry(t)
           own == [path |-> Address(t), sheet |-> s.sheet]
           v == [t EXCEPT !.open = s]
<1>2. CASE t.open.sheet = s.sheet
  <2>1. u = t BY <1>2 DEF Opened
  <2> QED BY <1>2, <2>1
<1>3. CASE t.open.sheet # s.sheet /\ s.routed
  <2>1. s \in {HelpAtTable, Cover} /\ s.routed = TRUE
    BY <1>3 DEF OpenSheets, NoSheet, SetupSheet, HelpOfRoute, HelpOverSetup, HelpAtTable, LeaveSheet, Cover
  <2>2. own \in Entry BY <1>1, <2>1, HereIs DEF Entry, HelpAtTable, Cover
  <2>3. v \in Tab /\ v.open = s /\ v.queue = t.queue /\ v.pendingBack = t.pendingBack
        /\ v.entries = t.entries /\ v.at = t.at
        /\ v.mode = t.mode /\ v.shown = t.shown /\ v.loading = t.loading
    BY <1>1 DEF Tab
  <2>4. u = IF reuse THEN Replaced(v, own) ELSE Pushed(v, own) BY <1>3, <2>1 DEF Opened
  <2>5. own.path = Address(t) /\ own.sheet = s.sheet OBVIOUS
  <2> HIDE DEF v, own
  <2>6. CASE reuse
    <3>1. /\ u \in Tab /\ u.at = t.at /\ Len(u.entries) = Len(t.entries) /\ u.entries[u.at] = own
          /\ \A i \in 1..Len(t.entries) : i # t.at => u.entries[i] = t.entries[i]
          /\ u.open = s /\ u.mode = t.mode /\ u.pendingBack = t.pendingBack
          /\ u.queue = t.queue /\ u.shown = t.shown /\ u.loading = t.loading
      BY <1>1, <2>2, <2>3, <2>4, <2>6, ReplacedIs
    <3>2. t.pendingBack + 1 < t.at BY <2>6, OnItsEntryIs
    <3>3. Owed(u) BY <3>1, <3>2 DEF Owed, Sound
    <3> QED BY <1>3, <2>5, <2>6, <3>1, <3>3 DEF Sound, Here, Address
  <2>7. CASE ~reuse
    <3>1. /\ u \in Tab /\ u.at = t.at + 1 /\ Len(u.entries) = u.at /\ u.entries[u.at] = own
          /\ \A i \in 1..t.at : u.entries[i] = t.entries[i]
          /\ u.open = s /\ u.mode = t.mode /\ u.pendingBack = t.pendingBack
          /\ u.queue = t.queue /\ u.shown = t.shown /\ u.loading = t.loading
      BY <1>1, <2>2, <2>3, <2>4, <2>7, PushedIs
    <3>2. t.pendingBack \in Nat BY <1>1 DEF Tab
    <3>3. Owed(u) BY <1>1, <3>1, <3>2 DEF Owed, Sound
    <3> QED BY <1>3, <2>5, <2>7, <3>1, <3>3 DEF Sound, Here, Address
  <2> QED BY <2>6, <2>7
<1>4. CASE t.open.sheet # s.sheet /\ ~s.routed
  <2>1. s.routed = FALSE
    BY <1>4 DEF OpenSheets, NoSheet, SetupSheet, HelpOfRoute, HelpOverSetup, HelpAtTable, LeaveSheet, Cover
  <2>2. u = IF reuse THEN WentBack(v) ELSE v BY <1>4, <2>1 DEF Opened
  <2>3. /\ Sound(v) /\ v.open = s /\ v.queue = t.queue /\ v.pendingBack = t.pendingBack
        /\ v.entries = t.entries /\ v.at = t.at
        /\ v.mode = t.mode /\ v.shown = t.shown /\ v.loading = t.loading
    BY <2>1, OpenSet
  <2> HIDE DEF v
  <2>4. CASE reuse
    <3>1. t.open.routed /\ v.pendingBack + 1 < v.at BY <2>3, <2>4, OnItsEntryIs
    <3>2. /\ Sound(u) /\ u.entries = v.entries /\ u.at = v.at
          /\ u.open = s /\ u.mode = v.mode /\ u.shown = v.shown /\ u.loading = v.loading
      BY <2>1, <2>2, <2>3, <2>4, <3>1, WentBackIs
    <3> QED BY <1>4, <2>3, <3>1, <3>2
  <2>5. CASE ~reuse BY <1>4, <2>2, <2>3, <2>5
  <2> QED BY <2>4, <2>5
<1> QED BY <1>2, <1>3, <1>4

\* A sheet that is done with leaves its entry, if it is on it.
LEMMA FinishedIs ==
  ASSUME NEW t, Sound(t), NEW u, u = Finished(t)
  PROVE  /\ Sound(u) /\ u.open = NoSheet /\ u.entries = t.entries /\ u.at = t.at
         /\ u.shown = t.shown /\ u.mode = t.mode /\ u.loading = t.loading
         /\ ~OnItsEntry(t) => u.queue = t.queue /\ u.pendingBack = t.pendingBack
         /\ OnItsEntry(t) => /\ u.queue = Append(t.queue, "own")
                             /\ u.pendingBack = t.pendingBack + 1
<1> DEFINE v == [t EXCEPT !.open = NoSheet]
<1>1. NoSheet \in OpenSheets /\ NoSheet.routed = FALSE BY DEF NoSheet, OpenSheets
<1>2. /\ Sound(v) /\ v.open = NoSheet /\ v.queue = t.queue /\ v.pendingBack = t.pendingBack
      /\ v.entries = t.entries /\ v.at = t.at
      /\ v.mode = t.mode /\ v.shown = t.shown /\ v.loading = t.loading
  BY <1>1, OpenSet
<1>3. u = IF OnItsEntry(t) THEN WentBack(v) ELSE v BY DEF Finished
<1> HIDE DEF v
<1>4. CASE OnItsEntry(t)
  <2>1. v.pendingBack + 1 < v.at BY <1>2, <1>4, OnItsEntryIs
  <2>2. /\ Sound(u) /\ u.queue = Append(v.queue, "own") /\ u.pendingBack = v.pendingBack + 1
        /\ u.entries = v.entries /\ u.at = v.at
        /\ u.open = v.open /\ u.mode = v.mode /\ u.shown = v.shown /\ u.loading = v.loading
    BY <1>1, <1>2, <1>3, <1>4, <2>1, WentBackIs
  <2> QED BY <1>2, <1>4, <2>2
<1>5. CASE ~OnItsEntry(t) BY <1>2, <1>3, <1>5
<1> QED BY <1>4, <1>5

\* All sheets closed, nothing else changes.
LEMMA ClosedAllIs ==
  ASSUME NEW t, Sound(t), NEW u, u = ClosedAll(t)
  PROVE  /\ Sound(u) /\ u.open = NoSheet /\ u.queue = t.queue /\ u.pendingBack = t.pendingBack
         /\ u.entries = t.entries /\ u.at = t.at
         /\ u.mode = t.mode /\ u.shown = t.shown /\ u.loading = t.loading
<1>1. NoSheet \in OpenSheets /\ NoSheet.routed = FALSE BY DEF NoSheet, OpenSheets
<1> DEFINE v == [t EXCEPT !.open = NoSheet]
<1>2. u = v BY DEF ClosedAll
<1> HIDE DEF v
<1> QED BY <1>1, <1>2, OpenSet DEF v

-----------------------------------------------------------------------------
(* renderView and navigate *)

\* The sheets: what is routed, and which has which name.
LEMMA SheetsAre ==
  ASSUME NEW s \in OpenSheets
  PROVE  /\ s.sheet = "setup" => s = SetupSheet
         /\ s.sheet = "help" /\ s.then = "nothing" => s = HelpAtTable
         /\ ~s.routed /\ s.sheet \notin {"setup", "help"} => s \in {NoSheet, LeaveSheet}
         /\ s.then = "nothing" /\ ~s.routed => s \in {NoSheet, LeaveSheet}
         /\ s.routed => s \in {HelpAtTable, Cover}
         /\ s.then # "nothing" => s \in {SetupSheet, HelpOfRoute, HelpOverSetup}
         /\ s.routed \in BOOLEAN
<1>1. CASE s = NoSheet BY <1>1 DEF NoSheet, SetupSheet, HelpOfRoute, HelpOverSetup, HelpAtTable, LeaveSheet, Cover
<1>2. CASE s = SetupSheet BY <1>2 DEF NoSheet, SetupSheet, HelpOfRoute, HelpOverSetup, HelpAtTable, LeaveSheet, Cover
<1>3. CASE s = HelpOfRoute BY <1>3 DEF NoSheet, SetupSheet, HelpOfRoute, HelpOverSetup, HelpAtTable, LeaveSheet, Cover
<1>4. CASE s = HelpOverSetup BY <1>4 DEF NoSheet, SetupSheet, HelpOfRoute, HelpOverSetup, HelpAtTable, LeaveSheet, Cover
<1>5. CASE s = HelpAtTable BY <1>5 DEF NoSheet, SetupSheet, HelpOfRoute, HelpOverSetup, HelpAtTable, LeaveSheet, Cover
<1>6. CASE s = LeaveSheet BY <1>6 DEF NoSheet, SetupSheet, HelpOfRoute, HelpOverSetup, HelpAtTable, LeaveSheet, Cover
<1>7. CASE s = Cover BY <1>7 DEF NoSheet, SetupSheet, HelpOfRoute, HelpOverSetup, HelpAtTable, LeaveSheet, Cover
<1> QED BY <1>1, <1>2, <1>3, <1>4, <1>5, <1>6, <1>7 DEF OpenSheets

\* A page drawn shows its address, and the sheet of its route over it.
LEMMA RenderedIs ==
  ASSUME NEW t, Sound(t), NEW u, u = Rendered(t)
  PROVE  /\ Sound(u)
         /\ ~t.open.routed /\ (Address(t) = Rules => t.open = NoSheet) =>
              /\ u.entries = t.entries /\ u.at = t.at /\ Address(u) = Address(t)
              /\ u.queue = t.queue /\ u.pendingBack = t.pendingBack
              /\ ~u.open.routed /\ u.shown = Address(t) /\ Drawn(u)
              /\ u.loading => t.loading \/ Address(t) = Table
              /\ Address(t) = Rules => u.open = HelpOfRoute
<1> DEFINE loads == t.loading \/ Address(t) = Table
           v == [t EXCEPT !.shown = Address(t), !.playing = FALSE, !.loading = loads]
<1>1. t \in Tab /\ t.at \in 1..Len(t.entries) /\ t.loading \in BOOLEAN BY DEF Sound, Owed, Tab
<1>2. Address(t) \in Paths /\ loads \in BOOLEAN BY <1>1, HereIs
<1> HIDE DEF loads
<1>3. v \in Tab /\ v.open = t.open /\ v.queue = t.queue /\ v.pendingBack = t.pendingBack
      /\ v.entries = t.entries /\ v.at = t.at
      /\ v.mode = t.mode /\ v.shown = Address(t) /\ v.loading = loads
  BY <1>1, <1>2 DEF Tab
<1>4. u = RouteSheetDrawn(v) BY DEF Rendered, loads
<1> HIDE DEF v
<1>5. Sound(v) /\ Address(v) = Address(t) BY <1>3 DEF Sound, Owed, Address, Here
<1> DEFINE a == Address(t)
<1>6. SetupSheet \in OpenSheets /\ HelpOfRoute \in OpenSheets
      /\ SetupSheet.sheet = "setup" /\ SetupSheet.routed = FALSE /\ SetupSheet.then = "home"
      /\ HelpOfRoute.sheet = "help" /\ HelpOfRoute.routed = FALSE /\ HelpOfRoute.then = "home"
  BY DEF OpenSheets, SetupSheet, HelpOfRoute
<1>7. CASE RouteSheet(a) = "setup"
  <2> DEFINE w == Opened(v, SetupSheet)
  <2>1. u = [w EXCEPT !.mode = SetupMode(a)] BY <1>4, <1>5, <1>7 DEF RouteSheetDrawn
  <2>2. Sound(w) /\ w.shown = a /\ w.loading = loads /\ w.open.sheet = "setup"
    <3>1. Sound(w) /\ w.shown = v.shown /\ w.loading = v.loading BY <1>5, <1>6, OpenedIs
    <3>2. CASE v.open.sheet = "setup"
      <4>1. w = v BY <1>5, <1>6, <3>2, OpenedIs
      <4> QED BY <1>3, <3>1, <3>2, <4>1
    <3>3. CASE v.open.sheet # "setup"
      <4>1. w.open = SetupSheet BY <1>5, <1>6, <3>3, OpenedIs
      <4> QED BY <1>3, <1>6, <3>1, <4>1
    <3> QED BY <3>2, <3>3
  <2>3. ~t.open.routed => /\ w.entries = t.entries /\ w.at = t.at
                          /\ w.queue = t.queue /\ w.pendingBack = t.pendingBack
    <3>1. CASE v.open.sheet = "setup"
      <4>1. w = v BY <1>5, <1>6, <3>1, OpenedIs
      <4> QED BY <1>3, <4>1
    <3>2. CASE v.open.sheet # "setup" BY <1>3, <1>5, <1>6, <3>2, OpenedIs
    <3> QED BY <3>1, <3>2
  <2> HIDE DEF w
  <2>4. SetupMode(a) \in Modes BY DEF SetupMode, Modes
  <2>5. u \in Tab /\ u.open = w.open /\ u.queue = w.queue /\ u.pendingBack = w.pendingBack
        /\ u.entries = w.entries /\ u.at = w.at /\ u.shown = w.shown /\ u.loading = w.loading
    BY <2>1, <2>2, <2>4 DEF Sound, Tab
  <2>6. Sound(u) BY <2>2, <2>5 DEF Sound, Owed
  <2>7. w.open = SetupSheet BY <2>2, SheetsAre DEF Sound, Tab
  <2>8. a # Rules BY <1>7 DEF RouteSheet, Rules, Setup, CrewSetup
  <2>9. ASSUME ~t.open.routed PROVE Drawn(u) /\ Address(u) = a
    <3>1. Address(u) = a BY <2>3, <2>5, <2>9 DEF Address, Here
    <3> QED BY <1>6, <1>7, <2>2, <2>5, <2>7, <3>1 DEF Drawn, Routed
  <2> QED BY <1>6, <2>2, <2>3, <2>5, <2>6, <2>7, <2>8, <2>9 DEF loads
<1>8. CASE RouteSheet(a) = "help"
  <2>1. u = Opened(v, HelpOfRoute) BY <1>4, <1>5, <1>8 DEF RouteSheetDrawn
  <2>2. Sound(u) /\ u.shown = a /\ u.loading = loads BY <1>3, <1>5, <1>6, <2>1, OpenedIs
  <2>3. a = Rules BY <1>8 DEF RouteSheet
  <2>4. ASSUME t.open = NoSheet
        PROVE  /\ u.open = HelpOfRoute /\ u.entries = t.entries /\ u.at = t.at
               /\ u.queue = t.queue /\ u.pendingBack = t.pendingBack
    <3>1. NoSheet.sheet = "none" /\ NoSheet.routed = FALSE BY DEF NoSheet
    <3>2. v.open.sheet # HelpOfRoute.sheet /\ ~v.open.routed /\ ~HelpOfRoute.routed
      BY <1>3, <1>6, <2>4, <3>1
    <3>3. /\ u.open = HelpOfRoute /\ u.entries = v.entries /\ u.at = v.at
          /\ u.queue = v.queue /\ u.pendingBack = v.pendingBack
      BY <1>5, <1>6, <2>1, <3>2, OpenedIs
    <3> QED BY <1>3, <3>3
  <2>5. ASSUME t.open = NoSheet PROVE Drawn(u) /\ Address(u) = a
    <3>1. Address(u) = a BY <2>4, <2>5 DEF Address, Here
    <3> QED BY <1>6, <1>8, <2>2, <2>4, <2>5, <3>1 DEF Drawn, Routed
  <2> QED BY <1>6, <2>2, <2>3, <2>4, <2>5 DEF loads
<1>9. CASE RouteSheet(a) = "none"
  <2>1. u = IF v.open.sheet \in {"setup", "help"} THEN ClosedAll(v) ELSE v
    BY <1>4, <1>5, <1>9 DEF RouteSheetDrawn
  <2>2. NoSheet.routed = FALSE /\ NoSheet.then = "nothing" /\ NoSheet.sheet = "none"
        /\ LeaveSheet.then = "nothing" /\ LeaveSheet.sheet = "leave"
    BY DEF NoSheet, LeaveSheet
  <2>3. /\ Sound(u) /\ u.queue = v.queue /\ u.pendingBack = v.pendingBack
        /\ u.entries = v.entries /\ u.at = v.at /\ u.shown = v.shown /\ u.loading = v.loading
        /\ u.open = IF v.open.sheet \in {"setup", "help"} THEN NoSheet ELSE v.open
    BY <1>5, <2>1, ClosedAllIs
  <2>4. a # Rules BY <1>9 DEF RouteSheet, Rules, Setup, CrewSetup
  <2>5. t.open \in OpenSheets BY <1>1 DEF Tab
  <2>6. ASSUME ~t.open.routed PROVE u.open \in {NoSheet, LeaveSheet} /\ ~u.open.routed
    BY <1>3, <2>2, <2>3, <2>5, <2>6, SheetsAre
  <2>7. Address(u) = a BY <1>3, <2>3 DEF Address, Here
  <2>8. ASSUME ~t.open.routed PROVE Drawn(u)
    BY <1>3, <1>9, <2>2, <2>3, <2>6, <2>7, <2>8 DEF Drawn, Routed
  <2> QED BY <1>3, <2>3, <2>4, <2>6, <2>7, <2>8 DEF loads
<1> QED BY <1>7, <1>8, <1>9 DEF RouteSheet

\* A new page takes the next place in the history.
LEMMA NavigatedIs ==
  ASSUME NEW t, Sound(t), NEW path \in Paths, NEW u, u = Navigated(t, path)
  PROVE  /\ Sound(u) /\ ~u.open.routed /\ Drawn(u)
         /\ u.queue = t.queue /\ u.pendingBack = t.pendingBack
         /\ NoRules(t) /\ path # Rules => NoRules(u)
<1> DEFINE c == ClosedAll(t)
           e == Plain(path)
           p == Pushed(c, e)
<1>1. /\ Sound(c) /\ c.open = NoSheet /\ c.queue = t.queue /\ c.pendingBack = t.pendingBack
      /\ c.entries = t.entries /\ c.at = t.at
  BY ClosedAllIs
<1>2. e \in Entry /\ e.path = path BY DEF Plain, Entry
<1> HIDE DEF c, e
<1>3. c \in Tab /\ c.at \in 1..Len(c.entries) /\ Len(c.entries) \in Nat /\ c.pendingBack \in Nat
  BY <1>1, LenProperties DEF Sound, Owed, Tab
<1>4. /\ p \in Tab /\ p.at = c.at + 1 /\ Len(p.entries) = p.at /\ p.entries[p.at] = e
      /\ \A i \in 1..c.at : p.entries[i] = c.entries[i]
      /\ p.open = c.open /\ p.pendingBack = c.pendingBack /\ p.queue = c.queue
  BY <1>2, <1>3, PushedIs
<1>5. u = Rendered(p) BY DEF Navigated, c, e
<1> HIDE DEF p
<1>6. NoSheet.routed = FALSE BY DEF NoSheet
<1>7. Sound(p) BY <1>1, <1>3, <1>4, <1>6 DEF Sound, Owed
<1>8. Address(p) = path BY <1>2, <1>4 DEF Address, Here
<1>9. /\ Sound(u) /\ ~u.open.routed /\ Drawn(u) /\ u.entries = p.entries
      /\ u.queue = p.queue /\ u.pendingBack = p.pendingBack
  BY <1>1, <1>4, <1>5, <1>6, <1>7, RenderedIs
<1>10. ASSUME NoRules(t), path # Rules PROVE NoRules(u)
  <2> SUFFICES ASSUME NEW n \in 1..Len(p.entries) PROVE p.entries[n].path # Rules
    BY <1>9 DEF NoRules
  <2>1. n = p.at \/ n \in 1..c.at BY <1>3, <1>4
  <2>2. CASE n = p.at BY <1>2, <1>4, <1>10, <2>2
  <2>3. CASE n \in 1..c.at
    <3>1. p.entries[n] = t.entries[n] /\ n \in 1..Len(t.entries) BY <1>1, <1>3, <1>4, <2>3
    <3> QED BY <1>10, <3>1 DEF NoRules
  <2> QED BY <2>1, <2>2, <2>3
<1> QED BY <1>1, <1>4, <1>9, <1>10

\* A page in place of another keeps its place.
LEMMA NavigatedInPlaceIs ==
  ASSUME NEW t, Sound(t), NEW path \in Paths, NEW u, u = NavigatedInPlace(t, path)
  PROVE  /\ Sound(u) /\ ~u.open.routed /\ Drawn(u)
         /\ u.queue = t.queue /\ u.pendingBack = t.pendingBack
         /\ (NoRules(t) \/ Len(t.entries) = 1) /\ path # Rules => NoRules(u)
<1> DEFINE c == ClosedAll(t)
           e == Plain(path)
           p == Replaced(c, e)
<1>1. /\ Sound(c) /\ c.open = NoSheet /\ c.queue = t.queue /\ c.pendingBack = t.pendingBack
      /\ c.entries = t.entries /\ c.at = t.at
  BY ClosedAllIs
<1>2. e \in Entry /\ e.path = path BY DEF Plain, Entry
<1> HIDE DEF c, e
<1>3. c \in Tab /\ c.at \in 1..Len(c.entries) /\ Len(c.entries) \in Nat
  BY <1>1, LenProperties DEF Sound, Owed, Tab
<1>4. /\ p \in Tab /\ p.at = c.at /\ Len(p.entries) = Len(c.entries) /\ p.entries[p.at] = e
      /\ \A i \in 1..Len(c.entries) : i # c.at => p.entries[i] = c.entries[i]
      /\ p.open = c.open /\ p.pendingBack = c.pendingBack /\ p.queue = c.queue
  BY <1>2, <1>3, ReplacedIs
<1>5. u = Rendered(p) BY DEF NavigatedInPlace, c, e
<1> HIDE DEF p
<1>6. NoSheet.routed = FALSE BY DEF NoSheet
<1>7. Sound(p) BY <1>1, <1>3, <1>4, <1>6 DEF Sound, Owed
<1>8. Address(p) = path BY <1>2, <1>4 DEF Address, Here
<1>9. /\ Sound(u) /\ ~u.open.routed /\ Drawn(u) /\ u.entries = p.entries
      /\ u.queue = p.queue /\ u.pendingBack = p.pendingBack
  BY <1>1, <1>4, <1>5, <1>6, <1>7, RenderedIs
<1>10. (NoRules(t) \/ Len(t.entries) = 1) /\ path # Rules => NoRules(u)
  BY <1>1, <1>2, <1>3, <1>4, <1>9 DEF NoRules
<1> QED BY <1>1, <1>4, <1>9, <1>10

-----------------------------------------------------------------------------
(* The steps of the browser *)

\* Before and after a step the browser takes: what it owes stays enough, and its place in the
\* history is one of a page, of a sheet that is closed with it, or of a cover that stays.
LEMMA TraverseKeeps ==
  ASSUME SheetsInv, Traverse
  PROVE  Sound(tab') /\ (~raced => Straight(tab') /\ (NoRules(tab) => NoRules(tab')))
<1> DEFINE q == tab.queue
           to == tab.at + Delta(Head(q))
           rest == Tail(q)
           x == [tab EXCEPT !.queue = rest]
           y == [x EXCEPT !.at = to]
           card == Cardinality(Own(q))
           left == Cardinality(Own(rest))
<1>1. /\ tab \in Tab /\ tab.at \in 1..Len(tab.entries) /\ Len(tab.entries) \in Nat
      /\ tab.pendingBack \in Nat /\ tab.pendingBack < tab.at
      /\ tab.open.routed => tab.pendingBack + 1 < tab.at
      /\ tab.pendingBack <= card
      /\ tab.entries \in Seq(Entry) /\ q \in Seq(Steps) /\ tab.open \in OpenSheets
  BY LenProperties DEF SheetsInv, Sound, Owed, Tab, Steps
<1>2. q # <<>> BY DEF Traverse, Quiet
<1>3. /\ rest \in Seq(Steps) /\ Head(q) \in Steps /\ card \in Nat /\ left \in Nat
      /\ card = IF Head(q) = "own" THEN left + 1 ELSE left
  <2>1. /\ rest \in Seq(Steps) /\ Head(q) \in Steps
        /\ Head(q) = "own" => card = left + 1
        /\ Head(q) # "own" => card = left
    BY <1>1, <1>2, OwnTaken
  <2>2. card \in Nat /\ left \in Nat BY <1>1, <2>1, OwnAppended
  <2> QED BY <2>1, <2>2
<1>4. to = IF Head(q) = "forward" THEN tab.at + 1 ELSE tab.at - 1
  BY <1>1 DEF Delta
<1>5. DOMAIN tab.entries = 1..Len(tab.entries) BY <1>1, LenProperties
<1>6. tab' = IF to \in 1..Len(tab.entries) THEN PoppedState(y) ELSE x
  BY <1>5 DEF Traverse, Step
<1> HIDE DEF to, rest, card, left
<1>7. /\ x \in Tab /\ x.queue = rest /\ x.entries = tab.entries /\ x.at = tab.at
      /\ x.open = tab.open /\ x.pendingBack = tab.pendingBack /\ x.shown = tab.shown
      /\ x.loading = tab.loading
  BY <1>1, <1>3 DEF Tab, Steps
<1> HIDE DEF x
<1>8. ASSUME ~raced, tab.pendingBack = 0
      PROVE  rest = <<>> /\ Straight(tab) /\ NoneOfOwn(tab)
  <2>1. Straight(tab) /\ NoneOfOwn(tab)
    BY <1>8 DEF SheetsInv, Straight, OwnUnderWay
  <2>2. q = <<"back">> \/ q = <<"forward">> BY <1>2, <2>1 DEF NoneOfOwn
  <2>3. Tail(<<"back">>) = <<>> /\ Tail(<<"forward">>) = <<>> OBVIOUS
  <2> QED BY <2>1, <2>2, <2>3 DEF rest
<1>9. CASE to \notin 1..Len(tab.entries)
  <2>1. tab' = x BY <1>6, <1>9
  <2>2. Head(q) = "own" => tab.pendingBack = 0 BY <1>1, <1>4, <1>9
  <2>3. Sound(tab') BY <1>1, <1>3, <1>7, <2>1, <2>2 DEF Sound, Owed, left, card
  <2>4. ASSUME ~raced PROVE Straight(tab') /\ (NoRules(tab) => NoRules(tab'))
    <3>1. tab.pendingBack = 0
      <4>1. CASE OwnUnderWay(tab)
        <5>1. Head(q) = "own" /\ tab.at - 1 \in 1..Len(tab.entries)
          BY <4>1 DEF OwnUnderWay, OnTable
        <5> QED BY <1>4, <1>9, <5>1
      <4>2. CASE NoneOfOwn(tab) BY <4>2 DEF NoneOfOwn
      <4> QED BY <2>4, <4>1, <4>2 DEF SheetsInv, Straight
    <3>2. rest = <<>> /\ Straight(tab) BY <1>8, <2>4, <3>1
    <3>3. Address(x) = Address(tab) /\ Here(x) = Here(tab) BY <1>7 DEF Address, Here
    <3>4. Drawn(x) /\ (x.open.routed => TakesItsEntry(x)) /\ (NoRules(x) \/ AtRules(x))
      BY <1>7, <3>2, <3>3
         DEF Straight, Drawn, TakesItsEntry, OnItsEntry, OnTable, NoRules, AtRules
    <3>5. NoneOfOwn(x) BY <1>7, <3>1, <3>2 DEF NoneOfOwn
    <3>6. NoRules(tab) => NoRules(x) BY <1>7 DEF NoRules
    <3> QED BY <2>1, <3>4, <3>5, <3>6 DEF Straight
  <2> QED BY <2>3, <2>4
<1>10. CASE to \in 1..Len(tab.entries)
  <2>1. tab' = PoppedState(y) BY <1>6, <1>10
  <2>2. /\ y \in Tab /\ y.queue = rest /\ y.entries = tab.entries /\ y.at = to
        /\ y.open = tab.open /\ y.pendingBack = tab.pendingBack /\ y.shown = tab.shown
        /\ y.loading = tab.loading
    BY <1>1, <1>7, <1>10 DEF Tab
  <2> HIDE DEF y
  <2>3. Address(y) = tab.entries[to].path BY <2>2 DEF Address, Here
  <2>4. CASE tab.pendingBack > 0
    <3> DEFINE n == tab.pendingBack - 1
    <3>1. tab' = [y EXCEPT !.pendingBack = n] BY <2>1, <2>2, <2>4 DEF PoppedState, Tab
    <3>2. n \in Nat /\ n + 1 = tab.pendingBack BY <1>1, <2>4
    <3> HIDE DEF n
    <3>3. /\ tab' \in Tab /\ tab'.queue = rest /\ tab'.entries = tab.entries /\ tab'.at = to
          /\ tab'.open = tab.open /\ tab'.pendingBack = n /\ tab'.shown = tab.shown
          /\ tab'.loading = tab.loading
      BY <2>2, <3>1, <3>2 DEF Tab
    <3>4. Sound(tab')
      <4>1. n < to /\ (tab.open.routed => n + 1 < to) BY <1>1, <1>4, <3>2
      <4>2. n <= left BY <1>1, <1>3, <3>2
      <4> QED BY <1>10, <3>3, <4>1, <4>2 DEF Sound, Owed, left
    <3>5. ASSUME ~raced PROVE Straight(tab') /\ (NoRules(tab) => NoRules(tab'))
      <4>1. OwnUnderWay(tab) /\ Straight(tab)
        BY <2>4, <3>5 DEF SheetsInv, Straight, NoneOfOwn
      <4>2. /\ rest = <<>> /\ Head(q) = "own" /\ n = 0 /\ tab.open = NoSheet
            /\ OnTable(tab, tab.at) /\ OnTable(tab, tab.at - 1)
        BY <3>2, <4>1 DEF OwnUnderWay, rest
      <4>3. Address(tab) = Table /\ Address(tab') = Table
        BY <1>4, <3>3, <4>2 DEF Address, Here, OnTable
      <4>4. NoSheet.routed = FALSE /\ NoSheet.then = "nothing" /\ NoSheet # HelpOfRoute
        BY DEF NoSheet, HelpOfRoute
      <4>5. Drawn(tab') BY <3>3, <4>1, <4>2, <4>3, <4>4 DEF Straight, Drawn
      <4>6. NoRules(tab')
        BY <3>3, <4>1, <4>2, <4>4 DEF Straight, AtRules, NoRules
      <4>7. NoneOfOwn(tab') BY <3>3, <4>2 DEF NoneOfOwn
      <4> QED BY <3>3, <4>2, <4>4, <4>5, <4>6, <4>7 DEF Straight
    <3> QED BY <3>4, <3>5
  <2>5. CASE tab.pendingBack = 0 /\ tab.open = Cover
    <3> DEFINE e == [path |-> Address(y), sheet |-> "cover"]
    <3>1. Cover.routed = TRUE /\ Cover.sheet = "cover" /\ Cover.then = "nothing"
          /\ Cover # HelpOfRoute
      BY DEF Cover, HelpOfRoute
    <3>2. tab' = Pushed(y, e) BY <2>1, <2>2, <2>5, <3>1 DEF PoppedState
    <3>3. e \in Entry BY <1>10, <2>2, HereIs DEF Entry
    <3>4. e.path = Address(y) /\ e.sheet = "cover" OBVIOUS
    <3> HIDE DEF e
    <3>5. /\ tab' \in Tab /\ tab'.at = to + 1 /\ Len(tab'.entries) = to + 1
          /\ tab'.entries[to + 1] = e
          /\ \A i \in 1..to : tab'.entries[i] = tab.entries[i]
          /\ tab'.open = Cover /\ tab'.pendingBack = 0 /\ tab'.queue = rest
          /\ tab'.shown = tab.shown
      <4>1. y \in Tab /\ y.at \in 1..Len(y.entries) BY <1>10, <2>2
      <4>2. /\ tab' \in Tab /\ tab'.at = y.at + 1 /\ Len(tab'.entries) = tab'.at
            /\ tab'.entries[tab'.at] = e
            /\ \A i \in 1..y.at : tab'.entries[i] = y.entries[i]
            /\ tab'.open = y.open /\ tab'.pendingBack = y.pendingBack /\ tab'.queue = y.queue
            /\ tab'.shown = y.shown
        BY <3>2, <3>3, <4>1, PushedIs
      <4> QED BY <2>2, <2>5, <4>2
    <3>6. Sound(tab') BY <1>3, <1>10, <3>5 DEF Sound, Owed, left
    <3>7. ASSUME ~raced PROVE Straight(tab') /\ (NoRules(tab) => NoRules(tab'))
      <4>1. rest = <<>> /\ Straight(tab) BY <1>8, <2>5, <3>7
      <4>2. TakesItsEntry(tab) BY <2>5, <3>1, <4>1 DEF Straight
      <4>3. to = tab.at - 1 /\ tab.at = Len(tab.entries) /\ OnTable(tab, to) /\ OnTable(tab, tab.at)
        BY <1>1, <1>4, <1>10, <4>2 DEF TakesItsEntry
      <4>4. Address(y) = Table BY <2>3, <4>3 DEF OnTable
      <4>5. Address(tab') = Table /\ Here(tab').sheet = "cover"
        BY <3>4, <3>5, <4>4 DEF Address, Here
      <4>6. tab.shown = Table
        <5>1. tab.shown = Address(tab) BY <2>5, <3>1, <4>1 DEF Straight, Drawn
        <5> QED BY <4>3, <5>1 DEF Address, Here, OnTable
      <4>7. Drawn(tab') BY <3>1, <3>5, <4>5, <4>6 DEF Drawn, Routed, RouteSheet, Table, Setup, CrewSetup, Rules
      <4>8. TakesItsEntry(tab')
        <5>1. OnTable(tab', to + 1) BY <1>10, <3>4, <3>5, <4>4 DEF OnTable
        <5>2. OnTable(tab', to) BY <1>10, <3>5, <4>3 DEF OnTable
        <5>3. to + 1 - 1 = to BY <1>10
        <5>4. OnItsEntry(tab') BY <3>1, <3>5, <4>5 DEF OnItsEntry
        <5>5. tab'.at = to + 1 /\ tab'.at = Len(tab'.entries) BY <3>5
        <5>6. OnTable(tab', tab'.at) BY <5>1, <5>5
        <5> DEFINE k == tab'.at
        <5>7. k - 1 = to
          <6>1. k = to + 1 /\ to \in Nat BY <1>10, <5>5
          <6> HIDE DEF k
          <6> QED BY <6>1
        <5>8. OnTable(tab', k - 1) BY <5>2, <5>7
        <5> QED BY <5>4, <5>5, <5>6, <5>8 DEF TakesItsEntry
      <4>9. NoRules(tab')
        <5>1. NoRules(tab) BY <2>5, <3>1, <4>1 DEF Straight, AtRules
        <5>2. Table # Rules BY DEF Table, Rules
        <5> SUFFICES ASSUME NEW n \in 1..(to + 1) PROVE tab'.entries[n].path # Rules
          BY <3>5 DEF NoRules
        <5>3. n = to + 1 \/ n \in 1..to BY <1>10
        <5>4. CASE n = to + 1 BY <3>4, <3>5, <4>4, <5>2, <5>4
        <5>5. CASE n \in 1..to
          <6>1. n \in 1..Len(tab.entries) BY <1>10, <5>5
          <6> QED BY <3>5, <5>1, <5>5, <6>1 DEF NoRules
        <5> QED BY <5>3, <5>4, <5>5
      <4>10. NoneOfOwn(tab') BY <3>5, <4>1 DEF NoneOfOwn
      <4> QED BY <4>7, <4>8, <4>9, <4>10 DEF Straight
    <3> QED BY <3>6, <3>7
  <2>6. CASE tab.pendingBack = 0 /\ tab.open = HelpAtTable
    <3>1. HelpAtTable.routed = TRUE /\ HelpAtTable.sheet = "help" /\ HelpAtTable.then = "nothing"
          /\ HelpAtTable # HelpOfRoute /\ NoSheet \in OpenSheets
          /\ NoSheet.routed = FALSE /\ NoSheet.then = "nothing" /\ NoSheet.sheet = "none"
      BY DEF HelpAtTable, HelpOfRoute, NoSheet, OpenSheets
    <3>2. tab' = [y EXCEPT !.open = NoSheet] BY <2>1, <2>2, <2>6, <3>1 DEF PoppedState, ClosedAll
    <3>3. /\ tab' \in Tab /\ tab'.queue = rest /\ tab'.entries = tab.entries /\ tab'.at = to
          /\ tab'.open = NoSheet /\ tab'.pendingBack = 0 /\ tab'.shown = tab.shown
      BY <2>2, <2>6, <3>1, <3>2 DEF Tab
    <3>4. Sound(tab') BY <1>3, <1>10, <3>1, <3>3 DEF Sound, Owed, left
    <3>5. ASSUME ~raced PROVE Straight(tab') /\ (NoRules(tab) => NoRules(tab'))
      <4>1. rest = <<>> /\ Straight(tab) BY <1>8, <2>6, <3>5
      <4>2. TakesItsEntry(tab) BY <2>6, <3>1, <4>1 DEF Straight
      <4>3. to = tab.at - 1 /\ tab.at = Len(tab.entries) /\ OnTable(tab, to) /\ OnTable(tab, tab.at)
        BY <1>1, <1>4, <1>10, <4>2 DEF TakesItsEntry
      <4>4. Address(tab') = Table BY <3>3, <4>3 DEF Address, Here, OnTable
      <4>5. tab.shown = Table
        <5>1. tab.shown = Address(tab) BY <2>6, <3>1, <4>1 DEF Straight, Drawn
        <5> QED BY <4>3, <5>1 DEF Address, Here, OnTable
      <4>6. Drawn(tab') BY <3>1, <3>3, <4>4, <4>5 DEF Drawn, Routed, RouteSheet, Table, Setup, CrewSetup, Rules
      <4>7. NoRules(tab') BY <2>6, <3>1, <3>3, <4>1 DEF Straight, AtRules, NoRules
      <4>8. NoneOfOwn(tab') BY <3>3, <4>1 DEF NoneOfOwn
      <4> QED BY <3>1, <3>3, <4>6, <4>7, <4>8 DEF Straight
    <3> QED BY <3>4, <3>5
  <2>7. CASE tab.pendingBack = 0 /\ ~tab.open.routed
    <3>1. tab' = Rendered(y) BY <2>1, <2>2, <2>7 DEF PoppedState
    <3>2. Sound(y) BY <1>3, <1>10, <2>2, <2>7 DEF Sound, Owed, left
    <3>3. ASSUME ~raced PROVE Straight(tab') /\ (NoRules(tab) => NoRules(tab'))
      <4>1. rest = <<>> /\ Straight(tab) BY <1>8, <2>7, <3>3
      <4>2. NoRules(tab)
        <5>1. to # tab.at BY <1>1, <1>4
        <5> DEFINE m == Len(tab.entries)
                   p == tab.at
        <5>2. m \in Nat /\ to \in 1..m /\ p \in 1..m /\ to # p BY <1>1, <1>10, <5>1
        <5> HIDE DEF m, p
        <5>4. m # 1 BY <5>2
        <5>3. ~AtRules(tab) BY <5>4 DEF AtRules, m
        <5> QED BY <4>1, <5>3 DEF Straight
      <4>3. Address(y) # Rules BY <1>10, <2>3, <4>2 DEF NoRules
      <4>4. /\ tab'.entries = tab.entries /\ tab'.queue = rest /\ tab'.pendingBack = 0
            /\ ~tab'.open.routed /\ Drawn(tab')
        BY <2>2, <2>7, <3>1, <3>2, <4>3, RenderedIs
      <4> QED BY <4>1, <4>2, <4>4 DEF Straight, NoneOfOwn, NoRules
    <3> QED BY <3>1, <3>2, <3>3, RenderedIs
  <2> QED BY <1>1, <2>4, <2>5, <2>6, <2>7, SheetsAre
<1> QED BY <1>9, <1>10

-----------------------------------------------------------------------------
(* What the player and the answers do *)

\* What each sheet is.
LEMMA TheSheets ==
  /\ NoSheet.sheet = "none" /\ NoSheet.routed = FALSE /\ NoSheet.then = "nothing"
  /\ SetupSheet.sheet = "setup" /\ SetupSheet.routed = FALSE /\ SetupSheet.then = "home"
  /\ HelpOfRoute.sheet = "help" /\ HelpOfRoute.routed = FALSE /\ HelpOfRoute.then = "home"
  /\ HelpOverSetup.sheet = "help" /\ HelpOverSetup.routed = FALSE /\ HelpOverSetup.then = "setup"
  /\ HelpAtTable.sheet = "help" /\ HelpAtTable.routed = TRUE /\ HelpAtTable.then = "nothing"
  /\ LeaveSheet.sheet = "leave" /\ LeaveSheet.routed = FALSE /\ LeaveSheet.then = "nothing"
  /\ Cover.sheet = "cover" /\ Cover.routed = TRUE /\ Cover.then = "nothing"
  /\ {NoSheet, SetupSheet, HelpOfRoute, HelpOverSetup, HelpAtTable, LeaveSheet, Cover} = OpenSheets
BY DEF NoSheet, SetupSheet, HelpOfRoute, HelpOverSetup, HelpAtTable, LeaveSheet, Cover, OpenSheets

\* Nothing is owed while no step is under way and all went in order.
LEMMA Calm ==
  ASSUME SheetsInv, ~raced, Quiet(tab)
  PROVE  Straight(tab) /\ tab.queue = <<>> /\ tab.pendingBack = 0
<1>1. Straight(tab) /\ tab.queue = <<>> BY DEF SheetsInv, Quiet
<1>2. ~OwnUnderWay(tab)
  <2>1. <<"own">> # <<>> OBVIOUS
  <2> QED BY <1>1, <2>1 DEF OwnUnderWay
<1> QED BY <1>1, <1>2 DEF Straight, NoneOfOwn

\* What a change has to show: that the tab is sound after it, and straight if it was in order.
LEMMA Changed ==
  ASSUME SheetsInv, NEW t, NEW orderly \in BOOLEAN, Changes(t, orderly), Sound(t),
         starting' \in BOOLEAN,
         ~raced /\ orderly /\ Quiet(tab) => Straight(t) /\ (starting' => NoRules(t))
  PROVE  SheetsInv'
<1>1. tab' = t /\ Len(t.entries) <= MaxEntries /\ raced' = (raced \/ ~orderly \/ ~Quiet(tab))
  BY DEF Changes, Step
<1>2. Sound(tab') /\ Len(tab'.entries) <= MaxEntries BY <1>1
<1>3. raced' \in BOOLEAN BY <1>1
<1>4. ~raced' => Straight(tab') /\ (starting' => NoRules(tab')) BY <1>1
<1> QED BY <1>2, <1>3, <1>4 DEF SheetsInv

\* Only what loads or plays may differ.
LEMMA StraightToo ==
  ASSUME NEW t, Straight(t), NoRules(t), NEW u, u.entries = t.entries, u.at = t.at,
         u.open = t.open, u.pendingBack = t.pendingBack, u.queue = t.queue, u.shown = t.shown
  PROVE  Straight(u) /\ NoRules(u)
BY DEF Straight, Drawn, Address, Here, TakesItsEntry, OnItsEntry, OnTable, OwnUnderWay,
       NoneOfOwn, NoRules

\* The rules' address has a sheet of its own.
LEMMA OffTheRules ==
  ASSUME NEW t, Straight(t), t.open # HelpOfRoute \/ t.loading
  PROVE  NoRules(t)
BY DEF Straight, AtRules

\* A sheet that is open without an entry of its own.
LEMMA Unrouted ==
  ASSUME NEW t, NEW s \in OpenSheets, t.open = s, ~s.routed
  PROVE  ~OnItsEntry(t)
BY DEF OnItsEntry

\* A new page leaves the tab straight.
LEMMA NavigatedStraight ==
  ASSUME NEW t, Sound(t), NoneOfOwn(t), NoRules(t), NEW path \in Paths, path # Rules,
         NEW u, u = Navigated(t, path)
  PROVE  Sound(u) /\ Straight(u) /\ NoRules(u)
<1>1. /\ Sound(u) /\ ~u.open.routed /\ Drawn(u)
      /\ u.queue = t.queue /\ u.pendingBack = t.pendingBack /\ NoRules(u)
  BY NavigatedIs
<1> QED BY <1>1 DEF Straight, NoneOfOwn

\* So does a page in place of another.
LEMMA InPlaceStraight ==
  ASSUME NEW t, Sound(t), NoneOfOwn(t), NoRules(t) \/ Len(t.entries) = 1,
         NEW path \in Paths, path # Rules, NEW u, u = NavigatedInPlace(t, path)
  PROVE  Sound(u) /\ Straight(u) /\ NoRules(u)
<1>1. /\ Sound(u) /\ ~u.open.routed /\ Drawn(u)
      /\ u.queue = t.queue /\ u.pendingBack = t.pendingBack /\ NoRules(u)
  BY NavigatedInPlaceIs
<1> QED BY <1>1 DEF Straight, NoneOfOwn

\* A sheet put away at its table leaves by a step back, and one without an entry stays there.
LEMMA FinishedStraight ==
  ASSUME NEW t, Sound(t), Straight(t), NoRules(t), t.queue = <<>>, t.pendingBack = 0,
         t.open \in {HelpAtTable, Cover, LeaveSheet}, NEW u, u = Finished(t)
  PROVE  Straight(u) /\ NoRules(u)
<1>1. /\ u.open = NoSheet /\ u.entries = t.entries /\ u.at = t.at /\ u.shown = t.shown
      /\ ~OnItsEntry(t) => u.queue = t.queue /\ u.pendingBack = t.pendingBack
      /\ OnItsEntry(t) => u.queue = Append(t.queue, "own") /\ u.pendingBack = t.pendingBack + 1
  BY FinishedIs
<1>2. t.open.then = "nothing" /\ NoSheet.then = "nothing" /\ NoSheet.sheet = "none" /\ ~NoSheet.routed
  BY TheSheets
<1>3. Address(u) = Address(t) BY <1>1 DEF Address, Here
<1>4. Drawn(u) BY <1>1, <1>2, <1>3 DEF Straight, Drawn
<1>5. NoRules(u) BY <1>1 DEF NoRules
<1>6. CASE OnItsEntry(t)
  <2>1. TakesItsEntry(t) BY <1>6 DEF Straight, OnItsEntry
  <2>2. Append(<<>>, "own") = <<"own">> /\ 0 + 1 = 1 OBVIOUS
  <2>3. OwnUnderWay(u) BY <1>1, <1>6, <2>1, <2>2 DEF OwnUnderWay, TakesItsEntry, OnTable
  <2> QED BY <1>1, <1>2, <1>4, <1>5, <2>3 DEF Straight
<1>7. CASE ~OnItsEntry(t)
  <2>1. NoneOfOwn(u) BY <1>1, <1>7 DEF NoneOfOwn
  <2> QED BY <1>1, <1>2, <1>4, <1>5, <2>1 DEF Straight
<1> QED BY <1>6, <1>7

\* A sheet with an entry of its own opens at its table.
LEMMA OpenedStraight ==
  ASSUME NEW t, Sound(t), Straight(t), NoRules(t), t.queue = <<>>, t.pendingBack = 0,
         t.shown = Table, NEW s \in {HelpAtTable, Cover}, t.open.sheet # s.sheet,
         NEW u, u = Opened(t, s)
  PROVE  Straight(u) /\ NoRules(u)
<1>1. s \in OpenSheets /\ s.routed /\ s.then = "nothing" /\ s.sheet # "setup" BY TheSheets
<1>2. t \in Tab /\ t.at \in 1..Len(t.entries) /\ Len(t.entries) \in Nat
  BY LenProperties DEF Sound, Owed, Tab
<1>3. /\ u.open = s /\ u.shown = Table /\ u.queue = t.queue /\ u.pendingBack = t.pendingBack
      /\ Address(u) = Address(t) /\ Here(u).sheet = s.sheet
      /\ OnItsEntry(t) => /\ u.at = t.at /\ Len(u.entries) = Len(t.entries)
                          /\ \A i \in 1..Len(t.entries) : i # t.at => u.entries[i] = t.entries[i]
      /\ ~OnItsEntry(t) => /\ u.at = t.at + 1 /\ Len(u.entries) = u.at
                           /\ \A i \in 1..t.at : u.entries[i] = t.entries[i]
  BY <1>1, OpenedIs
<1>4. Address(t) = Table
  <2>1. ~Routed(t.shown)
    BY DEF Routed, RouteSheet, Table, Setup, CrewSetup, Rules
  <2> QED BY <2>1 DEF Straight, Drawn
<1>5. Drawn(u) BY <1>1, <1>3, <1>4 DEF Drawn, Routed, RouteSheet, Table, Setup, CrewSetup, Rules
<1>6. NoneOfOwn(u) BY <1>3 DEF NoneOfOwn
<1>7. OnItsEntry(u) BY <1>1, <1>3 DEF OnItsEntry
<1>8. u.entries[u.at].path = Table /\ t.entries[t.at].path = Table BY <1>3, <1>4 DEF Address, Here
<1>9. Table # Rules BY DEF Table, Rules
<1> DEFINE k == t.at
           n == Len(t.entries)
<1>10. k \in 1..n /\ n \in Nat BY <1>2
<1>11. CASE OnItsEntry(t)
  <2>1. TakesItsEntry(t) BY <1>11 DEF Straight, OnItsEntry
  <2>2. u.at = k /\ Len(u.entries) = n /\ k = n BY <1>3, <1>11, <2>1 DEF TakesItsEntry
  <2>3. OnTable(t, k - 1) BY <2>1 DEF TakesItsEntry
  <2>4. \A i \in 1..n : i # k => u.entries[i] = t.entries[i] BY <1>3, <1>11
  <2>5. u.entries[k].path = Table BY <1>8, <2>2
  <2>6. k - 1 \in 1..n /\ t.entries[k - 1].path = Table BY <2>3 DEF OnTable
  <2> HIDE DEF k, n
  <2>7. k - 1 # k BY <1>10
  <2>8. u.entries[k - 1].path = Table BY <2>4, <2>6, <2>7
  <2>9. TakesItsEntry(u) BY <1>7, <1>10, <2>2, <2>5, <2>6, <2>8 DEF TakesItsEntry, OnTable
  <2>10. NoRules(u)
    <3> SUFFICES ASSUME NEW i \in 1..n PROVE u.entries[i].path # Rules BY <2>2 DEF NoRules
    <3>1. CASE i = k BY <1>9, <2>5, <3>1
    <3>2. CASE i # k BY <2>4, <3>2 DEF NoRules, n
    <3> QED BY <3>1, <3>2
  <2> QED BY <1>5, <1>6, <2>9, <2>10 DEF Straight
<1>12. CASE ~OnItsEntry(t)
  <2>1. u.at = k + 1 /\ Len(u.entries) = k + 1 /\ \A i \in 1..k : u.entries[i] = t.entries[i]
    BY <1>3, <1>12
  <2>2. u.entries[k + 1].path = Table BY <1>8, <2>1
  <2>3. t.entries[k].path = Table BY <1>8
  <2> HIDE DEF k, n
  <2>4. u.entries[k].path = Table BY <1>10, <2>1, <2>3
  <2>5. OnTable(u, k + 1) /\ OnTable(u, k) BY <1>10, <2>1, <2>2, <2>4 DEF OnTable
  <2>6. TakesItsEntry(u)
    <3>1. u.at - 1 = k
      <4> DEFINE j == u.at
      <4>1. j = k + 1 /\ k \in Nat BY <1>10, <2>1
      <4> HIDE DEF j
      <4>2. j - 1 = k BY <4>1
      <4> QED BY <4>2 DEF j
    <3>2. u.at = Len(u.entries) /\ OnTable(u, u.at) BY <2>1, <2>5
    <3>3. OnTable(u, u.at - 1) BY <2>5, <3>1
    <3> QED BY <1>7, <3>2, <3>3 DEF TakesItsEntry
  <2>7. NoRules(u)
    <3> SUFFICES ASSUME NEW i \in 1..(k + 1) PROVE u.entries[i].path # Rules BY <2>1 DEF NoRules
    <3>1. i = k + 1 \/ i \in 1..k BY <1>10
    <3>2. CASE i = k + 1 BY <1>9, <2>2, <3>2
    <3>3. CASE i \in 1..k
      <4>1. i \in 1..n BY <1>10, <3>3
      <4> QED BY <2>1, <3>3, <4>1 DEF NoRules, n
    <3> QED BY <3>1, <3>2, <3>3
  <2> QED BY <1>5, <1>6, <2>6, <2>7 DEF Straight
<1> QED BY <1>11, <1>12

\* Links, and leaving a match.
LEMMA FollowKeeps ==
  ASSUME SheetsInv, NEW path \in Paths, Follow(path)
  PROVE  SheetsInv'
<1> DEFINE u == Navigated(tab, path)
<1>1. Sound(tab) /\ starting' \in BOOLEAN BY DEF SheetsInv, Follow
<1>2. tab.open # HelpOfRoute BY TheSheets DEF Follow, Free
<1>3. path # Rules BY DEF Follow, Home, Setup, Crew, CrewSetup, Rules
<1>4. Sound(u) BY <1>1, NavigatedIs
<1>5. ASSUME ~raced, Quiet(tab) PROVE Straight(u) /\ NoRules(u)
  <2>1. Straight(tab) /\ tab.queue = <<>> /\ tab.pendingBack = 0 BY <1>5, Calm
  <2>2. NoneOfOwn(tab) /\ NoRules(tab) BY <1>2, <2>1, OffTheRules DEF NoneOfOwn
  <2> QED BY <1>1, <1>3, <2>2, NavigatedStraight
<1>6. Changes(u, TRUE) BY DEF Follow
<1> HIDE DEF u
<1> QED BY <1>1, <1>4, <1>5, <1>6, Changed

LEMMA LeaveKeeps ==
  ASSUME SheetsInv, Leave
  PROVE  SheetsInv'
<1> DEFINE u == Opened(tab, LeaveSheet)
           v == Navigated(tab, Setup)
           w == IF tab.playing THEN u ELSE v
<1>1. Sound(tab) /\ starting' \in BOOLEAN BY DEF SheetsInv, Leave
<1>2. tab \in Tab /\ tab.open \in OpenSheets BY <1>1 DEF Sound, Tab
<1>3. tab.open = NoSheet BY <1>2, TheSheets DEF Leave, Free
<1>4. Setup \in Paths /\ Setup # Rules BY DEF Paths, Setup, Rules
<1>5. /\ Sound(u) /\ u.shown = tab.shown /\ u.open = LeaveSheet
      /\ u.entries = tab.entries /\ u.at = tab.at
      /\ u.queue = tab.queue /\ u.pendingBack = tab.pendingBack
  BY <1>1, <1>3, TheSheets, OpenedIs
<1>6. Sound(v) BY <1>1, <1>4, NavigatedIs
<1>7. ASSUME ~raced, Quiet(tab) PROVE Straight(u) /\ NoRules(u) /\ Straight(v) /\ NoRules(v)
  <2>1. Straight(tab) /\ tab.queue = <<>> /\ tab.pendingBack = 0 BY <1>7, Calm
  <2>2. NoneOfOwn(tab) /\ NoRules(tab) BY <1>3, <2>1, TheSheets, OffTheRules DEF NoneOfOwn
  <2>3. Straight(v) /\ NoRules(v) BY <1>1, <1>4, <2>2, NavigatedStraight
  <2>4. Address(u) = Address(tab) BY <1>5 DEF Address, Here
  <2>5. Drawn(u) BY <1>3, <1>5, <2>1, <2>4, TheSheets DEF Straight, Drawn
  <2>6. NoneOfOwn(u) /\ NoRules(u) BY <1>5, <2>2 DEF NoneOfOwn, NoRules
  <2>7. Straight(u) BY <1>5, <2>5, <2>6, TheSheets DEF Straight
  <2> QED BY <2>3, <2>6, <2>7
<1>8. Changes(w, TRUE) BY DEF Leave
<1> HIDE DEF u, v
<1>9. Sound(w) /\ (~raced /\ Quiet(tab) => Straight(w) /\ NoRules(w)) BY <1>5, <1>6, <1>7
<1> HIDE DEF w
<1> QED BY <1>1, <1>8, <1>9, Changed

LEMMA ConfirmLeaveKeeps ==
  ASSUME SheetsInv, ConfirmLeave
  PROVE  SheetsInv'
<1> DEFINE f == Finished(tab)
           u == Navigated(f, Setup)
<1>1. Sound(tab) /\ starting' \in BOOLEAN BY DEF SheetsInv, ConfirmLeave
<1>2. tab.open = LeaveSheet /\ Changes(u, TRUE) BY DEF ConfirmLeave
<1>3. ~OnItsEntry(tab) BY <1>2, TheSheets, Unrouted
<1>4. Setup \in Paths /\ Setup # Rules BY DEF Paths, Setup, Rules
<1>5. Sound(f) /\ f.entries = tab.entries /\ f.queue = tab.queue /\ f.pendingBack = tab.pendingBack
  BY <1>1, <1>3, FinishedIs
<1> HIDE DEF f
<1>6. Sound(u) BY <1>4, <1>5, NavigatedIs
<1>7. ASSUME ~raced, Quiet(tab) PROVE Straight(u) /\ NoRules(u)
  <2>1. Straight(tab) /\ tab.queue = <<>> /\ tab.pendingBack = 0 BY <1>7, Calm
  <2>2. NoRules(tab) BY <1>2, <2>1, TheSheets, OffTheRules
  <2>3. NoneOfOwn(f) /\ NoRules(f) BY <1>5, <2>1, <2>2 DEF NoneOfOwn, NoRules
  <2> QED BY <1>4, <1>5, <2>3, NavigatedStraight
<1> HIDE DEF u
<1> QED BY <1>1, <1>2, <1>6, <1>7, Changed

\* Help is opened at the table with an entry of its own, and over the setup without one.
LEMMA OpenHelpKeeps ==
  ASSUME SheetsInv, OpenHelp
  PROVE  SheetsInv'
<1>1. Sound(tab) /\ starting' \in BOOLEAN BY DEF SheetsInv, OpenHelp
<1>2. CASE Free /\ tab.shown = Table /\ Changes(Opened(tab, HelpAtTable), TRUE)
  <2> DEFINE u == Opened(tab, HelpAtTable)
  <2>1. Sound(u) BY <1>1, TheSheets, OpenedIs
  <2>2. tab.open.sheet = "none" BY <1>2 DEF Free
  <2>3. ASSUME ~raced, Quiet(tab) PROVE Straight(u) /\ NoRules(u)
    <3>1. Straight(tab) /\ tab.queue = <<>> /\ tab.pendingBack = 0 BY <2>3, Calm
    <3>2. NoRules(tab) BY <2>2, <3>1, TheSheets, OffTheRules
    <3> QED BY <1>1, <1>2, <2>2, <3>1, <3>2, TheSheets, OpenedStraight
  <2>4. Changes(u, TRUE) BY <1>2
  <2> HIDE DEF u
  <2> QED BY <1>1, <2>1, <2>3, <2>4, Changed
<1>3. CASE tab.open = SetupSheet /\ Changes(Opened(tab, HelpOverSetup), TRUE)
  <2> DEFINE u == Opened(tab, HelpOverSetup)
  <2>1. /\ Sound(u) /\ u.shown = tab.shown /\ u.open = HelpOverSetup
        /\ u.entries = tab.entries /\ u.at = tab.at
        /\ u.queue = tab.queue /\ u.pendingBack = tab.pendingBack
    BY <1>1, <1>3, TheSheets, OpenedIs
  <2>2. ASSUME ~raced, Quiet(tab) PROVE Straight(u) /\ NoRules(u)
    <3>1. Straight(tab) /\ tab.queue = <<>> /\ tab.pendingBack = 0 BY <2>2, Calm
    <3>2. NoRules(tab) BY <1>3, <3>1, TheSheets, OffTheRules
    <3>3. Address(u) = Address(tab) BY <2>1 DEF Address, Here
    <3>4. Drawn(u) BY <1>3, <2>1, <3>1, <3>3, TheSheets DEF Straight, Drawn
    <3>5. NoneOfOwn(u) /\ NoRules(u) BY <2>1, <3>1, <3>2 DEF NoneOfOwn, NoRules
    <3> QED BY <2>1, <3>4, <3>5, TheSheets DEF Straight
  <2>3. Changes(u, TRUE) BY <1>3
  <2> HIDE DEF u
  <2> QED BY <1>1, <2>1, <2>2, <2>3, Changed
<1> QED BY <1>2, <1>3 DEF OpenHelp

\* A sheet dismissed goes back to what it stood over.
LEMMA DismissKeeps ==
  ASSUME SheetsInv, Dismiss
  PROVE  SheetsInv'
<1> DEFINE f == Finished(tab)
           u == Dismissed(tab)
<1>1. Sound(tab) /\ starting' \in BOOLEAN /\ Changes(u, TRUE) BY DEF SheetsInv, Dismiss
<1>2. tab.open \in {SetupSheet, HelpOfRoute, HelpOverSetup, HelpAtTable, LeaveSheet}
  <2>1. tab.open \in OpenSheets BY <1>1 DEF Sound, Tab
  <2>2. tab.open # NoSheet /\ tab.open # Cover BY TheSheets DEF Dismiss
  <2> QED BY <2>1, <2>2 DEF OpenSheets
<1>3. /\ Sound(f) /\ f.open = NoSheet /\ f.entries = tab.entries /\ f.at = tab.at
      /\ f.shown = tab.shown
      /\ ~OnItsEntry(tab) => f.queue = tab.queue /\ f.pendingBack = tab.pendingBack
  BY <1>1, FinishedIs
<1>4. CASE tab.open \in {SetupSheet, HelpOfRoute}
  <2> DEFINE path == IF tab.open.sheet = "setup" THEN SetupHome(tab.mode) ELSE Home
  <2>1. u = NavigatedInPlace(f, path) BY <1>4, TheSheets DEF Dismissed
  <2>2. path \in Paths /\ path # Rules BY DEF SetupHome, Paths, Home, Crew, Rules
  <2> HIDE DEF path, f, u
  <2>3. Sound(u) BY <1>3, <2>1, <2>2, NavigatedInPlaceIs
  <2>4. ~OnItsEntry(tab) BY <1>4, TheSheets, Unrouted
  <2>5. ASSUME ~raced, Quiet(tab) PROVE Straight(u) /\ NoRules(u)
    <3>1. Straight(tab) /\ tab.queue = <<>> /\ tab.pendingBack = 0 BY <2>5, Calm
    <3>2. NoRules(tab) \/ Len(tab.entries) = 1 BY <3>1 DEF Straight, AtRules
    <3>3. NoneOfOwn(f) /\ (NoRules(f) \/ Len(f.entries) = 1)
      BY <1>3, <2>4, <3>1, <3>2 DEF NoneOfOwn, NoRules
    <3> QED BY <1>3, <2>1, <2>2, <3>3, InPlaceStraight
  <2> QED BY <1>1, <2>3, <2>5, Changed
<1>5. CASE tab.open = HelpOverSetup
  <2>1. u = Opened(f, SetupSheet) BY <1>5, TheSheets DEF Dismissed
  <2>2. ~OnItsEntry(tab) BY <1>5, TheSheets, Unrouted
  <2> HIDE DEF f, u
  <2>3. /\ Sound(u) /\ u.shown = f.shown /\ u.open = SetupSheet
        /\ u.entries = f.entries /\ u.at = f.at
        /\ u.queue = f.queue /\ u.pendingBack = f.pendingBack
    BY <1>3, <2>1, TheSheets, OpenedIs
  <2>4. ASSUME ~raced, Quiet(tab) PROVE Straight(u) /\ NoRules(u)
    <3>1. Straight(tab) /\ tab.queue = <<>> /\ tab.pendingBack = 0 BY <2>4, Calm
    <3>2. NoRules(tab) BY <1>5, <3>1, TheSheets, OffTheRules
    <3>3. Address(u) = Address(tab) BY <1>3, <2>3 DEF Address, Here
    <3>4. Drawn(u) BY <1>3, <1>5, <2>3, <3>1, <3>3, TheSheets DEF Straight, Drawn
    <3>5. NoneOfOwn(u) /\ NoRules(u) BY <1>3, <2>2, <2>3, <3>1, <3>2 DEF NoneOfOwn, NoRules
    <3> QED BY <2>3, <3>4, <3>5, TheSheets DEF Straight
  <2> QED BY <1>1, <2>3, <2>4, Changed
<1>6. CASE tab.open \in {HelpAtTable, LeaveSheet}
  <2>1. u = f BY <1>6, TheSheets DEF Dismissed
  <2> HIDE DEF u
  <2>2. ASSUME ~raced, Quiet(tab) PROVE Straight(u) /\ NoRules(u)
    <3>1. Straight(tab) /\ tab.queue = <<>> /\ tab.pendingBack = 0 BY <2>2, Calm
    <3>2. NoRules(tab) BY <1>6, <3>1, TheSheets, OffTheRules
    <3> QED BY <1>1, <1>6, <2>1, <3>1, <3>2, FinishedStraight
  <2>3. Sound(u) BY <1>3, <2>1
  <2> QED BY <1>1, <2>2, <2>3, Changed
<1> QED BY <1>2, <1>4, <1>5, <1>6

LEMMA ReadyKeeps ==
  ASSUME SheetsInv, Ready
  PROVE  SheetsInv'
<1> DEFINE u == Finished(tab)
<1>1. Sound(tab) /\ starting' \in BOOLEAN /\ Changes(u, TRUE) /\ tab.open = Cover
  BY DEF SheetsInv, Ready
<1>2. Sound(u) BY <1>1, FinishedIs
<1>3. ASSUME ~raced, Quiet(tab) PROVE Straight(u) /\ NoRules(u)
  <2>1. Straight(tab) /\ tab.queue = <<>> /\ tab.pendingBack = 0 BY <1>3, Calm
  <2>2. NoRules(tab) BY <1>1, <2>1, TheSheets, OffTheRules
  <2> QED BY <1>1, <2>1, <2>2, FinishedStraight
<1> HIDE DEF u
<1> QED BY <1>1, <1>2, <1>3, Changed

\* Another mode of the setup stays at an address of the setup.
LEMMA ChooseModeKeeps ==
  ASSUME SheetsInv, NEW mode \in Modes, ChooseMode(mode)
  PROVE  SheetsInv'
<1> DEFINE v == [tab EXCEPT !.mode = mode]
           e == Plain(SetupPath(mode))
           u == Replaced(v, e)
<1>1. Sound(tab) /\ starting' \in BOOLEAN /\ tab.open = SetupSheet /\ Changes(u, TRUE)
  BY DEF SheetsInv, ChooseMode
<1>2. /\ v \in Tab /\ v.entries = tab.entries /\ v.at = tab.at /\ v.open = tab.open
      /\ v.queue = tab.queue /\ v.pendingBack = tab.pendingBack /\ v.shown = tab.shown
  BY <1>1 DEF Sound, Tab
<1>3. e \in Entry /\ e.path \in {Setup, CrewSetup} BY DEF Plain, SetupPath, Entry, Paths
<1> HIDE DEF v, e
<1>4. v.at \in 1..Len(v.entries) BY <1>1, <1>2 DEF Sound, Owed
<1>5. /\ u \in Tab /\ u.at = v.at /\ Len(u.entries) = Len(v.entries) /\ u.entries[u.at] = e
      /\ \A i \in 1..Len(v.entries) : i # v.at => u.entries[i] = v.entries[i]
      /\ u.open = v.open /\ u.pendingBack = v.pendingBack /\ u.queue = v.queue /\ u.shown = v.shown
  BY <1>2, <1>3, <1>4, ReplacedIs
<1> HIDE DEF u
<1>6. Sound(u) BY <1>1, <1>2, <1>5 DEF Sound, Owed
<1>7. ASSUME ~raced, Quiet(tab) PROVE Straight(u) /\ NoRules(u)
  <2>1. Straight(tab) /\ tab.queue = <<>> /\ tab.pendingBack = 0 BY <1>7, Calm
  <2>2. NoRules(tab) BY <1>1, <2>1, TheSheets, OffTheRules
  <2>3. Address(u) \in {Setup, CrewSetup} BY <1>3, <1>5 DEF Address, Here
  <2>4. RouteSheet(Address(u)) = "setup" /\ e.path # Rules
    BY <1>3, <2>3 DEF RouteSheet, Setup, CrewSetup, Rules
  <2>5. Drawn(u) BY <1>1, <1>2, <1>5, <2>1, <2>4, TheSheets DEF Straight, Drawn, Routed
  <2>6. NoRules(u) BY <1>2, <1>4, <1>5, <2>2, <2>4 DEF NoRules
  <2>7. NoneOfOwn(u) BY <1>2, <1>5, <2>1 DEF NoneOfOwn
  <2> QED BY <1>1, <1>2, <1>5, <2>5, <2>6, <2>7, TheSheets DEF Straight
<1> QED BY <1>1, <1>6, <1>7, Changed

\* The player asks the browser for a step.
LEMMA BrowseKeeps ==
  ASSUME SheetsInv, NEW step \in {"back", "forward"}, Browse(step)
  PROVE  SheetsInv'
<1> DEFINE q == Append(tab.queue, step)
           u == [tab EXCEPT !.queue = q]
<1>1. Sound(tab) /\ starting' \in BOOLEAN /\ Changes(u, TRUE) BY DEF SheetsInv, Browse
<1>2. tab.queue \in Seq(Steps) /\ step \in Steps BY <1>1 DEF Sound, Tab, Steps
<1>3. q \in Seq(Steps) BY <1>2
<1>4. Cardinality(Own(q)) = Cardinality(Own(tab.queue)) BY <1>2, OwnAppended
<1>5. tab.queue = <<>> => q = <<step>> OBVIOUS
<1> HIDE DEF q
<1>6. /\ u \in Tab /\ u.entries = tab.entries /\ u.at = tab.at /\ u.open = tab.open
      /\ u.queue = q /\ u.pendingBack = tab.pendingBack /\ u.shown = tab.shown
      /\ u.loading = tab.loading
  BY <1>1, <1>3 DEF Sound, Tab, Steps
<1> HIDE DEF u
<1>7. Sound(u) BY <1>1, <1>4, <1>6 DEF Sound, Owed
<1>8. ASSUME ~raced, Quiet(tab) PROVE Straight(u) /\ (starting' => NoRules(u))
  <2>1. Straight(tab) /\ tab.queue = <<>> /\ tab.pendingBack = 0 BY <1>8, Calm
  <2>2. NoneOfOwn(u) BY <1>5, <1>6, <2>1 DEF NoneOfOwn
  <2>3. Address(u) = Address(tab) /\ Here(u) = Here(tab) BY <1>6 DEF Address, Here
  <2>4. Drawn(u) BY <1>6, <2>1, <2>3 DEF Straight, Drawn
  <2>5. u.open.routed => TakesItsEntry(u)
    BY <1>6, <2>1, <2>3 DEF Straight, TakesItsEntry, OnItsEntry, OnTable
  <2>6. NoRules(tab) => NoRules(u) BY <1>6 DEF NoRules
  <2>7. AtRules(tab) => AtRules(u) BY <1>6 DEF AtRules
  <2>8. starting' => NoRules(tab) BY <1>8 DEF Browse, SheetsInv
  <2> QED BY <2>1, <2>2, <2>4, <2>5, <2>6, <2>7, <2>8 DEF Straight
<1> QED BY <1>1, <1>7, <1>8, Changed

\* A game that starts leads to its table, from wherever the player is.
LEMMA StartedKeeps ==
  ASSUME SheetsInv, Started
  PROVE  SheetsInv'
<1> DEFINE u == Navigated(tab, Table)
<1>1. Sound(tab) /\ starting' \in BOOLEAN /\ starting /\ Changes(u, TRUE) BY DEF SheetsInv, Started
<1>2. Table \in Paths /\ Table # Rules BY DEF Paths, Table, Rules
<1>3. Sound(u) BY <1>1, <1>2, NavigatedIs
<1>4. ASSUME ~raced, Quiet(tab) PROVE Straight(u) /\ NoRules(u)
  <2>1. Straight(tab) /\ tab.queue = <<>> /\ tab.pendingBack = 0 BY <1>4, Calm
  <2>2. NoneOfOwn(tab) /\ NoRules(tab) BY <1>1, <1>4, <2>1 DEF SheetsInv, NoneOfOwn
  <2> QED BY <1>1, <1>2, <2>2, NavigatedStraight
<1> HIDE DEF u
<1> QED BY <1>1, <1>3, <1>4, Changed

\* A game is asked for from the setup sheet, which is not open over the rules.
LEMMA SubmitKeeps ==
  ASSUME SheetsInv, Submit \/ StartFails
  PROVE  SheetsInv'
<1>1. tab' = tab /\ raced' = raced /\ starting' \in BOOLEAN BY DEF Submit, StartFails
<1>2. Submit /\ ~raced => NoRules(tab)
  BY TheSheets, OffTheRules DEF Submit, SheetsInv
<1>3. Sound(tab') /\ Len(tab'.entries) <= MaxEntries BY <1>1 DEF SheetsInv
<1>4. ~raced' => Straight(tab') BY <1>1 DEF SheetsInv
<1>5. ~raced' /\ starting' => NoRules(tab') BY <1>1, <1>2 DEF SheetsInv, StartFails
<1>6. {starting', raced'} \subseteq BOOLEAN BY <1>1 DEF SheetsInv
<1> QED BY <1>3, <1>4, <1>5, <1>6 DEF SheetsInv

\* A table that answers may ask who holds the device.
LEMMA LoadKeeps ==
  ASSUME SheetsInv, Load
  PROVE  SheetsInv'
<1> DEFINE t == [tab EXCEPT !.loading = FALSE, !.playing = TRUE]
           u == Opened(t, Cover)
           onTime == tab.shown = Table
<1>1. Sound(tab) /\ starting' \in BOOLEAN /\ starting' = starting /\ tab.loading
  BY DEF SheetsInv, Load
<1>2. /\ t \in Tab /\ t.entries = tab.entries /\ t.at = tab.at /\ t.open = tab.open
      /\ t.queue = tab.queue /\ t.pendingBack = tab.pendingBack /\ t.shown = tab.shown
  BY <1>1 DEF Sound, Tab
<1>3. (Step(t) /\ raced' = (raced \/ ~onTime)) \/ Changes(u, onTime) BY DEF Load
<1>4. onTime \in BOOLEAN OBVIOUS
<1> HIDE DEF t
<1>5. Sound(t) BY <1>1, <1>2 DEF Sound, Owed
<1>6. ASSUME ~raced PROVE Straight(t) /\ NoRules(t)
  <2>1. Straight(tab) BY <1>6 DEF SheetsInv
  <2>2. NoRules(tab) BY <1>1, <2>1, OffTheRules
  <2> QED BY <1>2, <2>1, <2>2, StraightToo
<1>7. CASE Step(t) /\ raced' = (raced \/ ~onTime)
  <2>1. tab' = t /\ Len(t.entries) <= MaxEntries BY <1>7 DEF Step
  <2>2. raced' \in BOOLEAN /\ (~raced' => ~raced) BY <1>7
  <2>3. Sound(tab') /\ Len(tab'.entries) <= MaxEntries BY <1>5, <2>1
  <2>4. ~raced' => Straight(tab') /\ NoRules(tab') BY <1>6, <2>1, <2>2
  <2> QED BY <1>1, <2>2, <2>3, <2>4 DEF SheetsInv
<1>8. CASE Changes(u, onTime)
  <2>1. Sound(u) /\ (t.open.sheet = Cover.sheet => u = t) BY <1>5, TheSheets, OpenedIs
  <2>2. ASSUME ~raced, onTime, Quiet(tab) PROVE Straight(u) /\ NoRules(u)
    <3>1. t.queue = <<>> /\ t.pendingBack = 0 /\ t.shown = Table BY <1>2, <2>2, Calm
    <3>2. CASE t.open.sheet = Cover.sheet BY <1>6, <2>1, <2>2, <3>2
    <3>3. CASE t.open.sheet # Cover.sheet BY <1>5, <1>6, <2>2, <3>1, <3>3, OpenedStraight
    <3> QED BY <3>2, <3>3
  <2> HIDE DEF u, onTime
  <2> QED BY <1>1, <1>4, <1>8, <2>1, <2>2, Changed
<1> QED BY <1>3, <1>7, <1>8

\* A table that does not answer, and one that is asked again.
LEMMA LoadFailsKeeps ==
  ASSUME SheetsInv, LoadFails
  PROVE  SheetsInv'
<1> DEFINE t == [tab EXCEPT !.loading = FALSE]
           u == NavigatedInPlace(t, Setup)
           onTime == tab.shown = Table
<1>1. Sound(tab) /\ starting' \in BOOLEAN /\ tab.loading /\ Changes(u, onTime)
  BY DEF SheetsInv, LoadFails
<1>2. /\ t \in Tab /\ t.entries = tab.entries /\ t.at = tab.at /\ t.open = tab.open
      /\ t.queue = tab.queue /\ t.pendingBack = tab.pendingBack /\ t.shown = tab.shown
  BY <1>1 DEF Sound, Tab
<1> HIDE DEF t
<1>3. Sound(t) BY <1>1, <1>2 DEF Sound, Owed
<1>4. Setup \in Paths /\ Setup # Rules BY DEF Paths, Setup, Rules
<1>5. Sound(u) BY <1>3, <1>4, NavigatedInPlaceIs
<1>6. ASSUME ~raced, Quiet(tab) PROVE Straight(u) /\ NoRules(u)
  <2>1. Straight(tab) /\ tab.queue = <<>> /\ tab.pendingBack = 0 BY <1>6, Calm
  <2>2. NoRules(tab) BY <1>1, <2>1, OffTheRules
  <2>3. NoneOfOwn(t) /\ NoRules(t) BY <1>2, <2>1, <2>2 DEF NoneOfOwn, NoRules
  <2> QED BY <1>3, <1>4, <2>3, InPlaceStraight
<1>7. onTime \in BOOLEAN OBVIOUS
<1> HIDE DEF u, onTime
<1> QED BY <1>1, <1>5, <1>6, <1>7, Changed

LEMMA LoadAgainKeeps ==
  ASSUME SheetsInv, LoadAgain
  PROVE  SheetsInv'
<1> DEFINE u == [tab EXCEPT !.loading = TRUE]
<1>1. Sound(tab) /\ tab' = u /\ tab.open.sheet = "none" /\ starting' = starting /\ raced' = raced
  BY DEF SheetsInv, LoadAgain, Free
<1>2. /\ u \in Tab /\ u.entries = tab.entries /\ u.at = tab.at /\ u.open = tab.open
      /\ u.queue = tab.queue /\ u.pendingBack = tab.pendingBack /\ u.shown = tab.shown
  BY <1>1 DEF Sound, Tab
<1> HIDE DEF u
<1>3. Sound(u) BY <1>1, <1>2 DEF Sound, Owed
<1>4. ASSUME ~raced PROVE Straight(u) /\ NoRules(u)
  <2>1. Straight(tab) BY <1>4 DEF SheetsInv
  <2>2. NoRules(tab) BY <1>1, <2>1, TheSheets, OffTheRules
  <2> QED BY <1>2, <2>1, <2>2, StraightToo
<1>5. Sound(tab') /\ Len(tab'.entries) <= MaxEntries BY <1>1, <1>2, <1>3 DEF SheetsInv
<1>6. ~raced' => Straight(tab') /\ NoRules(tab') BY <1>1, <1>4
<1>7. {starting', raced'} \subseteq BOOLEAN BY <1>1 DEF SheetsInv
<1> QED BY <1>5, <1>6, <1>7 DEF SheetsInv

LEMMA TraverseKeepsAll ==
  ASSUME SheetsInv, Traverse
  PROVE  SheetsInv'
<1>1. Sound(tab') /\ (~raced => Straight(tab') /\ (NoRules(tab) => NoRules(tab')))
  BY TraverseKeeps
<1>2. Len(tab'.entries) <= MaxEntries /\ starting' = starting /\ raced' = raced
  BY DEF Traverse, Step
<1>3. ASSUME ~raced, starting PROVE NoRules(tab')
  BY <1>1, <1>3 DEF SheetsInv
<1> QED BY <1>1, <1>2, <1>3 DEF SheetsInv

-----------------------------------------------------------------------------
(* The theorems of the history *)

\* A browser that has taken every step owes none.
LEMMA NoneOwn == Cardinality(Own(<<>>)) = 0
<1>1. Own(<<>>) = {} BY DEF Own
<1> QED BY <1>1, FS_EmptySet

\* A tab opened at an address has drawn it, over nothing else.
LEMMA SheetsStart ==
  ASSUME SheetsInit
  PROVE  SheetsInv
<1> PICK path \in Paths : tab = Rendered([Blank EXCEPT !.entries = <<Plain(path)>>])
  BY DEF SheetsInit
<1> DEFINE s == <<Plain(path)>>
           t == [Blank EXCEPT !.entries = s]
<1>1. s \in Seq(Entry) /\ Len(s) = 1 /\ s[1].path = path BY DEF Plain, Entry
<1> HIDE DEF s
<1>2. <<>> \in Seq({"own", "back", "forward"}) /\ NoSheet \in OpenSheets /\ "solo" \in Modes
      /\ Home \in Paths
  BY DEF NoSheet, OpenSheets, Modes, Paths
<1>3. /\ t \in Tab /\ t.entries = s /\ t.at = 1 /\ t.open = NoSheet /\ t.queue = <<>>
      /\ t.pendingBack = 0 /\ t.loading = FALSE
  BY <1>1, <1>2 DEF Blank, Tab
<1>4. tab = Rendered(t) BY DEF s
<1> HIDE DEF t
<1>5. 0 <= Cardinality(Own(t.queue)) BY <1>3, NoneOwn
<1>6. Sound(t)
  <2>1. Len(t.entries) = 1 /\ t.open.routed = FALSE BY <1>1, <1>3, TheSheets
  <2>2. t.at \in 1..Len(t.entries) BY <1>3, <2>1
  <2>3. t.pendingBack < t.at BY <1>3
  <2> QED BY <1>3, <1>5, <2>1, <2>2, <2>3 DEF Sound, Owed
<1>7. Address(t) = path BY <1>1, <1>3 DEF Address, Here
<1>8. /\ Sound(tab) /\ tab.entries = s /\ tab.at = 1 /\ Address(tab) = path
      /\ tab.queue = <<>> /\ tab.pendingBack = 0
      /\ ~tab.open.routed /\ tab.shown = path /\ Drawn(tab)
      /\ tab.loading => path = Table
      /\ path = Rules => tab.open = HelpOfRoute
  BY <1>3, <1>4, <1>6, <1>7, TheSheets, RenderedIs
<1>9. tab \in Tab BY <1>8 DEF Sound
<1>10. path = Rules => AtRules(tab)
  BY <1>1, <1>8 DEF AtRules, Table, Rules
<1>11. path # Rules => NoRules(tab) BY <1>1, <1>8 DEF NoRules
<1>12. Straight(tab) BY <1>8, <1>10, <1>11 DEF Straight, NoneOfOwn
<1>13. Len(tab.entries) <= MaxEntries
  <2>1. Len(tab.entries) = 1 BY <1>1, <1>8
  <2>2. 1 <= MaxEntries BY SheetsAssumption
  <2> QED BY <2>1, <2>2
<1> QED BY <1>8, <1>12, <1>13 DEF SheetsInit, SheetsInv

\* Every step keeps it.
LEMMA SheetsStep ==
  ASSUME SheetsInv, [SheetsNext]_sheetsVars
  PROVE  SheetsInv'
<1>1. CASE \E path \in Paths : Follow(path) BY <1>1, FollowKeeps
<1>2. CASE \E mode \in Modes : ChooseMode(mode) BY <1>2, ChooseModeKeeps
<1>3. CASE \E step \in {"back", "forward"} : Browse(step) BY <1>3, BrowseKeeps
<1>4. CASE Leave BY <1>4, LeaveKeeps
<1>5. CASE ConfirmLeave BY <1>5, ConfirmLeaveKeeps
<1>6. CASE OpenHelp BY <1>6, OpenHelpKeeps
<1>7. CASE Dismiss BY <1>7, DismissKeeps
<1>8. CASE Ready BY <1>8, ReadyKeeps
<1>9. CASE Submit \/ StartFails BY <1>9, SubmitKeeps
<1>10. CASE Started BY <1>10, StartedKeeps
<1>11. CASE Load BY <1>11, LoadKeeps
<1>12. CASE LoadFails BY <1>12, LoadFailsKeeps
<1>13. CASE LoadAgain BY <1>13, LoadAgainKeeps
<1>14. CASE Traverse BY <1>14, TraverseKeepsAll
<1>15. CASE UNCHANGED sheetsVars
  BY <1>15 DEF sheetsVars, SheetsInv, Sound, Owed, Straight, Drawn, Address, Here, TakesItsEntry,
     OnItsEntry, OnTable, OwnUnderWay, NoneOfOwn, NoRules, AtRules
<1> QED
  BY <1>1, <1>2, <1>3, <1>4, <1>5, <1>6, <1>7, <1>8, <1>9, <1>10, <1>11, <1>12, <1>13, <1>14, <1>15
     DEF SheetsNext

\* The history's own invariant: each step back the tab waits for has an entry to leave and is
\* under way, and while nothing happens out of turn a sheet with an entry stands on the last
\* one, over its table (openSheet, finish, handlePopState, navigate).
THEOREM SheetsInvariance == SheetsSpec => []SheetsInv
<1>1. SheetsInit => SheetsInv BY SheetsStart
<1>2. SheetsInv /\ [SheetsNext]_sheetsVars => SheetsInv' BY SheetsStep
<1> QED BY <1>1, <1>2, PTL DEF SheetsSpec

\* Nothing is owed once the browser has taken every step.
LEMMA NothingOwed ==
  ASSUME SheetsInv
  PROVE  PendingBackIsOwed
<1> SUFFICES ASSUME tab.queue = <<>> PROVE tab.pendingBack = 0 BY DEF PendingBackIsOwed, Quiet
<1>1. tab.pendingBack \in Nat /\ tab.pendingBack <= Cardinality(Own(tab.queue))
  BY DEF SheetsInv, Sound, Owed, Tab
<1>2. Cardinality(Own(tab.queue)) = 0 BY NoneOwn
<1> QED BY <1>1, <1>2

\* However the player gets about - links, the browser's buttons, sheets opened, dismissed or
\* covered, answers that come late - the history and what is open and drawn agree: no step
\* back of the player's is swallowed, the page shown is the address's, and a sheet the back
\* button closes is on an entry of its own (router.js, sheet.js).
THEOREM HistoryMatchesTheSheets == SheetsSpec => []HistoryMatchesSheets
<1> SUFFICES ASSUME SheetsInv PROVE HistoryMatchesSheets
  BY SheetsInvariance, PTL
<1>1. Sound(tab) /\ tab \in Tab /\ Len(tab.entries) \in Nat BY LenProperties DEF SheetsInv, Sound, Tab
<1>2. SheetsTypeOK
  <2>1. DOMAIN tab = DOMAIN Blank BY <1>1 DEF Tab, Blank
  <2>2. tab.entries \in Seq(Entry) /\ tab.at \in 1..Len(tab.entries) BY <1>1 DEF Sound, Owed, Tab
  <2>3. Len(tab.entries) \in 1..MaxEntries
    <3>1. MaxEntries \in Nat /\ Len(tab.entries) <= MaxEntries /\ tab.at \in 1..Len(tab.entries)
      BY <2>2, SheetsAssumption DEF SheetsInv
    <3> QED BY <1>1, <3>1
  <2>4. DOMAIN tab.entries = 1..Len(tab.entries) BY <2>2, LenProperties
  <2>5. tab.pendingBack \in 0..Len(tab.entries)
    <3>1. tab.pendingBack \in Nat /\ tab.pendingBack < tab.at BY <1>1 DEF Sound, Owed, Tab
    <3> QED BY <1>1, <2>2, <3>1
  <2>6. {tab.playing, tab.loading, starting, raced} \subseteq BOOLEAN BY <1>1 DEF Tab, SheetsInv
  <2> QED BY <1>1, <2>1, <2>2, <2>3, <2>4, <2>5, <2>6 DEF SheetsTypeOK, Tab
<1>3. PendingBackIsOwed BY NothingOwed
<1>4. Settled => Straight(tab) BY DEF Settled, SheetsInv
<1>5. AddressIsShown BY <1>4 DEF AddressIsShown, Straight, Drawn
<1>6. RoutedSheetHasItsEntry BY <1>4 DEF RoutedSheetHasItsEntry, Straight, TakesItsEntry
<1>7. RouteSheetIsUp
  <2>1. tab.open.then # "nothing" => ~Free
    <3>1. tab.open \in OpenSheets BY <1>1 DEF Tab
    <3> QED BY <3>1, SheetsAre, TheSheets DEF Free
  <2> QED BY <1>4, <2>1 DEF RouteSheetIsUp, Straight, Drawn, Routed
<1> QED BY <1>2, <1>3, <1>5, <1>6, <1>7 DEF HistoryMatchesSheets

=============================================================================
