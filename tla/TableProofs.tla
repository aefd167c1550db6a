----------------------------- MODULE TableProofs -----------------------------
(***************************************************************************)
(* Proofs about one table, for every set of accounts and targets, every    *)
(* kind of table and every number of tricks.  The inductive invariant is   *)
(* the conjunction of four parts, one for each part of the state; the      *)
(* lobby's part rests on the lemmas of SeatsProofs, the hand's on what the *)
(* bots leave of a hand (DriveSettles).                                    *)
(*                                                                         *)
(* The last part is about what the browser offers before the game: an      *)
(* offer is accepted because it asks for no less than the server does; the *)
(* views only look at human seats where the server looks at all of them,   *)
(* so the invariant is strengthened: no bot sits in a waiting lobby.  A    *)
(* ready lobby can start because its owner is seated.                      *)
(***************************************************************************)
EXTENDS LobbyScreens, SeatsProofs, FiniteSetTheorems

-----------------------------------------------------------------------------
(* What the bots leave *)

\* A hand the table can hold: an unfinished trick has less than four cards, and the
\* last trick is never on the table, because it is played at once.
HandOK(h) ==
  /\ h \in Hand
  /\ h.phase \in {"auction", "play"} => h.cards < 4
  /\ h.phase = "play" => h.tricks <= Tricks - 2
  /\ h.phase = "review" => h.tricks \in 1..(Tricks - 1) /\ h.cards = 4

Underway(h) == HandOK(h) /\ h.phase # "none"

\* A hand at rest: bots have made all the moves that are theirs.
Settled(l, h) ==
  /\ Underway(h)
  /\ h.phase \in {"auction", "play"} => h.active \in Humans(l)

LEMMA FollowingIsASeat == \A s \in Position : Following(s) \in Position
BY DEF Following, Position

LEMMA BoardOK ==
  ASSUME NEW d \in Position
  PROVE  Underway(Board(d)) /\ Board(d).phase = "play"
BY FollowingIsASeat, HandAssumption DEF Board, Underway, HandOK, Hand

LEMMA AuctionOK ==
  ASSUME NEW d \in Position, NEW a \in Position
  PROVE  Underway(Auction(d, a)) /\ Auction(d, a).phase = "auction"
BY HandAssumption DEF Auction, Underway, HandOK, Hand

\* The turn passed on to the next human is a human's.
LEMMA NextHumanIsHuman ==
  ASSUME NEW l \in Lobby, Humans(l) # {}, NEW s \in Position
  PROVE  NextHuman(l, s) \in Humans(l)
<1> DEFINE S == {n \in 0..3 : (s + n) % 4 \in Humans(l)}
<1>1. S # {}
  <2>1. PICK h \in Humans(l) : TRUE OBVIOUS
  <2>2. h \in 0..3 /\ s \in 0..3 BY DEF Humans, Occupied, Position
  <2>3. \E n \in 0..3 : (s + n) % 4 = h
    <3>1. CASE s <= h
      <4>1. h - s \in 0..3 /\ (s + (h - s)) % 4 = h BY <2>2, <3>1
      <4> QED BY <4>1
    <3>2. CASE h < s
      <4>1. h - s + 4 \in 0..3 /\ (s + (h - s + 4)) % 4 = h BY <2>2, <3>2
      <4> QED BY <4>1
    <3> QED BY <2>2, <3>1, <3>2
  <2> QED BY <2>3
<1>2. S \in SUBSET (0..4) OBVIOUS
<1>3. \E n \in S : \A m \in S : n <= m
  <2> HIDE DEF S
  <2> QED BY <1>1, <1>2, SmallestExists
<1>4. \E n \in 0..3 : /\ (s + n) % 4 \in Humans(l)
                      /\ \A m \in 0..3 : (s + m) % 4 \in Humans(l) => n <= m
  BY <1>3
<1> QED BY <1>4 DEF NextHuman

\* Playing cards completes the trick or leaves an unfinished one.
LEMMA PlayOK ==
  ASSUME NEW h, Underway(h), h.phase = "play", NEW n \in Nat, h.cards + n <= 4,
         NEW g \in Play(h, n)
  PROVE  /\ Underway(g) /\ g.phase \in {"play", "review"}
         /\ g.phase = "play" => h.cards + n < 4 /\ g.active = (h.active + n) % 4
<1>1. h \in Hand /\ h.cards < 4 /\ h.tricks <= Tricks - 2 /\ h.cards \in Nat /\ h.tricks \in Nat
  BY DEF Underway, HandOK, Hand
<1>2. CASE h.cards + n = 4
  <2>1. PICK w \in Position :
          g = [h EXCEPT !.phase = "review", !.active = w, !.cards = 4,
                        !.tricks = h.tricks + 1]
    BY <1>2 DEF Play
  <2>2. h.tricks + 1 \in 1..(Tricks - 1)
    BY <1>1, HandAssumption
  <2>3. g.phase = "review" /\ g.cards = 4 /\ g.tricks = h.tricks + 1
    BY <2>1, <1>1 DEF Hand
  <2>4. h.tricks + 1 \in 0..Tricks /\ 4 \in 0..4
    BY <2>2, HandAssumption
  <2>5. g \in Hand
    BY <2>1, <2>4, <1>1 DEF Hand
  <2> QED BY <2>2, <2>3, <2>5 DEF Underway, HandOK
<1>3. CASE h.cards + n # 4
  <2>1. g = [h EXCEPT !.active = (h.active + n) % 4, !.cards = h.cards + n]
    BY <1>3 DEF Play
  <2>2. (h.active + n) % 4 \in Position /\ h.cards + n \in 0..3
    BY <1>1, <1>3 DEF Hand, Position
  <2>3. /\ g.phase = "play" /\ g.cards = h.cards + n /\ g.tricks = h.tricks
        /\ g.active = (h.active + n) % 4
    BY <2>1, <1>1 DEF Hand
  <2>4. h.cards + n \in 0..4
    BY <2>2
  <2>5. g \in Hand
    BY <2>1, <2>2, <2>4, <1>1 DEF Hand
  <2> QED BY <2>2, <2>3, <2>5, <1>1 DEF Underway, HandOK
<1> QED BY <1>2, <1>3

\* Bots play until it is a human's turn or the trick is complete.
LEMMA BotCardsSettle ==
  ASSUME NEW l \in Lobby, NEW h, Underway(h), h.phase = "play", NEW g \in BotCards(l, h)
  PROVE  Settled(l, g) /\ g.phase \in {"play", "review"}
<1> DEFINE toPlay == 4 - h.cards
           S == {k \in 0..toPlay : k = toPlay \/ (h.active + k) % 4 \in Humans(l)}
           n == CHOOSE k \in 0..toPlay :
                  /\ k = toPlay \/ (h.active + k) % 4 \in Humans(l)
                  /\ \A j \in 0..toPlay :
                       (j = toPlay \/ (h.active + j) % 4 \in Humans(l)) => k <= j
<1>1. toPlay \in 1..4 /\ h.cards \in 0..3
  BY DEF Underway, HandOK, Hand
<1>2. \E k \in S : \A j \in S : k <= j
  <2>1. S \in SUBSET (0..4) /\ S # {}
    <3>1. toPlay \in S BY <1>1
    <3>2. \A k \in S : k \in 0..4 BY <1>1
    <3> QED BY <3>1, <3>2
  <2> HIDE DEF S
  <2> QED BY <2>1, SmallestExists
<1>3. \E k \in 0..toPlay :
        /\ k = toPlay \/ (h.active + k) % 4 \in Humans(l)
        /\ \A j \in 0..toPlay :
             (j = toPlay \/ (h.active + j) % 4 \in Humans(l)) => k <= j
  <2> HIDE DEF toPlay
  <2> QED BY <1>2
<1>4. n \in 0..toPlay /\ (n = toPlay \/ (h.active + n) % 4 \in Humans(l))
  <2> HIDE DEF toPlay
  <2> QED BY <1>3
<1>5. g \in Play(h, n)
  BY DEF BotCards
<1> HIDE DEF n
<1>6. n \in Nat /\ h.cards + n <= 4
  BY <1>1, <1>4
<1>7. /\ Underway(g) /\ g.phase \in {"play", "review"}
      /\ g.phase = "play" => h.cards + n < 4 /\ g.active = (h.active + n) % 4
  BY <1>5, <1>6, PlayOK
<1>8. g.phase = "play" => g.active \in Humans(l)
  BY <1>1, <1>4, <1>6, <1>7
<1> QED BY <1>7, <1>8 DEF Settled

LEMMA BotAuctionSettles ==
  ASSUME NEW l \in Lobby, NEW h, Underway(h), h.phase = "auction",
         NEW g \in BotAuction(l, h)
  PROVE  Settled(l, g) /\ g.phase \in {"auction", "play", "review"}
<1> DEFINE turns == IF Humans(l) = {}
                    THEN {[dealer |-> d, from |-> Following(d)] : d \in Position}
                    ELSE {[dealer |-> h.dealer, from |-> h.active],
                          [dealer |-> Following(h.dealer),
                           from |-> Following(Following(h.dealer))]}
<1>1. h.dealer \in Position /\ h.active \in Position
  BY DEF Underway, HandOK, Hand
<1>2. \A t \in turns : t.dealer \in Position /\ t.from \in Position
  BY <1>1, FollowingIsASeat
<1> HIDE DEF turns
<1>3. CASE \E t \in turns : g \in BotCards(l, Board(t.dealer))
  <2>1. PICK t \in turns : g \in BotCards(l, Board(t.dealer)) BY <1>3
  <2>2. Underway(Board(t.dealer)) /\ Board(t.dealer).phase = "play"
    BY <1>2, BoardOK
  <2> QED BY <2>1, <2>2, BotCardsSettle
<1>4. CASE /\ Humans(l) # {}
           /\ \E t \in turns : g = Auction(t.dealer, NextHuman(l, t.from))
  <2>1. PICK t \in turns : g = Auction(t.dealer, NextHuman(l, t.from)) BY <1>4
  <2>2. NextHuman(l, t.from) \in Humans(l)
    BY <1>2, <1>4, NextHumanIsHuman
  <2>3. NextHuman(l, t.from) \in Position
    BY <2>2 DEF Humans, Occupied
  <2>4. Underway(g) /\ g.phase = "auction" /\ g.active = NextHuman(l, t.from)
    BY <2>1, <2>3, <1>2, AuctionOK DEF Auction
  <2> QED BY <2>2, <2>4 DEF Settled
<1>5. \/ \E t \in turns : g \in BotCards(l, Board(t.dealer))
      \/ Humans(l) # {} /\ \E t \in turns : g = Auction(t.dealer, NextHuman(l, t.from))
  <2> DEFINE humanTurns == IF Humans(l) = {} THEN {}
                           ELSE {Auction(t.dealer, NextHuman(l, t.from)) : t \in turns}
  <2>1. g \in humanTurns \cup UNION {BotCards(l, Board(t.dealer)) : t \in turns}
    BY DEF BotAuction, turns
  <2> QED BY <2>1
<1> QED BY <1>3, <1>4, <1>5

\* drive_bots leaves every hand settled, and touches no completed trick or round.
LEMMA DriveSettles ==
  ASSUME NEW l \in Lobby, NEW hands, \A h \in hands : Underway(h), NEW g \in Drive(l, hands)
  PROVE  /\ Settled(l, g)
         /\ (\A h \in hands : h.phase = "auction") => g.phase # "over"
         /\ \A h : hands = {h} /\ h.phase = "over" => g = h
<1>1. PICK h \in hands : g \in BotsPlay(l, h)
  BY DEF Drive
<1>2. Underway(h) OBVIOUS
<1>3. CASE h.phase = "auction" /\ h.active \notin Humans(l)
  <2>1. g \in BotAuction(l, h) BY <1>1, <1>3 DEF BotsPlay
  <2> QED BY <1>2, <1>3, <2>1, BotAuctionSettles
<1>4. CASE h.phase = "auction" /\ h.active \in Humans(l)
  <2>1. g = h BY <1>1, <1>4 DEF BotsPlay
  <2> QED BY <1>2, <1>4, <2>1 DEF Settled
<1>5. CASE h.phase = "play"
  <2>1. g \in BotCards(l, h) BY <1>1, <1>5 DEF BotsPlay
  <2> QED BY <1>2, <1>5, <2>1, BotCardsSettle
<1>6. CASE h.phase \notin {"auction", "play"}
  <2>1. g = h BY <1>1, <1>6 DEF BotsPlay
  <2> QED BY <1>2, <1>6, <2>1 DEF Settled
<1> QED BY <1>3, <1>4, <1>5, <1>6

LEMMA DealOK ==
  ASSUME NEW d \in Position
  PROVE  Underway(Deal(d)) /\ Deal(d).phase = "auction"
BY AuctionOK, FollowingIsASeat DEF Deal

LEMMA AfterCallOK ==
  ASSUME NEW h, Underway(h), NEW g \in AfterCall(h)
  PROVE  Underway(g)
<1>1. h.dealer \in Position /\ h.active \in Position
  BY DEF Underway, HandOK, Hand
<1> QED BY <1>1, AuctionOK, BoardOK, DealOK, FollowingIsASeat DEF AfterCall

LEMMA ContinueOK ==
  ASSUME NEW h, Underway(h), h.phase = "review"
  PROVE  Underway(Continue(h))
<1>1. h \in Hand /\ h.tricks \in 1..(Tricks - 1) /\ h.phase = "review" /\ h.cards = 4
  BY DEF Underway, HandOK
<1>2. CASE h.tricks = Tricks - 1
  <2>1. Continue(h) = [h EXCEPT !.phase = "over", !.cards = 4, !.tricks = Tricks]
    BY <1>2 DEF Continue
  <2>2. Tricks \in 0..Tricks BY HandAssumption
  <2>3. Continue(h) \in Hand /\ Continue(h).phase = "over"
    BY <1>1, <2>1, <2>2 DEF Hand
  <2> QED BY <2>3 DEF Underway, HandOK
<1>3. CASE h.tricks # Tricks - 1
  <2>1. Continue(h) = [h EXCEPT !.phase = "play", !.cards = 0]
    BY <1>3 DEF Continue
  <2>2. /\ Continue(h).phase = "play" /\ Continue(h).cards = 0
        /\ Continue(h).tricks = h.tricks
    BY <1>1, <2>1 DEF Hand
  <2>4. Continue(h) \in Hand
    <3>1. 0 \in 0..4 OBVIOUS
    <3> QED BY <1>1, <2>1, <3>1 DEF Hand
  <2>3. h.tricks <= Tricks - 2 BY <1>1, <1>3, HandAssumption
  <2> QED BY <2>2, <2>3, <2>4 DEF Underway, HandOK
<1> QED BY <1>2, <1>3

-----------------------------------------------------------------------------
(* The inductive invariant *)

\* The lobby: an owner at the table, four seats taken in a match; a table is removed
\* online only once it is empty, and a local table never waits.
LobbyInv ==
  /\ LobbyOK(lobby)
  /\ removed \in BOOLEAN
  /\ Online /\ removed => Occupied(lobby) = {}
  /\ ~Online => ~Waiting(lobby)

\* The hand: none before the match, then one the bots have nothing left to do in.
HandInv ==
  IF Waiting(lobby) THEN HandOK(hand) /\ hand.phase = "none" ELSE Settled(lobby, hand)

ViewInv == shown = OnView(hand)

\* The score: a round is recorded when its hand is over, a complete match has been
\* handed over, if it is one that is handed over at all.
ScoreInv ==
  /\ match \in Match
  /\ Waiting(lobby) <=> match.state = "none"
  /\ match.state # "none" => match.target = lobby.target
  /\ recorded \in BOOLEAN
  /\ recorded <=> hand.phase = "over"
  /\ match.state = "complete" => hand.phase = "over"
  /\ handed = IF match.state = "complete" /\ ~PassAndPlay(lobby) THEN 1 ELSE 0

\* The votes are of seats, and the rest has its type.
VotesInv == votes \subseteq Position /\ version \in {0, 1} /\ kind \in TableKinds

TableInv == LobbyInv /\ HandInv /\ ViewInv /\ ScoreInv /\ VotesInv

-----------------------------------------------------------------------------
(* What the parts shared by several actions preserve *)

LEMMA SamePassAndPlay ==
  ASSUME NEW l \in Lobby, NEW k \in Lobby, SameSeats(l, k) \/ Online
  PROVE  PassAndPlay(l) = PassAndPlay(k)
<1>1. CASE Online BY <1>1 DEF PassAndPlay
<1>2. CASE ~Online /\ SameSeats(l, k)
  <2>1. {s \in Position : l.seats[s].kind = "human"} = {s \in Position : k.seats[s].kind = "human"}
    BY <1>2 DEF SameSeats
  <2> QED BY <2>1 DEF PassAndPlay
<1> QED BY <1>1, <1>2

\* Whether a lobby is pass-and-play is the same after a step as before.
LEMMA SameKindOfPlay ==
  ASSUME Changed
  PROVE  PassAndPlay(lobby)' = PassAndPlay(lobby')
BY DEF PassAndPlay, Online, Changed

\* A lobby of a match with no human more and none less leaves the hand settled.
LEMMA SettledForSameHumans ==
  ASSUME NEW l, NEW k, NEW h, Humans(l) = Humans(k), Settled(l, h)
  PROVE  Settled(k, h)
BY DEF Settled

\* Changes of the lobby that touch nothing else.
LEMMA NoMovePreserves ==
  ASSUME TableInv, NoMove, Changed, LobbyInv',
         Waiting(lobby') = Waiting(lobby),
         ~Waiting(lobby) => /\ Humans(lobby') = Humans(lobby)
                            /\ lobby'.target = lobby.target
                            /\ SameSeats(lobby, lobby') \/ Online
  PROVE  TableInv'
<1> USE DEF TableInv, NoMove
<1>1. HandInv'
  BY SettledForSameHumans DEF HandInv
<1>2. ViewInv' BY DEF ViewInv, OnView, Online, Changed
<1>3. ScoreInv'
  <2>1. CASE Waiting(lobby)
    BY <2>1 DEF ScoreInv, Waiting
  <2>2. CASE ~Waiting(lobby)
    <3>1. PassAndPlay(lobby') = PassAndPlay(lobby)
      BY <2>2, SamePassAndPlay DEF LobbyInv, LobbyOK
    <3>2. PassAndPlay(lobby)' = PassAndPlay(lobby)
      BY <3>1, SameKindOfPlay
    <3> QED BY <2>2, <3>2 DEF ScoreInv, Waiting
  <2> QED BY <2>1, <2>2
<1>4. VotesInv' BY DEF VotesInv, Changed
<1> QED BY <1>1, <1>2, <1>3, <1>4

\* drive_bots after a move.
LEMMA MoveOnPreserves ==
  ASSUME TableInv, LobbyInv', ~Waiting(lobby), ~Waiting(lobby'), Changed,
         lobby'.target = lobby.target, SameSeats(lobby, lobby') \/ Online,
         NEW hands, \A h \in hands : Underway(h), MoveOn(hands),
         hand.phase = "over" => hands = {hand}
  PROVE  TableInv'
<1> USE DEF TableInv
<1>1. PICK h \in Drive(lobby', hands) :
        hand' = h /\ shown' = OnView(h) /\ RecordRound(h) /\ UNCHANGED votes
  BY DEF MoveOn
<1>2. lobby' \in Lobby BY DEF LobbyInv, LobbyOK
<1>3. Settled(lobby', h) /\ (hand.phase = "over" => h = hand)
  BY <1>1, <1>2, DriveSettles
<1>4. HandInv' BY <1>1, <1>3 DEF HandInv
<1>5. ViewInv' BY <1>1 DEF ViewInv, OnView, Online, Changed
<1>6. /\ PassAndPlay(lobby') = PassAndPlay(lobby)
      /\ PassAndPlay(lobby)' = PassAndPlay(lobby)
  BY <1>2, SamePassAndPlay, SameKindOfPlay DEF LobbyInv, LobbyOK
<1>7. ScoreInv'
  <2>1. CASE h.phase = "over" /\ ~recorded
    <3>1. match.state = "open" /\ handed = 0 /\ match \in Match
      BY <2>1 DEF ScoreInv, Match
    <3>2. recorded' = TRUE BY <1>1, <2>1 DEF RecordRound
    <3>3. CASE UNCHANGED <<match, handed>>
      BY <1>1, <2>1, <3>1, <3>2, <3>3 DEF ScoreInv
    <3>4. CASE /\ match' = [match EXCEPT !.state = "complete"]
               /\ handed' = IF PassAndPlay(lobby') THEN handed ELSE handed + 1
      <4>1. match' \in Match /\ match'.state = "complete" /\ match'.target = match.target
        BY <3>1, <3>4 DEF Match
      <4> QED BY <1>1, <1>6, <2>1, <3>1, <3>2, <3>4, <4>1 DEF ScoreInv
    <3> QED BY <1>1, <2>1, <3>3, <3>4 DEF RecordRound
  <2>2. CASE ~(h.phase = "over" /\ ~recorded)
    <3>1. UNCHANGED <<recorded, match, handed>>
      BY <1>1, <2>2 DEF RecordRound
    <3>2. recorded <=> h.phase = "over"
      BY <1>3, <2>2 DEF ScoreInv
    <3> QED BY <1>1, <1>6, <3>1, <3>2 DEF ScoreInv
  <2> QED BY <2>1, <2>2
<1>8. VotesInv' BY <1>1 DEF VotesInv, Changed
<1> QED BY <1>4, <1>5, <1>7, <1>8

\* A new round: whatever was on the table is gone.
LEMMA NewHandPreserves ==
  ASSUME LobbyInv', ~Waiting(lobby'), VotesInv, Changed,
         Settled(lobby', hand'), hand'.phase # "over", shown' = OnView(hand'),
         recorded' = FALSE, votes' = {},
         match' \in Match, match'.state = "open", match'.target = lobby'.target,
         handed' = 0
  PROVE  TableInv'
<1>1. HandInv' BY DEF HandInv
<1>2. ViewInv' BY DEF ViewInv, OnView, Online, Changed
<1>3. ScoreInv' BY DEF ScoreInv
<1>4. VotesInv' BY DEF VotesInv, Changed
<1> QED BY <1>1, <1>2, <1>3, <1>4 DEF TableInv

LEMMA DealRoundSettles ==
  ASSUME LobbyInv', NEW d \in Position, DealRound(d)
  PROVE  /\ Settled(lobby', hand') /\ hand'.phase # "over"
         /\ shown' = OnView(hand') /\ recorded' = FALSE /\ votes' = {}
<1>1. PICK h \in Drive(lobby', {Deal(d)}) :
        hand' = h /\ shown' = OnView(h) /\ recorded' = FALSE /\ votes' = {}
  BY DEF DealRound
<1>2. lobby' \in Lobby BY DEF LobbyInv, LobbyOK
<1>3. \A g \in {Deal(d)} : Underway(g) /\ g.phase = "auction" BY DealOK
<1>4. Settled(lobby', h) /\ h.phase # "over"
  BY <1>1, <1>2, <1>3, DriveSettles
<1> QED BY <1>1, <1>4

LEMMA NewMatchPreserves ==
  ASSUME LobbyInv', ~Waiting(lobby'), VotesInv, Changed, NewMatch,
         NEW d \in Position, DealRound(d)
  PROVE  TableInv'
<1>1. /\ Settled(lobby', hand') /\ hand'.phase # "over"
      /\ shown' = OnView(hand') /\ recorded' = FALSE /\ votes' = {}
  BY DealRoundSettles
<1>2. /\ match' \in Match /\ match'.state = "open" /\ match'.target = lobby'.target
      /\ handed' = 0
  BY DEF NewMatch, Match, LobbyInv, LobbyOK, Lobby
<1> QED BY <1>1, <1>2, NewHandPreserves

-----------------------------------------------------------------------------
(* The invariant is inductive *)

LEMMA InitInv == Init => TableInv
<1> SUFFICES ASSUME Init PROVE TableInv OBVIOUS
<1> USE DEF Init
<1>1. CASE Online
  <2>1. PICK a \in Accounts \cup {NoAccount}, t \in Targets :
          lobby = Open(a, kind = "public", t)
    BY <1>1 DEF Opened
  <2>2. LobbyOK(lobby) /\ Waiting(lobby) /\ lobby.target = t
    BY <2>1, OpenOK
  <2>3. LobbyInv BY <1>1, <2>2 DEF LobbyInv
  <2>4. Deal(FirstDealer) \in Hand /\ Deal(FirstDealer).cards = 0
    BY DealOK DEF Underway, HandOK, FirstDealer, Position, Deal, Auction
  <2>5. hand \in Hand /\ hand.phase = "none"
    BY <1>1, <2>4 DEF Hand
  <2>6. HandInv BY <2>2, <2>5 DEF HandInv, HandOK
  <2>7. ViewInv BY <2>5 DEF ViewInv, OnView
  <2>8. ScoreInv
    <3>1. match = [state |-> "none", target |-> t] /\ match \in Match
      BY <1>1, <2>2 DEF Match
    <3>2. recorded = FALSE /\ handed = 0 OBVIOUS
    <3> QED BY <2>2, <2>5, <3>1, <3>2 DEF ScoreInv
  <2>9. VotesInv BY DEF VotesInv
  <2> QED BY <2>3, <2>6, <2>7, <2>8, <2>9 DEF TableInv
<1>2. CASE ~Online
  <2>1. PICK H \in SUBSET Position, a \in Accounts \cup {NoAccount}, t \in Targets :
          lobby = LocalLobby(H, a, t)
    <3>1. {0} \in SUBSET Position BY DEF Position
    <3> QED BY <1>2, <3>1 DEF Opened
  <2>2. LobbyOK(lobby) /\ ~Waiting(lobby) /\ lobby.target = t
    BY <2>1, LocalLobbyOK
  <2>3. LobbyInv BY <1>2, <2>2 DEF LobbyInv
  <2>4. Underway(Deal(FirstDealer)) /\ Deal(FirstDealer).phase = "auction"
    BY DealOK DEF FirstDealer, Position
  <2>5. hand \in Drive(lobby, {Deal(FirstDealer)}) BY <1>2
  <2>6. Settled(lobby, hand) /\ hand.phase # "over"
    <3>1. \A h \in {Deal(FirstDealer)} : Underway(h) /\ h.phase = "auction" BY <2>4
    <3>2. lobby \in Lobby BY <2>2 DEF LobbyOK
    <3> QED BY <2>5, <3>1, <3>2, DriveSettles
  <2>7. HandInv BY <2>2, <2>6 DEF HandInv
  <2>8. ViewInv BY <1>2 DEF ViewInv, OnView
  <2>9. ScoreInv
    <3>1. match = [state |-> "open", target |-> t] /\ match \in Match
      BY <1>2, <2>2 DEF Match
    <3>2. recorded = FALSE /\ handed = 0 OBVIOUS
    <3> QED BY <2>2, <2>6, <3>1, <3>2 DEF ScoreInv
  <2>10. VotesInv BY DEF VotesInv
  <2> QED BY <2>3, <2>7, <2>8, <2>9, <2>10 DEF TableInv
<1> QED BY <1>1, <1>2

\* What the invariant says of a table whose hand is in some phase.
LEMMA UnderwayWhenPlaying ==
  ASSUME TableInv, hand.phase # "none"
  PROVE  ~Waiting(lobby) /\ Settled(lobby, hand) /\ Underway(hand)
BY DEF TableInv, HandInv, Settled

(* Before the game *)

LEMMA ReadyPreserves ==
  ASSUME TableInv, NEW s \in Position, NEW ready \in BOOLEAN, PlayerReady(s, ready)
  PROVE  TableInv'
<1> USE DEF TableInv, PlayerReady, CanSetReady
<1>1. /\ LobbyOK(lobby') /\ Occupied(lobby') = Occupied(lobby)
      /\ lobby'.status = lobby.status
  BY SetReadyOK DEF LobbyInv, LobbyOK
<1>2. LobbyInv' BY <1>1 DEF LobbyInv, Online, Changed
<1> QED BY <1>1, <1>2, NoMovePreserves DEF Waiting

LEMMA ChooseSeatPreserves ==
  ASSUME TableInv, NEW s \in Position, NEW to \in Position, PlayerChoosesSeat(s, to)
  PROVE  TableInv'
<1> USE DEF TableInv, PlayerChoosesSeat
<1>1. LobbyOK(lobby') /\ Waiting(lobby') /\ Occupied(lobby') # {} /\ Waiting(lobby)
  BY ChooseSeatOK DEF LobbyInv, LobbyOK, CanChooseSeat
<1>2. ~removed BY DEF LobbyInv, CanChooseSeat
<1>3. LobbyInv' BY <1>1, <1>2 DEF LobbyInv, Online, Changed
<1> QED BY <1>1, <1>3, NoMovePreserves

LEMMA SetTargetPreserves ==
  ASSUME TableInv, NEW s \in Position, NEW t \in Targets, OwnerSetsTarget(s, t)
  PROVE  TableInv'
<1> USE DEF TableInv, OwnerSetsTarget, CanSetTarget
<1>1. /\ LobbyOK(lobby') /\ Occupied(lobby') = Occupied(lobby)
      /\ lobby'.status = lobby.status
  BY SetTargetOK DEF LobbyInv, LobbyOK
<1>2. LobbyInv' BY <1>1 DEF LobbyInv, Online, Changed
<1> QED BY <1>1, <1>2, NoMovePreserves DEF Waiting

LEMMA StartsPreserves ==
  ASSUME TableInv, NEW s \in Position, OwnerStarts(s)
  PROVE  TableInv'
<1> USE DEF TableInv, OwnerStarts
<1>1. LobbyOK(lobby') /\ ~Waiting(lobby') /\ Occupied(lobby) # {}
  <2>1. CASE CanStart(lobby, s) /\ lobby' = Start(lobby)
    BY <2>1, StartOK DEF CanStart, Owns, LobbyInv, LobbyOK
  <2>2. CASE CanStartWithBots(lobby, s) /\ lobby' = SeatBotsAndStart(lobby)
    BY <2>2, SeatBotsAndStartOK DEF CanStartWithBots, Owns, LobbyInv, LobbyOK
  <2> QED BY <2>1, <2>2
<1>2. LobbyInv' BY <1>1 DEF LobbyInv, Online
<1>3. FirstDealer \in Position BY DEF FirstDealer, Position
<1> QED BY <1>1, <1>2, <1>3, NewMatchPreserves DEF BeginMatch

LEMMA JoinsPreserves ==
  ASSUME TableInv, NEW a \in Accounts \cup {NoAccount}, PlayerJoins(a)
  PROVE  TableInv'
<1> USE DEF TableInv, PlayerJoins
<1>1. LobbyOK(lobby') /\ Occupied(lobby) # {} /\ Waiting(lobby)
  BY JoinOK DEF LobbyInv, LobbyOK, CanJoin
<1>2. LobbyInv' BY <1>1 DEF LobbyInv, Online, Changed
<1>3. FirstDealer \in Position BY DEF FirstDealer, Position
<1>4. CASE Waiting(lobby')
  BY <1>1, <1>2, <1>4, NoMovePreserves
<1>5. CASE ~Waiting(lobby')
  BY <1>2, <1>3, <1>5, NewMatchPreserves DEF BeginMatch
<1> QED BY <1>4, <1>5

LEMMA LeavesPreserves ==
  ASSUME TableInv, NEW s \in Position, PlayerLeaves(s)
  PROVE  TableInv'
<1> USE DEF TableInv, PlayerLeaves
<1>1. CASE Online
  <2>1. /\ LobbyOK(lobby') /\ Waiting(lobby') /\ Waiting(lobby)
        /\ Occupied(lobby') = Occupied(lobby) \ {s}
    BY <1>1, LeaveOK DEF LobbyInv, LobbyOK, CanLeave
  <2>2. LobbyInv' BY <1>1, <2>1 DEF LobbyInv, Online, Changed
  <2> QED BY <2>1, <2>2, NoMovePreserves
<1>2. CASE ~Online
  <2>1. lobby' = lobby /\ removed' = TRUE BY <1>2
  <2>2. LobbyInv' BY <1>2, <2>1 DEF LobbyInv, Online, Changed
  <2>3. SameSeats(lobby, lobby') BY <2>1 DEF SameSeats, SameRules
  <2> QED BY <2>1, <2>2, <2>3, NoMovePreserves
<1> QED BY <1>1, <1>2

(* In the match *)

LEMMA SameLobby ==
  ASSUME TableInv, Changed, UNCHANGED <<lobby, removed>>
  PROVE  LobbyInv' /\ SameSeats(lobby, lobby')
BY DEF TableInv, LobbyInv, Online, Changed, SameSeats, SameRules

LEMMA CallsPreserves ==
  ASSUME TableInv, NEW s \in Position, PlayerCalls(s)
  PROVE  TableInv'
<1> USE DEF PlayerCalls
<1>1. ~Waiting(lobby) /\ Underway(hand) BY UnderwayWhenPlaying
<1>2. \A h \in AfterCall(hand) : Underway(h) BY <1>1, AfterCallOK
<1> QED BY <1>1, <1>2, SameLobby, MoveOnPreserves

LEMMA PlaysPreserves ==
  ASSUME TableInv, NEW s \in Position, PlayerPlays(s)
  PROVE  TableInv'
<1> USE DEF PlayerPlays
<1>1. ~Waiting(lobby) /\ Underway(hand) BY UnderwayWhenPlaying
<1>2. hand.cards + 1 <= 4 BY <1>1 DEF Underway, HandOK, Hand
<1>3. \A h \in Play(hand, 1) : Underway(h) BY <1>1, <1>2, PlayOK
<1> QED BY <1>1, <1>3, SameLobby, MoveOnPreserves

LEMMA ContinuesPreserves ==
  ASSUME TableInv, PlayerContinues
  PROVE  TableInv'
<1> USE DEF PlayerContinues
<1>1. ~Waiting(lobby) /\ Underway(hand) BY UnderwayWhenPlaying
<1>2. \A h \in {Continue(hand)} : Underway(h) BY <1>1, ContinueOK
<1> QED BY <1>1, <1>2, SameLobby, MoveOnPreserves

LEMMA DealsNextPreserves ==
  ASSUME TableInv, PlayerDealsNext
  PROVE  TableInv'
<1> USE DEF PlayerDealsNext, CanDealNext
<1>1. ~Waiting(lobby) /\ Underway(hand) BY UnderwayWhenPlaying
<1>2. Following(hand.dealer) \in Position
  BY <1>1, FollowingIsASeat DEF Underway, HandOK, Hand
<1>3. LobbyInv' BY SameLobby
<1>4. /\ Settled(lobby', hand') /\ hand'.phase # "over"
      /\ shown' = OnView(hand') /\ recorded' = FALSE /\ votes' = {}
  BY <1>2, <1>3, DealRoundSettles
<1>5. /\ match' \in Match /\ match'.state = "open" /\ match'.target = lobby'.target
      /\ handed' = 0
  BY DEF TableInv, ScoreInv
<1> QED BY <1>1, <1>3, <1>4, <1>5, NewHandPreserves DEF TableInv

LEMMA RematchPreserves ==
  ASSUME TableInv, NEW s \in Position, PlayerAsksRematch(s)
  PROVE  TableInv'
<1> USE DEF PlayerAsksRematch
<1>1. hand.phase = "over" BY DEF TableInv, ScoreInv
<1>2. ~Waiting(lobby) /\ Underway(hand) BY <1>1, UnderwayWhenPlaying
<1>3. LobbyInv' BY SameLobby
<1>4. CASE UNCHANGED <<hand, match, recorded, shown, handed>> /\ votes' = votes \cup {s}
  <2>1. HandInv' BY <1>4, <1>2 DEF TableInv, HandInv
  <2>2. ViewInv' BY <1>4 DEF TableInv, ViewInv, OnView, Online, Changed
  <2>3. ScoreInv'
    <3>1. PassAndPlay(lobby)' = PassAndPlay(lobby) BY SameKindOfPlay
    <3> QED BY <1>4, <3>1 DEF TableInv, ScoreInv
  <2>4. VotesInv' BY <1>4 DEF TableInv, VotesInv, Changed
  <2> QED BY <1>3, <2>1, <2>2, <2>3, <2>4 DEF TableInv
<1>5. CASE NewMatch /\ DealRound(Following(hand.dealer))
  <2>1. Following(hand.dealer) \in Position
    BY <1>2, FollowingIsASeat DEF Underway, HandOK, Hand
  <2> QED BY <1>2, <1>3, <1>5, <2>1, NewMatchPreserves DEF TableInv
<1> QED BY <1>4, <1>5

(* What the server does *)

\* Losing or regaining a connection makes nobody a bot, nor a bot a player.
LEMMA ConnectionKeepsHumans ==
  ASSUME NEW l \in Lobby, NEW s \in Position
  PROVE  /\ Humans(Disconnect(l, s)) = Humans(l)
         /\ CanReconnect(l, s) => Humans(Reconnect(l, s)) = Humans(l)
BY DEF Humans, Occupied, PlayedByBot, Disconnect, Reconnect, CanReconnect, Lobby, Seat

LEMMA DisconnectsPreserves ==
  ASSUME TableInv, NEW s \in Position, SeatDisconnects(s)
  PROVE  TableInv'
<1> USE DEF SeatDisconnects
<1>1. lobby \in Lobby /\ LobbyOK(lobby) BY DEF TableInv, LobbyInv, LobbyOK
<1>2. lobby' \in Lobby /\ SameSeats(lobby, lobby') BY <1>1, DisconnectOK
<1>3. LobbyOK(lobby') /\ Waiting(lobby') = Waiting(lobby) BY <1>1, <1>2, SameSeatsOK
<1>4. LobbyInv' BY <1>3 DEF TableInv, LobbyInv, Online, Changed
<1> QED BY <1>1, <1>2, <1>3, <1>4, ConnectionKeepsHumans, NoMovePreserves DEF SameSeats, SameRules

LEMMA ReconnectsPreserves ==
  ASSUME TableInv, NEW s \in Position, SeatReconnects(s)
  PROVE  TableInv'
<1> USE DEF SeatReconnects
<1>1. lobby \in Lobby /\ LobbyOK(lobby) BY DEF TableInv, LobbyInv, LobbyOK
<1>2. lobby' \in Lobby /\ SameSeats(lobby, lobby') BY <1>1, ReconnectOK
<1>3. LobbyOK(lobby') /\ Waiting(lobby') = Waiting(lobby) BY <1>1, <1>2, SameSeatsOK
<1>4. LobbyInv' BY <1>3 DEF TableInv, LobbyInv, Online, Changed, CanReconnect
<1> QED BY <1>1, <1>2, <1>3, <1>4, ConnectionKeepsHumans, NoMovePreserves DEF SameSeats, SameRules

LEMMA FillsPreserves ==
  ASSUME TableInv, NEW D \in SUBSET Position, SweepFills(D)
  PROVE  TableInv'
<1> USE DEF SweepFills
<1> DEFINE filled == FillWithBots(lobby)
<1>1. lobby \in Lobby /\ LobbyOK(lobby) BY DEF TableInv, LobbyInv, LobbyOK
<1>2. LobbyOK(filled) /\ ~Waiting(filled) /\ filled \in Lobby
  BY <1>1, FillWithBotsOK DEF LobbyOK
<1>3. lobby' = ReplaceExpired(filled, D) OBVIOUS
<1> HIDE DEF filled
<1>4. lobby' \in Lobby /\ SameSeats(filled, lobby')
  BY <1>2, <1>3, ReplaceExpiredOK
<1>5. LobbyOK(lobby') /\ ~Waiting(lobby') BY <1>2, <1>4, SameSeatsOK
<1>6. LobbyInv' BY <1>5 DEF TableInv, LobbyInv, Online, CanFillWithBots
<1>7. PICK h \in Drive(lobby', Drive(filled, {Deal(FirstDealer)})) :
        hand' = h /\ shown' = OnView(h) /\ recorded' = FALSE /\ votes' = {}
  BY DEF filled
<1>8. \A g \in {Deal(FirstDealer)} : Underway(g) /\ g.phase = "auction"
  BY DealOK DEF FirstDealer, Position
<1>9. \A g \in Drive(filled, {Deal(FirstDealer)}) : Underway(g) /\ g.phase # "over"
  BY <1>2, <1>8, DriveSettles DEF Settled
<1>10. Settled(lobby', h) /\ h.phase # "over"
  <2>1. PICK g \in Drive(filled, {Deal(FirstDealer)}) : h \in Drive(lobby', {g})
    BY <1>7 DEF Drive
  <2>2. \A k \in {g} : Underway(k) BY <1>9
  <2>3. Settled(lobby', h) BY <1>4, <2>1, <2>2, DriveSettles
  <2>4. h.phase # "over"
    <3>1. h \in BotsPlay(lobby', g) BY <2>1 DEF Drive
    <3> QED BY <1>4, <1>9, <3>1, BotAuctionSettles, BotCardsSettle DEF BotsPlay
  <2> QED BY <2>3, <2>4
<1>11. /\ match' \in Match /\ match'.state = "open" /\ match'.target = lobby'.target
       /\ handed' = 0
  BY <1>4 DEF NewMatch, Match, Lobby
<1> QED BY <1>5, <1>6, <1>7, <1>10, <1>11, NewHandPreserves DEF TableInv

LEMMA ReplacesPreserves ==
  ASSUME TableInv, NEW D \in SUBSET Position, NEW collected \in BOOLEAN,
         SweepReplaces(D, collected)
  PROVE  TableInv'
<1> USE DEF SweepReplaces
<1>1. lobby \in Lobby /\ LobbyOK(lobby) BY DEF TableInv, LobbyInv, LobbyOK
<1>2. lobby' \in Lobby /\ SameSeats(lobby, lobby') BY <1>1, ReplaceExpiredOK
<1>3. /\ LobbyOK(lobby') /\ Waiting(lobby') = Waiting(lobby)
      /\ Occupied(lobby') = Occupied(lobby)
  BY <1>1, <1>2, SameSeatsOK
<1>4. LobbyInv' BY <1>3 DEF TableInv, LobbyInv, Online, Changed
<1>5. CASE Waiting(lobby)
  <2>1. hand.phase = "none" /\ ~collected BY <1>5 DEF TableInv, HandInv
  <2>2. MoveOn({hand}) BY <2>1 DEF Swept
  <2>3. Drive(lobby', {hand}) = {hand} BY <2>1 DEF Drive, BotsPlay
  <2>4. NoMove
    <3>1. hand' = hand /\ shown' = OnView(hand) /\ RecordRound(hand) /\ UNCHANGED votes
      BY <2>2, <2>3 DEF MoveOn
    <3> QED BY <2>1, <3>1 DEF NoMove, RecordRound, TableInv, ViewInv
  <2> QED BY <1>3, <1>4, <1>5, <2>4, NoMovePreserves
<1>6. CASE ~Waiting(lobby)
  <2>1. Underway(hand) BY <1>6 DEF TableInv, HandInv, Settled
  <2>2. \A h \in Swept(lobby', collected) : Underway(h)
    BY <2>1, ContinueOK DEF Swept
  <2>3. hand.phase = "over" => Swept(lobby', collected) = {hand}
    BY DEF Swept
  <2> QED BY <1>2, <1>3, <1>4, <1>6, <2>2, <2>3, MoveOnPreserves DEF SameSeats, SameRules
<1> QED BY <1>5, <1>6

LEMMA ReleasePreserves ==
  ASSUME TableInv, NEW a \in Accounts, ReleaseAccount(a)
  PROVE  TableInv'
<1> USE DEF ReleaseAccount
<1> DEFINE seats == SeatsOf(lobby, a)
<1>1. lobby \in Lobby /\ LobbyOK(lobby) BY DEF TableInv, LobbyInv, LobbyOK
<1>2. seats \in SUBSET Occupied(lobby) /\ seats \in SUBSET Position
  BY DEF SeatsOf, Occupied
<1>3. CASE Waiting(lobby)
  <2>1. lobby' = LeaveAll(lobby, seats) BY <1>3
  <2>2. LobbyOK(lobby') /\ Waiting(lobby') /\ Occupied(lobby') = Occupied(lobby) \ seats
    BY <1>1, <1>2, <1>3, <2>1, LeaveAllOK
  <2>3. LobbyInv' BY <1>3, <2>2 DEF TableInv, LobbyInv, Online, Changed
  <2> QED BY <1>3, <2>2, <2>3, NoMovePreserves
<1>4. CASE ~Waiting(lobby)
  <2>1. lobby' = HandToBot(lobby, seats) \/ lobby' = ForgetAccount(lobby, seats)
    BY <1>4
  <2>2. lobby' \in Lobby /\ SameSeats(lobby, lobby')
    BY <1>1, <1>2, <2>1, HandToBotOK, ForgetAccountOK
  <2>3. /\ LobbyOK(lobby') /\ Waiting(lobby') = Waiting(lobby)
        /\ Occupied(lobby') = Occupied(lobby)
    BY <1>1, <2>2, SameSeatsOK
  <2>4. LobbyInv' BY <2>3 DEF TableInv, LobbyInv, Online, Changed
  <2>5. Underway(hand) BY <1>4 DEF TableInv, HandInv, Settled
  <2>6. \A h \in {hand} : Underway(h) BY <2>5
  <2>7. MoveOn({hand}) BY <1>4
  <2> QED BY <1>4, <2>2, <2>3, <2>4, <2>6, <2>7, MoveOnPreserves DEF SameSeats, SameRules
<1> QED BY <1>3, <1>4

\* Every step preserves the invariant: one case for each action.
LEMMA NextPreserves == TableInv /\ [Next]_vars => TableInv'
<1> SUFFICES ASSUME TableInv, [Next]_vars PROVE TableInv' OBVIOUS
<1>1. CASE UNCHANGED vars
  BY <1>1 DEF vars, TableInv, LobbyInv, HandInv, ViewInv, ScoreInv, VotesInv, OnView,
              Online, PassAndPlay, Changed
<1>2. CASE PlayerStep
  BY <1>2, ReadyPreserves, ChooseSeatPreserves, StartsPreserves, SetTargetPreserves,
     LeavesPreserves, CallsPreserves, PlaysPreserves, RematchPreserves, JoinsPreserves,
     ContinuesPreserves, DealsNextPreserves DEF PlayerStep
<1>3. CASE ServerStep
  <2>1. Disconnected(lobby) \subseteq Position BY DEF Disconnected, Occupied
  <2>2. CASE \E s \in Position : SeatDisconnects(s) \/ SeatReconnects(s)
    BY <2>2, DisconnectsPreserves, ReconnectsPreserves
  <2>3. CASE \E D \in SUBSET Disconnected(lobby) :
               SweepFills(D) \/ \E collected \in BOOLEAN : SweepReplaces(D, collected)
    BY <2>1, <2>3, FillsPreserves, ReplacesPreserves
  <2>4. CASE \E a \in Accounts : ReleaseAccount(a)
    BY <2>4, ReleasePreserves
  <2> QED BY <1>3, <2>2, <2>3, <2>4 DEF ServerStep
<1> QED BY <1>1, <1>2, <1>3 DEF Next

THEOREM TableInvariance == Spec => []TableInv
<1>1. Init => TableInv BY InitInv
<1>2. TableInv /\ [Next]_vars => TableInv' BY NextPreserves
<1> QED BY <1>1, <1>2, PTL DEF Spec

-----------------------------------------------------------------------------
(* What follows for the table *)

\* Pass-and-play is a local table with two humans at least.
LEMMA PassAndPlayIsSeveral ==
  ASSUME NEW l \in Lobby
  PROVE  PassAndPlay(l) <=>
           ~Online /\ \E s, t \in Position : /\ s # t
                                             /\ l.seats[s].kind = "human"
                                             /\ l.seats[t].kind = "human"
<1> DEFINE H == {s \in Position : l.seats[s].kind = "human"}
<1>1. IsFiniteSet(H)
  <2>1. IsFiniteSet(0..3)
    <3>1. 0 \in Int /\ 3 \in Int OBVIOUS
    <3>2. \A a, b \in Int : IsFiniteSet(a..b) BY FS_Interval
    <3> QED BY <3>1, <3>2
  <2> QED BY <2>1, FS_Subset DEF Position
<1>2. CASE \E s, t \in H : s # t
  <2>1. PICK s, t \in H : s # t BY <1>2
  <2>2. Cardinality(H) \in Nat /\ Cardinality({s, t}) <= Cardinality(H)
    BY <1>1, <2>1, FS_Subset, FS_CardinalityType
  <2>3. Cardinality({s}) = 1 /\ IsFiniteSet({s}) BY FS_Singleton
  <2>4. Cardinality({s} \cup {t}) = 2 BY <2>1, <2>3, FS_AddElement
  <2>5. {s} \cup {t} = {s, t} OBVIOUS
  <2>6. \E x, y \in Position : /\ x # y
                               /\ l.seats[x].kind = "human"
                               /\ l.seats[y].kind = "human"
    BY <2>1
  <2>7. Cardinality(H) > 1
    <3> HIDE DEF H
    <3> QED BY <2>2, <2>4, <2>5
  <2> QED BY <2>6, <2>7 DEF PassAndPlay
<1>3. CASE ~\E s, t \in H : s # t
  <2>1. Cardinality(H) <= 1
    <3> HIDE DEF H
    <3>1. CASE H = {}
      <4>1. Cardinality(H) = 0 BY <3>1, FS_EmptySet
      <4> QED BY <4>1
    <3>2. CASE H # {}
      <4>1. PICK s \in H : TRUE BY <3>2
      <4>2. H = {s} BY <1>3, <4>1
      <4>3. Cardinality(H) = 1 BY <4>2, FS_Singleton
      <4> QED BY <4>3
    <3> QED BY <3>1, <3>2
  <2> QED BY <1>1, <1>3, <2>1, FS_CardinalityType DEF PassAndPlay
<1> QED BY <1>2, <1>3

\* Every part of the state keeps its type.
THEOREM TableTyping == Spec => []TypeOK
<1>1. TableInv => TypeOK
  <2> SUFFICES ASSUME TableInv PROVE TypeOK OBVIOUS
  <2>1. lobby \in Lobby BY DEF TableInv, LobbyInv, LobbyOK
  <2>2. hand \in Hand BY DEF TableInv, HandInv, Settled, Underway, HandOK
  <2>3. shown \in 0..Tricks
    BY <2>2, HandAssumption DEF TableInv, ViewInv, OnView, NoTrick, Hand
  <2>4. handed \in Nat BY DEF TableInv, ScoreInv
  <2> QED BY <2>1, <2>2, <2>3, <2>4 DEF TableInv, LobbyInv, ScoreInv, VotesInv, TypeOK
<1> QED BY <1>1, TableInvariance, PTL

\* A match is on exactly when the table has left the lobby, with four seats taken.
THEOREM TableNeedsFour == Spec => []GameNeedsFour
<1>1. TableInv => GameNeedsFour
  BY DEF TableInv, LobbyInv, LobbyOK, HandInv, Settled, Underway, ScoreInv, GameNeedsFour
<1> QED BY <1>1, TableInvariance, PTL

\* The owner sits at every table at which anyone sits.
THEOREM TableOwnerIsSeated == Spec => []OwnerIsSeated
<1>1. TableInv => OwnerIsSeated
  BY DEF TableInv, LobbyInv, LobbyOK, OwnerSeated, OwnerIsSeated
<1> QED BY <1>1, TableInvariance, PTL

\* The table at rest waits for a human.
THEOREM TableNeverWaitsForBot == Spec => []NeverWaitsForBot
<1>1. TableInv => NeverWaitsForBot
  BY DEF TableInv, HandInv, HandOK, Settled, NeverWaitsForBot
<1> QED BY <1>1, TableInvariance, PTL

\* The trick on view is the one the board reviews.
THEOREM TableTrickOnView == Spec => []TrickOnViewIsCurrent
<1>1. TableInv => TrickOnViewIsCurrent
  BY DEF TableInv, ViewInv, OnView, TrickOnViewIsCurrent
<1> QED BY <1>1, TableInvariance, PTL

\* A finished match is handed over once.
THEOREM TableHandsOverOnce == Spec => []FinishedMatchHandedOverOnce
<1>1. TableInv => FinishedMatchHandedOverOnce
  <2> SUFFICES ASSUME TableInv PROVE FinishedMatchHandedOverOnce OBVIOUS
  <2>1. lobby \in Lobby BY DEF TableInv, LobbyInv, LobbyOK
  <2>2. PassAndPlay(lobby) <=>
          ~Online /\ \E s, t \in Position : /\ s # t
                                            /\ lobby.seats[s].kind = "human"
                                            /\ lobby.seats[t].kind = "human"
    BY <2>1, PassAndPlayIsSeveral
  <2> QED BY <2>2 DEF TableInv, ScoreInv, FinishedMatchHandedOverOnce
<1> QED BY <1>1, TableInvariance, PTL

\* The match is played to the target the lobby shows.
THEOREM TableMatchKeepsTarget == Spec => []MatchKeepsTarget
<1>1. TableInv => MatchKeepsTarget BY DEF TableInv, ScoreInv, MatchKeepsTarget
<1> QED BY <1>1, TableInvariance, PTL

\* Nobody sits down at a table about to be removed.
THEOREM TableRemovedIsEmpty == Spec => []RemovedTableIsEmpty
<1>1. TableInv => RemovedTableIsEmpty BY DEF TableInv, LobbyInv, RemovedTableIsEmpty
<1> QED BY <1>1, TableInvariance, PTL

-----------------------------------------------------------------------------
(* What a step may never do *)

\* What a step may do to the lobby of a match: a connection is lost or comes back, bots
\* take seats over, or an account is deleted.
MatchLobbyStep ==
  \/ lobby' = lobby
  \/ \E s \in Position : lobby' = Disconnect(lobby, s)
  \/ \E s \in Position : CanReconnect(lobby, s) /\ lobby' = Reconnect(lobby, s)
  \/ \E D \in SUBSET Position : lobby' = ReplaceExpired(lobby, D)
  \/ \E A \in SUBSET Position : lobby' = HandToBot(lobby, A)
  \/ ~Online /\ \E A \in SUBSET Position : lobby' = ForgetAccount(lobby, A)

LEMMA LobbyInAMatch ==
  ASSUME [Next]_vars, ~Waiting(lobby)
  PROVE  MatchLobbyStep
<1>1. CASE UNCHANGED vars BY <1>1 DEF vars, MatchLobbyStep
<1>2. CASE PlayerStep
  BY <1>2 DEF PlayerStep, MatchLobbyStep, PlayerReady, CanSetReady, PlayerChoosesSeat,
       CanChooseSeat, OwnerStarts, CanStart, CanStartWithBots, OwnerSetsTarget, CanSetTarget,
       PlayerLeaves, CanLeave, PlayerCalls, PlayerPlays, PlayerAsksRematch, PlayerJoins,
       CanJoin, PlayerContinues, PlayerDealsNext
<1>3. CASE \E s \in Position : SeatDisconnects(s) \/ SeatReconnects(s)
  BY <1>3 DEF MatchLobbyStep, SeatDisconnects, SeatReconnects
<1>4. CASE \E D \in SUBSET Disconnected(lobby) :
             SweepFills(D) \/ \E collected \in BOOLEAN : SweepReplaces(D, collected)
  <2>1. Disconnected(lobby) \subseteq Position BY DEF Disconnected, Occupied
  <2> QED BY <1>4, <2>1 DEF MatchLobbyStep, SweepFills, CanFillWithBots, SweepReplaces
<1>5. CASE \E a \in Accounts : ReleaseAccount(a)
  <2>1. PICK a \in Accounts : ReleaseAccount(a) BY <1>5
  <2>2. SeatsOf(lobby, a) \in SUBSET Position BY DEF SeatsOf, Occupied
  <2> QED BY <2>1, <2>2 DEF MatchLobbyStep, ReleaseAccount
<1> QED BY <1>1, <1>2, <1>3, <1>4, <1>5 DEF Next, ServerStep

\* In a match a bot's seat stays a bot's, and only a deletion changes an account.
LEMMA SeatsInAMatch ==
  ASSUME TableInv, [Next]_vars, ~Waiting(lobby), NEW s \in Position
  PROVE  /\ PlayedByBot(lobby.seats[s]) => PlayedByBot(lobby'.seats[s])
         /\ Online /\ lobby'.seats[s].account # lobby.seats[s].account =>
              lobby'.seats[s].account = NoAccount /\ PlayedByBot(lobby'.seats[s])
<1>1. lobby \in Lobby BY DEF TableInv, LobbyInv, LobbyOK
<1>2. MatchLobbyStep BY LobbyInAMatch
<1>3. CASE lobby' = lobby BY <1>3
<1>4. CASE \E t \in Position : lobby' = Disconnect(lobby, t)
  BY <1>1, <1>4 DEF Disconnect, Lobby, Seat, PlayedByBot
<1>5. CASE \E t \in Position : CanReconnect(lobby, t) /\ lobby' = Reconnect(lobby, t)
  BY <1>1, <1>5 DEF CanReconnect, Reconnect, Lobby, Seat, PlayedByBot
<1>6. CASE \E D \in SUBSET Position : lobby' = ReplaceExpired(lobby, D)
  BY <1>1, <1>6 DEF ReplaceExpired, Lobby, Seat, PlayedByBot
<1>7. CASE \E A \in SUBSET Position : lobby' = HandToBot(lobby, A)
  <2>1. PICK A \in SUBSET Position : lobby' = HandToBot(lobby, A) BY <1>7
  <2> DEFINE taken(p) == [lobby.seats[p] EXCEPT !.account = NoAccount, !.connection = "takeover"]
             after == [p \in Position |-> IF p \in A THEN taken(p) ELSE lobby.seats[p]]
  <2>2. lobby' = [lobby EXCEPT !.seats = after] BY <2>1, Zenon DEF HandToBot
  <2>3. lobby'.seats = after
    <3> HIDE DEF after
    <3> QED BY <1>1, <2>2 DEF Lobby
  <2>4. lobby.seats[s] \in Seat BY <1>1 DEF Lobby
  <2>5. taken(s).connection = "takeover" /\ taken(s).account = NoAccount BY <2>4 DEF Seat
  <2>6. lobby'.seats[s] = IF s \in A THEN taken(s) ELSE lobby.seats[s]
    <3> HIDE DEF taken
    <3> QED BY <2>3
  <2> HIDE DEF taken
  <2> QED BY <2>5, <2>6 DEF PlayedByBot
<1>8. CASE ~Online /\ \E A \in SUBSET Position : lobby' = ForgetAccount(lobby, A)
  BY <1>1, <1>8 DEF ForgetAccount, Lobby, Seat, PlayedByBot
<1> QED BY <1>2, <1>3, <1>4, <1>5, <1>6, <1>7, <1>8 DEF MatchLobbyStep

\* A bot that took a seat keeps it: no late reconnection takes it back.
THEOREM TableBotKeepsSeat == Spec => BotKeepsSeat
<1>1. TableInv /\ [Next]_vars =>
        [\A s \in Position : ~Waiting(lobby) /\ PlayedByBot(lobby.seats[s])
                               => PlayedByBot(lobby'.seats[s])]_vars
  BY SeatsInAMatch
<1> QED BY <1>1, TableInvariance, PTL DEF Spec, BotKeepsSeat

\* The seat of a deleted account goes to a bot, and to no other account.
THEOREM TableDeletedSeatGoesToBot == Spec => DeletedSeatGoesToBot
<1>1. TableInv /\ [Next]_vars =>
        [Online /\ ~Waiting(lobby) =>
           \A s \in Position : lobby'.seats[s].account # lobby.seats[s].account =>
             lobby'.seats[s].account = NoAccount /\ PlayedByBot(lobby'.seats[s])]_vars
  BY SeatsInAMatch
<1> QED BY <1>1, TableInvariance, PTL DEF Spec, DeletedSeatGoesToBot

\* A match that is complete is opened again by a vote after which none is pending.
LEMMA OnlyAVoteReopens ==
  ASSUME TableInv, [Next]_vars, Online, match.state = "complete", match'.state = "open"
  PROVE  \E s \in Position : Pending(lobby, votes \cup {s}) = {}
<1>1. ~Waiting(lobby) /\ match' # match BY DEF TableInv, ScoreInv
<1>2. \A hands : ~MoveOn(hands)
  <2> SUFFICES ASSUME NEW hands, MoveOn(hands) PROVE FALSE OBVIOUS
  <2>1. PICK h \in Drive(lobby', hands) : RecordRound(h) BY DEF MoveOn
  <2>2. match' = match \/ match'.state = "complete"
    BY <2>1 DEF RecordRound, TableInv, ScoreInv, Match
  <2> QED BY <1>1, <2>2
<1>3. ~NoMove BY <1>1 DEF NoMove
<1>4. PICK s \in Position : PlayerAsksRematch(s)
  BY <1>1, <1>2, <1>3 DEF Next, PlayerStep, ServerStep, vars, PlayerReady, PlayerChoosesSeat,
     OwnerStarts, CanStart, CanStartWithBots, OwnerSetsTarget, PlayerLeaves, PlayerCalls,
     PlayerPlays, PlayerJoins, CanJoin, PlayerContinues, PlayerDealsNext, SeatDisconnects,
     SeatReconnects, SweepFills, CanFillWithBots, SweepReplaces, ReleaseAccount
<1> QED BY <1>1, <1>4 DEF PlayerAsksRematch

\* A match is restarted by a vote, and every other connected human had voted before.
THEOREM TableRematchByConsent == Spec => RematchByConsent
<1>1. ASSUME TableInv, [Next]_vars, Online, match.state = "complete", match'.state = "open",
             NEW s \in Humans(lobby) \ votes, NEW t \in Humans(lobby) \ votes, s # t
      PROVE  \/ lobby.seats[s].connection = "disconnected"
             \/ lobby.seats[t].connection = "disconnected"
  <2>1. PICK v \in Position : Pending(lobby, votes \cup {v}) = {} BY <1>1, OnlyAVoteReopens
  <2>2. \A p \in Humans(lobby) \ votes :
          p # v => lobby.seats[p].connection # "connected"
    BY <2>1 DEF Pending
  <2>3. lobby \in Lobby BY <1>1 DEF TableInv, LobbyInv, LobbyOK
  <2>4. \A p \in Humans(lobby) : lobby.seats[p].connection \in {"connected", "disconnected"}
    BY <2>3 DEF Humans, Occupied, PlayedByBot, Lobby, Seat, Connection
  <2> QED BY <1>1, <2>2, <2>4
<1>2. TableInv /\ [Next]_vars =>
        [Online /\ match.state = "complete" /\ match'.state = "open" =>
           \A s, t \in Humans(lobby) \ votes :
             s # t => lobby.seats[s].connection = "disconnected"
                        \/ lobby.seats[t].connection = "disconnected"]_vars
  BY <1>1
<1> QED BY <1>2, TableInvariance, PTL DEF Spec, RematchByConsent

\* A card, or bots' cards, keep the trick open or complete it.
LEMMA PlayGoesOn ==
  ASSUME NEW h \in Hand, h.phase = "play", NEW n, NEW g \in Play(h, n)
  PROVE  /\ g.dealer = h.dealer
         /\ \/ g.phase = "play" /\ g.tricks = h.tricks
            \/ g.phase = "review" /\ g.tricks = h.tricks + 1
<1>1. CASE h.cards + n = 4 BY <1>1 DEF Play, Hand
<1>2. CASE h.cards + n # 4 BY <1>2 DEF Play, Hand
<1> QED BY <1>1, <1>2

\* Whatever bots do after a move, they complete one trick at most.
LEMMA DriveGoesOn ==
  ASSUME NEW l, NEW h \in Hand, h.phase # "auction", NEW g \in Drive(l, {h})
  PROVE  \/ g = h
         \/ /\ h.phase = "play" /\ g.dealer = h.dealer
            /\ \/ g.phase = "play" /\ g.tricks = h.tricks
               \/ g.phase = "review" /\ g.tricks = h.tricks + 1
<1>1. g \in BotsPlay(l, h) BY DEF Drive
<1>2. CASE h.phase = "play"
  <2>1. g \in BotCards(l, h) BY <1>1, <1>2 DEF BotsPlay
  <2>2. PICK n : g \in Play(h, n) BY <2>1 DEF BotCards
  <2> QED BY <1>2, <2>2, PlayGoesOn
<1>3. CASE h.phase # "play" BY <1>1, <1>3 DEF BotsPlay
<1> QED BY <1>2, <1>3

OnwardFrom(h) ==
  /\ hand'.phase \in {"play", "review", "over"} /\ hand'.dealer = h.dealer
  /\ hand'.tricks \in h.tricks..(h.tricks + 1)

\* The moves of a round on the board: those that leave it as it is for the bots, a card, and
\* the collection of a trick.
LEMMA MovesGoOn ==
  ASSUME Underway(hand), hand.phase \in {"play", "review"},
         \/ MoveOn({hand})
         \/ hand.phase = "play" /\ MoveOn(Play(hand, 1))
         \/ hand.phase = "review" /\ MoveOn({Continue(hand)})
  PROVE  OnwardFrom(hand)
<1>1. hand \in Hand /\ hand.tricks \in Nat BY DEF Underway, HandOK, Hand
<1>2. CASE MoveOn({hand})
  <2>1. hand' \in Drive(lobby', {hand}) BY <1>2 DEF MoveOn
  <2> QED BY <1>1, <2>1, DriveGoesOn DEF OnwardFrom
<1>3. CASE hand.phase = "play" /\ MoveOn(Play(hand, 1))
  <2>1. PICK g \in Play(hand, 1) : hand' \in Drive(lobby', {g}) BY <1>3 DEF MoveOn, Drive
  <2>2. Underway(g)
    <3>1. hand.cards + 1 <= 4 BY <1>1, <1>3 DEF Underway, HandOK, Hand
    <3> QED BY <1>3, <2>1, <3>1, PlayOK
  <2>3. g \in Hand /\ g.phase # "auction" /\ g.tricks \in Nat
    BY <1>1, <1>3, <2>1, <2>2, PlayGoesOn DEF Underway, HandOK, Hand
  <2> QED BY <1>1, <1>3, <2>1, <2>3, PlayGoesOn, DriveGoesOn DEF OnwardFrom
<1>4. CASE hand.phase = "review" /\ MoveOn({Continue(hand)})
  <2>1. hand' \in Drive(lobby', {Continue(hand)}) BY <1>4 DEF MoveOn
  <2>2. Underway(Continue(hand)) BY <1>4, ContinueOK
  <2>3. Continue(hand) \in Hand BY <2>2 DEF Underway, HandOK
  <2>4. /\ Continue(hand).dealer = hand.dealer
        /\ \/ Continue(hand).phase = "over" /\ Continue(hand).tricks = hand.tricks + 1
           \/ Continue(hand).phase = "play" /\ Continue(hand).tricks = hand.tricks
    BY <1>1, HandAssumption DEF Continue, Hand
  <2> QED BY <1>1, <2>1, <2>3, <2>4, DriveGoesOn DEF OnwardFrom
<1> QED BY <1>2, <1>3, <1>4

\* What a step may do to a round on the board: leave it, or make one of those moves.
LEMMA StepsOfARound ==
  ASSUME TableInv, [Next]_vars, hand.phase \in {"play", "review"}
  PROVE  \/ hand' = hand \/ MoveOn({hand})
         \/ hand.phase = "play" /\ MoveOn(Play(hand, 1))
         \/ hand.phase = "review" /\ MoveOn({Continue(hand)})
<1>1. ~Waiting(lobby) /\ match.state # "complete" BY DEF TableInv, HandInv, ScoreInv
<1>2. CASE UNCHANGED vars BY <1>2 DEF vars
<1>3. CASE PlayerStep
  BY <1>1, <1>3 DEF PlayerStep, NoMove, PlayerReady, CanSetReady, PlayerChoosesSeat,
     CanChooseSeat, OwnerStarts, CanStart, CanStartWithBots, OwnerSetsTarget, CanSetTarget,
     PlayerLeaves, PlayerCalls, PlayerPlays, PlayerAsksRematch, PlayerJoins, CanJoin,
     PlayerContinues, PlayerDealsNext, CanDealNext
<1>4. CASE ServerStep
  BY <1>1, <1>4 DEF ServerStep, NoMove, SeatDisconnects, SeatReconnects, SweepFills,
     CanFillWithBots, SweepReplaces, Swept, ReleaseAccount
<1> QED BY <1>2, <1>3, <1>4 DEF Next

\* Nothing deals over a round on the board, and each step completes one trick at most.
THEOREM TableRoundIsPlayedOut == Spec => RoundIsPlayedOut
<1>1. ASSUME TableInv, [Next]_vars, hand.phase \in {"play", "review"}
      PROVE  OnwardFrom(hand)
  <2>1. Underway(hand) BY <1>1, UnderwayWhenPlaying
  <2>2. CASE hand' = hand BY <1>1, <2>1, <2>2 DEF OnwardFrom, Underway, HandOK, Hand
  <2> QED BY <1>1, <2>1, <2>2, StepsOfARound, MovesGoOn
<1>2. TableInv /\ [Next]_vars =>
        [hand.phase \in {"play", "review"} =>
           /\ hand'.phase \in {"play", "review", "over"} /\ hand'.dealer = hand.dealer
           /\ hand'.tricks \in hand.tricks..(hand.tricks + 1)]_vars
  BY <1>1 DEF OnwardFrom
<1> QED BY <1>2, TableInvariance, PTL DEF Spec, RoundIsPlayedOut

\* Every change that players can see carries a new version.
THEOREM TableChangeIsANewVersion == Spec => ChangeIsANewVersion
<1>1. ASSUME [Next]_vars PROVE Changed \/ UNCHANGED vars
  BY <1>1 DEF Next, PlayerStep, ServerStep, PlayerReady, PlayerChoosesSeat, OwnerStarts,
     OwnerSetsTarget, PlayerLeaves, PlayerCalls, PlayerPlays, PlayerAsksRematch, PlayerJoins,
     PlayerContinues, PlayerDealsNext, SeatDisconnects, SeatReconnects, SweepFills,
     SweepReplaces, ReleaseAccount
<1>2. TableInv /\ Changed => version' # version BY DEF TableInv, VotesInv, Changed
<1>3. UNCHANGED vars => <<lobby, hand, match, votes>>' = <<lobby, hand, match, votes>>
  BY DEF vars
<1>4. TableInv /\ [Next]_vars =>
        [<<lobby, hand, match, votes>>' # <<lobby, hand, match, votes>>
           => version' # version]_vars
  BY <1>1, <1>2, <1>3
<1> QED BY <1>4, TableInvariance, PTL DEF Spec, ChangeIsANewVersion

-----------------------------------------------------------------------------
(* A waiting lobby seats no bot *)

NoBots(l) == \A s \in Position : l.seats[s].kind # "bot"
BotsOnlyPlay == Waiting(lobby) => NoBots(lobby)

LEMMA LeaveSeatsNoBot ==
  ASSUME NEW l \in Lobby, NoBots(l), NEW s \in Position
  PROVE  Leave(l, s) \in Lobby /\ NoBots(Leave(l, s))
<1> DEFINE k == [l EXCEPT !.seats[s] = Vacant]
<1>1. k \in Lobby BY DEF Lobby, Seat, Vacant, Kind, Connection
<1>2. NoBots(k) BY DEF NoBots, Lobby, Vacant
<1>3. Occupied(k) # {} => First(Occupied(k)) \in Position
  BY FirstIsIn DEF Occupied
<1>4. Leave(l, s) \in {k, [k EXCEPT !.owner = First(Occupied(k))]} BY DEF Leave
<1>5. CASE Leave(l, s) = k BY <1>1, <1>2, <1>5
<1>6. CASE Leave(l, s) # k
  <2>1. /\ Leave(l, s) = [k EXCEPT !.owner = First(Occupied(k))]
        /\ Occupied(k) # {}
    BY <1>6 DEF Leave
  <2> HIDE DEF k
  <2> QED BY <1>1, <1>2, <1>3, <2>1 DEF Lobby, NoBots
<1> QED BY <1>4, <1>5, <1>6

LEMMA LeaveAllSeatsNoBot ==
  ASSUME NEW l \in Lobby, NoBots(l), NEW A
  PROVE  NoBots(LeaveAll(l, A))
<1> DEFINE out(k, s) == IF s \in A THEN Leave(k, s) ELSE k
           Good(k) == k \in Lobby /\ NoBots(k)
<1>1. \A k, s : Good(k) /\ s \in Position => Good(out(k, s))
  BY LeaveSeatsNoBot
<1>2. Good(l) OBVIOUS
<1>3. 0 \in Position /\ 1 \in Position /\ 2 \in Position /\ 3 \in Position BY DEF Position
<1>4. LeaveAll(l, A) = out(out(out(out(l, 0), 1), 2), 3) BY DEF LeaveAll
<1> HIDE DEF out, Good
<1>5. Good(out(out(out(out(l, 0), 1), 2), 3)) BY <1>1, <1>2, <1>3
<1> QED BY <1>4, <1>5 DEF Good

LEMMA JoinSeatsNoBot ==
  ASSUME NEW l \in Lobby, NoBots(l), NEW a, Waiting(Join(l, a)), Free(l) # {}
  PROVE  NoBots(Join(l, a))
<1> DEFINE f == First(Free(l))
           k == [l EXCEPT !.seats[f] = Human(a)]
<1>1. f \in Position BY FirstIsIn DEF Free
<1>2. NoBots(k) BY <1>1 DEF NoBots, Lobby, Human
<1>3. Join(l, a) = k BY DEF Join, Waiting
<1> QED BY <1>2, <1>3

\* Nothing that keeps a lobby waiting seats a bot in it: bots come with the start.
LEMMA NextSeatsNoBot ==
  ASSUME TableInv, BotsOnlyPlay, [Next]_vars
  PROVE  BotsOnlyPlay'
<1> SUFFICES ASSUME Waiting(lobby') PROVE NoBots(lobby') BY DEF BotsOnlyPlay
<1>1. lobby \in Lobby /\ LobbyOK(lobby) BY DEF TableInv, LobbyInv, LobbyOK
<1>2. CASE lobby' = lobby BY <1>2 DEF BotsOnlyPlay
<1>3. CASE Waiting(lobby) /\ SameSeats(lobby, lobby')
  BY <1>3 DEF BotsOnlyPlay, NoBots, SameSeats
<1>4. ASSUME NEW s \in Position, NEW ready \in BOOLEAN, PlayerReady(s, ready)
      PROVE  NoBots(lobby')
  BY <1>1, <1>4 DEF PlayerReady, SetReady, CanSetReady, BotsOnlyPlay, NoBots, Lobby, Seat
<1>5. ASSUME NEW s \in Position, NEW to \in Position, PlayerChoosesSeat(s, to)
      PROVE  NoBots(lobby')
  BY <1>1, <1>5 DEF PlayerChoosesSeat, ChooseSeat, CanChooseSeat, BotsOnlyPlay, NoBots,
                    Lobby, Seat, Vacant
<1>6. ASSUME NEW s \in Position, OwnerStarts(s)
      PROVE  FALSE
  <2>1. CASE CanStart(lobby, s) /\ lobby' = Start(lobby)
    BY <1>1, <2>1, StartOK DEF CanStart
  <2>2. CASE CanStartWithBots(lobby, s) /\ lobby' = SeatBotsAndStart(lobby)
    <3>1. Occupied(lobby) # {} /\ Waiting(lobby) BY <2>2 DEF CanStartWithBots, Owns
    <3> QED BY <1>1, <2>2, <3>1, SeatBotsAndStartOK
  <2> QED BY <1>6, <2>1, <2>2 DEF OwnerStarts
<1>7. ASSUME NEW s \in Position, NEW t \in Targets, OwnerSetsTarget(s, t)
      PROVE  NoBots(lobby')
  BY <1>1, <1>7 DEF OwnerSetsTarget, SetTarget, CanSetTarget, BotsOnlyPlay, NoBots, Lobby
<1>8. ASSUME NEW s \in Position, PlayerLeaves(s)
      PROVE  NoBots(lobby')
  BY <1>1, <1>2, <1>8, LeaveSeatsNoBot DEF PlayerLeaves, CanLeave, BotsOnlyPlay
<1>9. ASSUME NEW a, PlayerJoins(a)
      PROVE  NoBots(lobby')
  BY <1>1, <1>9, JoinSeatsNoBot DEF PlayerJoins, CanJoin, BotsOnlyPlay
<1>10. ASSUME NEW s \in Position, PlayerCalls(s) \/ PlayerPlays(s) \/ PlayerAsksRematch(s)
       PROVE  lobby' = lobby
  BY <1>10 DEF PlayerCalls, PlayerPlays, PlayerAsksRematch
<1>11. ASSUME PlayerContinues \/ PlayerDealsNext
       PROVE  lobby' = lobby
  BY <1>11 DEF PlayerContinues, PlayerDealsNext
<1>12. ASSUME NEW s \in Position, SeatDisconnects(s) \/ SeatReconnects(s)
       PROVE  Waiting(lobby) /\ SameSeats(lobby, lobby')
  <2>1. SameSeats(lobby, lobby') /\ lobby' \in Lobby
    BY <1>1, <1>12, DisconnectOK, ReconnectOK DEF SeatDisconnects, SeatReconnects
  <2> QED BY <1>1, <2>1, SameSeatsOK
<1>13. ASSUME NEW D \in SUBSET Position, SweepFills(D)
       PROVE  FALSE
  BY <1>13 DEF SweepFills, FillWithBots, SeatBotsAndStart, ReplaceExpired, Waiting
<1>14. ASSUME NEW D \in SUBSET Position, NEW collected \in BOOLEAN,
              SweepReplaces(D, collected)
       PROVE  Waiting(lobby) /\ SameSeats(lobby, lobby')
  <2>1. SameSeats(lobby, lobby') /\ lobby' \in Lobby
    BY <1>1, <1>14, ReplaceExpiredOK DEF SweepReplaces
  <2> QED BY <1>1, <2>1, SameSeatsOK
<1>15. ASSUME NEW a, ReleaseAccount(a)
       PROVE  NoBots(lobby')
  <2>1. CASE Waiting(lobby)
    BY <1>1, <1>15, <2>1, LeaveAllSeatsNoBot DEF ReleaseAccount, BotsOnlyPlay
  <2>2. CASE ~Waiting(lobby)
    <3>1. SeatsOf(lobby, a) \in SUBSET Position BY DEF SeatsOf, Occupied
    <3>2. SameSeats(lobby, lobby') /\ lobby' \in Lobby
      BY <1>1, <1>15, <2>2, <3>1, HandToBotOK, ForgetAccountOK DEF ReleaseAccount
    <3> QED BY <1>1, <2>2, <3>2, SameSeatsOK
  <2> QED BY <2>1, <2>2
<1>16. Disconnected(lobby) \subseteq Position BY DEF Disconnected, Occupied
<1>17. CASE PlayerStep
  BY <1>2, <1>4, <1>5, <1>6, <1>7, <1>8, <1>9, <1>10, <1>11, <1>17 DEF PlayerStep
<1>18. CASE ServerStep
  BY <1>3, <1>12, <1>13, <1>14, <1>15, <1>16, <1>18 DEF ServerStep
<1>19. CASE UNCHANGED vars BY <1>2, <1>19 DEF vars
<1> QED BY <1>17, <1>18, <1>19 DEF Next

LEMMA OpenSeatsNoBot == Init => BotsOnlyPlay
<1> SUFFICES ASSUME Init, Waiting(lobby) PROVE NoBots(lobby) BY DEF BotsOnlyPlay
<1>1. CASE Online
  BY <1>1 DEF Init, Opened, Open, NoBots, Human, Vacant
<1>2. CASE ~Online
  BY <1>2 DEF Init, Opened, LocalLobby, Waiting
<1> QED BY <1>1, <1>2

-----------------------------------------------------------------------------
(* What both views may offer *)

OffersInv == TableInv /\ BotsOnlyPlay

LEMMA HumansReadyIsAllReady ==
  ASSUME OffersInv, Waiting(lobby)
  PROVE  EveryoneReady(HumanSeats) <=> AllReady(lobby)
<1>1. lobby \in Lobby BY DEF OffersInv, TableInv, LobbyInv, LobbyOK
<1>2. NoBots(lobby) BY DEF OffersInv, BotsOnlyPlay
<1>3. HumanSeats = Occupied(lobby)
  BY <1>1, <1>2 DEF HumanSeats, Occupied, NoBots, Lobby, Seat, Kind
<1> QED BY <1>3 DEF EveryoneReady, AllReady

LEMMA AcceptsByName ==
  ASSUME NEW p, NEW button
  PROVE  /\ button.press = "ready" => Accepts(p, button) = CanSetReady(lobby, p)
         /\ button.press = "start" => Accepts(p, button) = CanStart(lobby, p)
         /\ button.press = "startWithBots" => Accepts(p, button) = CanStartWithBots(lobby, p)
         /\ button.press = "settings" => Accepts(p, button) = CanSetTarget(lobby, p)
         /\ button.press = "leave" => Accepts(p, button) = CanLeave(lobby, p)
         /\ button.press = "sit" => Accepts(p, button) = CanChooseSeat(lobby, p, button.seat)
BY DEF Accepts

\* Whatever either view offers: who is asked for it, and that it is waited for.
LEMMA OfferedOnlyIf ==
  ASSUME NEW p, NEW button \in LobbyModel(p) \cup PrivateLobby(p)
  PROVE  \/ button.press = "ready" /\ You(p) /\ Waiting(lobby)
         \/ /\ button.press = "start" /\ IsOwner(p) /\ Waiting(lobby) /\ Free(lobby) = {}
            /\ EveryoneReady(HumanSeats) \/ EveryoneReady(Occupied(lobby))
         \/ /\ button.press = "startWithBots" /\ IsOwner(p) /\ Waiting(lobby)
            /\ EveryoneReady(HumanSeats) \/ EveryoneReady(Occupied(lobby))
         \/ /\ button.press = "settings" /\ IsOwner(p) /\ Waiting(lobby) /\ ~lobby.public
         \/ button.press = "leave" /\ You(p) /\ Waiting(lobby)
         \/ /\ button.press = "sit" /\ You(p) /\ Waiting(lobby) /\ ~lobby.public
            /\ button.seat \in Free(lobby)
BY DEF LobbyModel, PrivateLobby, Offered, Button, Sit, SeatsToSit, StartOffered

LEMMA OffersInvariance == Spec => []OffersInv
<1>1. Init => BotsOnlyPlay BY OpenSeatsNoBot
<1>2. TableInv /\ BotsOnlyPlay /\ [Next]_vars => BotsOnlyPlay' BY NextSeatsNoBot
<1>3. Spec => []TableInv BY TableInvariance
<1> QED BY <1>1, <1>2, <1>3, PTL DEF Spec, OffersInv

\* Neither view of the browser offers what the server would refuse.
THEOREM TableOffersAreAccepted == Spec => []OffersAreAccepted
<1>1. OffersInv => OffersAreAccepted
  <2> SUFFICES ASSUME OffersInv, NEW p \in Occupied(lobby),
                      NEW button \in LobbyModel(p) \cup PrivateLobby(p)
               PROVE  Accepts(p, button)
    BY DEF OffersAreAccepted
  <2>1. IsOwner(p) => Owns(lobby, p) BY DEF IsOwner, You, Owns
  <2>2. Waiting(lobby) /\ (EveryoneReady(HumanSeats) \/ EveryoneReady(Occupied(lobby)))
          => AllReady(lobby)
    BY HumansReadyIsAllReady DEF EveryoneReady, AllReady
  <2> QED BY <2>1, <2>2, OfferedOnlyIf, AcceptsByName
          DEF You, CanSetReady, CanStart, CanStartWithBots, CanSetTarget, CanLeave,
              CanChooseSeat
<1> QED BY <1>1, OffersInvariance, PTL

\* A private table whose players are all ready can be started from one of its screens.
THEOREM TableReadyLobbyCanStart == Spec => []ReadyLobbyCanStart
<1>1. OffersInv => ReadyLobbyCanStart
  <2> SUFFICES ASSUME OffersInv, ~lobby.public, Waiting(lobby), Occupied(lobby) # {},
                      AllReady(lobby)
               PROVE  \E p \in Occupied(lobby) : /\ LobbyModel(p) \cap Starts # {}
                                                 /\ PrivateLobby(p) \cap Starts # {}
    BY DEF ReadyLobbyCanStart
  <2>1. lobby.owner \in Occupied(lobby)
    BY DEF OffersInv, TableInv, LobbyInv, LobbyOK, OwnerSeated
  <2>2. IsOwner(lobby.owner) BY <2>1 DEF IsOwner, You
  <2>3. EveryoneReady(HumanSeats) /\ EveryoneReady(Occupied(lobby))
    BY HumansReadyIsAllReady DEF EveryoneReady, AllReady
  <2>4. CASE Free(lobby) = {}
    <3>1. /\ Button("start") \in LobbyModel(lobby.owner)
          /\ Button("start") \in PrivateLobby(lobby.owner)
      BY <2>2, <2>3, <2>4 DEF LobbyModel, PrivateLobby, StartOffered, Offered
    <3> QED BY <2>1, <3>1 DEF Starts
  <2>5. CASE Free(lobby) # {}
    <3>1. /\ Button("startWithBots") \in LobbyModel(lobby.owner)
          /\ Button("startWithBots") \in PrivateLobby(lobby.owner)
      BY <2>2, <2>3, <2>5 DEF LobbyModel, PrivateLobby, Offered
    <3> QED BY <2>1, <3>1 DEF Starts
  <2> QED BY <2>4, <2>5
<1> QED BY <1>1, OffersInvariance, PTL

=============================================================================
