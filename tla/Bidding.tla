------------------------------- MODULE Bidding -------------------------------
(***************************************************************************)
(* The auction before a round (beelot-game, bidding.rs): accept or pass on *)
(* an upturned card in classic Belote, bids and the coinche in Contree.    *)
(* One action for each method of `BiddingState` that changes it; a call    *)
(* is made by the active seat only, and none once the auction is complete. *)
(*                                                                         *)
(* Cards are left out, except for the suit of the upturned card; so is the *)
(* count of the deals, which nothing here reads.                           *)
(***************************************************************************)
EXTENDS Hand, Integers, Sequences, FiniteSets

CONSTANTS Suits,     \* the four suits
          AllTrumps, \* whether bids may name all trumps or no trumps
          Offered    \* the values players try to bid, valid or not

ASSUME BiddingAssumption ==
  /\ AllTrumps \in BOOLEAN
  /\ Offered \subseteq Int
  /\ {"none", "allTrumps", "noTrumps"} \cap Suits = {}

VARIABLES
  variant,   \* "classic" or "contree", for the whole match
  dealer, active, round,
  passes,    \* consecutive_passes
  highest,   \* highest_bid, its bidder and its trump; NoBid before the first bid
  upturned,  \* the suit of the upturned card, in classic Belote
  calls,     \* auction: the calls of this deal, in order
  board      \* the contract of completed_board; Undecided until then

vars == <<variant, dealer, active, round, passes, highest, upturned, calls, board>>

NoTrump == "none"
Trumps == Suits \cup {"allTrumps", "noTrumps"}

NoBid == [value |-> 0, seat |-> 0, trump |-> NoTrump]
Bid == [value : 80..160, seat : Position, trump : Trumps]

Undecided == [declarer |-> 0, trump |-> NoTrump, value |-> 0, coinched |-> FALSE]
Contract == [declarer : Position, trump : Trumps, value : 0..160, coinched : BOOLEAN]

SeatCall == [seat : Position, type : {"pass", "bid", "trump", "coinche"},
             value : 0..160, trump : Trumps \cup {NoTrump}]

Decided == board # Undecided

-----------------------------------------------------------------------------
(* The calls *)

RecordCall(type, value, trump) ==
  calls' = Append(calls, [seat |-> active, type |-> type, value |-> value, trump |-> trump])

FirstBidderIsDealer(d) == d
FirstBidder(d) == Following(d)

\* Only classic Belote turns a card up.
Upturned == IF variant = "classic" THEN Suits ELSE {NoTrump}

\* deal: a new auction, opened by the first bidder.
NewDeal(d) ==
  /\ dealer' = d
  /\ active' = FirstBidder(d)
  /\ round' = 1
  /\ passes' = 0
  /\ highest' = NoBid
  /\ upturned' \in Upturned
  /\ calls' = <<>>
  /\ board' = Undecided
  /\ UNCHANGED variant

RedealPreviousDealer == NewDeal((dealer + 3) % 4)
Redeal == NewDeal(Following(dealer))

\* Four passes open the second round; four more deal the cards again.
PassClassic ==
  /\ variant = "classic" /\ ~Decided
  /\ IF passes < 3
     THEN /\ RecordCall("pass", 0, NoTrump)
          /\ passes' = passes + 1
          /\ active' = Following(active)
          /\ UNCHANGED <<dealer, round, highest, upturned, board, variant>>
     ELSE \/ /\ round = 1
             /\ RecordCall("pass", 0, NoTrump)
             /\ round' = 2
             /\ passes' = 0
             /\ active' = FirstBidder(dealer)
             /\ UNCHANGED <<dealer, highest, upturned, board, variant>>
          \/ round = 2 /\ Redeal

\* The upturned suit in the first round, another one in the second.
MayChoose(suit) == IF round = 1 THEN suit = upturned ELSE suit # upturned

ChooseTrump(suit) ==
  /\ variant = "classic" /\ ~Decided
  /\ MayChoose(suit)
  /\ RecordCall("trump", 0, suit)
  /\ board' = [declarer |-> active, trump |-> suit, value |-> 82, coinched |-> FALSE]
  /\ UNCHANGED <<dealer, active, round, passes, highest, upturned, variant>>

\* complete_contree_auction: the board of the highest bid.
CompleteContree(coinched) ==
  board' = [declarer |-> highest.seat, trump |-> highest.trump,
            value |-> highest.value, coinched |-> coinched]

CompletingPassesEarly == IF highest = NoBid THEN 4 ELSE 2

\* The passes that end an auction: three after a bid, four without one.
CompletingPasses == IF highest = NoBid THEN 4 ELSE 3

PassContree ==
  /\ variant = "contree" /\ ~Decided
  /\ \/ /\ passes + 1 # CompletingPasses
        /\ RecordCall("pass", 0, NoTrump)
        /\ passes' = passes + 1
        /\ active' = Following(active)
        /\ UNCHANGED <<dealer, round, highest, upturned, board, variant>>
     \/ /\ passes + 1 = CompletingPasses /\ highest # NoBid
        /\ RecordCall("pass", 0, NoTrump)
        /\ passes' = passes + 1
        /\ CompleteContree(FALSE)
        /\ UNCHANGED <<dealer, active, round, highest, upturned, variant>>
     \/ passes + 1 = CompletingPasses /\ highest = NoBid /\ Redeal

ValidBid(value) == value \in 80..160 /\ value % 10 = 0

OverbidsOther(value) == value # highest.value
Overbids(value) == value > highest.value

MakeBid(value, trump) ==
  /\ variant = "contree" /\ ~Decided
  /\ AllTrumps \/ trump \in Suits
  /\ ValidBid(value)
  /\ Overbids(value)
  /\ highest' = [value |-> value, seat |-> active, trump |-> trump]
  /\ RecordCall("bid", value, trump)
  /\ passes' = 0
  /\ active' = Following(active)
  /\ UNCHANGED <<dealer, round, upturned, board, variant>>

\* can_coinche: the highest bid is the other team's.
CanCoinche == highest # NoBid /\ ~Partners(highest.seat, active)

Coinche ==
  /\ variant = "contree" /\ ~Decided
  /\ CanCoinche
  /\ RecordCall("coinche", 0, NoTrump)
  /\ CompleteContree(TRUE)
  /\ UNCHANGED <<dealer, active, round, passes, highest, upturned, variant>>

-----------------------------------------------------------------------------
(* The specification *)

Init ==
  /\ variant \in {"classic", "contree"}
  /\ dealer \in Position
  /\ active = FirstBidder(dealer)
  /\ round = 1
  /\ passes = 0
  /\ highest = NoBid
  /\ upturned \in Upturned
  /\ calls = <<>>
  /\ board = Undecided

Next ==
  \/ PassClassic
  \/ PassContree
  \/ \E suit \in Suits : ChooseTrump(suit)
  \/ \E value \in Offered, trump \in Trumps : MakeBid(value, trump)
  \/ Coinche

Spec == Init /\ [][Next]_vars

-----------------------------------------------------------------------------
(* What the auction promises *)

TypeOK ==
  /\ variant \in {"classic", "contree"}
  /\ dealer \in Position /\ active \in Position
  /\ round \in {1, 2}
  /\ passes \in 0..3
  /\ highest \in Bid \cup {NoBid}
  /\ upturned \in Upturned
  /\ calls \in Seq(SeatCall)
  /\ board \in Contract \cup {Undecided}

LastCall == calls[Len(calls)]
IsBid(call) == call.type = "bid"

\* Players call in turn: the n-th call of a deal is the n-th seat's after the dealer, in
\* both rounds of classic Belote, and nobody is skipped or asked twice.
CallsInTurn ==
  /\ \A i \in DOMAIN calls : calls[i].seat = (dealer + i) % 4
  /\ ~Decided => active = (dealer + Len(calls) + 1) % 4

\* A contract is sold when everyone could answer it: in Contree, to a bid that the three
\* other seats passed on one after the other, or that an opponent coinched.
SoldOnlyAfterAnswers ==
  variant = "contree" /\ Decided =>
    \E i \in DOMAIN calls :
      /\ IsBid(calls[i])
      /\ calls[i].seat = board.declarer /\ calls[i].value = board.value
      /\ calls[i].trump = board.trump
      /\ IF board.coinched
         THEN /\ LastCall.type = "coinche"
              /\ ~Partners(LastCall.seat, board.declarer)
              /\ \A j \in (i + 1)..(Len(calls) - 1) : calls[j].type = "pass"
         ELSE /\ Len(calls) = i + 3
              /\ \A j \in (i + 1)..(i + 3) : calls[j].type = "pass"

\* The contract is the highest bid of its auction: no earlier bid is as high.
SoldToHighest ==
  Decided => \A i \in DOMAIN calls :
    IsBid(calls[i]) => \/ calls[i].value < board.value
                       \/ calls[i].seat = board.declarer /\ calls[i].trump = board.trump

\* board.rs:153-157 asserts of a Contree board that its contract is a multiple of ten
\* from 80 to 160; a trump that the table does not play is never the contract's.
BoardAssertionHolds ==
  variant = "contree" /\ Decided =>
    /\ board.value \in 80..160 /\ board.value % 10 = 0
    /\ board.trump \in Suits \/ AllTrumps

\* Classic Belote is played in the upturned suit if it is taken in the first round, and
\* in another one if it is taken in the second.
TakenSuitFollowsRound ==
  variant = "classic" /\ Decided =>
    (board.trump = upturned <=> Len(calls) <= 4)

\* An auction cannot go on for ever: after at most three passes, every value is bid
\* once at most, every bid is passed on twice before the next and three times the last.
AuctionIsBounded ==
  LET values == {value \in Offered : ValidBid(value)}
  IN  Len(calls) <= IF variant = "classic" THEN 8 ELSE 3 + 3 * Cardinality(values) + 1

\* How an auction ends: sold to the highest, in the suit of its round, and before long.
AuctionEndsWell == SoldToHighest /\ TakenSuitFollowsRound /\ AuctionIsBounded

\* The hand, as the table sees it: in its auction until a contract is decided.
handView == IF Decided THEN Board(dealer) ELSE Auction(dealer, active)

Promise == INSTANCE HandPromise WITH hand <- handView
ImplementsHand == Promise!HandSpec

=============================================================================
