---------------------------- MODULE BiddingProofs ----------------------------
(***************************************************************************)
(* Proofs about how a match begins and how it ends.                        *)
(*                                                                         *)
(* The auction, for both variants, any values offered and any suits: its   *)
(* type, whose turn it is, that a contract is sold only after everyone     *)
(* could answer it, what the board asserts of it, how an auction ends, and *)
(* that it implements the hand the table keeps.                            *)
(*                                                                         *)
(* The end of a match in a tab, for any tables, any ledger and any pause   *)
(* between the offers: what may still open a screen only shrinks, the      *)
(* matches of a table are counted in their order, and so the ledger knows  *)
(* what it counted by what can still come of it; a screen that was put     *)
(* away is held back until nothing can bring its match any more.           *)
(***************************************************************************)
EXTENDS Bidding, MatchEnd, FiniteSetTheorems, SequenceTheorems, WellFoundedInduction, TLAPS

-----------------------------------------------------------------------------
(* The inductive invariant *)

\* The passes counted are those since the last bid; in classic Belote since the round
\* began, with four calls to the first.
PassesInv ==
  /\ variant = "classic" /\ ~Decided =>
       highest = NoBid /\ Len(calls) = 4 * (round - 1) + passes
  /\ variant = "contree" /\ ~Decided =>
       /\ highest # NoBid => passes <= 2
       /\ highest = NoBid => Len(calls) = passes

\* The highest bid stands where the passes since it begin, and only passes follow it.
HighestInv ==
  variant = "contree" /\ ~Decided /\ highest # NoBid =>
    /\ passes < Len(calls)
    /\ LET i == Len(calls) - passes IN
       /\ IsBid(calls[i])
       /\ calls[i].seat = highest.seat /\ calls[i].value = highest.value
       /\ calls[i].trump = highest.trump
       /\ \A j \in (i + 1)..Len(calls) : calls[j].type = "pass"

ValidInv ==
  highest # NoBid => /\ highest.value % 10 = 0
                     /\ highest.trump \in Suits \/ AllTrumps

BiddingInv ==
  /\ TypeOK
  /\ CallsInTurn
  /\ PassesInv
  /\ HighestInv
  /\ ValidInv
  /\ SoldOnlyAfterAnswers
  /\ BoardAssertionHolds

-----------------------------------------------------------------------------
(* Steps that several calls share *)

LEMMA NewDealInv ==
  ASSUME BiddingInv, NEW d \in Position, NewDeal(d)
  PROVE  BiddingInv'
<1> USE DEF NewDeal, FirstBidder, Following, Position
<1>1. TypeOK'
  BY DEF BiddingInv, TypeOK, Bid, NoBid, Upturned
<1>2. calls' = <<>> /\ ~Decided' /\ highest' = NoBid
  BY DEF Decided
<1>3. CallsInTurn' BY <1>2 DEF CallsInTurn
<1>4. PassesInv' BY <1>2 DEF PassesInv
<1>5. HighestInv' /\ ValidInv' /\ SoldOnlyAfterAnswers' /\ BoardAssertionHolds'
  BY <1>2 DEF HighestInv, ValidInv, SoldOnlyAfterAnswers, BoardAssertionHolds
<1> QED BY <1>1, <1>3, <1>4, <1>5 DEF BiddingInv

\* A call appended to those of the deal leaves the others where they are.
LEMMA RecordCallAppends ==
  ASSUME BiddingInv, ~Decided, NEW type \in {"pass", "bid", "trump", "coinche"},
         NEW value \in 0..160, NEW trump \in Trumps \cup {NoTrump},
         RecordCall(type, value, trump)
  PROVE  /\ calls' \in Seq(SeatCall)
         /\ Len(calls') = Len(calls) + 1
         /\ \A i \in 1..Len(calls) : calls'[i] = calls[i]
         /\ calls'[Len(calls) + 1] =
              [seat |-> active, type |-> type, value |-> value, trump |-> trump]
         /\ \A i \in DOMAIN calls' : calls'[i].seat = (dealer + i) % 4
         /\ Len(calls) \in Nat
<1> DEFINE c == [seat |-> active, type |-> type, value |-> value, trump |-> trump]
<1>1. calls \in Seq(SeatCall) /\ c \in SeatCall
  BY DEF BiddingInv, TypeOK, SeatCall
<1>2. calls' = Append(calls, c) BY DEF RecordCall
<1>3. /\ calls' \in Seq(SeatCall)
      /\ Len(calls') = Len(calls) + 1 /\ Len(calls) \in Nat
      /\ DOMAIN calls' = 1..(Len(calls) + 1) /\ DOMAIN calls = 1..Len(calls)
      /\ \A i \in 1..Len(calls) : calls'[i] = calls[i]
      /\ calls'[Len(calls) + 1] = c
  <2> HIDE DEF c
  <2> QED BY <1>1, <1>2
<1>4. \A i \in DOMAIN calls' : calls'[i].seat = (dealer + i) % 4
  <2> SUFFICES ASSUME NEW i \in DOMAIN calls' PROVE calls'[i].seat = (dealer + i) % 4
    OBVIOUS
  <2>1. CASE i \in 1..Len(calls)
    BY <1>3, <2>1 DEF BiddingInv, CallsInTurn
  <2>2. CASE i = Len(calls) + 1
    <3>1. active = (dealer + Len(calls) + 1) % 4 BY DEF BiddingInv, CallsInTurn
    <3>2. calls'[i].seat = active BY <1>3, <2>2
    <3>3. dealer \in Nat BY DEF BiddingInv, TypeOK, Position
    <3> QED BY <1>3, <2>2, <3>1, <3>2, <3>3
  <2> QED BY <1>3, <2>1, <2>2
<1> QED BY <1>3, <1>4

\* The turn goes to the next seat when the call is the n-th.
LEMMA NextTurn ==
  ASSUME NEW d \in Position, NEW n \in Nat
  PROVE  Following((d + n + 1) % 4) = (d + (n + 1) + 1) % 4
BY DEF Position, Following

-----------------------------------------------------------------------------
(* One lemma for each call *)

LEMMA PassClassicInv ==
  ASSUME BiddingInv, PassClassic
  PROVE  BiddingInv'
<1> USE DEF PassClassic
<1>1. /\ dealer \in Position /\ active \in Position /\ round \in {1, 2}
      /\ passes \in 0..3 /\ highest = NoBid /\ Len(calls) = 4 * (round - 1) + passes
      /\ active = (dealer + Len(calls) + 1) % 4
  BY DEF BiddingInv, TypeOK, PassesInv, CallsInTurn
<1>2. CASE Redeal
  <2>1. Following(dealer) \in Position BY <1>1 DEF Following, Position
  <2> QED BY <1>2, <2>1, NewDealInv DEF Redeal
<1>3. CASE RecordCall("pass", 0, NoTrump) /\ UNCHANGED <<dealer, highest, upturned, board, variant>>
  <2>1. /\ calls' \in Seq(SeatCall) /\ Len(calls') = Len(calls) + 1
        /\ \A i \in DOMAIN calls' : calls'[i].seat = (dealer + i) % 4
        /\ Len(calls) \in Nat
    <3>1. 0 \in 0..160 /\ NoTrump \in Trumps \cup {NoTrump} OBVIOUS
    <3> QED BY <1>3, <3>1, RecordCallAppends
  <2>2. /\ round' \in {1, 2} /\ passes' \in 0..3 /\ active' \in Position
        /\ Len(calls') = 4 * (round' - 1) + passes'
        /\ active' = (dealer + Len(calls') + 1) % 4
    <3>1. CASE passes < 3
      <4>1. passes' = passes + 1 /\ active' = Following(active) /\ round' = round
        BY <1>3, <3>1
      <4>2. active' = (dealer + (Len(calls) + 1) + 1) % 4
        BY <1>1, <2>1, <4>1, NextTurn
      <4> QED BY <1>1, <2>1, <3>1, <4>1, <4>2 DEF Position
    <3>2. CASE ~(passes < 3) /\ round = 1 /\ round' = 2 /\ passes' = 0
                 /\ active' = FirstBidder(dealer)
      BY <1>1, <2>1, <3>2 DEF FirstBidder, Following, Position
    <3>3. CASE ~(passes < 3) /\ Redeal
      BY <3>3, <2>1 DEF Redeal, NewDeal
    <3> QED BY <3>1, <3>2, <3>3
  <2>3. TypeOK' BY <1>3, <2>1, <2>2 DEF BiddingInv, TypeOK, Upturned
  <2>4. ~Decided' BY <1>3 DEF Decided
  <2>5. CallsInTurn' BY <1>3, <2>1, <2>2, <2>4 DEF CallsInTurn
  <2>6. PassesInv' BY <1>1, <1>3, <2>2 DEF PassesInv
  <2> QED
    BY <1>1, <1>3, <2>3, <2>5, <2>6, <2>4
    DEF BiddingInv, HighestInv, ValidInv, SoldOnlyAfterAnswers, BoardAssertionHolds
<1> QED BY <1>2, <1>3

LEMMA ChooseTrumpInv ==
  ASSUME BiddingInv, NEW suit \in Suits, ChooseTrump(suit)
  PROVE  BiddingInv'
<1> USE DEF ChooseTrump
<1>1. /\ calls' \in Seq(SeatCall) /\ Len(calls') = Len(calls) + 1
      /\ \A i \in DOMAIN calls' : calls'[i].seat = (dealer + i) % 4
  <2>1. 0 \in 0..160 /\ suit \in Trumps \cup {NoTrump} BY DEF Trumps
  <2> QED BY <2>1, RecordCallAppends
<1>2. board'.trump = suit /\ board' \in Contract
  BY DEF BiddingInv, TypeOK, Contract, Trumps
<1>3. Decided' BY <1>2, BiddingAssumption DEF Decided, Undecided, NoTrump
<1>4. TypeOK' BY <1>1, <1>2 DEF BiddingInv, TypeOK, Upturned
<1>5. CallsInTurn' BY <1>1, <1>3 DEF CallsInTurn
<1>6. PassesInv' BY <1>3 DEF PassesInv
<1> QED
  BY <1>3, <1>4, <1>5, <1>6
  DEF BiddingInv, HighestInv, ValidInv, SoldOnlyAfterAnswers, BoardAssertionHolds

LEMMA PassContreeInv ==
  ASSUME BiddingInv, PassContree
  PROVE  BiddingInv'
<1> USE DEF PassContree
<1>1. /\ dealer \in Position /\ active \in Position /\ passes \in 0..3
      /\ active = (dealer + Len(calls) + 1) % 4
      /\ highest # NoBid => passes <= 2
      /\ highest = NoBid => Len(calls) = passes
  BY DEF BiddingInv, TypeOK, PassesInv, CallsInTurn
<1>2. CASE Redeal
  <2>1. Following(dealer) \in Position BY <1>1 DEF Following, Position
  <2> QED BY <1>2, <2>1, NewDealInv DEF Redeal
<1>3. CASE ~Redeal
  <2>1. /\ calls' \in Seq(SeatCall) /\ Len(calls') = Len(calls) + 1
        /\ \A i \in 1..Len(calls) : calls'[i] = calls[i]
        /\ calls'[Len(calls) + 1] =
             [seat |-> active, type |-> "pass", value |-> 0, trump |-> NoTrump]
        /\ \A i \in DOMAIN calls' : calls'[i].seat = (dealer + i) % 4
        /\ Len(calls) \in Nat
    <3>1. 0 \in 0..160 /\ NoTrump \in Trumps \cup {NoTrump} OBVIOUS
    <3>2. RecordCall("pass", 0, NoTrump) BY <1>3
    <3> QED BY <3>1, <3>2, RecordCallAppends
  <2>2. passes' = passes + 1 /\ passes' \in 0..3
    <3>1. passes' = passes + 1 BY <1>3
    <3>2. CASE highest = NoBid BY <1>1, <1>3, <3>1, <3>2 DEF CompletingPasses
    <3>3. CASE highest # NoBid BY <1>1, <3>1, <3>3
    <3> QED BY <3>1, <3>2, <3>3
  \* The passes since the highest bid, with this one.
  <2>3. highest # NoBid =>
          /\ passes < Len(calls)
          /\ LET i == Len(calls) - passes IN
             /\ IsBid(calls'[i])
             /\ calls'[i].seat = highest.seat /\ calls'[i].value = highest.value
             /\ calls'[i].trump = highest.trump
             /\ \A j \in (i + 1)..Len(calls') : calls'[j].type = "pass"
    <3> SUFFICES ASSUME highest # NoBid
                 PROVE  /\ passes < Len(calls)
                        /\ LET i == Len(calls) - passes IN
                           /\ IsBid(calls'[i])
                           /\ calls'[i].seat = highest.seat
                           /\ calls'[i].value = highest.value
                           /\ calls'[i].trump = highest.trump
                           /\ \A j \in (i + 1)..Len(calls') : calls'[j].type = "pass"
      OBVIOUS
    <3> DEFINE i == Len(calls) - passes
    <3>1. /\ passes < Len(calls)
          /\ IsBid(calls[i])
          /\ calls[i].seat = highest.seat /\ calls[i].value = highest.value
          /\ calls[i].trump = highest.trump
          /\ \A j \in (i + 1)..Len(calls) : calls[j].type = "pass"
      BY DEF BiddingInv, HighestInv
    <3>2. i \in 1..Len(calls) BY <1>1, <2>1, <3>1
    <3>3. calls'[i] = calls[i] BY <2>1, <3>2
    <3>4. \A j \in (i + 1)..Len(calls') : calls'[j].type = "pass"
      <4> SUFFICES ASSUME NEW j \in (i + 1)..Len(calls') PROVE calls'[j].type = "pass"
        OBVIOUS
      <4>1. j \in 1..Len(calls) \/ j = Len(calls) + 1 BY <2>1, <3>2
      <4>2. CASE j \in 1..Len(calls) BY <2>1, <3>1, <3>2, <4>2
      <4>3. CASE j = Len(calls) + 1 BY <2>1, <4>3
      <4> QED BY <4>1, <4>2, <4>3
    <3> QED BY <3>1, <3>3, <3>4 DEF IsBid
  <2>4. CASE passes + 1 # CompletingPasses
    <3>1. /\ active' = Following(active)
          /\ UNCHANGED <<dealer, round, highest, upturned, board, variant>>
      BY <2>4
    <3>2. active' = (dealer + Len(calls') + 1) % 4 /\ active' \in Position
      <4>1. active' = (dealer + (Len(calls) + 1) + 1) % 4 BY <1>1, <2>1, <3>1, NextTurn
      <4>2. active' \in Position BY <1>1, <3>1 DEF Following, Position
      <4> QED BY <2>1, <4>1, <4>2
    <3>3. TypeOK' BY <2>1, <2>2, <3>1, <3>2 DEF BiddingInv, TypeOK, Upturned
    <3>4. ~Decided' BY <3>1 DEF Decided
    <3>5. CallsInTurn' BY <2>1, <3>1, <3>2 DEF CallsInTurn
    <3>6. PassesInv'
      BY <1>1, <2>1, <2>2, <2>4, <3>1, BiddingAssumption DEF PassesInv, CompletingPasses
    <3>7. HighestInv'
      <4>1. Len(calls') - passes' = Len(calls) - passes BY <1>1, <2>1, <2>2
      <4>2. highest # NoBid => passes' < Len(calls')
        BY <1>1, <2>1, <2>2, <2>3
      <4> QED BY <2>3, <3>1, <4>1, <4>2 DEF HighestInv, IsBid
    <3> QED
      BY <3>1, <3>3, <3>4, <3>5, <3>6, <3>7
      DEF BiddingInv, ValidInv, SoldOnlyAfterAnswers, BoardAssertionHolds
  <2>5. CASE passes + 1 = CompletingPasses /\ highest # NoBid
    <3>1. /\ board' = [declarer |-> highest.seat, trump |-> highest.trump,
                       value |-> highest.value, coinched |-> FALSE]
          /\ UNCHANGED <<dealer, active, round, highest, upturned, variant>>
      BY <1>3, <2>5 DEF CompleteContree
    <3>2. passes = 2 BY <1>1, <2>5 DEF CompletingPasses
    <3>3. highest \in Bid BY <2>5 DEF BiddingInv, TypeOK
    <3>4. board' \in Contract /\ board'.value \in 80..160 /\ board' # Undecided
      BY <3>1, <3>3 DEF Bid, Contract, Undecided
    <3>5. Decided' BY <3>4 DEF Decided
    <3>6. TypeOK' BY <2>1, <2>2, <3>1, <3>4 DEF BiddingInv, TypeOK, Upturned
    <3>7. CallsInTurn' BY <2>1, <3>1, <3>5 DEF CallsInTurn
    <3>8. SoldOnlyAfterAnswers'
      <4> DEFINE i == Len(calls) - passes
      <4>1. i \in DOMAIN calls' /\ Len(calls') = i + 3
        BY <2>1, <2>3, <2>5, <3>2
      <4>2. /\ IsBid(calls'[i])
            /\ calls'[i].seat = board'.declarer /\ calls'[i].value = board'.value
            /\ calls'[i].trump = board'.trump
            /\ \A j \in (i + 1)..(i + 3) : calls'[j].type = "pass"
        BY <2>3, <2>5, <3>1, <4>1
      <4>3. ~board'.coinched BY <3>1
      <4> HIDE DEF i
      <4> QED BY <4>1, <4>2, <4>3 DEF SoldOnlyAfterAnswers, IsBid
    <3>9. BoardAssertionHolds'
      BY <2>5, <3>1, <3>4 DEF BiddingInv, ValidInv, BoardAssertionHolds
    <3>10. PassesInv'
      BY <3>5, BiddingAssumption DEF PassesInv
    <3> QED
      BY <3>1, <3>5, <3>6, <3>7, <3>8, <3>9, <3>10 DEF BiddingInv, HighestInv, ValidInv
  <2> QED BY <1>3, <2>4, <2>5
<1> QED BY <1>2, <1>3

LEMMA MakeBidInv ==
  ASSUME BiddingInv, NEW value \in Offered, NEW trump \in Trumps, MakeBid(value, trump)
  PROVE  BiddingInv'
<1> USE DEF MakeBid
<1>1. value \in 80..160 /\ value \in 0..160 /\ value % 10 = 0
  BY BiddingAssumption DEF ValidBid
<1>2. /\ dealer \in Position /\ active \in Position
      /\ active = (dealer + Len(calls) + 1) % 4
  BY DEF BiddingInv, TypeOK, CallsInTurn
<1>3. /\ calls' \in Seq(SeatCall) /\ Len(calls') = Len(calls) + 1
      /\ calls'[Len(calls) + 1] =
           [seat |-> active, type |-> "bid", value |-> value, trump |-> trump]
      /\ \A i \in DOMAIN calls' : calls'[i].seat = (dealer + i) % 4
      /\ Len(calls) \in Nat
  BY <1>1, RecordCallAppends
<1>4. highest' \in Bid /\ highest'.value = value /\ highest' # NoBid
  <2>1. highest' = [value |-> value, seat |-> active, trump |-> trump] OBVIOUS
  <2>2. highest' \in Bid /\ highest'.value = value BY <1>1, <1>2, <2>1 DEF Bid
  <2>3. NoBid.value = 0 /\ value # 0 BY <1>1 DEF NoBid
  <2> QED BY <2>2, <2>3
<1>5. active' = (dealer + Len(calls') + 1) % 4 /\ active' \in Position
  <2>1. active' = (dealer + (Len(calls) + 1) + 1) % 4 BY <1>2, <1>3, NextTurn
  <2>2. active' \in Position BY <1>2 DEF Following, Position
  <2> QED BY <1>3, <2>1, <2>2
<1>6. TypeOK' BY <1>3, <1>4, <1>5 DEF BiddingInv, TypeOK, Upturned
<1>7. ~Decided' BY DEF Decided
<1>8. CallsInTurn' BY <1>3, <1>5 DEF CallsInTurn
<1>9. PassesInv' BY <1>4, BiddingAssumption DEF PassesInv
<1>10. HighestInv'
  <2>1. Len(calls') - passes' = Len(calls) + 1 /\ passes' < Len(calls') BY <1>3
  <2>2. \A j \in (Len(calls) + 1 + 1)..Len(calls') : FALSE BY <1>3
  <2> QED BY <1>3, <2>1, <2>2 DEF HighestInv, IsBid
<1>11. ValidInv' BY <1>1, <1>4 DEF ValidInv
<1> QED
  BY <1>6, <1>7, <1>8, <1>9, <1>10, <1>11
  DEF BiddingInv, SoldOnlyAfterAnswers, BoardAssertionHolds

LEMMA CoincheInv ==
  ASSUME BiddingInv, Coinche
  PROVE  BiddingInv'
<1> USE DEF Coinche, CanCoinche
<1>1. /\ calls' \in Seq(SeatCall) /\ Len(calls') = Len(calls) + 1
      /\ \A i \in 1..Len(calls) : calls'[i] = calls[i]
      /\ calls'[Len(calls) + 1] =
           [seat |-> active, type |-> "coinche", value |-> 0, trump |-> NoTrump]
      /\ \A i \in DOMAIN calls' : calls'[i].seat = (dealer + i) % 4
      /\ Len(calls) \in Nat
  <2>1. 0 \in 0..160 /\ NoTrump \in Trumps \cup {NoTrump} OBVIOUS
  <2> QED BY <2>1, RecordCallAppends
<1>2. highest \in Bid /\ passes \in 0..3 BY DEF BiddingInv, TypeOK
<1>3. /\ board' = [declarer |-> highest.seat, trump |-> highest.trump,
                   value |-> highest.value, coinched |-> TRUE]
      /\ UNCHANGED <<dealer, active, round, passes, highest, upturned, variant>>
  BY DEF CompleteContree
<1>4. board' \in Contract /\ board'.value \in 80..160 /\ board' # Undecided
  BY <1>2, <1>3 DEF Bid, Contract, Undecided
<1>5. Decided' BY <1>4 DEF Decided
<1>6. TypeOK' BY <1>1, <1>3, <1>4 DEF BiddingInv, TypeOK, Upturned
<1>7. CallsInTurn' BY <1>1, <1>3, <1>5 DEF CallsInTurn
<1>8. SoldOnlyAfterAnswers'
  <2> DEFINE i == Len(calls) - passes
  <2>1. /\ passes < Len(calls)
        /\ IsBid(calls[i])
        /\ calls[i].seat = highest.seat /\ calls[i].value = highest.value
        /\ calls[i].trump = highest.trump
        /\ \A j \in (i + 1)..Len(calls) : calls[j].type = "pass"
    BY DEF BiddingInv, HighestInv
  <2>2. i \in 1..Len(calls) BY <1>1, <1>2, <2>1
  <2>3. i \in DOMAIN calls' /\ calls'[i] = calls[i] BY <1>1, <2>2
  <2>4. \A j \in (i + 1)..(Len(calls') - 1) : calls'[j].type = "pass"
    BY <1>1, <2>1, <2>2
  <2>5. LastCall' = [seat |-> active, type |-> "coinche", value |-> 0, trump |-> NoTrump]
    BY <1>1 DEF LastCall
  <2>6. LastCall'.type = "coinche" /\ ~Partners(LastCall'.seat, board'.declarer)
    BY <1>3, <2>5 DEF Partners
  <2>7. /\ IsBid(calls'[i])
        /\ calls'[i].seat = board'.declarer /\ calls'[i].value = board'.value
        /\ calls'[i].trump = board'.trump
    BY <1>3, <2>1, <2>3 DEF IsBid
  <2>8. board'.coinched BY <1>3
  <2> HIDE DEF i
  <2> QED BY <2>3, <2>4, <2>6, <2>7, <2>8 DEF SoldOnlyAfterAnswers, IsBid
<1>9. BoardAssertionHolds' BY <1>3, <1>4 DEF BiddingInv, ValidInv, BoardAssertionHolds
<1>10. PassesInv' BY <1>5, BiddingAssumption DEF PassesInv
<1> QED
  BY <1>3, <1>5, <1>6, <1>7, <1>8, <1>9, <1>10 DEF BiddingInv, HighestInv, ValidInv

-----------------------------------------------------------------------------
(* The theorems *)

LEMMA BiddingInitInv == Init => BiddingInv
<1> SUFFICES ASSUME Init PROVE BiddingInv OBVIOUS
<1> USE DEF Init
<1>1. TypeOK BY DEF TypeOK, FirstBidder, Following, Position
<1>2. ~Decided BY DEF Decided
<1>3. CallsInTurn BY DEF CallsInTurn, FirstBidder, Following, Position
<1>4. PassesInv BY DEF PassesInv
<1>5. HighestInv /\ ValidInv /\ SoldOnlyAfterAnswers /\ BoardAssertionHolds
  BY <1>2 DEF HighestInv, ValidInv, SoldOnlyAfterAnswers, BoardAssertionHolds
<1> QED BY <1>1, <1>3, <1>4, <1>5 DEF BiddingInv

LEMMA BiddingNextInv == BiddingInv /\ [Next]_vars => BiddingInv'
<1> SUFFICES ASSUME BiddingInv, [Next]_vars PROVE BiddingInv' OBVIOUS
<1>1. CASE UNCHANGED vars
  BY <1>1 DEF vars, BiddingInv, TypeOK, Upturned, CallsInTurn, PassesInv, HighestInv, ValidInv,
              SoldOnlyAfterAnswers, BoardAssertionHolds, Decided, IsBid, LastCall
<1>2. CASE Next
  BY <1>2, PassClassicInv, PassContreeInv, ChooseTrumpInv, MakeBidInv, CoincheInv DEF Next
<1> QED BY <1>1, <1>2

THEOREM BiddingInvariance == Spec => []BiddingInv
BY BiddingInitInv, BiddingNextInv, PTL DEF Spec

\* Every part of the auction keeps its type; in particular nobody passes a fourth time
\* without the cards being dealt again.
THEOREM BiddingTyping == Spec => []TypeOK
<1>1. BiddingInv => TypeOK BY DEF BiddingInv
<1> QED BY <1>1, BiddingInvariance, PTL

\* Players call in turn.
THEOREM BiddingCallsInTurn == Spec => []CallsInTurn
<1>1. BiddingInv => CallsInTurn BY DEF BiddingInv
<1> QED BY <1>1, BiddingInvariance, PTL

\* A contract is sold only after everyone could answer it.
THEOREM BiddingSoldAfterAnswers == Spec => []SoldOnlyAfterAnswers
<1>1. BiddingInv => SoldOnlyAfterAnswers BY DEF BiddingInv
<1> QED BY <1>1, BiddingInvariance, PTL

\* What the board asserts of the contract holds.
THEOREM BiddingBoardAssertion == Spec => []BoardAssertionHolds
<1>1. BiddingInv => BoardAssertionHolds BY DEF BiddingInv
<1> QED BY <1>1, BiddingInvariance, PTL

-----------------------------------------------------------------------------
(* How an auction ends *)

Values == {value \in Offered : ValidBid(value)}
ValuesUpTo(v) == {value \in Offered : ValidBid(value) /\ value <= v}

\* Bids rise, up to the highest, and only Contree has them.
BidsRise ==
  \A i \in DOMAIN calls :
    IsBid(calls[i]) =>
      /\ variant = "contree"
      /\ calls[i].value <= highest.value
      /\ calls[i].value = highest.value =>
           calls[i].seat = highest.seat /\ calls[i].trump = highest.trump

\* The contract of a Contree board is the highest bid.
SoldInv ==
  variant = "contree" /\ Decided =>
    /\ board.declarer = highest.seat /\ board.trump = highest.trump
    /\ board.value = highest.value

\* Every value is bid once at most and passed on twice before the next.
CountedInv ==
  variant = "contree" /\ ~Decided /\ highest # NoBid =>
    Len(calls) <= 3 * Cardinality(ValuesUpTo(highest.value)) + 1 + passes

EndInv == BidsRise /\ SoldInv /\ CountedInv /\ TakenSuitFollowsRound /\ AuctionIsBounded

\* The value of the highest bid, and of each call, is a number.
LEMMA ValuesAreNumbers ==
  ASSUME BiddingInv
  PROVE  /\ highest.value \in Nat
         /\ \A i \in DOMAIN calls : calls[i].value \in Nat
<1>1. highest \in Bid \/ highest = NoBid BY DEF BiddingInv, TypeOK
<1>2. ASSUME highest \in Bid PROVE highest.value \in Nat BY <1>2 DEF Bid
<1>3. ASSUME highest = NoBid PROVE highest.value \in Nat BY <1>3 DEF NoBid
<1>4. ASSUME NEW i \in DOMAIN calls PROVE calls[i].value \in Nat
  <2>1. calls[i] \in SeatCall BY DEF BiddingInv, TypeOK
  <2> QED BY <2>1 DEF SeatCall
<1> QED BY <1>1, <1>2, <1>3, <1>4

\* The bids are finitely many, and a higher one is one more.
LEMMA OneMoreValue ==
  ASSUME NEW v \in Offered, ValidBid(v), NEW h \in Nat, h < v
  PROVE  /\ Cardinality(ValuesUpTo(h)) \in Nat /\ Cardinality(ValuesUpTo(v)) \in Nat
         /\ Cardinality(ValuesUpTo(h)) + 1 <= Cardinality(ValuesUpTo(v))
<1> DEFINE A == ValuesUpTo(h)
           B == ValuesUpTo(v)
<1>1. IsFiniteSet(80..160)
  <2>1. 80 \in Int /\ 160 \in Int OBVIOUS
  <2> QED BY <2>1, FS_Interval
<1>2. A \in SUBSET (80..160) /\ B \in SUBSET (80..160) BY DEF ValuesUpTo, ValidBid
<1>3. IsFiniteSet(A) /\ IsFiniteSet(B) BY <1>1, <1>2, FS_Subset
<1>4. v \notin A /\ A \cup {v} \in SUBSET B
  BY BiddingAssumption DEF ValuesUpTo, ValidBid
<1> HIDE DEF A, B
<1>5. Cardinality(A \cup {v}) = Cardinality(A) + 1 BY <1>3, <1>4, FS_AddElement
<1>6. Cardinality(A \cup {v}) <= Cardinality(B) BY <1>3, <1>4, FS_Subset
<1>7. Cardinality(A) \in Nat /\ Cardinality(B) \in Nat BY <1>3, FS_CardinalityType
<1> QED BY <1>5, <1>6, <1>7 DEF A, B

LEMMA UpToIsAmongValues ==
  ASSUME NEW h \in Nat
  PROVE  /\ Cardinality(ValuesUpTo(h)) \in Nat /\ Cardinality(Values) \in Nat
         /\ Cardinality(ValuesUpTo(h)) <= Cardinality(Values)
<1> DEFINE A == ValuesUpTo(h)
           B == Values
<1>1. IsFiniteSet(80..160)
  <2>1. 80 \in Int /\ 160 \in Int OBVIOUS
  <2> QED BY <2>1, FS_Interval
<1>2. B \in SUBSET (80..160) /\ A \in SUBSET B BY DEF ValuesUpTo, Values, ValidBid
<1>3. IsFiniteSet(B) BY <1>1, <1>2, FS_Subset
<1>4. IsFiniteSet(A) /\ Cardinality(A) <= Cardinality(B) BY <1>2, <1>3, FS_Subset
<1> QED BY <1>3, <1>4, FS_CardinalityType

\* An auction that is not over yet is within its bound, with a call to spare.
LEMMA BoundedBefore ==
  ASSUME BiddingInv, CountedInv, ~Decided
  PROVE  /\ variant = "classic" => Len(calls) + 1 <= 8
         /\ variant = "contree" => Len(calls) + 1 <= 3 + 3 * Cardinality(Values) + 1
<1>1. /\ passes \in 0..3 /\ round \in {1, 2} /\ Len(calls) \in Nat
      /\ highest \in Bid \cup {NoBid}
  BY DEF BiddingInv, TypeOK
<1>2. CASE variant = "classic"
  <2>1. Len(calls) = 4 * (round - 1) + passes BY <1>2 DEF BiddingInv, PassesInv
  <2> QED BY <1>1, <1>2, <2>1
<1>3. CASE variant # "classic" /\ highest = NoBid
  <2>1. variant = "contree" => Len(calls) = passes BY <1>3 DEF BiddingInv, PassesInv
  <2>2. Cardinality(Values) \in Nat BY UpToIsAmongValues
  <2> QED BY <1>1, <1>3, <2>1, <2>2
<1>4. CASE variant # "classic" /\ highest # NoBid
  <2> DEFINE n == Cardinality(ValuesUpTo(highest.value))
             m == Cardinality(Values)
  <2>1. highest.value \in Nat BY ValuesAreNumbers
  <2>2. n \in Nat /\ m \in Nat /\ n <= m BY <2>1, UpToIsAmongValues
  <2>3. variant = "contree" => passes <= 2 /\ Len(calls) <= 3 * n + 1 + passes
    BY <1>4 DEF BiddingInv, PassesInv, CountedInv
  <2> HIDE DEF n, m
  <2>4. variant = "contree" => Len(calls) + 1 <= 3 + 3 * m + 1 BY <1>1, <2>2, <2>3
  <2> QED BY <1>4, <2>4 DEF m
<1> QED BY <1>2, <1>3, <1>4

LEMMA BoundedAfter ==
  ASSUME BiddingInv, CountedInv, ~Decided, UNCHANGED variant,
         Len(calls') = Len(calls) + 1
  PROVE  AuctionIsBounded'
<1>1. variant \in {"classic", "contree"} BY DEF BiddingInv, TypeOK
<1> QED BY <1>1, BoundedBefore DEF AuctionIsBounded, Values

LEMMA NewDealEnds ==
  ASSUME BiddingInv, NEW d \in Position, NewDeal(d)
  PROVE  EndInv'
<1>1. calls' = <<>> /\ ~Decided' /\ highest' = NoBid
  BY DEF NewDeal, Decided
<1>2. Len(calls') = 0 /\ DOMAIN calls' = {} BY <1>1
<1>3. Cardinality(Values) \in Nat BY UpToIsAmongValues
<1>4. AuctionIsBounded' BY <1>2, <1>3 DEF AuctionIsBounded, Values
<1> QED BY <1>1, <1>2, <1>4 DEF EndInv, BidsRise, SoldInv, CountedInv, TakenSuitFollowsRound

\* A call that is no bid leaves the bids as they are.
LEMMA BidsRiseKept ==
  ASSUME BiddingInv, BidsRise, ~Decided, UNCHANGED <<highest, variant>>,
         NEW type \in {"pass", "bid", "trump", "coinche"}, type # "bid",
         NEW trump \in Trumps \cup {NoTrump}, RecordCall(type, 0, trump)
  PROVE  BidsRise' /\ Len(calls') = Len(calls) + 1 /\ Len(calls) \in Nat
<1>1. /\ calls' \in Seq(SeatCall) /\ Len(calls') = Len(calls) + 1 /\ Len(calls) \in Nat
      /\ \A i \in 1..Len(calls) : calls'[i] = calls[i]
      /\ calls'[Len(calls) + 1] = [seat |-> active, type |-> type, value |-> 0, trump |-> trump]
  <2>1. 0 \in 0..160 OBVIOUS
  <2>2. CASE type = "pass" BY <2>1, <2>2, RecordCallAppends
  <2>3. CASE type = "trump" BY <2>1, <2>3, RecordCallAppends
  <2>4. CASE type = "coinche" BY <2>1, <2>4, RecordCallAppends
  <2> QED BY <2>2, <2>3, <2>4
<1>2. DOMAIN calls' = 1..(Len(calls) + 1) /\ DOMAIN calls = 1..Len(calls)
  BY <1>1 DEF BiddingInv, TypeOK
<1>3. ~IsBid(calls'[Len(calls) + 1]) BY <1>1 DEF IsBid
<1>4. BidsRise'
  <2> SUFFICES ASSUME NEW i \in DOMAIN calls', IsBid(calls'[i])
               PROVE  /\ variant = "contree"
                      /\ calls'[i].value <= highest.value
                      /\ calls'[i].value = highest.value =>
                           calls'[i].seat = highest.seat /\ calls'[i].trump = highest.trump
    BY DEF BidsRise, IsBid
  <2>1. i \in 1..Len(calls) BY <1>1, <1>2, <1>3
  <2>2. calls'[i] = calls[i] BY <1>1, <2>1
  <2> QED BY <1>2, <2>1, <2>2 DEF BidsRise
<1> QED BY <1>1, <1>4

LEMMA PassEnds ==
  ASSUME BiddingInv, EndInv, PassClassic \/ PassContree
  PROVE  EndInv'
<1>1. /\ ~Decided /\ dealer \in Position /\ passes \in 0..3 /\ variant \in {"classic", "contree"}
  BY DEF BiddingInv, TypeOK, PassClassic, PassContree
<1>2. CASE Redeal
  <2>1. Following(dealer) \in Position BY <1>1 DEF Following, Position
  <2> QED BY <1>2, <2>1, NewDealEnds DEF Redeal
<1>3. CASE ~Redeal
  <2>1. RecordCall("pass", 0, NoTrump) /\ UNCHANGED <<highest, variant>>
    BY <1>3 DEF PassClassic, PassContree
  <2>2. BidsRise' /\ Len(calls') = Len(calls) + 1 /\ Len(calls) \in Nat
    BY <1>1, <2>1, BidsRiseKept DEF EndInv
  <2>3. AuctionIsBounded' BY <1>1, <2>1, <2>2, BoundedAfter DEF EndInv
  <2>4. SoldInv' /\ CountedInv' /\ TakenSuitFollowsRound'
    <3>1. CASE UNCHANGED board /\ (variant = "contree" => passes' = passes + 1)
      <4>1. ~Decided' BY <1>1, <3>1 DEF Decided
      <4>2. CountedInv'
        <5> SUFFICES ASSUME variant = "contree", highest # NoBid
                     PROVE  Len(calls') <= 3 * Cardinality(ValuesUpTo(highest.value)) + 1 + passes'
          BY <2>1 DEF CountedInv
        <5> DEFINE n == Cardinality(ValuesUpTo(highest.value))
        <5>1. highest.value \in Nat BY ValuesAreNumbers
        <5>2. n \in Nat BY <5>1, UpToIsAmongValues
        <5>3. Len(calls) <= 3 * n + 1 + passes BY <1>1 DEF EndInv, CountedInv
        <5> HIDE DEF n
        <5>4. Len(calls') <= 3 * n + 1 + passes' BY <1>1, <2>2, <3>1, <5>2, <5>3
        <5> QED BY <5>4 DEF n
      <4> QED BY <4>1, <4>2 DEF SoldInv, TakenSuitFollowsRound
    <3>2. CASE variant = "contree" /\ highest # NoBid /\ CompleteContree(FALSE)
      <4>1. board' = [declarer |-> highest.seat, trump |-> highest.trump,
                      value |-> highest.value, coinched |-> FALSE]
        BY <3>2 DEF CompleteContree
      <4>2. highest.value \in 80..160 BY <3>2 DEF BiddingInv, TypeOK, Bid
      <4>3. Decided' BY <4>1, <4>2 DEF Decided, Undecided
      <4> QED BY <2>1, <3>2, <4>1, <4>3 DEF SoldInv, CountedInv, TakenSuitFollowsRound
    <3> QED BY <1>3, <3>1, <3>2 DEF PassClassic, PassContree
  <2> QED BY <2>2, <2>3, <2>4 DEF EndInv
<1> QED BY <1>2, <1>3

LEMMA ChooseTrumpEnds ==
  ASSUME BiddingInv, EndInv, NEW suit \in Suits, ChooseTrump(suit)
  PROVE  EndInv'
<1>1. /\ ~Decided /\ variant = "classic" /\ passes \in 0..3 /\ round \in {1, 2}
      /\ Len(calls) = 4 * (round - 1) + passes
  BY DEF ChooseTrump, BiddingInv, TypeOK, PassesInv
<1>2. /\ RecordCall("trump", 0, suit) /\ UNCHANGED <<highest, variant, upturned>>
      /\ board'.trump = suit
  BY DEF ChooseTrump
<1>3. BidsRise' /\ Len(calls') = Len(calls) + 1 /\ Len(calls) \in Nat
  <2>1. suit \in Trumps \cup {NoTrump} BY DEF Trumps
  <2> QED BY <1>1, <1>2, <2>1, BidsRiseKept DEF EndInv
<1>4. AuctionIsBounded' BY <1>1, <1>2, <1>3, BoundedAfter DEF EndInv
<1>5. TakenSuitFollowsRound'
  <2>1. Len(calls') <= 4 <=> round = 1 BY <1>1, <1>3
  <2>2. suit = upturned <=> round = 1 BY <1>1 DEF ChooseTrump, MayChoose
  <2> QED BY <1>2, <2>1, <2>2 DEF TakenSuitFollowsRound
<1> QED BY <1>1, <1>2, <1>3, <1>4, <1>5 DEF EndInv, SoldInv, CountedInv

LEMMA MakeBidEnds ==
  ASSUME BiddingInv, EndInv, NEW value \in Offered, NEW trump \in Trumps, MakeBid(value, trump)
  PROVE  EndInv'
<1>1. /\ ~Decided /\ variant = "contree" /\ ValidBid(value) /\ value > highest.value
      /\ highest' = [value |-> value, seat |-> active, trump |-> trump]
      /\ RecordCall("bid", value, trump) /\ passes' = 0 /\ UNCHANGED <<board, variant>>
  BY DEF MakeBid, Overbids
<1>2. ~Decided' /\ value \in 80..160 /\ value \in 0..160
  BY <1>1, BiddingAssumption DEF Decided, ValidBid
<1>3. /\ calls' \in Seq(SeatCall) /\ Len(calls') = Len(calls) + 1 /\ Len(calls) \in Nat
      /\ \A i \in 1..Len(calls) : calls'[i] = calls[i]
      /\ calls'[Len(calls) + 1] = [seat |-> active, type |-> "bid", value |-> value, trump |-> trump]
  <2>1. trump \in Trumps \cup {NoTrump} OBVIOUS
  <2> QED BY <1>1, <1>2, <2>1, RecordCallAppends
<1>4. DOMAIN calls' = 1..(Len(calls) + 1) /\ DOMAIN calls = 1..Len(calls)
  BY <1>3 DEF BiddingInv, TypeOK
<1>5. highest.value \in Nat /\ passes \in 0..3
  BY ValuesAreNumbers DEF BiddingInv, TypeOK
<1>6. BidsRise'
  <2> SUFFICES ASSUME NEW i \in DOMAIN calls', IsBid(calls'[i])
               PROVE  /\ calls'[i].value <= value
                      /\ calls'[i].value = value =>
                           calls'[i].seat = active /\ calls'[i].trump = trump
    BY <1>1 DEF BidsRise, IsBid
  <2>1. CASE i = Len(calls) + 1
    <3>1. calls'[i] = [seat |-> active, type |-> "bid", value |-> value, trump |-> trump]
      BY <1>3, <2>1
    <3>2. /\ calls'[i].value = value /\ calls'[i].seat = active /\ calls'[i].trump = trump
      BY <3>1
    <3> QED BY <1>2, <3>2
  <2>2. CASE i \in 1..Len(calls)
    <3>1. calls'[i] = calls[i] BY <1>3, <2>2
    <3>2. calls[i].value <= highest.value BY <1>4, <2>2, <3>1 DEF EndInv, BidsRise
    <3>3. calls[i].value \in Nat BY <1>4, <2>2, ValuesAreNumbers
    <3> QED BY <1>1, <1>2, <1>5, <3>1, <3>2, <3>3
  <2> QED BY <1>3, <1>4, <2>1, <2>2
<1>7. CountedInv'
  <2> DEFINE n == Cardinality(ValuesUpTo(highest.value))
             m == Cardinality(ValuesUpTo(value))
  <2>1. n \in Nat /\ m \in Nat /\ n + 1 <= m
    BY <1>1, <1>5, OneMoreValue
  <2>2. Len(calls) <= 3 * n + 3
    <3>1. CASE highest = NoBid
      <4>1. Len(calls) = passes BY <1>1, <3>1 DEF BiddingInv, PassesInv
      <4> HIDE DEF n
      <4> QED BY <1>5, <2>1, <4>1
    <3>2. CASE highest # NoBid
      <4>1. passes <= 2 /\ Len(calls) <= 3 * n + 1 + passes
        BY <1>1, <3>2 DEF BiddingInv, PassesInv, EndInv, CountedInv
      <4> HIDE DEF n
      <4> QED BY <1>3, <1>5, <2>1, <4>1
    <3> QED BY <3>1, <3>2
  <2> HIDE DEF n, m
  <2>3. Len(calls') <= 3 * m + 1 + passes' BY <1>1, <1>3, <2>1, <2>2
  <2>4. highest'.value = value BY <1>1
  <2>5. m = Cardinality(ValuesUpTo(highest'.value)) BY <2>4 DEF m
  <2> QED BY <2>3, <2>5 DEF CountedInv, ValuesUpTo, ValidBid
<1>8. AuctionIsBounded' BY <1>1, <1>3, BoundedAfter DEF EndInv
<1> QED BY <1>2, <1>6, <1>7, <1>8 DEF EndInv, SoldInv, TakenSuitFollowsRound

LEMMA CoincheEnds ==
  ASSUME BiddingInv, EndInv, Coinche
  PROVE  EndInv'
<1>1. /\ ~Decided /\ variant = "contree" /\ highest # NoBid
      /\ RecordCall("coinche", 0, NoTrump) /\ UNCHANGED <<highest, variant>>
      /\ board' = [declarer |-> highest.seat, trump |-> highest.trump,
                   value |-> highest.value, coinched |-> TRUE]
  BY DEF Coinche, CanCoinche, CompleteContree
<1>2. BidsRise' /\ Len(calls') = Len(calls) + 1 BY <1>1, BidsRiseKept DEF EndInv
<1>3. AuctionIsBounded' BY <1>1, <1>2, BoundedAfter DEF EndInv
<1>4. Decided'
  <2>1. highest.value \in 80..160 BY <1>1 DEF BiddingInv, TypeOK, Bid
  <2> QED BY <1>1, <2>1 DEF Decided, Undecided
<1> QED BY <1>1, <1>2, <1>3, <1>4 DEF EndInv, SoldInv, CountedInv, TakenSuitFollowsRound

LEMMA EndsStep == BiddingInv /\ EndInv /\ [Next]_vars => EndInv'
<1> SUFFICES ASSUME BiddingInv, EndInv, [Next]_vars PROVE EndInv' OBVIOUS
<1>1. CASE UNCHANGED vars
  BY <1>1 DEF vars, EndInv, BidsRise, SoldInv, CountedInv, TakenSuitFollowsRound,
              AuctionIsBounded, Decided, IsBid, ValuesUpTo, ValidBid
<1>2. CASE Next
  BY <1>2, PassEnds, ChooseTrumpEnds, MakeBidEnds, CoincheEnds DEF Next
<1> QED BY <1>1, <1>2

LEMMA EndsStart == Init => EndInv
<1> SUFFICES ASSUME Init PROVE EndInv OBVIOUS
<1>1. calls = <<>> /\ ~Decided /\ highest = NoBid BY DEF Init, Decided
<1>2. Len(calls) = 0 /\ DOMAIN calls = {} BY <1>1
<1>3. Cardinality(Values) \in Nat BY UpToIsAmongValues
<1>4. AuctionIsBounded BY <1>2, <1>3 DEF AuctionIsBounded, Values
<1> QED BY <1>1, <1>2, <1>4 DEF EndInv, BidsRise, SoldInv, CountedInv, TakenSuitFollowsRound

\* Whatever values are offered, the contract is the highest bid of its auction, the suit
\* taken in classic Belote is one its round offers, and the auction cannot go on for ever.
THEOREM BiddingEndsWell == Spec => []AuctionEndsWell
<1>1. BiddingInv /\ EndInv => AuctionEndsWell
  <2> SUFFICES ASSUME BiddingInv, EndInv PROVE SoldToHighest
    BY DEF AuctionEndsWell, EndInv
  <2> SUFFICES ASSUME Decided, NEW i \in DOMAIN calls, IsBid(calls[i])
               PROVE  \/ calls[i].value < board.value
                      \/ calls[i].seat = board.declarer /\ calls[i].trump = board.trump
    BY DEF SoldToHighest
  <2>1. /\ variant = "contree" /\ calls[i].value <= highest.value
        /\ calls[i].value = highest.value =>
             calls[i].seat = highest.seat /\ calls[i].trump = highest.trump
    BY DEF EndInv, BidsRise
  <2>2. calls[i].value \in Nat /\ highest.value \in Nat BY ValuesAreNumbers
  <2> QED BY <2>1, <2>2 DEF EndInv, SoldInv
<1> QED BY <1>1, EndsStart, EndsStep, BiddingInvariance, PTL DEF Spec

-----------------------------------------------------------------------------
(* The auction implements the hand that the table keeps *)

LEMMA BiddingStep ==
  ASSUME BiddingInv, [Next]_vars
  PROVE  [Promise!HandNext]_handView
<1> USE DEF Promise!HandNext
<1>1. CASE UNCHANGED vars
  BY <1>1 DEF vars, handView, Decided
<1>2. ASSUME ~Decided, ~Decided', dealer' = dealer, active' = Following(active)
      PROVE  Promise!HandNext
  <2>1. handView = Auction(dealer, active) BY <1>2 DEF handView
  <2>2. handView' = Auction(dealer, Following(active)) BY <1>2 DEF handView
  <2> QED BY <2>1, <2>2 DEF Auction, Promise!AfterCall, Promise!Auction, Promise!Following,
                            Following
<1>3. ASSUME ~Decided, Redeal
      PROVE  Promise!HandNext
  <2>1. ~Decided' /\ dealer' = Following(dealer) /\ active' = Following(dealer')
    BY <1>3 DEF Redeal, NewDeal, Decided, FirstBidder
  <2>2. handView = Auction(dealer, active) BY <1>3 DEF handView
  <2>3. handView' = Auction(Following(dealer), Following(Following(dealer)))
    BY <2>1 DEF handView
  <2> QED BY <2>2, <2>3 DEF Auction, Promise!AfterCall, Promise!Auction, Promise!Deal,
                            Promise!Following, Following
<1>4. ASSUME ~Decided, Decided', dealer' = dealer
      PROVE  Promise!HandNext
  <2>1. handView = Auction(dealer, active) /\ handView' = Board(dealer)
    BY <1>4 DEF handView
  <2> QED BY <2>1 DEF Auction, Board, Promise!AfterCall, Promise!Board, Promise!Following,
                      Following
<1>5. CASE PassClassic
  <2>1. ~Decided BY <1>5 DEF PassClassic
  <2>2. CASE Redeal BY <1>3, <2>1, <2>2
  <2>3. CASE UNCHANGED <<dealer, board>> /\ active' = Following(active)
    BY <1>2, <2>1, <2>3 DEF Decided
  <2>4. CASE /\ ~(passes < 3) /\ round = 1
             /\ UNCHANGED <<dealer, board>> /\ active' = FirstBidder(dealer)
    <3>1. /\ dealer \in Position /\ passes = 3 /\ Len(calls) = 4 * (round - 1) + passes
          /\ active = (dealer + Len(calls) + 1) % 4
      BY <1>5, <2>1, <2>4 DEF PassClassic, BiddingInv, TypeOK, PassesInv, CallsInTurn
    <3>2. active = dealer BY <2>4, <3>1 DEF Position
    <3> QED BY <1>2, <2>1, <2>4, <3>2 DEF Decided, FirstBidder
  <2> QED BY <1>5, <2>2, <2>3, <2>4 DEF PassClassic
<1>6. CASE PassContree
  <2>1. ~Decided BY <1>6 DEF PassContree
  <2>2. CASE Redeal BY <1>3, <2>1, <2>2
  <2>3. CASE UNCHANGED <<dealer, board>> /\ active' = Following(active)
    BY <1>2, <2>1, <2>3 DEF Decided
  <2>4. CASE highest # NoBid /\ CompleteContree(FALSE) /\ UNCHANGED dealer
    <3>1. highest.value \in 80..160 BY <2>4 DEF BiddingInv, TypeOK, Bid
    <3>2. Decided' BY <2>4, <3>1 DEF Decided, CompleteContree, Undecided
    <3> QED BY <1>4, <2>1, <2>4, <3>2
  <2> QED BY <1>6, <2>2, <2>3, <2>4 DEF PassContree
<1>7. CASE \E suit \in Suits : ChooseTrump(suit)
  <2>1. PICK suit \in Suits : ChooseTrump(suit) BY <1>7
  <2>2. ~Decided /\ Decided' /\ dealer' = dealer
    BY <2>1, BiddingAssumption DEF ChooseTrump, Decided, Undecided, NoTrump
  <2> QED BY <1>4, <2>2
<1>8. CASE \E value \in Offered, trump \in Trumps : MakeBid(value, trump)
  <2>1. ~Decided /\ ~Decided' /\ dealer' = dealer /\ active' = Following(active)
    BY <1>8 DEF MakeBid, Decided
  <2> QED BY <1>2, <2>1
<1>9. CASE Coinche
  <2>1. highest \in Bid BY <1>9 DEF BiddingInv, TypeOK, Coinche, CanCoinche
  <2>2. ~Decided /\ Decided' /\ dealer' = dealer
    BY <1>9, <2>1 DEF Coinche, CompleteContree, Decided, Undecided, Bid
  <2> QED BY <1>4, <2>2
<1> QED BY <1>1, <1>5, <1>6, <1>7, <1>8, <1>9 DEF Next

LEMMA BiddingStart == Init => Promise!HandInit
<1> SUFFICES ASSUME Init PROVE Promise!HandInit OBVIOUS
<1>1. handView = Auction(dealer, Following(dealer))
  BY DEF Init, handView, Decided, FirstBidder
<1>2. dealer \in Promise!Position BY DEF Init, Position, Promise!Position
<1> QED BY <1>1, <1>2 DEF Promise!HandInit, Promise!Deal, Promise!Auction,
                          Promise!Following, Auction, Following

\* Whatever is called, the table sees its hand move on as HandPromise says.
THEOREM BiddingImplementsHand == Spec => ImplementsHand
<1>1. Init => Promise!HandInit BY BiddingStart
<1>2. BiddingInv /\ [Next]_vars => [Promise!HandNext]_handView BY BiddingStep
<1> QED BY <1>1, <1>2, BiddingInvariance, PTL DEF Spec, ImplementsHand, Promise!HandSpec

-----------------------------------------------------------------------------
(* The end of a match: the invariant *)

Stage == {"auction", "play", "over"}
PageRecord ==
  [up : Model \cup {Nothing}, shown : Games \cup {Nowhere}, dismissed : SUBSET Games,
   last : [Games -> Model \cup {Nothing}], pending : Seq(Ending), outcomes : SUBSET Signature,
   trick : [game : Games, number : 1..Matches, stage : Stage] \cup {Nothing},
   revealing : BOOLEAN, drawn : [game : Games, stage : Stage] \cup {Nothing}, asked : BOOLEAN]
GoalsRecord == [played : Nat, won : Nat, results : Seq(BOOLEAN), seen : Seq(Signature)]
OfferRecord == [matches : Nat, dismissedAt : Nat \cup {-1}, last : Signature \cup {<<>>}]
MatchSeen == Games \X (1..Matches)
CountedMatch == [game : Games, number : 1..Matches, won : BOOLEAN]

EndTypes ==
  /\ server \in [Games -> Match] /\ place \in Games \cup {Elsewhere}
  /\ late \subseteq Games /\ loading \in BOOLEAN
  /\ page \in PageRecord
  /\ device \in [goals : GoalsRecord, offer : OfferRecord]
  /\ visitor \in [session : BOOLEAN, signedIn : BOOLEAN, goals : {"unknown", "device", "account"}]
  /\ counted \in Seq(CountedMatch)
  /\ putAway \subseteq MatchSeen
  /\ offered \in [ended : SUBSET MatchSeen, before : Nat] /\ IsFiniteSet(offered.ended)

Ended(g, n) == n < server[g].number \/ (n = server[g].number /\ server[g].stage = "over")

\* The ends that may still open a screen: those that wait for it, and what the tables may
\* come to.
MayCome(e) ==
  \/ \E i \in DOMAIN page.pending : page.pending[i] = e
  \/ e.number > server[e.game].number
  \/ e.number = server[e.game].number /\ (server[e.game].stage = "over" => e.score = server[e.game].score)

\* What waits has ended, and waits in the order of the matches of its table.
QueueOK ==
  /\ \A i \in DOMAIN page.pending :
       /\ Ended(page.pending[i].game, page.pending[i].number)
       /\ page.pending[i].number = server[page.pending[i].game].number =>
            page.pending[i].score = server[page.pending[i].game].score
  /\ \A i, j \in DOMAIN page.pending : i < j /\ page.pending[i].game = page.pending[j].game =>
       /\ page.pending[i].number <= page.pending[j].number
       /\ page.pending[i].number = page.pending[j].number =>
            page.pending[i].score = page.pending[j].score

\* The matches of a table are counted in their order.
CountedOK ==
  /\ \A i \in DOMAIN counted : \A e \in Ending :
       MayCome(e) /\ e.game = counted[i].game => e.number >= counted[i].number
  /\ \A i, j \in DOMAIN counted :
       i < j /\ counted[i].game = counted[j].game => counted[i].number <= counted[j].number

\* The ledger knows the last matches counted by what may still come of them.
WindowOK ==
  /\ Len(device.goals.seen) = AtMost(Len(counted), Keep)
  /\ \A d \in DOMAIN device.goals.seen : \A e \in Ending :
       MayCome(e) /\ SameMatch(e, counted[Len(counted) - Len(device.goals.seen) + d]) =>
         SignatureOf(e) = device.goals.seen[d]

\* The results are those of the matches counted, the newest first.
LedgerOK ==
  /\ device.goals.played = Len(counted)
  /\ device.goals.won = Cardinality({i \in DOMAIN counted : counted[i].won})
  /\ Len(device.goals.results) = AtMost(Len(counted), Keep)
  /\ \A d \in DOMAIN device.goals.results :
       device.goals.results[d] = counted[Len(counted) - d + 1].won

\* A screen that is up is the last one of its table, whose screen was not put away.
ScreenOK ==
  /\ page.up # Nothing => /\ page.shown = page.up.game /\ page.up.game \notin page.dismissed
                          /\ page.last[page.up.game] = page.up
  /\ \A g \in Games : page.last[g] # Nothing => page.last[g].game = g /\ Ended(g, page.last[g].number)

\* A screen that was put away is held back, or nothing can bring it any more.
HeldBack(g, n) == g \in page.dismissed /\ page.last[g] # Nothing /\ page.last[g].number = n
IsPast(g, n) ==
  /\ \A e \in Ending : MayCome(e) /\ e.game = g => e.number > n
  /\ page.last[g] # Nothing => page.last[g].number > n

PutAwayOK ==
  \A g \in Games, n \in 1..Matches : <<g, n>> \in putAway => HeldBack(g, n) \/ IsPast(g, n)

\* The matches a guest saw to end, and what the tab may still offer for them.
Offers(g) == page.last[g] # Nothing /\ page.last[g].offer

EndedOK ==
  /\ \A g \in Games, n \in 1..Matches : <<g, n>> \in offered.ended =>
       \A e \in Ending : MayCome(e) /\ e.game = g => e.number >= n
  /\ \A g \in Games : Offers(g) => \E n \in 1..Matches : <<g, n>> \in offered.ended

Since == Cardinality(offered.ended) - offered.before
Spaced == device.offer.dismissedAt # -1 => Since >= Cooldown

\* At one table the offer's count is of the matches seen to end since the last "Not now".
OfferOK ==
  AtOneTable =>
    /\ device.offer.dismissedAt # -1 => device.offer.matches - device.offer.dismissedAt <= Since
    /\ \A g \in Games : Offers(g) => Spaced
    /\ \A e \in Ending : MayCome(e) /\ <<e.game, e.number>> \in offered.ended =>
         SignatureOf(e) = device.offer.last

CountsOK == CountedOK /\ CountedOnce /\ WindowOK /\ LedgerOK
MatchEndInv == EndTypes /\ QueueOK /\ CountsOK /\ ScreenOK /\ PutAwayOK /\ EndedOK /\ OfferOK

-----------------------------------------------------------------------------
(* What may still come *)

ComesLess == \A e \in Ending : MayCome(e)' => MayCome(e)

\* The openings that wait are taken from the front, or dropped.
LEMMA WaitLess ==
  ASSUME EndTypes, QueueOK, server' = server,
         page'.pending \in {page.pending, <<>>}
           \/ (page.pending # <<>> /\ page'.pending = Tail(page.pending))
  PROVE  ComesLess /\ QueueOK'
<1> DEFINE q == page.pending
           r == page'.pending
<1>1. q \in Seq(Ending) BY DEF EndTypes, PageRecord
<1>2. CASE r = q
  <2>1. ComesLess BY <1>2 DEF ComesLess, MayCome
  <2> QED BY <1>2, <2>1 DEF QueueOK, Ended
<1>3. CASE r = <<>>
  <2>1. DOMAIN r = {} BY <1>3
  <2> QED BY <2>1 DEF ComesLess, MayCome, QueueOK
<1>4. CASE q # <<>> /\ r = Tail(q)
  <2>1. /\ DOMAIN q = 1..Len(q) /\ DOMAIN r = 1..Len(r) /\ Len(q) \in Nat /\ Len(r) = Len(q) - 1
        /\ \A i \in DOMAIN r : i + 1 \in DOMAIN q /\ r[i] = q[i + 1]
    BY <1>1, <1>4
  <2> HIDE DEF q, r
  <2>2. ComesLess BY <2>1 DEF ComesLess, MayCome, q, r
  <2>3. QueueOK'
    <3>1. \A i \in DOMAIN r : /\ Ended(r[i].game, r[i].number)
                              /\ r[i].number = server[r[i].game].number => r[i].score = server[r[i].game].score
      BY <2>1 DEF QueueOK, q
    <3>2. \A i, j \in DOMAIN r : i < j /\ r[i].game = r[j].game =>
            r[i].number <= r[j].number /\ (r[i].number = r[j].number => r[i].score = r[j].score)
      <4> SUFFICES ASSUME NEW i \in DOMAIN r, NEW j \in DOMAIN r, i < j, r[i].game = r[j].game
                   PROVE  r[i].number <= r[j].number /\ (r[i].number = r[j].number => r[i].score = r[j].score)
        OBVIOUS
      <4>1. i + 1 \in DOMAIN q /\ j + 1 \in DOMAIN q /\ i + 1 < j + 1 BY <2>1
      <4> QED BY <2>1, <4>1 DEF QueueOK, q
    <3> QED BY <3>1, <3>2 DEF QueueOK, Ended, r
  <2> QED BY <2>2, <2>3
<1> QED BY <1>2, <1>3, <1>4

\* The end that is drawn was to come.
LEMMA WaitMore ==
  ASSUME EndTypes, QueueOK, server' = server, NEW g \in Games, server[g].stage = "over",
         page'.pending = Append(page.pending, EndingOf(g, server[g]))
  PROVE  ComesLess /\ QueueOK'
<1> DEFINE q == page.pending
           r == page'.pending
           x == EndingOf(g, server[g])
<1>1. q \in Seq(Ending) /\ x \in Ending /\ server \in [Games -> Match]
  BY DEF EndTypes, PageRecord, EndingOf, Ending, Match
<1>2. x.game = g /\ x.number = server[g].number /\ x.score = server[g].score BY DEF EndingOf
<1>3. /\ DOMAIN q = 1..Len(q) /\ DOMAIN r = 1..(Len(q) + 1) /\ Len(q) \in Nat
      /\ r[Len(q) + 1] = x /\ \A i \in DOMAIN q : r[i] = q[i] /\ q[i] \in Ending
  BY <1>1
<1> HIDE DEF q, r, x
<1>4. \A i \in DOMAIN r : i \in DOMAIN q \/ (i = Len(q) + 1 /\ i \notin DOMAIN q) BY <1>3
<1>5. ComesLess
  <2> SUFFICES ASSUME NEW e \in Ending, NEW i \in DOMAIN r, r[i] = e PROVE MayCome(e)
    BY DEF ComesLess, MayCome, r
  <2>1. CASE i \in DOMAIN q BY <1>3, <2>1 DEF MayCome, q
  <2>2. CASE e = x BY <1>2, <2>2 DEF MayCome
  <2> QED BY <1>3, <1>4, <2>1, <2>2
<1>6. \A i \in DOMAIN q : /\ Ended(q[i].game, q[i].number)
                          /\ q[i].number = server[q[i].game].number => q[i].score = server[q[i].game].score
  BY DEF QueueOK, q
<1>7. \A i \in DOMAIN r : /\ Ended(r[i].game, r[i].number)
                          /\ r[i].number = server[r[i].game].number => r[i].score = server[r[i].game].score
  BY <1>2, <1>3, <1>4, <1>6 DEF Ended
<1>8. ASSUME NEW i \in DOMAIN r, NEW j \in DOMAIN r, i < j, r[i].game = r[j].game
      PROVE  r[i].number <= r[j].number /\ (r[i].number = r[j].number => r[i].score = r[j].score)
  <2>1. i \in DOMAIN q BY <1>3, <1>8
  <2>2. CASE j \in DOMAIN q BY <1>3, <1>8, <2>1, <2>2 DEF QueueOK, q
  <2>3. CASE j = Len(q) + 1
    <3>1. r[j] = x /\ r[i] = q[i] /\ q[i] \in Ending BY <1>3, <2>1, <2>3
    <3>2. q[i].game = g BY <1>2, <1>8, <3>1
    <3>3. q[i].number \in Nat /\ server[g].number \in Nat BY <1>1, <3>1 DEF Ending, Match
    <3> QED BY <1>2, <1>6, <2>1, <3>1, <3>2, <3>3 DEF Ended
  <2> QED BY <1>4, <2>2, <2>3
<1> QED BY <1>5, <1>7, <1>8 DEF QueueOK, Ended, r

\* A match goes on at its table, and the next one begins after it.
LEMMA PlayedOn ==
  ASSUME EndTypes, NEW g \in Games, PlayOn(g)
  PROVE  /\ server' \in [Games -> Match] /\ \A h \in Games : h # g => server'[h] = server[h]
         /\ \/ /\ server'[g].number = server[g].number /\ server[g].stage # "over"
            \/ /\ server'[g].number = server[g].number + 1 /\ server'[g].stage # "over"
<1>1. server \in [Games -> Match] /\ server[g] \in Match BY DEF EndTypes
<1>2. CASE server[g].stage = "auction" /\ server' = [server EXCEPT ![g].stage = "play"]
  BY <1>1, <1>2 DEF Match
<1>3. ASSUME NEW score \in Scores, server[g].stage = "play",
             server' = [server EXCEPT ![g].stage = "over", ![g].score = score]
      PROVE  /\ server' \in [Games -> Match] /\ \A h \in Games : h # g => server'[h] = server[h]
             /\ server'[g].number = server[g].number
  BY <1>1, <1>3 DEF Match
<1>4. ASSUME server[g].stage = "over", server[g].number < Matches,
             server' = [server EXCEPT ![g].stage = "auction", ![g].number = server[g].number + 1]
      PROVE  /\ server' \in [Games -> Match] /\ \A h \in Games : h # g => server'[h] = server[h]
             /\ server'[g].number = server[g].number + 1 /\ server'[g].stage # "over"
  <2> DEFINE n == server[g].number + 1
  <2>1. n \in 1..Matches BY <1>1, <1>4, MatchEndAssumption DEF Match
  <2>2. server' = [server EXCEPT ![g].stage = "auction", ![g].number = n] BY <1>4
  <2> HIDE DEF n
  <2>3. /\ server' \in [Games -> Match] /\ \A h \in Games : h # g => server'[h] = server[h]
        /\ server'[g].number = n /\ server'[g].stage = "auction"
    BY <1>1, <2>1, <2>2 DEF Match
  <2> QED BY <2>3 DEF n
<1>5. \/ server[g].stage = "auction" /\ server' = [server EXCEPT ![g].stage = "play"]
      \/ /\ server[g].stage = "play"
         /\ \E score \in Scores : server' = [server EXCEPT ![g].stage = "over", ![g].score = score]
      \/ /\ server[g].stage = "over" /\ server[g].number < Matches
         /\ server' = [server EXCEPT ![g].stage = "auction", ![g].number = server[g].number + 1]
  BY <1>1 DEF PlayOn, Match
<1> QED BY <1>2, <1>3, <1>4, <1>5

LEMMA PlayedComes ==
  ASSUME EndTypes, QueueOK, NEW g \in Games, PlayOn(g)
  PROVE  /\ ComesLess /\ QueueOK'
         /\ \A h \in Games, n \in 1..Matches : Ended(h, n) => Ended(h, n)'
<1>1. page' = page /\ server \in [Games -> Match] /\ page.pending \in Seq(Ending)
  BY DEF PlayOn, EndTypes, PageRecord
<1>2. /\ server' \in [Games -> Match] /\ \A h \in Games : h # g => server'[h] = server[h]
      /\ \/ /\ server'[g].number = server[g].number /\ server[g].stage # "over"
         \/ /\ server'[g].number = server[g].number + 1 /\ server'[g].stage # "over"
  BY PlayedOn
<1>3. \A h \in Games : server[h].number \in 1..Matches /\ server'[h].number \in 1..Matches
  BY <1>1, <1>2 DEF Match
<1>4. ComesLess
  <2> SUFFICES ASSUME NEW e \in Ending, MayCome(e)' PROVE MayCome(e) BY DEF ComesLess
  <2>1. e.game \in Games /\ e.number \in 1..Matches BY DEF Ending
  <2>2. CASE e.game # g BY <1>1, <1>2, <2>1, <2>2 DEF MayCome
  <2>3. CASE e.game = g BY <1>1, <1>2, <1>3, <2>1, <2>3 DEF MayCome
  <2> QED BY <2>2, <2>3
<1>5. ASSUME NEW h \in Games, NEW n \in 1..Matches, Ended(h, n) PROVE Ended(h, n)'
  BY <1>2, <1>3, <1>5 DEF Ended
<1>6. QueueOK'
  <2>1. \A i \in DOMAIN page.pending : page.pending[i] \in Ending BY <1>1
  <2>2. ASSUME NEW i \in DOMAIN page.pending
        PROVE  /\ Ended(page.pending[i].game, page.pending[i].number)'
               /\ page.pending[i].number = server'[page.pending[i].game].number =>
                    page.pending[i].score = server'[page.pending[i].game].score
    <3> DEFINE e == page.pending[i]
    <3>1. e.game \in Games /\ e.number \in 1..Matches BY <2>1 DEF Ending
    <3>2. Ended(e.game, e.number) /\ (e.number = server[e.game].number => e.score = server[e.game].score)
      BY DEF QueueOK
    <3> HIDE DEF e
    <3>4. e.number < server'[e.game].number
            \/ (e.number = server'[e.game].number /\ server'[e.game].stage = "over")
      BY <1>2, <1>3, <3>1, <3>2 DEF Ended
    <3>5. e.number = server'[e.game].number => e.score = server'[e.game].score
      BY <1>2, <1>3, <3>1, <3>2 DEF Ended
    <3> QED BY <1>1, <3>4, <3>5 DEF Ended, e
  <2> QED BY <1>1, <2>2 DEF QueueOK
<1> QED BY <1>4, <1>5, <1>6

-----------------------------------------------------------------------------
(* The parts that a step leaves as they are *)

LEMMA CountsKept ==
  ASSUME CountsOK, ComesLess, counted' = counted, device'.goals = device.goals
  PROVE  CountsOK'
<1>1. CountedOK'
  BY DEF CountsOK, CountedOK, ComesLess
<1>2. CountedOnce' BY DEF CountsOK, CountedOnce, SameMatch
<1>3. WindowOK' BY DEF CountsOK, WindowOK, ComesLess, SameMatch
<1>4. LedgerOK' BY DEF CountsOK, LedgerOK
<1> QED BY <1>1, <1>2, <1>3, <1>4 DEF CountsOK

LEMMA OfferKept ==
  ASSUME EndedOK, OfferOK, ComesLess, offered' = offered, device'.offer = device.offer,
         \A g \in Games : Offers(g)' => Offers(g)
  PROVE  EndedOK' /\ OfferOK'
<1>1. EndedOK' BY DEF EndedOK, ComesLess
<1>2. OfferOK' BY DEF OfferOK, ComesLess, AtOneTable, Spaced, Since
<1> QED BY <1>1, <1>2

LEMMA PastKept ==
  ASSUME ComesLess, NEW g \in Games, NEW n \in 1..Matches, IsPast(g, n),
         page'.last[g] # Nothing => page.last[g] # Nothing /\ page'.last[g].number = page.last[g].number
  PROVE  IsPast(g, n)'
BY DEF IsPast, ComesLess

LEMMA PutAwayKept ==
  ASSUME PutAwayOK, ComesLess, putAway' \subseteq putAway,
         \A g \in Games : page'.last[g] # Nothing =>
           page.last[g] # Nothing /\ page'.last[g].number = page.last[g].number,
         \A g \in Games, n \in 1..Matches :
           <<g, n>> \in putAway' /\ HeldBack(g, n) => HeldBack(g, n)' \/ IsPast(g, n)'
  PROVE  PutAwayOK'
<1> SUFFICES ASSUME NEW g \in Games, NEW n \in 1..Matches, <<g, n>> \in putAway'
             PROVE  HeldBack(g, n)' \/ IsPast(g, n)'
  BY DEF PutAwayOK
<1>1. HeldBack(g, n) \/ IsPast(g, n) BY DEF PutAwayOK
<1>2. IsPast(g, n) => IsPast(g, n)' BY PastKept
<1> QED BY <1>1, <1>2

\* Everything but the screen, when a step leaves the counts, the offer and the tables alone.
LEMMA PlayerKept ==
  ASSUME MatchEndInv, UNCHANGED <<server, device, counted, offered>>, ComesLess, QueueOK',
         \A g \in Games : Offers(g)' => Offers(g)
  PROVE  CountsOK' /\ EndedOK' /\ OfferOK'
<1>1. device'.goals = device.goals /\ device'.offer = device.offer /\ counted' = counted /\ offered' = offered
  OBVIOUS
<1>2. CountsOK /\ EndedOK /\ OfferOK BY DEF MatchEndInv
<1> QED BY <1>1, <1>2, CountsKept, OfferKept

LEMMA ModelIs ==
  ASSUME NEW m \in Model
  PROVE  m # Nothing /\ m.game \in Games /\ m.number \in 1..Matches /\ m.offer \in BOOLEAN
<1>1. DOMAIN m = {"game", "number", "offer"} /\ DOMAIN Nothing = {"game"} BY DEF Model, Nothing
<1> QED BY <1>1 DEF Model

\* No end of the same table comes before the one at the front, or with another score.
LEMMA HeadFirst ==
  ASSUME EndTypes, QueueOK, page.pending # <<>>, NEW w, w = Head(page.pending)
  PROVE  /\ w \in Ending /\ w.game \in Games /\ w.number \in 1..Matches /\ w.score \in Scores
         /\ MayCome(w) /\ Ended(w.game, w.number)
         /\ \A e \in Ending : MayCome(e) /\ e.game = w.game =>
              e.number >= w.number /\ (e.number = w.number => e.score = w.score)
<1>1. page.pending \in Seq(Ending) /\ server \in [Games -> Match] BY DEF EndTypes, PageRecord
<1>2. 1 \in DOMAIN page.pending /\ w = page.pending[1] /\ w \in Ending BY <1>1
<1>3. w.game \in Games /\ w.number \in 1..Matches /\ w.score \in Scores BY <1>2 DEF Ending
<1>4. MayCome(w) BY <1>2 DEF MayCome
<1>5. Ended(w.game, w.number) /\ (w.number = server[w.game].number => w.score = server[w.game].score)
  BY <1>2 DEF QueueOK
<1>6. ASSUME NEW e \in Ending, MayCome(e), e.game = w.game
      PROVE  e.number >= w.number /\ (e.number = w.number => e.score = w.score)
  <2>1. e.number \in 1..Matches /\ server[w.game].number \in 1..Matches
    BY <1>1, <1>3 DEF Ending, Match
  <2>2. ASSUME NEW i \in DOMAIN page.pending, page.pending[i] = e
        PROVE  e.number >= w.number /\ (e.number = w.number => e.score = w.score)
    <3>1. CASE i = 1 BY <1>2, <1>3, <2>2, <3>1
    <3>2. CASE 1 < i
      <4>1. w.number <= e.number /\ (w.number = e.number => w.score = e.score)
        BY <1>2, <1>6, <2>2, <3>2 DEF QueueOK
      <4> QED BY <1>3, <2>1, <4>1
    <3>3. i = 1 \/ 1 < i BY <1>1
    <3> QED BY <3>1, <3>2, <3>3
  <2>3. CASE e.number > server[e.game].number BY <1>3, <1>5, <1>6, <2>1, <2>3 DEF Ended
  <2>4. CASE e.number = server[e.game].number /\ (server[e.game].stage = "over" => e.score = server[e.game].score)
    BY <1>3, <1>5, <1>6, <2>1, <2>4 DEF Ended
  <2> QED BY <1>6, <2>2, <2>3, <2>4 DEF MayCome
<1> QED BY <1>2, <1>3, <1>4, <1>5, <1>6

\* What drawing the table at hand does to the page.
LEMMA DrawnIs ==
  ASSUME EndTypes, NEW g \in Games, page' = Drawn(page, g, server[g])
  PROVE  /\ page' \in PageRecord
         /\ page'.outcomes = page.outcomes
         /\ server[g].stage = "play" =>
              /\ page'.up = Nothing /\ page'.shown = Nowhere /\ page'.pending = <<>>
              /\ page'.dismissed = page.dismissed \ {g}
              /\ page'.last = [page.last EXCEPT ![g] = Nothing]
         /\ server[g].stage # "play" =>
              /\ page'.up = page.up /\ page'.shown = page.shown
              /\ page'.dismissed = page.dismissed /\ page'.last = page.last
         /\ server[g].stage = "auction" => page'.pending = page.pending
         /\ server[g].stage = "over" => page'.pending \in {page.pending, Append(page.pending, EndingOf(g, server[g]))}
<1> DEFINE s == server[g]
           d == [game |-> g, stage |-> s.stage]
           t == [game |-> g, number |-> s.number, stage |-> s.stage]
           q == [page EXCEPT !.drawn = d, !.asked = FALSE]
           v == page.trick # Nothing /\ page.trick # t
           r == [q EXCEPT !.trick = t, !.revealing = v]
<1>1. page \in PageRecord /\ s \in Match /\ s.stage \in Stage /\ s.number \in 1..Matches /\ s.score \in Scores
  BY DEF EndTypes, Match, Stage
<1>2. d \in [game : Games, stage : Stage] /\ t \in [game : Games, number : 1..Matches, stage : Stage]
      /\ v \in BOOLEAN
  BY <1>1
<1>3. EndingOf(g, s) \in Ending BY <1>1 DEF EndingOf, Ending
<1>4. page' = CASE s.stage = "auction" -> q
                [] s.stage = "play" -> Reset(TrickDrawn(q, g, s), g)
                [] s.stage = "over" -> Celebrated(TrickDrawn(q, g, s), g, s)
  BY DEF Drawn
<1>5. q.trick = page.trick BY <1>1 DEF PageRecord
<1>6. TrickDrawn(q, g, s) = r BY <1>5 DEF TrickDrawn
<1> HIDE DEF d, t, v
<1>7. q \in PageRecord /\ r \in PageRecord BY <1>1, <1>2 DEF PageRecord
<1>8. /\ r.up = page.up /\ r.shown = page.shown /\ r.dismissed = page.dismissed /\ r.last = page.last
      /\ r.pending = page.pending /\ r.outcomes = page.outcomes
      /\ q.up = page.up /\ q.shown = page.shown /\ q.dismissed = page.dismissed /\ q.last = page.last
      /\ q.pending = page.pending /\ q.outcomes = page.outcomes
  BY <1>1 DEF PageRecord
<1> HIDE DEF q, r, s
<1>9. CASE s.stage = "auction"
  <2>1. page' = q BY <1>4, <1>9
  <2> QED BY <1>7, <1>8, <1>9, <2>1 DEF s
<1>10. CASE s.stage = "play"
  <2> DEFINE a == r.dismissed \ {g}
             b == [r.last EXCEPT ![g] = Nothing]
  <2>1. page' = Reset(r, g) BY <1>4, <1>6, <1>10
  <2>2. a \in SUBSET Games /\ b \in [Games -> Model \cup {Nothing}] BY <1>7 DEF PageRecord
  <2>3. page' = [[r EXCEPT !.dismissed = a, !.last = b]
                     EXCEPT !.up = Nothing, !.shown = Nowhere, !.pending = <<>>]
    BY <1>7, <2>1 DEF Reset, Closed, PageRecord
  <2>4. a = page.dismissed \ {g} /\ b = [page.last EXCEPT ![g] = Nothing] BY <1>8
  <2>5. <<>> \in Seq(Ending) OBVIOUS
  <2> HIDE DEF a, b
  <2>6. /\ page' \in PageRecord /\ page'.up = Nothing /\ page'.shown = Nowhere /\ page'.pending = <<>>
        /\ page'.dismissed = a /\ page'.last = b /\ page'.outcomes = r.outcomes
    BY <1>7, <2>2, <2>3, <2>5 DEF PageRecord
  <2> QED BY <1>8, <1>10, <2>4, <2>6 DEF s
<1>11. CASE s.stage = "over"
  <2> DEFINE x == Append(r.pending, EndingOf(g, s))
  <2>1. page' = Celebrated(r, g, s) BY <1>4, <1>6, <1>11
  <2>2. x \in Seq(Ending) BY <1>3, <1>7 DEF PageRecord
  <2>3. page' = r \/ page' = [r EXCEPT !.pending = x] BY <2>1 DEF Celebrated
  <2>4. x = Append(page.pending, EndingOf(g, server[g])) BY <1>8 DEF s
  <2> HIDE DEF x
  <2>5. CASE page' = r BY <1>7, <1>8, <1>11, <2>5 DEF s
  <2>6. CASE page' = [r EXCEPT !.pending = x]
    <3>1. /\ page' \in PageRecord /\ page'.up = r.up /\ page'.shown = r.shown /\ page'.pending = x
          /\ page'.dismissed = r.dismissed /\ page'.last = r.last /\ page'.outcomes = r.outcomes
      BY <1>7, <2>2, <2>6 DEF PageRecord
    <3> QED BY <1>8, <1>11, <2>4, <3>1 DEF s
  <2> QED BY <2>3, <2>5, <2>6
<1> QED BY <1>1, <1>9, <1>10, <1>11 DEF Stage

-----------------------------------------------------------------------------
(* The match at the server, and the drawing of its table *)

LEMMA PlayStep == MatchEndInv /\ (\E g \in Games : PlayOn(g)) => MatchEndInv'
<1> SUFFICES ASSUME MatchEndInv, NEW g \in Games, PlayOn(g) PROVE MatchEndInv' OBVIOUS
<1>1. EndTypes /\ QueueOK /\ ScreenOK /\ PutAwayOK BY DEF MatchEndInv
<1>2. UNCHANGED <<place, late, loading, page, device, visitor, counted, putAway, offered>> BY DEF PlayOn
<1>3. ComesLess /\ QueueOK' /\ \A h \in Games, n \in 1..Matches : Ended(h, n) => Ended(h, n)'
  BY <1>1, PlayedComes
<1>4. server' \in [Games -> Match] BY <1>1, PlayedOn
<1>5. EndTypes' BY <1>1, <1>2, <1>4 DEF EndTypes
<1>6. device'.goals = device.goals /\ device'.offer = device.offer /\ counted' = counted /\ offered' = offered
  BY <1>2
<1>7. \A h \in Games : Offers(h)' => Offers(h) BY <1>2 DEF Offers
<1>8. CountsOK' BY <1>3, <1>6, CountsKept DEF MatchEndInv
<1>9. EndedOK' /\ OfferOK' BY <1>3, <1>6, <1>7, OfferKept DEF MatchEndInv
<1>10. ScreenOK'
  <2>1. ASSUME NEW h \in Games, page.last[h] # Nothing 
        PROVE  page.last[h].game = h /\ Ended(h, page.last[h].number)'
    <3>1. page.last[h] \in Model BY <1>1, <2>1 DEF EndTypes, PageRecord
    <3>2. page.last[h].number \in 1..Matches BY <3>1, ModelIs
    <3>3. page.last[h].game = h /\ Ended(h, page.last[h].number) BY <1>1, <2>1 DEF ScreenOK
    <3> QED BY <1>2, <1>3, <3>2, <3>3
  <2> QED BY <1>1, <1>2, <2>1 DEF ScreenOK
<1>11. PutAwayOK'
  <2>1. \A h \in Games, n \in 1..Matches : HeldBack(h, n) => HeldBack(h, n)' BY <1>2 DEF HeldBack
  <2> QED BY <1>1, <1>2, <1>3, <2>1, PutAwayKept
<1> QED BY <1>3, <1>5, <1>8, <1>9, <1>10, <1>11 DEF MatchEndInv

\* What was put away and is taken from the page cannot come again, once the next match is played.
LEMMA PastWhenPlayed ==
  ASSUME EndTypes, QueueOK', ScreenOK, NEW g \in Games, NEW n \in 1..Matches,
         server' = server, server[g].stage = "play", page'.pending = <<>>, page'.last[g] = Nothing, HeldBack(g, n)
  PROVE  IsPast(g, n)'
<1>1. n < server[g].number BY DEF HeldBack, ScreenOK, Ended
<1>2. server[g].number \in 1..Matches BY DEF EndTypes, Match
<1>3. DOMAIN page'.pending = {} OBVIOUS
<1>4. ASSUME NEW e \in Ending, MayCome(e)', e.game = g PROVE e.number > n
  <2>1. e.number \in 1..Matches BY DEF Ending
  <2>2. e.number >= server[g].number BY <1>2, <1>3, <1>4, <2>1 DEF MayCome
  <2> QED BY <1>1, <1>2, <2>1, <2>2
<1> QED BY <1>4 DEF IsPast

LEMMA DrawStep == MatchEndInv /\ (\E g \in Games : Draw(g)) => MatchEndInv'
<1> SUFFICES ASSUME MatchEndInv, NEW g \in Games, Draw(g) PROVE MatchEndInv' OBVIOUS
<1>1. EndTypes /\ QueueOK /\ ScreenOK /\ PutAwayOK BY DEF MatchEndInv
<1>2. UNCHANGED <<server, place, device, visitor, counted, putAway, offered>>
      /\ late' \subseteq late /\ loading' \in BOOLEAN
  BY DEF Draw
<1>3. page' = Drawn(page, g, server[g]) BY DEF Draw
<1>4. page' \in PageRecord BY <1>1, <1>3, DrawnIs
<1>5. EndTypes' BY <1>1, <1>2, <1>4 DEF EndTypes
<1>6. server[g].stage \in Stage BY <1>1 DEF EndTypes, Match, Stage
<1>7. page.last \in [Games -> Model \cup {Nothing}] BY <1>1 DEF EndTypes, PageRecord
<1>8. ComesLess /\ QueueOK'
  <2>1. CASE server[g].stage = "auction"
    <3>1. page'.pending = page.pending BY <1>1, <1>3, <2>1, DrawnIs
    <3> QED BY <1>1, <1>2, <3>1, WaitLess
  <2>2. CASE server[g].stage = "play"
    <3>1. page'.pending = <<>> BY <1>1, <1>3, <2>2, DrawnIs
    <3> QED BY <1>1, <1>2, <3>1, WaitLess
  <2>3. CASE server[g].stage = "over"
    <3>1. page'.pending \in {page.pending, Append(page.pending, EndingOf(g, server[g]))}
      BY <1>1, <1>3, <2>3, DrawnIs
    <3> QED BY <1>1, <1>2, <2>3, <3>1, WaitLess, WaitMore
  <2> QED BY <1>6, <2>1, <2>2, <2>3 DEF Stage
<1>9. CASE server[g].stage = "play"
  <2>1. /\ page'.up = Nothing /\ page'.shown = Nowhere /\ page'.pending = <<>>
        /\ page'.dismissed = page.dismissed \ {g}
        /\ page'.last = [page.last EXCEPT ![g] = Nothing]
    BY <1>1, <1>3, <1>9, DrawnIs
  <2>2. page'.last[g] = Nothing /\ \A h \in Games : h # g => page'.last[h] = page.last[h] BY <1>7, <2>1
  <2>3. CountsOK' /\ EndedOK' /\ OfferOK'
    BY <1>2, <1>8, <2>2, PlayerKept DEF Offers
  <2>4. ScreenOK' BY <1>1, <1>2, <2>1, <2>2 DEF ScreenOK, Ended
  <2>5. ASSUME NEW h \in Games, NEW n \in 1..Matches, HeldBack(h, n)
        PROVE  HeldBack(h, n)' \/ IsPast(h, n)'
    <3>1. CASE h # g BY <2>1, <2>2, <2>5, <3>1 DEF HeldBack
    <3>2. CASE h = g BY <1>1, <1>2, <1>8, <1>9, <2>1, <2>2, <2>5, <3>2, PastWhenPlayed
    <3> QED BY <3>1, <3>2
  <2>6. PutAwayOK' BY <1>1, <1>2, <1>8, <2>2, <2>5, PutAwayKept
  <2> QED BY <1>5, <1>8, <2>3, <2>4, <2>6 DEF MatchEndInv
<1>10. CASE server[g].stage # "play"
  <2>1. /\ page'.up = page.up /\ page'.shown = page.shown
        /\ page'.dismissed = page.dismissed /\ page'.last = page.last
    BY <1>1, <1>3, <1>10, DrawnIs
  <2>2. CountsOK' /\ EndedOK' /\ OfferOK' BY <1>2, <1>8, <2>1, PlayerKept DEF Offers
  <2>3. ScreenOK' BY <1>1, <1>2, <2>1 DEF ScreenOK, Ended
  <2>4. \A h \in Games, n \in 1..Matches : HeldBack(h, n) => HeldBack(h, n)' BY <2>1 DEF HeldBack
  <2>5. PutAwayOK' BY <1>1, <1>2, <1>8, <2>1, <2>4, PutAwayKept
  <2> QED BY <1>5, <1>8, <2>2, <2>3, <2>5 DEF MatchEndInv
<1> QED BY <1>9, <1>10

-----------------------------------------------------------------------------
(* The player *)

LEMMA DismissStep == MatchEndInv /\ Dismiss => MatchEndInv'
<1> SUFFICES ASSUME MatchEndInv, Dismiss PROVE MatchEndInv' OBVIOUS
<1> DEFINE m == page.up
           a == page.dismissed \cup {m.game}
<1>1. EndTypes /\ QueueOK /\ ScreenOK /\ PutAwayOK BY DEF MatchEndInv
<1>2. /\ UNCHANGED <<server, place, late, loading, device, visitor, counted, offered>>
      /\ page' = [page EXCEPT !.up = Nothing, !.shown = Nowhere, !.dismissed = a]
      /\ putAway' = putAway \cup {<<m.game, m.number>>}
  BY DEF Dismiss
<1>3. page \in PageRecord /\ m \in Model BY <1>1 DEF Dismiss, EndTypes, PageRecord
<1>4. m.game \in Games /\ m.number \in 1..Matches BY <1>3, ModelIs
<1>5. a \in SUBSET Games BY <1>3, <1>4 DEF PageRecord
<1>6. page.last[m.game] = m /\ m # Nothing BY <1>1 DEF Dismiss, ScreenOK
<1> HIDE DEF m
<1>7. m.game \in a /\ \A g \in page.dismissed : g \in a OBVIOUS
<1> HIDE DEF a
<1>8. /\ page' \in PageRecord /\ page'.up = Nothing /\ page'.dismissed = a
      /\ page'.last = page.last /\ page'.pending = page.pending
  BY <1>2, <1>3, <1>5 DEF PageRecord
<1>9. EndTypes' BY <1>1, <1>2, <1>4, <1>8 DEF EndTypes, MatchSeen
<1>10. ComesLess /\ QueueOK' BY <1>1, <1>2, <1>8, WaitLess
<1>11. CountsOK' /\ EndedOK' /\ OfferOK' BY <1>2, <1>8, <1>10, PlayerKept DEF Offers
<1>12. ScreenOK' BY <1>1, <1>2, <1>8 DEF ScreenOK, Ended
<1>13. PutAwayOK'
  <2> SUFFICES ASSUME NEW g \in Games, NEW n \in 1..Matches, <<g, n>> \in putAway'
               PROVE  HeldBack(g, n)' \/ IsPast(g, n)'
    BY DEF PutAwayOK
  <2>1. CASE g = m.game /\ n = m.number BY <1>6, <1>7, <1>8, <2>1 DEF HeldBack
  <2>2. CASE <<g, n>> \in putAway
    <3>1. HeldBack(g, n) => HeldBack(g, n)' BY <1>7, <1>8 DEF HeldBack
    <3>2. IsPast(g, n) => IsPast(g, n)' BY <1>8, <1>10, PastKept
    <3> QED BY <1>1, <2>2, <3>1, <3>2 DEF PutAwayOK
  <2> QED BY <1>2, <2>1, <2>2
<1> QED BY <1>9, <1>10, <1>11, <1>12, <1>13 DEF MatchEndInv

LEMMA ResultsStep == MatchEndInv /\ Results => MatchEndInv'
<1> SUFFICES ASSUME MatchEndInv, Results PROVE MatchEndInv' OBVIOUS
<1> DEFINE m == page.last[place]
           a == page.dismissed \ {place}
           l == [page.last EXCEPT ![place] = m]
<1>1. EndTypes /\ QueueOK /\ ScreenOK /\ PutAwayOK BY DEF MatchEndInv
<1>2. page \in PageRecord /\ place \in Games \cup {Elsewhere} BY <1>1 DEF EndTypes
<1>3. place \in Games
  <2>1. page.drawn = [game |-> place, stage |-> "over"] BY DEF Results, EndOf
  <2>2. page.drawn \in [game : Games, stage : Stage] \cup {Nothing} BY <1>2 DEF PageRecord
  <2>3. page.drawn # Nothing
    <3>1. DOMAIN page.drawn = {"game", "stage"} /\ DOMAIN Nothing = {"game"} BY <2>1 DEF Nothing
    <3> QED BY <3>1
  <2> QED BY <2>1, <2>2, <2>3
<1>4. m # Nothing /\ m \in Model /\ m.game = place
  BY <1>1, <1>2, <1>3 DEF Results, PageRecord, ScreenOK
<1>5. m.number \in 1..Matches BY <1>4, ModelIs
<1>6. l = page.last BY <1>2, <1>3 DEF PageRecord
<1>7. /\ UNCHANGED <<server, place, late, loading, device, visitor, counted, offered>>
      /\ putAway' = putAway \ {<<m.game, m.number>>}
      /\ page' = Opened([page EXCEPT !.dismissed = a], m)
  BY DEF Results
<1>8. place \notin a /\ a \subseteq page.dismissed /\ \A g \in page.dismissed : g # place => g \in a OBVIOUS
<1> HIDE DEF m, a
<1>9. page' = [[page EXCEPT !.dismissed = a] EXCEPT !.up = m, !.shown = place, !.last = l]
  BY <1>2, <1>4, <1>7 DEF Opened, PageRecord
<1>10. a \in SUBSET Games BY <1>2, <1>8 DEF PageRecord
<1> HIDE DEF l
<1>11. /\ page' \in PageRecord /\ page'.up = m /\ page'.shown = place /\ page'.dismissed = a
       /\ page'.last = page.last /\ page'.pending = page.pending
  BY <1>2, <1>3, <1>4, <1>6, <1>9, <1>10 DEF PageRecord
<1>12. EndTypes' BY <1>1, <1>7, <1>11 DEF EndTypes
<1>13. ComesLess /\ QueueOK' BY <1>1, <1>7, <1>11, WaitLess
<1>14. CountsOK' /\ EndedOK' /\ OfferOK' BY <1>7, <1>11, <1>13, PlayerKept DEF Offers
<1>15. ScreenOK' BY <1>1, <1>4, <1>7, <1>8, <1>11 DEF ScreenOK, Ended, m
<1>16. PutAwayOK'
  <2>1. ASSUME NEW g \in Games, NEW n \in 1..Matches, <<g, n>> \in putAway', HeldBack(g, n)
        PROVE  HeldBack(g, n)'
    <3>1. g # place BY <1>4, <1>7, <2>1 DEF HeldBack, m
    <3> QED BY <1>8, <1>11, <2>1, <3>1 DEF HeldBack
  <2> QED BY <1>1, <1>7, <1>11, <1>13, <2>1, PutAwayKept
<1> QED BY <1>12, <1>13, <1>14, <1>15, <1>16 DEF MatchEndInv

LEMMA PlayAgainStep == MatchEndInv /\ PlayAgain => MatchEndInv'
<1> SUFFICES ASSUME MatchEndInv, PlayAgain PROVE MatchEndInv' OBVIOUS
<1> DEFINE g == page.up.game
           a == page.dismissed \ {g}
           l == [page.last EXCEPT ![g] = Nothing]
<1>1. EndTypes /\ QueueOK /\ ScreenOK /\ PutAwayOK BY DEF MatchEndInv
<1>2. page \in PageRecord /\ page.up \in Model /\ page.up # Nothing
  BY <1>1 DEF EndTypes, PageRecord, PlayAgain
<1>3. g \in Games /\ g \notin page.dismissed BY <1>1, <1>2, ModelIs DEF ScreenOK
<1>4. /\ UNCHANGED <<server, place, late, device, visitor, counted, putAway, offered>>
      /\ loading' \in {loading, place = page.up.game}
      /\ page' = [Reset(page, g) EXCEPT !.asked = TRUE]
  BY DEF PlayAgain
<1>5. loading' \in BOOLEAN BY <1>1, <1>4 DEF EndTypes
<1> HIDE DEF g
<1>6. a = page.dismissed BY <1>3
<1>7. l \in [Games -> Model \cup {Nothing}] /\ l[g] = Nothing /\ \A h \in Games : h # g => l[h] = page.last[h]
  BY <1>2, <1>3 DEF PageRecord
<1>8. Reset(page, g) = Closed([page EXCEPT !.dismissed = a, !.last = l])
  BY <1>2 DEF Reset, PageRecord
<1> HIDE DEF a, l
<1>9. page' = [[page EXCEPT !.dismissed = a, !.last = l]
                   EXCEPT !.up = Nothing, !.shown = Nowhere, !.pending = <<>>, !.asked = TRUE]
  BY <1>2, <1>4, <1>6, <1>7, <1>8 DEF Closed, PageRecord
<1>10. <<>> \in Seq(Ending) /\ a \in SUBSET Games BY <1>2, <1>6 DEF PageRecord
<1>11. /\ page' \in PageRecord /\ page'.up = Nothing /\ page'.dismissed = page.dismissed
       /\ page'.last = l /\ page'.pending = <<>>
  BY <1>2, <1>6, <1>7, <1>9, <1>10 DEF PageRecord
<1>12. EndTypes' BY <1>1, <1>4, <1>5, <1>11 DEF EndTypes
<1>13. ComesLess /\ QueueOK' BY <1>1, <1>4, <1>11, WaitLess
<1>14. CountsOK' /\ EndedOK' /\ OfferOK' BY <1>4, <1>7, <1>11, <1>13, PlayerKept DEF Offers
<1>15. ScreenOK' BY <1>1, <1>4, <1>7, <1>11 DEF ScreenOK, Ended
<1>16. PutAwayOK'
  <2>1. \A h \in Games, n \in 1..Matches : HeldBack(h, n) => HeldBack(h, n)'
    BY <1>3, <1>7, <1>11 DEF HeldBack
  <2> QED BY <1>1, <1>4, <1>7, <1>11, <1>13, <2>1, PutAwayKept
<1> QED BY <1>12, <1>13, <1>14, <1>15, <1>16 DEF MatchEndInv

LEMMA GoStep == MatchEndInv /\ (\E p \in Games \cup {Elsewhere} : Go(p)) => MatchEndInv'
<1> SUFFICES ASSUME MatchEndInv, NEW p \in Games \cup {Elsewhere}, Go(p) PROVE MatchEndInv' OBVIOUS
<1>1. EndTypes /\ QueueOK /\ ScreenOK /\ PutAwayOK BY DEF MatchEndInv
<1>2. page \in PageRecord BY <1>1 DEF EndTypes
<1>3. /\ UNCHANGED <<server, device, visitor, counted, putAway, offered>>
      /\ page' = [Closed(page) EXCEPT !.drawn = Nothing, !.asked = FALSE]
  BY DEF Go
<1>4. place' \in Games \cup {Elsewhere} /\ loading' \in BOOLEAN /\ late' \subseteq Games
  BY <1>1 DEF Go, EndTypes
<1>5. <<>> \in Seq(Ending) OBVIOUS
<1>6. /\ page' \in PageRecord /\ page'.up = Nothing /\ page'.dismissed = page.dismissed
      /\ page'.last = page.last /\ page'.pending = <<>>
  BY <1>2, <1>3, <1>5 DEF PageRecord, Closed
<1>7. EndTypes' BY <1>1, <1>3, <1>4, <1>6 DEF EndTypes
<1>8. ComesLess /\ QueueOK' BY <1>1, <1>3, <1>6, WaitLess
<1>9. CountsOK' /\ EndedOK' /\ OfferOK' BY <1>3, <1>6, <1>8, PlayerKept DEF Offers
<1>10. ScreenOK' BY <1>1, <1>3, <1>6 DEF ScreenOK, Ended
<1>11. \A g \in Games, n \in 1..Matches : HeldBack(g, n) => HeldBack(g, n)' BY <1>6 DEF HeldBack
<1>12. PutAwayOK' BY <1>1, <1>3, <1>6, <1>8, <1>11, PutAwayKept
<1> QED BY <1>7, <1>8, <1>9, <1>10, <1>12 DEF MatchEndInv

LEMMA CreateAccountStep == MatchEndInv /\ CreateAccount => MatchEndInv'
<1> SUFFICES ASSUME MatchEndInv, CreateAccount PROVE MatchEndInv' OBVIOUS
<1> DEFINE g == page.up.game
           m == [page.last[g] EXCEPT !.offer = FALSE]
           l == [page.last EXCEPT ![g] = m]
<1>1. EndTypes /\ QueueOK /\ ScreenOK /\ PutAwayOK BY DEF MatchEndInv
<1>2. page \in PageRecord /\ page.up \in Model /\ page.up # Nothing
  BY <1>1 DEF EndTypes, PageRecord, CreateAccount
<1>3. g \in Games /\ g \notin page.dismissed /\ page.last[g] = page.up BY <1>1, <1>2, ModelIs DEF ScreenOK
<1>4. UNCHANGED <<server, late, device, visitor, counted, putAway, offered>>
      /\ place' \in Games \cup {Elsewhere} /\ loading' \in BOOLEAN
  BY DEF CreateAccount
<1>5. m \in Model /\ m.game = g /\ m.number = page.last[g].number /\ ~m.offer /\ page.last[g].game = g
  BY <1>2, <1>3 DEF Model
<1>6. page' = [Closed(page) EXCEPT !.last[g].offer = FALSE, !.drawn = Nothing] BY DEF CreateAccount
<1>7. Closed(page).last = page.last BY <1>2 DEF Closed, PageRecord
<1>8. page' = [Closed(page) EXCEPT !.last = l, !.drawn = Nothing]
  BY <1>2, <1>3, <1>6, <1>7 DEF Closed, PageRecord
<1> HIDE DEF g
<1>9. page.last[g] # Nothing BY <1>2, <1>3
<1> HIDE DEF m
<1>10. l \in [Games -> Model \cup {Nothing}] /\ l[g] = m /\ \A h \in Games : h # g => l[h] = page.last[h]
  BY <1>2, <1>3, <1>5 DEF PageRecord
<1> HIDE DEF l
<1>11. <<>> \in Seq(Ending) OBVIOUS
<1>12. /\ page' \in PageRecord /\ page'.up = Nothing /\ page'.dismissed = page.dismissed
       /\ page'.last = l /\ page'.pending = <<>>
  BY <1>2, <1>8, <1>10, <1>11 DEF PageRecord, Closed
<1>13. EndTypes' BY <1>1, <1>4, <1>12 DEF EndTypes
<1>14. ComesLess /\ QueueOK' BY <1>1, <1>4, <1>12, WaitLess
<1>15. \A h \in Games : Offers(h)' => Offers(h) BY <1>5, <1>10, <1>12 DEF Offers
<1>16. CountsOK' /\ EndedOK' /\ OfferOK' BY <1>4, <1>14, <1>15, PlayerKept
<1>17. ScreenOK'
  <2> SUFFICES ASSUME NEW h \in Games, l[h] # Nothing
               PROVE  l[h].game = h /\ Ended(h, l[h].number)
    BY <1>4, <1>12 DEF ScreenOK, Ended
  <2>1. CASE h = g BY <1>1, <1>3, <1>5, <1>9, <1>10, <2>1 DEF ScreenOK
  <2>2. CASE h # g BY <1>1, <1>10, <2>2 DEF ScreenOK
  <2> QED BY <2>1, <2>2
<1>18. PutAwayOK'
  <2>1. \A h \in Games, n \in 1..Matches : HeldBack(h, n) => HeldBack(h, n)'
    BY <1>3, <1>10, <1>12 DEF HeldBack
  <2>2. \A h \in Games : page'.last[h] # Nothing =>
          page.last[h] # Nothing /\ page'.last[h].number = page.last[h].number
    BY <1>5, <1>9, <1>10, <1>12
  <2> QED BY <1>1, <1>4, <1>12, <1>14, <2>1, <2>2, PutAwayKept
<1> QED BY <1>13, <1>14, <1>16, <1>17, <1>18 DEF MatchEndInv

\* "Not now" ends the count: none of the other screens of the tab offers an account, as long as
\* all of the matches seen to end were at one table.
LEMMA NotNowStep == MatchEndInv /\ NotNow => MatchEndInv'
<1> SUFFICES ASSUME MatchEndInv, NotNow PROVE MatchEndInv' OBVIOUS
<1> DEFINE g == page.up.game
           m == [page.up EXCEPT !.offer = FALSE]
           l == [page.last EXCEPT ![g] = m]
           o == [device.offer EXCEPT !.dismissedAt = device.offer.matches]
           c == Cardinality(offered.ended)
<1>1. EndTypes /\ QueueOK /\ ScreenOK /\ PutAwayOK /\ EndedOK /\ OfferOK /\ CountsOK BY DEF MatchEndInv
<1>2. page \in PageRecord /\ page.up \in Model /\ page.up # Nothing /\ page.up.offer
  BY <1>1 DEF EndTypes, PageRecord, NotNow
<1>3. g \in Games /\ g \notin page.dismissed /\ page.last[g] = page.up /\ page.shown = g
  BY <1>1, <1>2, ModelIs DEF ScreenOK
<1>4. Offers(g) BY <1>2, <1>3 DEF Offers
<1>5. m \in Model /\ m.game = g /\ m.number = page.last[g].number /\ ~m.offer
  BY <1>2, <1>3 DEF Model
<1>6. /\ UNCHANGED <<server, place, late, loading, visitor, counted, putAway>>
      /\ page' = [page EXCEPT !.up = m, !.last = l]
      /\ device' = [device EXCEPT !.offer.dismissedAt = device.offer.matches]
      /\ offered' = [offered EXCEPT !.before = c]
  BY <1>2, <1>5 DEF NotNow, PageRecord
<1>7. device \in [goals : GoalsRecord, offer : OfferRecord] /\ device.offer \in OfferRecord
  BY <1>1 DEF EndTypes
<1>8. device' = [device EXCEPT !.offer = o] BY <1>6, <1>7
<1>9. c \in Nat BY <1>1, FS_CardinalityType DEF EndTypes
<1>10. /\ o \in OfferRecord /\ o.dismissedAt = device.offer.matches /\ o.matches = device.offer.matches
       /\ o.last = device.offer.last /\ device.offer.matches \in Nat
  BY <1>7 DEF OfferRecord
<1> HIDE DEF g
<1>11. page.last[g] # Nothing BY <1>2, <1>3
<1> HIDE DEF m, o, c
<1>12. l \in [Games -> Model \cup {Nothing}] /\ l[g] = m /\ \A h \in Games : h # g => l[h] = page.last[h]
  BY <1>2, <1>3, <1>5 DEF PageRecord
<1> HIDE DEF l
<1>13. /\ page' \in PageRecord /\ page'.up = m /\ page'.dismissed = page.dismissed
       /\ page'.last = l /\ page'.pending = page.pending /\ page'.shown = page.shown
  BY <1>2, <1>5, <1>6, <1>12 DEF PageRecord
<1>14. /\ device' \in [goals : GoalsRecord, offer : OfferRecord]
       /\ device'.goals = device.goals /\ device'.offer = o
  BY <1>7, <1>8, <1>10
<1>15. offered' \in [ended : SUBSET MatchSeen, before : Nat]
       /\ offered'.ended = offered.ended /\ offered'.before = c
  BY <1>1, <1>6, <1>9 DEF EndTypes
<1>16. EndTypes' BY <1>1, <1>6, <1>13, <1>14, <1>15 DEF EndTypes
<1>17. ComesLess /\ QueueOK' BY <1>1, <1>6, <1>13, WaitLess
<1>18. \A h \in Games : Offers(h)' => Offers(h) /\ h # g BY <1>5, <1>12, <1>13 DEF Offers
<1>19. CountsOK' BY <1>1, <1>6, <1>14, <1>17, CountsKept
<1>20. EndedOK' BY <1>1, <1>15, <1>17, <1>18 DEF EndedOK, ComesLess
<1>21. OfferOK'
  <2> SUFFICES ASSUME AtOneTable'
               PROVE  /\ o.matches - o.dismissedAt <= c - c
                      /\ \A h \in Games : ~Offers(h)'
                      /\ \A e \in Ending : MayCome(e)' /\ <<e.game, e.number>> \in offered.ended =>
                           SignatureOf(e) = o.last
    BY <1>14, <1>15 DEF OfferOK, Since, c
  <2>1. AtOneTable BY <1>15 DEF AtOneTable
  <2>2. o.matches - o.dismissedAt <= c - c BY <1>9, <1>10
  <2>3. ASSUME NEW h \in Games, Offers(h)' PROVE FALSE
    <3>1. Offers(h) /\ h # g BY <1>18, <2>3
    <3>2. PICK n \in 1..Matches : <<g, n>> \in offered.ended BY <1>1, <1>3, <1>4 DEF EndedOK
    <3>3. PICK k \in 1..Matches : <<h, k>> \in offered.ended BY <1>1, <3>1 DEF EndedOK
    <3>4. <<g, n>>[1] = <<h, k>>[1] BY <2>1, <3>2, <3>3 DEF AtOneTable
    <3> QED BY <3>1, <3>4
  <2>4. \A e \in Ending : MayCome(e)' /\ <<e.game, e.number>> \in offered.ended => SignatureOf(e) = o.last
    BY <1>1, <1>10, <1>17, <2>1 DEF OfferOK, ComesLess
  <2> QED BY <2>2, <2>3, <2>4
<1>22. ScreenOK'
  <2>1. ASSUME NEW h \in Games, l[h] # Nothing
        PROVE  l[h].game = h /\ Ended(h, l[h].number)
    <3>1. CASE h = g BY <1>1, <1>3, <1>5, <1>11, <1>12, <3>1 DEF ScreenOK
    <3>2. CASE h # g BY <1>1, <1>12, <2>1, <3>2 DEF ScreenOK
    <3> QED BY <3>1, <3>2
  <2> QED BY <1>3, <1>5, <1>6, <1>12, <1>13, <2>1 DEF ScreenOK, Ended
<1>23. PutAwayOK'
  <2>1. \A h \in Games, n \in 1..Matches : HeldBack(h, n) => HeldBack(h, n)'
    BY <1>3, <1>12, <1>13 DEF HeldBack
  <2>2. \A h \in Games : page'.last[h] # Nothing =>
          page.last[h] # Nothing /\ page'.last[h].number = page.last[h].number
    BY <1>5, <1>11, <1>12, <1>13
  <2> QED BY <1>1, <1>6, <1>17, <2>1, <2>2, PutAwayKept
<1> QED BY <1>16, <1>17, <1>19, <1>20, <1>21, <1>22, <1>23 DEF MatchEndInv

\* A page that is loaded again forgets what waited, what was shown and what was put away.
LEMMA NewPageKept ==
  ASSUME MatchEndInv, page' = NewPage, UNCHANGED <<server, place, device, counted, offered>>,
         putAway' = {}, late' = {}, loading' \in BOOLEAN,
         visitor' \in [session : BOOLEAN, signedIn : BOOLEAN, goals : {"unknown", "device", "account"}]
  PROVE  MatchEndInv'
<1>1. EndTypes /\ QueueOK BY DEF MatchEndInv
<1>2. <<>> \in Seq(Ending) OBVIOUS
<1>3. /\ page' \in PageRecord /\ page'.up = Nothing /\ page'.dismissed = {} /\ page'.pending = <<>>
      /\ \A g \in Games : page'.last[g] = Nothing
  BY <1>2 DEF NewPage, PageRecord
<1>4. EndTypes' BY <1>1, <1>3 DEF EndTypes
<1>5. ComesLess /\ QueueOK' BY <1>1, <1>3, WaitLess
<1>6. CountsOK' /\ EndedOK' /\ OfferOK' BY <1>3, <1>5, PlayerKept DEF Offers
<1>7. ScreenOK' /\ PutAwayOK' BY <1>3 DEF ScreenOK, PutAwayOK
<1> QED BY <1>4, <1>5, <1>6, <1>7 DEF MatchEndInv

LEMMA ReloadStep == MatchEndInv /\ Reload => MatchEndInv'
<1> SUFFICES ASSUME MatchEndInv, Reload PROVE MatchEndInv' OBVIOUS
<1>1. visitor' \in [session : BOOLEAN, signedIn : BOOLEAN, goals : {"unknown", "device", "account"}]
  BY DEF Reload, MatchEndInv, EndTypes
<1> QED BY <1>1, NewPageKept DEF Reload

LEMMA SignOutStep == MatchEndInv /\ SignOut => MatchEndInv'
<1> SUFFICES ASSUME MatchEndInv, SignOut PROVE MatchEndInv' OBVIOUS
<1>1. visitor' \in [session : BOOLEAN, signedIn : BOOLEAN, goals : {"unknown", "device", "account"}]
  BY DEF SignOut
<1>2. loading' \in BOOLEAN BY DEF SignOut, MatchEndInv, EndTypes
<1> QED BY <1>1, <1>2, NewPageKept DEF SignOut

\* The visitor is not part of what holds.
LEMMA VisitorStep ==
  ASSUME MatchEndInv, UNCHANGED <<server, place, late, loading, page, device, counted, putAway, offered>>,
         visitor' \in [session : BOOLEAN, signedIn : BOOLEAN, goals : {"unknown", "device", "account"}]
  PROVE  MatchEndInv'
<1>1. EndTypes /\ QueueOK /\ ScreenOK /\ PutAwayOK BY DEF MatchEndInv
<1>2. EndTypes' BY <1>1 DEF EndTypes
<1>3. ComesLess /\ QueueOK' BY <1>1, WaitLess
<1>4. CountsOK' /\ EndedOK' /\ OfferOK' BY <1>3, PlayerKept DEF Offers
<1>5. ScreenOK' BY <1>1 DEF ScreenOK, Ended
<1>6. \A g \in Games, n \in 1..Matches : HeldBack(g, n) => HeldBack(g, n)' BY DEF HeldBack
<1>7. PutAwayOK' BY <1>1, <1>3, <1>6, PutAwayKept
<1> QED BY <1>2, <1>3, <1>4, <1>5, <1>7 DEF MatchEndInv

-----------------------------------------------------------------------------
(* What the ledger keeps *)

LEMMA KeepIs == Keep \in Nat /\ Keep >= 1 /\ Cooldown \in Nat /\ Matches \in Nat
BY MatchEndAssumption

LEMMA FirstIs ==
  ASSUME NEW S, NEW s \in Seq(S), NEW n \in Nat, n >= 1
  PROVE  /\ FirstOf(s, n) \in Seq(S) /\ Len(FirstOf(s, n)) = AtMost(Len(s), n)
         /\ \A d \in 1..AtMost(Len(s), n) : FirstOf(s, n)[d] = s[d]
<1> DEFINE b == IF Len(s) < n THEN Len(s) ELSE n
<1>1. Len(s) \in Nat /\ \A i \in 1..Len(s) : s[i] \in S OBVIOUS
<1>2. b \in Int /\ b = AtMost(Len(s), n) /\ b <= Len(s) /\ b >= 0 /\ (b = 0 => Len(s) = 0) BY <1>1 DEF AtMost
<1>3. FirstOf(s, n) = SubSeq(s, 1, b) BY DEF FirstOf
<1> HIDE DEF b
<1>4. \A i \in 1..b : s[i] \in S BY <1>1, <1>2
<1>5. 1 \in Int OBVIOUS
<1>6. /\ SubSeq(s, 1, b) \in Seq(S) /\ Len(SubSeq(s, 1, b)) = IF 1 <= b THEN b - 1 + 1 ELSE 0
      /\ \A i \in 1..(b - 1 + 1) : SubSeq(s, 1, b)[i] = s[1 + i - 1]
  BY <1>2, <1>4, <1>5, SubSeqProperties
<1>7. Len(SubSeq(s, 1, b)) = b BY <1>2, <1>6
<1>8. \A i \in 1..b : SubSeq(s, 1, b)[i] = s[i]
  <2> TAKE i \in 1..b
  <2>1. i \in 1..(b - 1 + 1) /\ 1 + i - 1 = i BY <1>2
  <2> QED BY <1>6, <2>1
<1> QED BY <1>2, <1>3, <1>6, <1>7, <1>8

LEMMA LastIs ==
  ASSUME NEW S, NEW s \in Seq(S), NEW n \in Nat, n >= 1
  PROVE  /\ LastOf(s, n) \in Seq(S) /\ Len(LastOf(s, n)) = AtMost(Len(s), n)
         /\ \A d \in 1..AtMost(Len(s), n) : LastOf(s, n)[d] = s[Len(s) - AtMost(Len(s), n) + d]
<1> DEFINE a == IF Len(s) > n THEN Len(s) - n + 1 ELSE 1
           k == AtMost(Len(s), n)
           l == Len(s)
<1>1. l \in Nat /\ \A i \in 1..l : s[i] \in S OBVIOUS
<1>2. a \in Int /\ k \in Nat /\ a = l - k + 1 /\ a >= 1 BY <1>1 DEF AtMost
<1>3. LastOf(s, n) = SubSeq(s, a, l) BY DEF LastOf
<1> HIDE DEF a, k, l
<1>4. \A i \in a..l : s[i] \in S BY <1>1, <1>2
<1>5. /\ SubSeq(s, a, l) \in Seq(S) /\ Len(SubSeq(s, a, l)) = IF a <= l THEN l - a + 1 ELSE 0
      /\ \A i \in 1..(l - a + 1) : SubSeq(s, a, l)[i] = s[a + i - 1]
  BY <1>1, <1>2, <1>4, SubSeqProperties
<1>6. Len(SubSeq(s, a, l)) = k BY <1>1, <1>2, <1>5
<1>7. \A i \in 1..k : SubSeq(s, a, l)[i] = s[l - k + i]
  <2> TAKE i \in 1..k
  <2>1. i \in 1..(l - a + 1) /\ a + i - 1 = l - k + i BY <1>1, <1>2
  <2> QED BY <1>5, <2>1
<1> QED BY <1>3, <1>5, <1>6, <1>7 DEF k, l

\* The matches won, one more or not.
LEMMA WonMore ==
  ASSUME NEW c \in Seq(CountedMatch),
         NEW x \in CountedMatch
  PROVE  Cardinality({i \in DOMAIN Append(c, x) : Append(c, x)[i].won}) =
           Cardinality({i \in DOMAIN c : c[i].won}) + (IF x.won THEN 1 ELSE 0)
<1> DEFINE d == Append(c, x)
           n == Len(c)
           W == {i \in DOMAIN c : c[i].won}
           V == {i \in DOMAIN d : d[i].won}
<1>1. n \in Nat /\ DOMAIN c = 1..n /\ DOMAIN d = 1..(n + 1) /\ d[n + 1] = x /\ \A i \in 1..n : d[i] = c[i]
  OBVIOUS
<1> HIDE DEF d, n
<1>2. IsFiniteSet(1..n) BY <1>1, FS_Interval
<1>3. IsFiniteSet(W) BY <1>1, <1>2, FS_Subset
<1>4. n + 1 \notin W BY <1>1
<1>5. \A i \in 1..(n + 1) : i \in 1..n \/ i = n + 1 BY <1>1
<1>6. \A i \in 1..n : i \in 1..(n + 1) BY <1>1
<1>7. n + 1 \in 1..(n + 1) BY <1>1
<1>8. ASSUME x.won PROVE Cardinality(V) = Cardinality(W) + 1
  <2>1. V = W \cup {n + 1} BY <1>1, <1>5, <1>6, <1>7, <1>8
  <2> HIDE DEF V, W
  <2> QED BY <1>3, <1>4, <2>1, FS_AddElement
<1>9. ASSUME ~x.won PROVE Cardinality(V) = Cardinality(W) + 0
  <2>1. V = W BY <1>1, <1>5, <1>6, <1>7, <1>9
  <2>2. Cardinality(W) \in Nat BY <1>3, FS_CardinalityType
  <2> HIDE DEF V, W
  <2> QED BY <2>1, <2>2
<1> HIDE DEF V, W
<1>10. Cardinality(V) = Cardinality(W) + (IF x.won THEN 1 ELSE 0) BY <1>8, <1>9
<1> QED BY <1>10 DEF V, W, d

\* The match at the front is counted, after all those that were.
LEMMA CountedMore ==
  ASSUME EndTypes, QueueOK, CountsOK, ComesLess, page.pending # <<>>, NEW w, w = Head(page.pending),
         SignatureOf(w) \notin Range(device.goals.seen), NEW x,
         x = [game |-> w.game, number |-> w.number, won |-> Won(w.score)],
         counted' = Append(counted, x)
  PROVE  CountedOK' /\ CountedOnce'
<1> DEFINE c == counted
           n == Len(counted)
           seen == device.goals.seen
<1>1. c \in Seq(CountedMatch) /\ seen \in Seq(Signature)
  BY DEF EndTypes, GoalsRecord
<1>2. /\ w \in Ending /\ w.game \in Games /\ w.number \in 1..Matches /\ w.score \in Scores
      /\ MayCome(w)
      /\ \A e \in Ending : MayCome(e) /\ e.game = w.game =>
           e.number >= w.number /\ (e.number = w.number => e.score = w.score)
  BY HeadFirst
<1>3. x.game = w.game /\ x.number = w.number BY <1>2
<1>4. /\ n \in Nat /\ DOMAIN c = 1..n /\ DOMAIN counted' = 1..(n + 1)
      /\ counted'[n + 1] = x /\ \A i \in 1..n : counted'[i] = c[i]
  BY <1>1, <1>2 DEF Won
<1>5. \A i \in 1..n : c[i].number \in 1..Matches
  <2>1. \A i \in 1..n : c[i] \in CountedMatch BY <1>1, ElementOfSeq
  <2> HIDE DEF c, n
  <2> QED BY <2>1 DEF CountedMatch
<1>6. CountedOK /\ CountedOnce /\ WindowOK BY DEF CountsOK
<1>7. Len(seen) = AtMost(n, Keep) /\ Keep \in Nat /\ Keep >= 1 BY <1>6, KeepIs DEF WindowOK
<1>8. DOMAIN seen = 1..Len(seen) /\ Len(seen) \in Nat BY <1>1
<1> HIDE DEF c, n, seen
<1>9. \A i \in 1..n : c[i].game = w.game => c[i].number <= w.number
  BY <1>2, <1>4, <1>5, <1>6 DEF CountedOK, c
<1>10. CountedOK'
  <2>1. ASSUME NEW i \in DOMAIN counted', NEW e \in Ending, MayCome(e)', e.game = counted'[i].game
        PROVE  e.number >= counted'[i].number
    <3>1. MayCome(e) BY <2>1 DEF ComesLess
    <3>2. CASE i = n + 1 BY <1>2, <1>3, <1>4, <2>1, <3>1, <3>2
    <3>3. CASE i \in 1..n BY <1>4, <1>6, <2>1, <3>1, <3>3 DEF CountedOK, c
    <3> QED BY <1>4, <3>2, <3>3
  <2>2. ASSUME NEW i \in DOMAIN counted', NEW j \in DOMAIN counted', i < j,
               counted'[i].game = counted'[j].game
        PROVE  counted'[i].number <= counted'[j].number
    <3>1. i \in 1..n BY <1>4, <2>2
    <3>2. CASE j = n + 1 BY <1>3, <1>4, <1>9, <2>2, <3>1, <3>2
    <3>3. CASE j \in 1..n BY <1>4, <1>6, <2>2, <3>1, <3>3 DEF CountedOK, c
    <3> QED BY <1>4, <3>2, <3>3
  <2> QED BY <2>1, <2>2 DEF CountedOK
\* None of those the ledger still keeps is this match.
<1>11. ASSUME NEW k \in 1..n, n + 1 <= k + Keep, c[k].game = w.game, c[k].number = w.number PROVE FALSE
  <2> DEFINE d == k - n + Len(seen)
  <2>1. d \in 1..Len(seen) /\ n - Len(seen) + d = k BY <1>4, <1>7, <1>11 DEF AtMost
  <2> HIDE DEF d
  <2>2. SameMatch(w, c[n - Len(seen) + d]) BY <1>11, <2>1 DEF SameMatch
  <2>3. SignatureOf(w) = seen[d] BY <1>2, <1>6, <1>8, <2>1, <2>2 DEF WindowOK, c, n, seen
  <2>4. seen[d] \in Range(seen) BY <1>8, <2>1 DEF Range
  <2> QED BY <2>3, <2>4 DEF seen
<1>12. ASSUME NEW i \in 1..n, c[i].game = w.game, c[i].number = w.number,
              NEW k \in 1..n, n + 1 <= k + Keep, c[k].game = w.game
       PROVE  FALSE
  <2>1. CASE k < i
    <3>1. n + 1 <= i + Keep BY <1>4, <1>7, <1>12, <2>1
    <3> QED BY <1>11, <1>12, <3>1
  <2>2. CASE k = i BY <1>11, <1>12, <2>2
  <2>3. CASE i < k
    <3>1. c[i].number <= c[k].number BY <1>4, <1>6, <1>12, <2>3 DEF CountedOK, c
    <3>2. c[k].number <= w.number BY <1>9, <1>12
    <3>3. c[k].number = w.number BY <1>2, <1>5, <1>12, <3>1, <3>2
    <3> QED BY <1>11, <1>12, <3>3
  <2> QED BY <1>4, <2>1, <2>2, <2>3
<1>13. CountedOnce'
  <2> SUFFICES ASSUME NEW i \in DOMAIN counted', NEW j \in DOMAIN counted', i < j,
                      SameMatch(counted'[i], counted'[j]), NEW k \in DOMAIN counted', k < j, j <= k + Keep
               PROVE  counted'[k].game # counted'[j].game
    BY DEF CountedOnce, SameMatch
  <2>1. i \in 1..n /\ k \in 1..n BY <1>4
  <2>2. CASE j = n + 1
    <3>1. counted'[j] = x /\ counted'[i] = c[i] /\ counted'[k] = c[k] BY <1>4, <2>1, <2>2
    <3>2. c[i].game = w.game /\ c[i].number = w.number BY <1>3, <3>1 DEF SameMatch
    <3>3. n + 1 <= k + Keep BY <2>2
    <3> QED BY <1>3, <1>12, <2>1, <3>1, <3>2, <3>3
  <2>3. CASE j \in 1..n
    <3>1. SameMatch(c[i], c[j]) BY <1>4, <2>1, <2>3
    <3>2. c[k].game # c[j].game BY <1>4, <1>6, <2>1, <2>3, <3>1 DEF CountedOnce, c
    <3> QED BY <1>4, <2>1, <2>3, <3>2
  <2> QED BY <1>4, <2>2, <2>3
<1> QED BY <1>10, <1>13

\* The ledger adds what was counted, and drops what it keeps no longer.
LEMMA LedgerMore ==
  ASSUME EndTypes, QueueOK, CountsOK, ComesLess, page.pending # <<>>, NEW w, w = Head(page.pending),
         SignatureOf(w) \notin Range(device.goals.seen), NEW x,
         x = [game |-> w.game, number |-> w.number, won |-> Won(w.score)],
         counted' = Append(counted, x),
         device'.goals = RecordResult(device.goals, SignatureOf(w), Won(w.score))
  PROVE  device'.goals \in GoalsRecord /\ WindowOK' /\ LedgerOK'
<1> DEFINE n == Len(counted)
           g == device.goals
           h == device'.goals
           s == SignatureOf(w)
           a == Append(g.seen, s)
           r == <<x.won>> \o g.results
<1>1. counted \in Seq(CountedMatch) /\ g \in GoalsRecord
  BY DEF EndTypes
<1>2. /\ w \in Ending /\ w.game \in Games /\ w.number \in 1..Matches /\ w.score \in Scores
      /\ \A e \in Ending : MayCome(e) /\ e.game = w.game =>
           e.number >= w.number /\ (e.number = w.number => e.score = w.score)
  BY HeadFirst
<1>3. x.game = w.game /\ x.number = w.number /\ x.won = Won(w.score) /\ x.won \in BOOLEAN BY <1>2 DEF Won
<1>4. /\ n \in Nat /\ DOMAIN counted = 1..n /\ DOMAIN counted' = 1..(n + 1) /\ Len(counted') = n + 1
      /\ counted'[n + 1] = x /\ \A i \in 1..n : counted'[i] = counted[i]
  BY <1>1, <1>2 DEF Won
<1>5. s \in Signature BY <1>2 DEF SignatureOf, Signature
<1>6. h = [played |-> g.played + 1, won |-> g.won + (IF x.won THEN 1 ELSE 0),
           results |-> FirstOf(r, Keep), seen |-> LastOf(a, Keep)]
  BY <1>3 DEF RecordResult
<1>7. WindowOK /\ LedgerOK /\ Keep \in Nat /\ Keep >= 1 BY KeepIs DEF CountsOK
<1>8. g.results \in Seq(BOOLEAN) /\ g.seen \in Seq(Signature) /\ g.played \in Nat /\ g.won \in Nat
  BY <1>1 DEF GoalsRecord
<1>9. /\ a \in Seq(Signature) /\ Len(a) = Len(g.seen) + 1 /\ a[Len(g.seen) + 1] = s
      /\ \A i \in 1..Len(g.seen) : a[i] = g.seen[i]
  BY <1>5, <1>8
<1>10. /\ r \in Seq(BOOLEAN) /\ Len(r) = Len(g.results) + 1 /\ r[1] = x.won
       /\ \A i \in 1..Len(g.results) : r[i + 1] = g.results[i]
  <2>1. <<x.won>> \in Seq(BOOLEAN) /\ Len(<<x.won>>) = 1 /\ <<x.won>>[1] = x.won BY <1>3
  <2> HIDE DEF g
  <2> QED BY <1>8, <2>1, ConcatProperties
<1>11. Len(g.seen) = AtMost(n, Keep) /\ Len(g.results) = AtMost(n, Keep)
  BY <1>7 DEF WindowOK, LedgerOK
<1> HIDE DEF a, r, g, n, s
<1>12. AtMost(AtMost(n, Keep) + 1, Keep) = AtMost(n + 1, Keep)
       /\ AtMost(n, Keep) \in Nat /\ AtMost(n + 1, Keep) \in Nat
       /\ AtMost(n + 1, Keep) <= AtMost(n, Keep) + 1
  BY <1>4, <1>7 DEF AtMost
<1> DEFINE k == AtMost(n, Keep)
           k1 == AtMost(n + 1, Keep)
<1>13. /\ LastOf(a, Keep) \in Seq(Signature) /\ Len(LastOf(a, Keep)) = k1
       /\ \A d \in 1..k1 : LastOf(a, Keep)[d] = a[k + 1 - k1 + d]
  <2>1. /\ LastOf(a, Keep) \in Seq(Signature) /\ Len(LastOf(a, Keep)) = AtMost(Len(a), Keep)
        /\ \A d \in 1..AtMost(Len(a), Keep) : LastOf(a, Keep)[d] = a[Len(a) - AtMost(Len(a), Keep) + d]
    BY <1>7, <1>9, LastIs
  <2>2. Len(a) = k + 1 /\ AtMost(Len(a), Keep) = k1 BY <1>9, <1>11, <1>12
  <2>3. k \in Nat /\ k1 \in Nat BY <1>12
  <2> DEFINE last == LastOf(a, Keep)
             la == Len(a)
             lk == AtMost(Len(a), Keep)
  <2>4. \A d \in 1..lk : last[d] = a[la - lk + d] BY <2>1
  <2>5. lk = k1 /\ la = k + 1 BY <2>2
  <2> HIDE DEF k, k1, last, la, lk
  <2>6. \A d \in 1..k1 : last[d] = a[k + 1 - k1 + d]
    <3> TAKE d \in 1..k1
    <3>1. d \in 1..lk /\ la - lk + d = k + 1 - k1 + d BY <2>3, <2>5
    <3> QED BY <2>4, <3>1
  <2>7. last \in Seq(Signature) /\ Len(last) = k1 BY <2>1, <2>5 DEF last, lk
  <2> QED BY <2>6, <2>7 DEF last
<1>14. /\ FirstOf(r, Keep) \in Seq(BOOLEAN) /\ Len(FirstOf(r, Keep)) = k1
       /\ \A d \in 1..k1 : FirstOf(r, Keep)[d] = r[d]
  <2>1. /\ FirstOf(r, Keep) \in Seq(BOOLEAN) /\ Len(FirstOf(r, Keep)) = AtMost(Len(r), Keep)
        /\ \A d \in 1..AtMost(Len(r), Keep) : FirstOf(r, Keep)[d] = r[d]
    BY <1>7, <1>10, FirstIs
  <2>2. AtMost(Len(r), Keep) = k1 BY <1>10, <1>11, <1>12
  <2> HIDE DEF k1
  <2> QED BY <2>1, <2>2
<1>15. k \in Nat /\ k1 \in Nat /\ k1 <= k + 1 /\ k <= n BY <1>4, <1>7, <1>12 DEF AtMost
<1> HIDE DEF k, k1, h
<1>16. h.seen = LastOf(a, Keep) /\ h.results = FirstOf(r, Keep) /\ h.played = g.played + 1
       /\ h.won = g.won + (IF x.won THEN 1 ELSE 0)
  BY <1>6
<1>17. h.played \in Nat /\ h.won \in Nat BY <1>8, <1>16
<1>18. h \in GoalsRecord BY <1>6, <1>13, <1>14, <1>16, <1>17 DEF GoalsRecord
<1>19. DOMAIN h.seen = 1..k1 /\ DOMAIN h.results = 1..k1 /\ Len(h.seen) = k1 /\ Len(h.results) = k1
  BY <1>13, <1>14, <1>16
<1>20. ASSUME NEW d \in 1..k1, NEW e \in Ending, MayCome(e)', SameMatch(e, counted'[n + 1 - k1 + d])
       PROVE  SignatureOf(e) = h.seen[d]
  <2>1. MayCome(e) BY <1>20 DEF ComesLess
  <2> DEFINE i == k + 1 - k1 + d
  <2>2. i \in 1..(k + 1) /\ n + 1 - k1 + d = n - k + i BY <1>4, <1>15
  <2>3. h.seen[d] = a[i] BY <1>13, <1>16
  <2> HIDE DEF i
  <2>4. CASE i = k + 1
    <3>1. n - k + i = n + 1 BY <1>4, <1>15, <2>4
    <3>2. e.game = w.game /\ e.number = w.number BY <1>3, <1>4, <1>20, <2>2, <3>1 DEF SameMatch
    <3>3. e.score = w.score BY <1>2, <2>1, <3>2
    <3>4. SignatureOf(e) = s BY <3>2, <3>3 DEF SignatureOf, s
    <3>5. a[i] = s BY <1>9, <1>11, <2>4 DEF k
    <3> QED BY <2>3, <3>4, <3>5
  <2>5. CASE i \in 1..k
    <3>1. n - k + i \in 1..n BY <1>4, <1>15, <2>5
    <3>2. SameMatch(e, counted[n - k + i]) BY <1>4, <1>20, <2>2, <3>1
    <3>3. i \in DOMAIN g.seen /\ Len(g.seen) = k BY <1>8, <1>11, <2>5 DEF k
    <3>4. SignatureOf(e) = g.seen[i] BY <1>7, <2>1, <3>2, <3>3 DEF WindowOK, g, n
    <3>5. a[i] = g.seen[i] BY <1>9, <2>5, <3>3
    <3> QED BY <2>3, <3>4, <3>5
  <2> QED BY <1>15, <2>2, <2>4, <2>5
<1>21. LedgerOK'
  <2>1. h.played = Len(counted') BY <1>4, <1>7, <1>16 DEF LedgerOK, g, n
  <2>2. h.won = Cardinality({i \in DOMAIN counted' : counted'[i].won})
    <3>1. x \in CountedMatch BY <1>2, <1>3 DEF CountedMatch
    <3>2. Cardinality({i \in DOMAIN Append(counted, x) : Append(counted, x)[i].won}) =
            Cardinality({i \in DOMAIN counted : counted[i].won}) + (IF x.won THEN 1 ELSE 0)
      BY <1>1, <3>1, WonMore
    <3> QED BY <1>7, <1>16, <3>2 DEF LedgerOK, g
  <2>3. ASSUME NEW d \in 1..k1 PROVE h.results[d] = counted'[n + 1 - d + 1].won
    <3>1. h.results[d] = r[d] BY <1>14, <1>16
    <3>2. CASE d = 1
      <4>1. n + 1 - d + 1 = n + 1 BY <1>4, <3>2
      <4> QED BY <1>4, <1>10, <3>1, <3>2, <4>1
    <3>3. CASE d > 1
      <4> DEFINE i == d - 1
      <4>1. i \in 1..k /\ i + 1 = d /\ n + 1 - d + 1 = n - i + 1 /\ n - i + 1 \in 1..n BY <1>4, <1>15, <3>3
      <4> HIDE DEF i
      <4>2. i \in DOMAIN g.results /\ i \in 1..Len(g.results) BY <1>8, <1>11, <4>1 DEF k
      <4>3. r[d] = g.results[i] BY <1>10, <4>1, <4>2
      <4>4. g.results[i] = counted[n - i + 1].won BY <1>7, <4>2 DEF LedgerOK, g, n
      <4> QED BY <1>4, <3>1, <4>1, <4>3, <4>4
    <3>4. d = 1 \/ d > 1 BY <1>15
    <3> QED BY <3>2, <3>3, <3>4
  <2>4. Len(h.results) = AtMost(Len(counted'), Keep) BY <1>4, <1>19 DEF k1
  <2>5. \A d \in DOMAIN h.results : h.results[d] = counted'[Len(counted') - d + 1].won
    <3> TAKE d \in DOMAIN h.results
    <3>1. d \in 1..k1 /\ Len(counted') - d + 1 = n + 1 - d + 1 BY <1>4, <1>19
    <3> QED BY <2>3, <3>1
  <2> QED BY <2>1, <2>2, <2>4, <2>5 DEF LedgerOK, h
<1>22. WindowOK'
  <2>1. Len(h.seen) = AtMost(Len(counted'), Keep) BY <1>4, <1>19 DEF k1
  <2>2. \A d \in DOMAIN h.seen : \A e \in Ending :
          MayCome(e)' /\ SameMatch(e, counted'[Len(counted') - Len(h.seen) + d]) => SignatureOf(e) = h.seen[d]
    <3> TAKE d \in DOMAIN h.seen
    <3>1. d \in 1..k1 /\ Len(counted') - Len(h.seen) + d = n + 1 - k1 + d BY <1>4, <1>15, <1>19
    <3> QED BY <1>20, <3>1
  <2> QED BY <2>1, <2>2 DEF WindowOK, SameMatch, h
<1> QED BY <1>18, <1>21, <1>22 DEF h

-----------------------------------------------------------------------------
(* The screen opens *)

\* The goals count the match, or had counted it.
LEMMA OpenCounts ==
  ASSUME EndTypes, QueueOK, CountsOK, ComesLess, page.pending # <<>>, NEW w, w = Head(page.pending),
         device'.goals = GoalsAfter(w),
         counted' = IF GoalsAfter(w) = device.goals THEN counted
                    ELSE Append(counted, [game |-> w.game, number |-> w.number, won |-> Won(w.score)])
  PROVE  CountsOK' /\ device'.goals \in GoalsRecord
         /\ counted' \in Seq(CountedMatch)
<1>1. device.goals \in GoalsRecord /\ counted \in Seq(CountedMatch)
  BY DEF EndTypes
<1>2. CASE GoalsAfter(w) = device.goals BY <1>1, <1>2, CountsKept
<1>3. CASE GoalsAfter(w) # device.goals
  <2> DEFINE x == [game |-> w.game, number |-> w.number, won |-> Won(w.score)]
  <2>1. x \in CountedMatch BY HeadFirst DEF Won, CountedMatch
  <2>2. SignatureOf(w) \notin Range(device.goals.seen)
        /\ device'.goals = RecordResult(device.goals, SignatureOf(w), Won(w.score))
    BY <1>3 DEF GoalsAfter, RecordResult
  <2>3. counted' = Append(counted, x) BY <1>3
  <2> HIDE DEF x
  <2>4. x = [game |-> w.game, number |-> w.number, won |-> Won(w.score)] BY DEF x
  <2>5. CountedOK' /\ CountedOnce' BY <2>2, <2>3, <2>4, CountedMore
  <2>6. device'.goals \in GoalsRecord /\ WindowOK' /\ LedgerOK' BY <2>2, <2>3, <2>4, LedgerMore
  <2>7. counted' \in Seq(CountedMatch) BY <1>1, <2>1, <2>3, AppendProperties
  <2> QED BY <2>5, <2>6, <2>7 DEF CountsOK
<1> QED BY <1>2, <1>3

\* A guest's match counts once for the offer, at one table.
LEMMA OpenOffers ==
  ASSUME EndTypes, QueueOK, EndedOK, OfferOK, ComesLess, page.pending # <<>>, NEW w, w = Head(page.pending),
         device'.offer = CountMatch(device.offer, SignatureOf(w)),
         offered' = [offered EXCEPT !.ended = offered.ended \cup {<<w.game, w.number>>}],
         \A g \in Games : g # w.game => page'.last[g] = page.last[g],
         Offers(w.game)' => ShouldOffer(device'.offer)
  PROVE  /\ EndedOK' /\ OfferOK' /\ device'.offer \in OfferRecord
         /\ offered' \in [ended : SUBSET MatchSeen, before : Nat] /\ IsFiniteSet(offered'.ended)
<1> DEFINE o == device.offer
           q == device'.offer
           s == SignatureOf(w)
           E == offered.ended
           x == <<w.game, w.number>>
           F == E \cup {x}
<1>1. o \in OfferRecord /\ offered \in [ended : SUBSET MatchSeen, before : Nat] /\ IsFiniteSet(E)
  BY DEF EndTypes
<1>2. /\ w \in Ending /\ w.game \in Games /\ w.number \in 1..Matches /\ w.score \in Scores /\ MayCome(w)
      /\ \A e \in Ending : MayCome(e) /\ e.game = w.game =>
           e.number >= w.number /\ (e.number = w.number => e.score = w.score)
  BY HeadFirst
<1>3. s \in Signature /\ x \in MatchSeen /\ E \subseteq MatchSeen
  BY <1>1, <1>2 DEF SignatureOf, Signature, MatchSeen
<1>4. x \in F /\ E \subseteq F /\ F \subseteq MatchSeen /\ \A y \in F : y \in E \/ y = x BY <1>3
<1>5. IsFiniteSet(F) /\ Cardinality(F) = (IF x \in E THEN Cardinality(E) ELSE Cardinality(E) + 1)
  BY <1>1, FS_AddElement
<1>6. Cardinality(E) \in Nat /\ Cardinality(F) \in Nat BY <1>1, <1>5, FS_CardinalityType
<1> HIDE DEF F
<1>7. offered' = [offered EXCEPT !.ended = F] BY DEF F
<1>8. /\ offered' \in [ended : SUBSET MatchSeen, before : Nat]
      /\ offered'.ended = F /\ offered'.before = offered.before /\ offered.before \in Nat
  BY <1>1, <1>4, <1>7
<1>9. /\ q \in OfferRecord /\ q.dismissedAt = o.dismissedAt /\ q.last = s
      /\ q.matches = o.matches + (IF o.last = s THEN 0 ELSE 1)
      /\ o.matches \in Nat /\ o.dismissedAt \in Nat \cup {-1}
  <2>1. o.matches \in Nat /\ o.matches + 1 \in Nat /\ o.dismissedAt \in Nat \cup {-1} BY <1>1 DEF OfferRecord
  <2>2. CASE o.last = s
    <3>1. q = o BY <2>2 DEF CountMatch
    <3> QED BY <1>1, <2>1, <2>2, <3>1
  <2>3. CASE o.last # s
    <3> DEFINE k == o.matches + 1
    <3>1. q = [o EXCEPT !.matches = k, !.last = s] BY <2>3 DEF CountMatch
    <3>2. k \in Nat BY <2>1
    <3> HIDE DEF k, o
    <3>3. q \in OfferRecord /\ q.dismissedAt = o.dismissedAt /\ q.last = s /\ q.matches = k
      BY <1>1, <1>3, <3>1, <3>2 DEF OfferRecord
    <3> QED BY <2>1, <2>3, <3>3 DEF k
  <2> QED BY <2>2, <2>3
<1> HIDE DEF E, x, s, o, q
<1>10. ASSUME NEW e \in Ending, MayCome(e)', e.game = w.game, <<e.game, e.number>> \in F
       PROVE  e.number = w.number /\ e.score = w.score
  <2>1. MayCome(e) /\ e.number \in 1..Matches BY <1>10 DEF ComesLess, Ending
  <2>2. CASE <<e.game, e.number>> \in E
    <3>1. w.number >= e.number BY <1>2, <1>10, <2>1, <2>2 DEF EndedOK, E
    <3>2. e.number = w.number BY <1>2, <1>10, <2>1, <3>1
    <3> QED BY <1>2, <1>10, <2>1, <3>2
  <2>3. CASE <<e.game, e.number>> = x BY <1>2, <1>10, <2>1, <2>3 DEF x
  <2> QED BY <1>4, <1>10, <2>2, <2>3
<1>11. EndedOK'
  <2>1. ASSUME NEW g \in Games, NEW n \in 1..Matches, <<g, n>> \in F,
               NEW e \in Ending, MayCome(e)', e.game = g
        PROVE  e.number >= n
    <3>1. MayCome(e) BY <2>1 DEF ComesLess
    <3>2. CASE <<g, n>> \in E BY <2>1, <3>1, <3>2 DEF EndedOK, E
    <3>3. CASE <<g, n>> = x BY <1>2, <2>1, <3>1, <3>3 DEF x
    <3> QED BY <1>4, <2>1, <3>2, <3>3
  <2>2. ASSUME NEW g \in Games, Offers(g)' PROVE \E n \in 1..Matches : <<g, n>> \in F
    <3>1. CASE g = w.game BY <1>2, <1>4, <3>1 DEF x
    <3>2. CASE g # w.game
      <4>1. Offers(g) BY <2>2, <3>2 DEF Offers
      <4> QED BY <1>4, <4>1 DEF EndedOK, E
    <3> QED BY <3>1, <3>2
  <2> QED BY <1>8, <2>1, <2>2 DEF EndedOK
<1>12. ASSUME AtOneTable'
       PROVE  /\ q.dismissedAt # -1 => q.matches - q.dismissedAt <= Cardinality(F) - offered.before
              /\ \A g \in Games : Offers(g)' =>
                   (q.dismissedAt # -1 => Cardinality(F) - offered.before >= Cooldown)
              /\ \A e \in Ending : MayCome(e)' /\ <<e.game, e.number>> \in F => SignatureOf(e) = q.last
  <2>1. \A a, b \in F : a[1] = b[1] BY <1>8, <1>12 DEF AtOneTable
  <2>2. AtOneTable BY <1>4, <2>1 DEF AtOneTable, E
  <2>3. /\ o.dismissedAt # -1 => o.matches - o.dismissedAt <= Cardinality(E) - offered.before
        /\ \A g \in Games : Offers(g) => (o.dismissedAt # -1 => Cardinality(E) - offered.before >= Cooldown)
        /\ \A e \in Ending : MayCome(e) /\ <<e.game, e.number>> \in E => SignatureOf(e) = o.last
    BY <2>2 DEF OfferOK, Spaced, Since, o, E
  <2>4. x \in E => o.last = s BY <1>2, <2>3 DEF x, s
  <2>5. q.matches - o.matches <= Cardinality(F) - Cardinality(E) /\ Cardinality(E) <= Cardinality(F)
    BY <1>5, <1>6, <1>9, <2>4
  <2>6. q.dismissedAt # -1 => q.matches - q.dismissedAt <= Cardinality(F) - offered.before
    <3>1. q.matches \in Nat BY <1>9
    <3> QED BY <1>6, <1>8, <1>9, <2>3, <2>5, <3>1
  <2>7. ASSUME NEW g \in Games, Offers(g)', q.dismissedAt # -1
        PROVE  Cardinality(F) - offered.before >= Cooldown
    <3>1. CASE g = w.game
      <4>1. q.matches - q.dismissedAt >= Cooldown BY <2>7, <3>1 DEF ShouldOffer, q
      <4>2. q.matches \in Nat BY <1>9
      <4> QED BY <1>6, <1>8, <1>9, <2>6, <2>7, <4>1, <4>2, KeepIs
    <3>2. CASE g # w.game
      <4>1. Offers(g) BY <2>7, <3>2 DEF Offers
      <4> QED BY <1>6, <1>8, <1>9, <2>3, <2>5, <2>7, <4>1, KeepIs
    <3> QED BY <3>1, <3>2
  <2>8. ASSUME NEW e \in Ending, MayCome(e)', <<e.game, e.number>> \in F
        PROVE  SignatureOf(e) = q.last
    <3>1. <<e.game, e.number>>[1] = x[1] BY <1>4, <2>1, <2>8
    <3>2. e.game = w.game BY <3>1 DEF x
    <3>3. e.score = w.score BY <1>10, <2>8, <3>2
    <3> QED BY <1>9, <3>2, <3>3 DEF SignatureOf, s
  <2> QED BY <2>6, <2>7, <2>8
<1>13. OfferOK' BY <1>8, <1>12 DEF OfferOK, Spaced, Since, q
<1> QED BY <1>5, <1>8, <1>9, <1>11, <1>13 DEF q

LEMMA OpenStep == MatchEndInv /\ Open => MatchEndInv'
<1> SUFFICES ASSUME MatchEndInv, Open PROVE MatchEndInv' OBVIOUS
<1>1. EndTypes /\ QueueOK /\ CountsOK /\ ScreenOK /\ PutAwayOK /\ EndedOK /\ OfferOK BY DEF MatchEndInv
<1>2. page.pending # <<>> /\ UNCHANGED <<server, place, late, loading, visitor, putAway>> BY DEF Open
<1>0. PICK w : w = Head(page.pending) OBVIOUS
<1> DEFINE g == w.game
           t == Tail(page.pending)
           p == [page EXCEPT !.pending = t]
           guest == page.revealing /\ ~visitor.signedIn
           offer == IF guest THEN CountMatch(device.offer, SignatureOf(w)) ELSE device.offer
           m == [game |-> w.game, number |-> w.number, offer |-> guest /\ ShouldOffer(offer)]
           outcomes == IF visitor.goals = "unknown" THEN {} ELSE {SignatureOf(w)}
<1>3. \/ LeftAlone(page, w.game) /\ page' = p /\ UNCHANGED <<device, counted, offered>>
      \/ /\ ~LeftAlone(page, w.game)
         /\ page' = [Opened(p, m) EXCEPT !.outcomes = Opened(p, m).outcomes \cup outcomes]
         /\ device' = [goals |-> GoalsAfter(w), offer |-> offer]
         /\ counted' = IF GoalsAfter(w) = device.goals THEN counted
                       ELSE Append(counted, [game |-> w.game, number |-> w.number, won |-> Won(w.score)])
         /\ offered' = IF guest THEN [offered EXCEPT !.ended = offered.ended \cup {<<w.game, w.number>>}]
                       ELSE offered
  BY <1>0 DEF Open
<1>4. /\ w \in Ending /\ w.game \in Games /\ w.number \in 1..Matches /\ w.score \in Scores
      /\ MayCome(w) /\ Ended(w.game, w.number)
  BY <1>0, <1>1, <1>2, HeadFirst
<1>5. page \in PageRecord /\ page.pending \in Seq(Ending) BY <1>1 DEF EndTypes, PageRecord
<1>6. t \in Seq(Ending) BY <1>2, <1>5
<1>7. outcomes \in SUBSET Signature BY <1>4 DEF SignatureOf, Signature
<1>8. m \in Model /\ m.game = g /\ m.number = w.number /\ m.offer = (guest /\ ShouldOffer(offer))
  BY <1>4 DEF Model, ShouldOffer
<1> HIDE DEF t
<1>9. CASE LeftAlone(page, w.game) /\ page' = p /\ UNCHANGED <<device, counted, offered>>
  <2>1. /\ page' \in PageRecord /\ page'.up = page.up /\ page'.shown = page.shown
        /\ page'.dismissed = page.dismissed /\ page'.last = page.last /\ page'.pending = t
    BY <1>5, <1>6, <1>9 DEF PageRecord
  <2>2. EndTypes' BY <1>1, <1>2, <1>9, <2>1 DEF EndTypes
  <2>3. ComesLess /\ QueueOK' BY <1>1, <1>2, <2>1, WaitLess DEF t
  <2>4. CountsOK' /\ EndedOK' /\ OfferOK' BY <1>2, <1>9, <2>1, <2>3, PlayerKept DEF Offers
  <2>5. ScreenOK' BY <1>1, <1>2, <2>1 DEF ScreenOK, Ended
  <2>6. \A h \in Games, n \in 1..Matches : HeldBack(h, n) => HeldBack(h, n)' BY <2>1 DEF HeldBack
  <2>7. PutAwayOK' BY <1>1, <1>2, <2>1, <2>3, <2>6, PutAwayKept
  <2> QED BY <2>2, <2>3, <2>4, <2>5, <2>7 DEF MatchEndInv
<1>10. ASSUME ~LeftAlone(page, w.game),
              page' = [Opened(p, m) EXCEPT !.outcomes = Opened(p, m).outcomes \cup outcomes],
              device' = [goals |-> GoalsAfter(w), offer |-> offer],
              counted' = IF GoalsAfter(w) = device.goals THEN counted
                         ELSE Append(counted, [game |-> w.game, number |-> w.number, won |-> Won(w.score)]),
              offered' = IF guest THEN [offered EXCEPT !.ended = offered.ended \cup {<<w.game, w.number>>}]
                         ELSE offered
       PROVE  MatchEndInv'
  <2>1. g \notin page.dismissed BY <1>10 DEF LeftAlone
  <2> DEFINE l == [page.last EXCEPT ![g] = m]
             u == page.outcomes \cup outcomes
  <2> HIDE DEF m, outcomes, g
  <2>2. l \in [Games -> Model \cup {Nothing}] /\ l[g] = m /\ \A h \in Games : h # g => l[h] = page.last[h]
    BY <1>4, <1>5, <1>8 DEF PageRecord, g
  <2>3. u \in SUBSET Signature BY <1>5, <1>7 DEF PageRecord
  <2>4. page' = [page EXCEPT !.pending = t, !.up = m, !.shown = g, !.last = l, !.outcomes = u]
    BY <1>5, <1>8, <1>10 DEF Opened, PageRecord
  <2> HIDE DEF l, u
  <2>5. /\ page' \in PageRecord /\ page'.up = m /\ page'.shown = g
        /\ page'.dismissed = page.dismissed /\ page'.last = l /\ page'.pending = t
    BY <1>4, <1>5, <1>6, <1>8, <2>2, <2>3, <2>4 DEF PageRecord, g
  <2>6. ComesLess /\ QueueOK' BY <1>1, <1>2, <2>5, WaitLess DEF t
  <2>7. device'.goals = GoalsAfter(w) /\ device'.offer = offer BY <1>10
  <2>8. /\ CountsOK' /\ device'.goals \in GoalsRecord
        /\ counted' \in Seq(CountedMatch)
    BY <1>0, <1>1, <1>2, <1>10, <2>6, <2>7, OpenCounts
  <2>9. /\ EndedOK' /\ OfferOK' /\ device'.offer \in OfferRecord
        /\ offered' \in [ended : SUBSET MatchSeen, before : Nat] /\ IsFiniteSet(offered'.ended)
    <3>1. m # Nothing BY <1>8, ModelIs
    <3>2. Offers(g)' => m.offer BY <1>4, <2>2, <2>5 DEF Offers, g
    <3>3. CASE ~guest
      <4>1. ~m.offer BY <1>8, <3>3
      <4>2. \A h \in Games : Offers(h)' => Offers(h) BY <2>2, <2>5, <3>2, <4>1 DEF Offers
      <4>3. device'.offer = device.offer /\ offered' = offered BY <1>10, <2>7, <3>3
      <4> QED BY <1>1, <2>6, <4>2, <4>3, OfferKept DEF EndTypes
    <3>4. CASE guest
      <4>1. Offers(g)' => ShouldOffer(device'.offer) BY <1>8, <2>7, <3>2
      <4>2. \A h \in Games : h # g => page'.last[h] = page.last[h] BY <2>2, <2>5
      <4>3. device'.offer = CountMatch(device.offer, SignatureOf(w))
            /\ offered' = [offered EXCEPT !.ended = offered.ended \cup {<<w.game, w.number>>}]
        BY <1>10, <2>7, <3>4
      <4>4. g = w.game BY DEF g
      <4> QED BY <1>0, <1>1, <1>2, <2>6, <4>1, <4>2, <4>3, <4>4, OpenOffers
    <3> QED BY <3>3, <3>4
  <2>10. device' \in [goals : GoalsRecord, offer : OfferRecord] BY <1>10, <2>7, <2>8, <2>9
  <2>11. EndTypes' BY <1>1, <1>2, <2>5, <2>8, <2>9, <2>10 DEF EndTypes
  <2>12. g \in Games /\ g = w.game BY <1>4 DEF g
  <2>13. ScreenOK'
    <3>1. ASSUME NEW h \in Games, l[h] # Nothing PROVE l[h].game = h /\ Ended(h, l[h].number)
      <4>1. CASE h = g BY <1>4, <1>8, <2>2, <2>12, <4>1
      <4>2. CASE h # g BY <1>1, <2>2, <3>1, <4>2 DEF ScreenOK
      <4> QED BY <4>1, <4>2
    <3> QED BY <1>2, <1>8, <2>1, <2>2, <2>5, <2>12, <3>1 DEF ScreenOK, Ended
  <2>14. PutAwayOK'
    <3> SUFFICES ASSUME NEW h \in Games, NEW n \in 1..Matches, <<h, n>> \in putAway
                 PROVE  HeldBack(h, n)' \/ IsPast(h, n)'
      BY <1>2 DEF PutAwayOK
    <3>1. HeldBack(h, n) \/ IsPast(h, n) BY <1>1 DEF PutAwayOK
    <3>2. CASE h # g
      <4>1. HeldBack(h, n) => HeldBack(h, n)' BY <2>2, <2>5, <3>2 DEF HeldBack
      <4>2. page'.last[h] = page.last[h] BY <2>2, <2>5, <3>2
      <4>3. IsPast(h, n) => IsPast(h, n)' BY <2>6, <4>2, PastKept
      <4> QED BY <3>1, <4>1, <4>3
    <3>3. CASE h = g
      <4>1. IsPast(h, n) BY <2>1, <3>1, <3>3 DEF HeldBack
      <4>2. w.number > n BY <1>4, <2>12, <3>3, <4>1 DEF IsPast
      <4>3. \A e \in Ending : MayCome(e)' /\ e.game = h => e.number > n BY <2>6, <4>1 DEF IsPast, ComesLess
      <4>4. page'.last[h].number > n BY <1>8, <2>2, <2>5, <2>12, <3>3, <4>2
      <4> QED BY <4>3, <4>4 DEF IsPast
    <3> QED BY <3>2, <3>3
  <2> QED BY <2>6, <2>8, <2>9, <2>11, <2>13, <2>14 DEF MatchEndInv
<1> QED BY <1>3, <1>9, <1>10

LEMMA EndStart == EndInit => MatchEndInv
<1> SUFFICES ASSUME EndInit PROVE MatchEndInv OBVIOUS
<1>1. /\ server = [g \in Games |-> [stage |-> "auction", number |-> 1, score |-> 1]]
      /\ page = NewPage /\ place = Elsewhere /\ late = {} /\ loading = FALSE
      /\ counted = <<>> /\ putAway = {} /\ offered = [ended |-> {}, before |-> 0]
      /\ device = [goals |-> EmptyLedger, offer |-> NoOffer]
      /\ visitor = [session |-> FALSE, signedIn |-> FALSE, goals |-> "unknown"]
  BY DEF EndInit
<1>2. server \in [Games -> Match]
  <2>1. 1 \in 1..Matches BY MatchEndAssumption
  <2> QED BY <1>1, <2>1 DEF Match, Scores
<1>3. /\ page \in PageRecord /\ page.up = Nothing /\ page.pending = <<>> /\ DOMAIN page.pending = {}
      /\ \A g \in Games : page.last[g] = Nothing
  BY <1>1 DEF NewPage, PageRecord
<1>4. /\ device \in [goals : GoalsRecord, offer : OfferRecord]
      /\ device.goals = EmptyLedger /\ device.offer = NoOffer
  BY <1>1 DEF EmptyLedger, NoOffer, GoalsRecord, OfferRecord
<1>5. counted \in Seq(CountedMatch)
      /\ DOMAIN counted = {} /\ Len(counted) = 0
  BY <1>1
<1>6. offered \in [ended : SUBSET MatchSeen, before : Nat] /\ offered.ended = {} /\ IsFiniteSet(offered.ended)
  BY <1>1, FS_EmptySet
<1>7. EndTypes BY <1>1, <1>2, <1>3, <1>4, <1>5, <1>6 DEF EndTypes
<1>8. QueueOK /\ ScreenOK BY <1>3 DEF QueueOK, ScreenOK
<1>9. CountedOK /\ CountedOnce BY <1>5 DEF CountedOK, CountedOnce
<1>10. AtMost(0, Keep) = 0 BY KeepIs DEF AtMost
<1>11. /\ device.goals.seen = <<>> /\ device.goals.results = <<>>
       /\ device.goals.played = 0 /\ device.goals.won = 0
  BY <1>4 DEF EmptyLedger
<1>12. WindowOK BY <1>5, <1>10, <1>11 DEF WindowOK
<1>13. LedgerOK
  <2>1. {i \in DOMAIN counted : counted[i].won} = {} BY <1>5
  <2>2. Cardinality({}) = 0 BY FS_EmptySet
  <2> QED BY <1>5, <1>10, <1>11, <2>1, <2>2 DEF LedgerOK
<1>14. PutAwayOK BY <1>1 DEF PutAwayOK
<1>15. EndedOK BY <1>3, <1>6 DEF EndedOK, Offers
<1>16. OfferOK BY <1>3, <1>4, <1>6 DEF OfferOK, Offers, NoOffer
<1> QED BY <1>7, <1>8, <1>9, <1>12, <1>13, <1>14, <1>15, <1>16 DEF MatchEndInv, CountsOK

LEMMA EndSteps == MatchEndInv /\ [EndNext]_endVars => MatchEndInv'
<1> SUFFICES ASSUME MatchEndInv, [EndNext]_endVars PROVE MatchEndInv' OBVIOUS
<1>1. CASE \E g \in Games : PlayOn(g) \/ Draw(g) BY <1>1, PlayStep, DrawStep
<1>2. CASE \E p \in Games \cup {Elsewhere} : Go(p) BY <1>2, GoStep
<1>3. CASE Open BY <1>3, OpenStep
<1>4. CASE Dismiss BY <1>4, DismissStep
<1>5. CASE Results BY <1>5, ResultsStep
<1>6. CASE NotNow BY <1>6, NotNowStep
<1>7. CASE PlayAgain BY <1>7, PlayAgainStep
<1>8. CASE CreateAccount BY <1>8, CreateAccountStep
<1>9. CASE Reload BY <1>9, ReloadStep
<1>10. CASE SignOut BY <1>10, SignOutStep
<1>11. visitor \in [session : BOOLEAN, signedIn : BOOLEAN, goals : {"unknown", "device", "account"}]
  BY DEF MatchEndInv, EndTypes
<1>12. CASE SignIn
  <2>1. visitor' \in [session : BOOLEAN, signedIn : BOOLEAN, goals : {"unknown", "device", "account"}]
    BY <1>11, <1>12 DEF SignIn
  <2> QED BY <1>12, <2>1, VisitorStep DEF SignIn
<1>13. CASE LoadAccount
  <2>1. visitor' \in [session : BOOLEAN, signedIn : BOOLEAN, goals : {"unknown", "device", "account"}]
    BY <1>11, <1>13 DEF LoadAccount
  <2> QED BY <1>13, <2>1, VisitorStep DEF LoadAccount
<1>14. CASE UNCHANGED endVars BY <1>11, <1>14, VisitorStep DEF endVars
<1> QED BY <1>1, <1>2, <1>3, <1>4, <1>5, <1>6, <1>7, <1>8, <1>9, <1>10, <1>12, <1>13, <1>14 DEF EndNext

\* The screen that is up was not put away, and offers an account only when it may.
LEMMA LeftAloneInv == MatchEndInv => EndingIsLeftAlone
<1> SUFFICES ASSUME MatchEndInv PROVE EndingIsLeftAlone OBVIOUS
<1> DEFINE m == page.up
<1>1. EndTypes /\ ScreenOK /\ PutAwayOK /\ OfferOK BY DEF MatchEndInv
<1>2. m # Nothing => /\ m \in Model /\ m.game \in Games /\ m.number \in 1..Matches
                     /\ m.game \notin page.dismissed /\ page.last[m.game] = m
  BY <1>1, ModelIs DEF EndTypes, PageRecord, ScreenOK
<1> HIDE DEF m
<1>3. PutAwayStaysAway
  <2> SUFFICES ASSUME m # Nothing, <<m.game, m.number>> \in putAway PROVE FALSE
    BY DEF PutAwayStaysAway, m
  <2>1. HeldBack(m.game, m.number) \/ IsPast(m.game, m.number) BY <1>1, <1>2 DEF PutAwayOK
  <2> QED BY <1>2, <2>1 DEF HeldBack, IsPast
<1>4. AtOneTable => OfferIsSpaced
  <2> SUFFICES ASSUME AtOneTable, m # Nothing, m.offer, device.offer.dismissedAt # -1
               PROVE  Cardinality(offered.ended) - offered.before >= Cooldown
    BY DEF OfferIsSpaced, m
  <2>1. Offers(m.game) BY <1>2 DEF Offers
  <2> QED BY <1>1, <1>2, <2>1 DEF OfferOK, Spaced, Since
<1> QED BY <1>3, <1>4 DEF EndingIsLeftAlone

-----------------------------------------------------------------------------
(* What the goals tell *)

LEMMA LeastIs ==
  ASSUME NEW S \in SUBSET Int, NEW x \in S, \A y \in S : x <= y
  PROVE  Min(S) = x
<1>1. ASSUME NEW z \in S, \A y \in S : z <= y PROVE z = x BY <1>1
<1>2. Min(S) \in S /\ \A y \in S : Min(S) <= y BY DEF Min
<1> QED BY <1>1, <1>2

LEMMA MostIs ==
  ASSUME NEW n \in Nat, NEW S \in SUBSET (0..n), S # {}
  PROVE  Max(S) \in S /\ \A y \in S : y <= Max(S)
<1> DEFINE less == OpToRel(<, Nat)
           left == {n - y : y \in S}
<1>1. left \subseteq Nat /\ left # {}
  <2>1. \A y \in 0..n : n - y \in Nat OBVIOUS
  <2> QED BY <2>1
<1>2. IsWellFoundedOn(less, Nat) BY NatLessThanWellFounded
<1>3. \A x, y \in Nat : y < x => <<y, x>> \in less BY DEF OpToRel
<1> HIDE DEF less
<1>4. \E x \in left : \A y \in left : <<y, x>> \notin less
  <2> HIDE DEF left
  <2> QED BY <1>1, <1>2, WFMin
<1>5. PICK x \in S : \A y \in S : <<n - y, n - x>> \notin less BY <1>4
<1>6. \A y \in S : x >= y
  <2> TAKE y \in S
  <2>1. n - y \in Nat /\ n - x \in Nat OBVIOUS
  <2>2. ~(n - y < n - x) BY <1>3, <1>5, <2>1
  <2> QED BY <2>1, <2>2
<1>7. Max(S) \in S /\ \A y \in S : Max(S) >= y BY <1>6 DEF Max
<1> QED BY <1>7

\* The wins in a row of the results, the newest first, are those at the end of the matches.
LEMMA RunIs ==
  ASSUME NEW c \in Seq(CountedMatch), NEW K \in Nat,
         NEW r \in Seq(BOOLEAN), NEW s \in Nat, s >= 1, Len(r) - s + 1 = AtMost(Len(c), K),
         \A d \in 1..(Len(r) - s + 1) : r[s + d - 1] = c[Len(c) - d + 1].won
  PROVE  WinsFrom(r, s) = AtMost(WinsAtEnd(c), K)
<1> DEFINE n == Len(c)
           L == Len(r) - s + 1
           S == {m \in 0..n : \A i \in (n - m + 1)..n : c[i].won}
           W == Max(S)
           losses == {i \in DOMAIN r : i >= s /\ ~r[i]}
<1>1. n \in Nat /\ Len(r) \in Nat /\ DOMAIN r = 1..Len(r) /\ \A i \in 1..Len(r) : r[i] \in BOOLEAN OBVIOUS
<1>2. L \in Nat /\ L <= n /\ L = AtMost(n, K) BY <1>1 DEF AtMost
<1>3. WinsAtEnd(c) = W BY DEF WinsAtEnd
<1>4. WinsFrom(r, s) = (IF losses = {} THEN Len(r) + 1 ELSE Min(losses)) - s BY DEF WinsFrom
<1>5. \A d \in 1..L : r[s + d - 1] = c[n - d + 1].won OBVIOUS
<1> HIDE DEF n, L
<1>6. S \in SUBSET (0..n) /\ S # {}
  <2>1. 0 \in 0..n /\ (n - 0 + 1)..n = {} BY <1>1
  <2> QED BY <2>1
<1>7. W \in 0..n /\ (\A i \in (n - W + 1)..n : c[i].won) /\ \A m \in S : m <= W
  <2> HIDE DEF S
  <2>1. W \in S /\ \A m \in S : m <= W BY <1>1, <1>6, MostIs
  <2> USE DEF S
  <2> HIDE DEF W
  <2> QED BY <2>1
<1> HIDE DEF W
<1>8. W < n => ~c[n - W].won
  <2> SUFFICES ASSUME W < n, c[n - W].won PROVE FALSE OBVIOUS
  <2> DEFINE m == W + 1
  <2>1. m \in 0..n /\ \A i \in (n - m + 1)..n : i = n - W \/ i \in (n - W + 1)..n BY <1>1, <1>7
  <2>2. \A i \in (n - m + 1)..n : c[i].won BY <1>7, <2>1
  <2> HIDE DEF m
  <2>3. m \in S BY <2>1, <2>2
  <2>4. ~(m <= W) BY <1>7 DEF m
  <2> QED BY <1>7, <2>3, <2>4
\* A place of the results from s on is that of a match.
<1>9. \A i \in DOMAIN r : i >= s => i - s + 1 \in 1..L /\ r[i] = c[n - (i - s + 1) + 1].won
  <2> SUFFICES ASSUME NEW i \in 1..Len(r), i >= s
               PROVE  i - s + 1 \in 1..L /\ r[i] = c[n - (i - s + 1) + 1].won
    BY <1>1
  <2>1. i - s + 1 \in 1..L /\ s + (i - s + 1) - 1 = i BY <1>1 DEF L
  <2> QED BY <1>5, <2>1
<1>10. \A i \in losses : i - s + 1 > W
  <2> SUFFICES ASSUME NEW i \in DOMAIN r, i >= s, ~r[i], i - s + 1 <= W PROVE FALSE BY <1>1, <1>7
  <2>1. i - s + 1 \in 1..L /\ r[i] = c[n - (i - s + 1) + 1].won BY <1>9
  <2>2. n - (i - s + 1) + 1 \in (n - W + 1)..n BY <1>1, <1>7, <2>1
  <2> QED BY <1>7, <2>1, <2>2
<1>11. CASE L <= W
  <2>1. losses = {}
    <3> SUFFICES ASSUME NEW i \in losses PROVE FALSE OBVIOUS
    <3>1. i \in DOMAIN r /\ i >= s OBVIOUS
    <3> HIDE DEF losses
    <3>2. i - s + 1 \in 1..L BY <1>9, <3>1
    <3>3. i - s + 1 > W BY <1>10
    <3> QED BY <1>2, <1>7, <1>11, <3>2, <3>3
  <2> HIDE DEF losses
  <2>2. WinsFrom(r, s) = L BY <1>1, <1>4, <2>1 DEF L
  <2>3. AtMost(W, K) = L BY <1>1, <1>2, <1>7, <1>11 DEF AtMost
  <2> QED BY <1>3, <2>2, <2>3
<1>12. CASE W < L
  <2> DEFINE i == s + W
  <2>1. i \in 1..Len(r) /\ i >= s /\ i - s + 1 = W + 1 /\ n - (i - s + 1) + 1 = n - W
    BY <1>1, <1>2, <1>7, <1>12 DEF L
  <2>2. ~c[n - W].won
    <3>1. W < n BY <1>1, <1>2, <1>7, <1>12
    <3> QED BY <1>8, <3>1
  <2> HIDE DEF i
  <2>3. ~r[i] BY <1>1, <1>9, <2>1, <2>2
  <2>4. i \in losses /\ losses \in SUBSET Int BY <1>1, <2>1, <2>3
  <2> HIDE DEF losses
  <2>5. \A j \in losses : i <= j
    <3> TAKE j \in losses
    <3>1. j \in Int /\ j - s + 1 > W BY <1>10, <2>4
    <3> QED BY <1>7, <3>1 DEF i
  <2>6. Min(losses) = i BY <2>4, <2>5, LeastIs
  <2>7. WinsFrom(r, s) = W BY <1>4, <1>7, <2>4, <2>6 DEF i
  <2>8. AtMost(W, K) = W BY <1>1, <1>2, <1>7, <1>12 DEF AtMost
  <2> QED BY <1>3, <2>7, <2>8
<1> QED BY <1>2, <1>7, <1>11, <1>12

LEMMA GoalsInv == MatchEndInv => GoalsTellTheMatches
<1> SUFFICES ASSUME MatchEndInv PROVE GoalsTellTheMatches OBVIOUS
<1> DEFINE c == counted
           n == Len(counted)
           g == device.goals
           r == device.goals.results
           b == SubSeq(c, 1, n - 1)
           lost == c # <<>> /\ ~c[n].won
           ended == IF lost THEN AtMost(WinsAtEnd(b), Keep - 1) ELSE 0
           told == IF r # <<>> /\ ~r[1] THEN WinsFrom(r, 2) ELSE 0
<1>1. c \in Seq(CountedMatch) /\ r \in Seq(BOOLEAN) BY DEF MatchEndInv, EndTypes, GoalsRecord
<1>2. /\ g.played = n /\ g.won = Cardinality({i \in DOMAIN c : c[i].won})
      /\ Len(r) = AtMost(n, Keep) /\ \A d \in DOMAIN r : r[d] = c[n - d + 1].won
  BY DEF MatchEndInv, CountsOK, LedgerOK
<1>3. /\ n \in Nat /\ Len(r) \in Nat /\ DOMAIN r = 1..Len(r) /\ Keep \in Nat /\ Keep >= 1
      /\ (c = <<>> <=> n = 0) /\ (r = <<>> <=> Len(r) = 0)
  BY <1>1, KeepIs
<1>4. GoalSummary(g) = [played |-> g.played, won |-> g.won, streak |-> WinsFrom(r, 1),
                        brokenStreak |-> IF told >= 2 THEN told ELSE 0]
  BY DEF GoalSummary
<1>5. GoalsTellTheMatches <=>
        GoalSummary(g) = [played |-> n, won |-> Cardinality({i \in DOMAIN c : c[i].won}),
                          streak |-> AtMost(WinsAtEnd(c), Keep),
                          brokenStreak |-> IF ended >= 2 THEN ended ELSE 0]
  BY DEF GoalsTellTheMatches
<1> HIDE DEF c, n, g, r
<1>6. WinsFrom(r, 1) = AtMost(WinsAtEnd(c), Keep)
  <2>1. Len(r) - 1 + 1 = AtMost(Len(c), Keep) BY <1>2, <1>3 DEF n, c
  <2>2. \A d \in 1..(Len(r) - 1 + 1) : r[1 + d - 1] = c[Len(c) - d + 1].won
    <3> TAKE d \in 1..(Len(r) - 1 + 1)
    <3>1. d \in DOMAIN r /\ 1 + d - 1 = d /\ Len(c) = n BY <1>3 DEF n, c
    <3> QED BY <1>2, <3>1
  <2>3. 1 \in Nat /\ 1 >= 1 OBVIOUS
  <2> QED BY <1>1, <1>3, <2>1, <2>2, <2>3, RunIs
<1>7. (r # <<>> /\ ~r[1]) <=> lost
  <2>1. r = <<>> <=> c = <<>> BY <1>2, <1>3 DEF AtMost
  <2>2. ASSUME r # <<>> PROVE r[1] = c[n].won
    <3>1. 1 \in DOMAIN r /\ n - 1 + 1 = n BY <1>3, <2>2
    <3> QED BY <1>2, <3>1
  <2> QED BY <2>1, <2>2
<1>8. ASSUME lost PROVE WinsFrom(r, 2) = AtMost(WinsAtEnd(b), Keep - 1)
  <2>1. n >= 1 BY <1>3, <1>8
  <2>2. \A i \in 1..(n - 1) : c[i] \in CountedMatch
    <3>1. Len(c) = n BY DEF n, c
    <3> QED BY <1>1, <1>3, <3>1, ElementOfSeq
  <2>3. b \in Seq(CountedMatch) /\ Len(b) = n - 1 /\ \A i \in 1..(n - 1) : b[i] = c[i]
    <3> DEFINE k == n - 1
    <3>1. 1 \in Int /\ k \in Int /\ k >= 0 BY <1>3, <2>1
    <3> HIDE DEF k
    <3>2. b = SubSeq(c, 1, k) BY DEF k
    <3>3. \A i \in 1..k : c[i] \in CountedMatch BY <2>2 DEF k
    <3> HIDE DEF b
    <3>4. /\ SubSeq(c, 1, k) \in Seq(CountedMatch) /\ Len(SubSeq(c, 1, k)) = IF 1 <= k THEN k - 1 + 1 ELSE 0
          /\ \A i \in 1..(k - 1 + 1) : SubSeq(c, 1, k)[i] = c[1 + i - 1]
      BY <3>1, <3>3, SubSeqProperties
    <3>5. Len(b) = k BY <3>1, <3>2, <3>4
    <3>6. \A i \in 1..k : b[i] = c[i]
      <4> TAKE i \in 1..k
      <4>1. i \in 1..(k - 1 + 1) /\ 1 + i - 1 = i BY <3>1
      <4> QED BY <3>2, <3>4, <4>1
    <3> QED BY <3>2, <3>4, <3>5, <3>6 DEF k
  <2> HIDE DEF b
  <2>4. Keep - 1 \in Nat /\ 2 \in Nat /\ 2 >= 1 BY <1>3
  <2>5. Len(r) - 2 + 1 = AtMost(Len(b), Keep - 1) BY <1>2, <1>3, <2>1, <2>3 DEF AtMost
  <2>6. \A d \in 1..(Len(r) - 2 + 1) : r[2 + d - 1] = b[Len(b) - d + 1].won
    <3> TAKE d \in 1..(Len(r) - 2 + 1)
    <3>1. Len(r) <= n BY <1>2, <1>3 DEF AtMost
    <3> DEFINE i == d + 1
    <3>2. /\ i \in DOMAIN r /\ 2 + d - 1 = i
          /\ Len(b) - d + 1 = n - i + 1 /\ n - i + 1 \in 1..(n - 1)
      BY <1>3, <2>1, <2>3, <3>1
    <3> HIDE DEF i
    <3> QED BY <1>2, <2>3, <3>2
  <2> QED BY <1>1, <2>3, <2>4, <2>5, <2>6, RunIs
<1>9. told = ended BY <1>7, <1>8
<1> HIDE DEF told, ended
<1> QED BY <1>2, <1>4, <1>5, <1>6, <1>9

LEMMA LedgerInv == MatchEndInv => LedgerTellsTheMatches
<1> SUFFICES ASSUME MatchEndInv PROVE LedgerTellsTheMatches OBVIOUS
<1>1. EndTypes /\ CountedOnce BY DEF MatchEndInv, CountsOK
<1>2. page \in PageRecord /\ device.goals \in GoalsRecord BY <1>1 DEF EndTypes
<1>3. DOMAIN page = DOMAIN NewPage BY <1>2 DEF PageRecord, NewPage
<1>4. EndTypeOK BY <1>1, <1>2, <1>3 DEF EndTypes, EndTypeOK, PageRecord, GoalsRecord
<1> QED BY <1>1, <1>4, GoalsInv DEF LedgerTellsTheMatches

\* The inductive invariant of the end of a match, for any tables, matches of a table, length of
\* the ledger and matches between two offers.
THEOREM MatchEndInvariance == EndSpec => []MatchEndInv
<1> QED BY EndStart, EndSteps, PTL DEF EndSpec

\* However often the end of a match is drawn, come back to, put away or loaded again, at however
\* many tables, the goals of the device count it once as long as the ledger tells one of its
\* matches, and their summary is that of the matches counted (recordResult, goalSummary).
THEOREM LedgerTellsMatches == EndSpec => []LedgerTellsTheMatches
<1> QED BY MatchEndInvariance, LedgerInv, PTL

\* A screen that was put away stays away at every table, whatever pauses were running, and the
\* offer that was refused at the only table of a guest waits for OFFER_COOLDOWN more matches.
THEOREM WhatEndedIsLeftAlone == EndSpec => []EndingIsLeftAlone
<1> QED BY MatchEndInvariance, LeftAloneInv, PTL

=============================================================================
