-------------------------------- MODULE Hand --------------------------------
(***************************************************************************)
(* One hand as the table sees it: an auction, then the tricks of a board.  *)
(* Calls, cards and points are left out; what stays is whose turn it is,   *)
(* how many cards the trick on the table has, how many tricks are          *)
(* complete, and what a call or a card may lead to.  The table is built on *)
(* these operators, and the specification below is what the modules of     *)
(* the auction and of the board are shown to implement.                    *)
(***************************************************************************)
EXTENDS Positions

CONSTANT Tricks   \* the tricks of a round: 8 in the program

ASSUME HandAssumption == Tricks \in Nat /\ Tricks >= 2

\* phase: "none" before the first deal, then "auction", then "play" and "review" (a
\* completed trick on the table) in turn, then "over".  active is the seat to move
\* next; in a review, the winner that will lead.
Hand == [phase : {"none", "auction", "play", "review", "over"},
         dealer : Position, active : Position, cards : 0..4, tricks : 0..Tricks]

Auction(dealer, active) ==
  [phase |-> "auction", dealer |-> dealer, active |-> active, cards |-> 0, tricks |-> 0]

Deal(dealer) == Auction(dealer, Following(dealer))

Board(dealer) ==
  [phase |-> "play", dealer |-> dealer, active |-> Following(dealer),
   cards |-> 0, tricks |-> 0]

\* A call of the active seat: the auction goes on, everyone has passed and the next
\* dealer deals, or the contract is settled and the board is dealt.
AfterCall(h) == {Auction(h.dealer, Following(h.active)),
                 Deal(Following(h.dealer)),
                 Board(h.dealer)}

\* n cards are played, one seat after the other; the fourth completes the trick.
Play(h, n) ==
  IF h.cards + n = 4
  THEN {[h EXCEPT !.phase = "review", !.active = winner, !.cards = 4,
                  !.tricks = h.tricks + 1] : winner \in Position}
  ELSE {[h EXCEPT !.active = (h.active + n) % 4, !.cards = h.cards + n]}

\* The trick is collected.  The cards of the last trick are then played at once, which
\* brings the turn back to the seat that led it.
Continue(h) ==
  IF h.tricks = Tricks - 1
  THEN [h EXCEPT !.phase = "over", !.cards = 4, !.tricks = Tricks]
  ELSE [h EXCEPT !.phase = "play", !.cards = 0]

=============================================================================
