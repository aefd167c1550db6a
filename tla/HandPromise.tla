----------------------------- MODULE HandPromise -----------------------------
(***************************************************************************)
(* What the table relies on when it keeps no more of a hand than Hand      *)
(* does: every call and every card moves the hand on as the operators of   *)
(* Hand say.  A hand starts with its auction, or, seen from the board,     *)
(* with the contract settled.                                              *)
(***************************************************************************)
EXTENDS Hand

VARIABLE hand

HandInit == \E d \in Position : hand = Deal(d) \/ hand = Board(d)

HandNext ==
  \/ hand.phase = "auction" /\ hand' \in AfterCall(hand)
  \/ hand.phase = "play" /\ hand' \in Play(hand, 1)
  \/ hand.phase = "review" /\ hand' = Continue(hand)

HandSpec == HandInit /\ [][HandNext]_hand

=============================================================================
