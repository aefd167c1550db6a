----------------------------- MODULE Positions ------------------------------
(***************************************************************************)
(* The four seats of a table in play order (beelot-game, `Seat`): partners *)
(* sit opposite each other, the turn passes to the following seat.         *)
(***************************************************************************)
EXTENDS Naturals

Position == 0..3

Following(s) == (s + 1) % 4

Partners(s, t) == s % 2 = t % 2

=============================================================================
