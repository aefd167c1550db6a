------------------------------- MODULE MCBoard -------------------------------
(***************************************************************************)
(* Small rounds for TLC: three tricks, with a deck of three suits and four *)
(* ranks.  A carre is then a rank in all three suits, and a hand is a      *)
(* tierce, a carre or neither.                                             *)
(***************************************************************************)
EXTENDS Board

CONSTANTS hearts, spades, clubs

C(rank, suit) == [rank |-> rank, suit |-> suit]
SuitOf(suit) == InSuit(Card, suit)
RankOf(rank) == {c \in Card : c.rank = rank}

\* Two seats hold fixed cards, and two others share the rest in every way.
Shared(s, held, t, also, u, v) ==
  LET rest == Card \ (held \cup also)
  IN  {[p \in Position |-> CASE p = s -> held [] p = t -> also
                             [] p = u -> taken [] p = v -> rest \ taken]
         : taken \in kSubset(3, rest)}

Tierce(top, suit) ==
  {c \in SuitOf(suit) : NaturalOrder[c.rank] \in (NaturalOrder[top] - 2)..NaturalOrder[top]}

\* Deals of tierces against tierces, of a carre against a tierce, and of short hands in
\* which a trump is overtrumped.
MCDeals ==
  Shared(0, Tierce("ace", hearts), 1, Tierce("ace", spades), 2, 3)
    \cup Shared(1, RankOf("jack"), 2, Tierce("ace", clubs), 0, 3)
    \cup Shared(1, {C("king", hearts), C("jack", spades), C("queen", spades)},
                2, {C("queen", hearts), C("ace", hearts), C("king", spades)}, 0, 3)

MCContracts ==
  {[trump |-> hearts, declarer |-> 0, variant |-> "classic", value |-> 82,
    coinched |-> FALSE],
   [trump |-> hearts, declarer |-> 1, variant |-> "contree", value |-> 80,
    coinched |-> TRUE],
   [trump |-> "allTrumps", declarer |-> 0, variant |-> "contree", value |-> 80,
    coinched |-> FALSE],
   [trump |-> "noTrumps", declarer |-> 1, variant |-> "contree", value |-> 90,
    coinched |-> FALSE]}

=============================================================================
