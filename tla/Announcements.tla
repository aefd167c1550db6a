---------------------------- MODULE Announcements ----------------------------
(***************************************************************************)
(* Announcements (beelot-game, announcements.rs): the carres and sequences *)
(* of a hand, which of two is the stronger, and which seat has the best.   *)
(*                                                                         *)
(* A sequence is a run in one suit, a carre a rank in every suit.  Of its  *)
(* cards an announcement keeps what is compared: how many they are and the *)
(* highest; of the order in which a hand lists its announcements, nothing. *)
(***************************************************************************)
EXTENDS Rules, FiniteSetsExt

CarreValues == [jack |-> 200, nine |-> 150, ace |-> 100, ten |-> 100, king |-> 100,
                queen |-> 100]
NoTrumpsCarreValues == [ace |-> 200, ten |-> 150, king |-> 100, queen |-> 100,
                        jack |-> 100, nine |-> 100]

NoSuit == "none"

CarreValue(rank, trump) ==
  IF trump = "noTrumps" THEN NoTrumpsCarreValues[rank] ELSE CarreValues[rank]

\* The ranks a hand holds in every suit; sevens and eights are worth nothing.
CarreRanks(hand) ==
  {r \in Ranks \cap DOMAIN CarreValues :
     \A s \in Suits : [rank |-> r, suit |-> s] \in hand}

Heights(cards, suit) == {NaturalOrder[c.rank] : c \in InSuit(cards, suit)}

\* The longest runs of at least three heights.
Runs(heights) ==
  {run \in {lo..hi : lo, hi \in heights} :
     /\ Cardinality(run) >= 3
     /\ run \subseteq heights
     /\ \A h \in heights \ run : h + 1 \notin run /\ h - 1 \notin run}

SequenceValue(length) == CASE length = 3 -> 20 [] length = 4 -> 50 [] length > 4 -> 100

\* find: carres first, sequences among the cards that are left.
Find(hand, trump) ==
  LET carres == CarreRanks(hand)
      left == {c \in hand : c.rank \notin carres}
  IN  {[value |-> CarreValue(r, trump), length |-> Cardinality(Suits),
        top |-> NaturalOrder[r], suit |-> NoSuit] : r \in carres}
      \cup UNION {{[value |-> SequenceValue(Cardinality(run)), length |-> Cardinality(run),
                    top |-> Max(run), suit |-> s] : run \in Runs(Heights(left, s))}
                  : s \in Suits}

TrumpLast(a, trump) == IF a.suit = trump THEN 1 ELSE 0

\* compare_strength: the value, the length, the top card, then the trump suit.
Stronger(a, b, trump) ==
  \/ a.value > b.value
  \/ /\ a.value = b.value
     /\ \/ a.length > b.length
        \/ /\ a.length = b.length
           /\ \/ a.top > b.top
              \/ a.top = b.top /\ TrumpLast(a, trump) > TrumpLast(b, trump)

\* The declarations that hold an announcement no other is stronger than.
Strongest(declared, trump) ==
  {i \in DOMAIN declared :
     \E a \in declared[i].found :
       \A j \in DOMAIN declared : \A b \in declared[j].found : ~Stronger(b, a, trump)}

\* best_seat: of equally strong announcements, the one declared first.
BestSeat(declared, trump) == declared[Min(Strongest(declared, trump))].seat

\* What a seat's announcements are worth together.
Worth(found) == MapThenSumSet(LAMBDA a : a.value, found)

=============================================================================
