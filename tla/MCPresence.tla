----------------------------- MODULE MCPresence -----------------------------
(***************************************************************************)
(* Small tables of players, requests and streams for TLC.                  *)
(***************************************************************************)
EXTENDS Presence

Used(streamIds) == {i \in streamIds : stream[i] # NoRequest \/ ending[i] # NoSeat}
Guests == \A s \in Position : lobby.seats[s].account = NoAccount
Players == {s \in Position : lobby.seats[s].kind = "human"}

\* The bounds at a private table, where players move: guests, who keep to two of the
\* seats and open one stream at a time.
PrivateBounds ==
  ~lobby.public => Guests /\ Players \subseteq {0, 1} /\ Cardinality(Used(Streams)) <= 1

\* At a public table a signed-in player has but one request at once.
PublicBounds ==
  lobby.public /\ ~Guests => Cardinality({w \in Workers : authorized[w] # NoRequest}) <= 1

=============================================================================
