------------------------------- MODULE Scoring -------------------------------
(***************************************************************************)
(* The score of a finished round (beelot-game, scoring.rs).  A team is the *)
(* parity of its seats: 0 is North-South, 1 East-West.  totals has, for    *)
(* each team, its card points, its ten for the last trick (der), its       *)
(* Belote and its announcements; the tricks of North-South; and the        *)
(* contract.                                                               *)
(***************************************************************************)
EXTENDS Integers

CONSTANT Tricks   \* the tricks of a round: 8 in the program

Team == {0, 1}
Other(team) == 1 - team
NoTeam == 2

\* A team's total: its tricks, the last one, Belote and announcements.
Total(totals, team) ==
  totals.points[team] + totals.der[team] + totals.belote[team] + totals.announced[team]

\* The team that took every trick.
Capot(totals) ==
  CASE totals.tricks = Tricks -> 0
    [] totals.tricks = 0 -> 1
    [] OTHER -> NoTeam

ContractMadeOnATie(totals, taker) ==
  CASE Capot(totals) # NoTeam -> Capot(totals) = taker
    [] Capot(totals) = NoTeam /\ totals.variant = "contree" ->
         Total(totals, taker) >= totals.value
    [] Capot(totals) = NoTeam /\ totals.variant = "classic" ->
         Total(totals, taker) >= Total(totals, Other(taker))

\* The taker must reach the bid in Contree, beat the defence in classic Belote, and is
\* never capot.
ContractMade(totals, taker) ==
  CASE Capot(totals) # NoTeam -> Capot(totals) = taker
    [] Capot(totals) = NoTeam /\ totals.variant = "contree" ->
         Total(totals, taker) >= totals.value
    [] Capot(totals) = NoTeam /\ totals.variant = "classic" ->
         Total(totals, taker) > Total(totals, Other(taker))

\* What a team is awarded before a coinche doubles it.  Belote stays with its team.
Undoubled(totals, taker, team) ==
  LET all == totals.announced[0] + totals.announced[1]
      bid == IF totals.variant = "contree" THEN totals.value ELSE 0
  IN  CASE Capot(totals) = team /\ team = taker ->
             250 + bid + totals.announced[team] + totals.belote[team]
        [] Capot(totals) = team /\ team # taker ->
             250 + all + totals.belote[team]
        [] Capot(totals) = Other(team) -> totals.belote[team]
        [] Capot(totals) = NoTeam /\ ContractMade(totals, taker) -> Total(totals, team)
        [] Capot(totals) = NoTeam /\ ~ContractMade(totals, taker) ->
             totals.belote[team] + IF team = taker THEN 0 ELSE 162 + all

Score(totals, taker) ==
  [made |-> ContractMade(totals, taker),
   capot |-> Capot(totals),
   awarded |-> [team \in Team |->
     (IF totals.coinched THEN 2 ELSE 1) * Undoubled(totals, taker, team)]]

=============================================================================
