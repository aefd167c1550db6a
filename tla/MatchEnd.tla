------------------------------ MODULE MatchEnd ------------------------------
(***************************************************************************)
(* The end of a match as a tab shows it, and what it leaves on the device: *)
(* the screen over the table, the goals and the offer of an account        *)
(* (static/match-end.js, goals.js, account-offer.js, app-celebrations.js). *)
(* The screen opens a moment after the table is drawn, and the table is    *)
(* drawn again and again: by moves, by the stream, after a visit to another *)
(* page and after a reload of this one.                                    *)
(***************************************************************************)
EXTENDS Integers, Sequences, FiniteSetsExt

CONSTANTS
  Games,      \* the tables
  Matches,    \* the bound on the matches of a table
  Keep,       \* GOALS_KEEP, 20 in the code
  Cooldown,   \* OFFER_COOLDOWN, 3 in the code
  MaxPending  \* the bound on the openings that wait

ASSUME MatchEndAssumption == {Matches, Keep, Cooldown, MaxPending} \subseteq Nat \ {0}

VARIABLES
  server,   \* the match of each table
  place,    \* the table the tab is at, or another page
  late,     \* the tables left while a load of them was under way
  loading,  \* whether a load of the table at hand is under way
  page,     \* what the page remembers, lost when it is loaded again
  device,   \* what the device remembers: the ledger of the goals and the offer
  visitor,  \* whether the browser is signed in, and what the page knows of it
  counted,  \* the matches that the device's ledger counted, in order
  putAway,  \* the matches whose screen was put away on this page
  offered   \* the guest's matches seen to end, and how many of them at the last "Not now"

endVars == <<server, place, late, loading, page, device, visitor, counted, putAway, offered>>

Elsewhere == "elsewhere"
Nowhere == "nowhere"
Nothing == [game |-> Nowhere]

\* The score tells who won, and a match of the same table may end with the same score.
Scores == {1, 2}
Won(score) == score = 1

Match == [stage : {"auction", "play", "over"}, number : 1..Matches, score : Scores]
Signature == Games \X Scores
SignatureOf(w) == <<w.game, w.score>>

\* matchEndModel, with the parts of it that change.
Model == [game : Games, number : 1..Matches, offer : BOOLEAN]

\* The end of a match, as a table drawn tells it.
Ending == [game : Games, number : 1..Matches, score : Scores]
EndingOf(g, s) == [game |-> g, number |-> s.number, score |-> s.score]

NewPage ==
  [up |-> Nothing, shown |-> Nowhere, dismissed |-> {}, last |-> [g \in Games |-> Nothing],
   pending |-> <<>>, outcomes |-> {}, trick |-> Nothing, revealing |-> FALSE,
   drawn |-> Nothing, asked |-> FALSE]

-----------------------------------------------------------------------------
(* The goals and the offer *)

EmptyLedger == [played |-> 0, won |-> 0, results |-> <<>>, seen |-> <<>>]

FirstOf(s, n) == SubSeq(s, 1, IF Len(s) < n THEN Len(s) ELSE n)
LastOf(s, n) == SubSeq(s, IF Len(s) > n THEN Len(s) - n + 1 ELSE 1, Len(s))

RecordResultAgain(ledger, signature, won) ==
  [played |-> ledger.played + 1,
   won |-> ledger.won + (IF won THEN 1 ELSE 0),
   results |-> FirstOf(<<won>> \o ledger.results, Keep),
   seen |-> LastOf(Append(ledger.seen, signature), Keep)]

RecordResult(ledger, signature, won) ==
  IF signature \in Range(ledger.seen) THEN ledger
  ELSE [played |-> ledger.played + 1,
        won |-> ledger.won + (IF won THEN 1 ELSE 0),
        results |-> FirstOf(<<won>> \o ledger.results, Keep),
        seen |-> LastOf(Append(ledger.seen, signature), Keep)]

\* winsFrom: the wins in a row from a place of the results.
WinsFrom(results, start) ==
  LET losses == {i \in DOMAIN results : i >= start /\ ~results[i]}
  IN (IF losses = {} THEN Len(results) + 1 ELSE Min(losses)) - start

GoalSummary(ledger) ==
  LET ended == IF ledger.results # <<>> /\ ~ledger.results[1] THEN WinsFrom(ledger.results, 2) ELSE 0
  IN [played |-> ledger.played, won |-> ledger.won, streak |-> WinsFrom(ledger.results, 1),
      brokenStreak |-> IF ended >= 2 THEN ended ELSE 0]

NoOffer == [matches |-> 0, dismissedAt |-> -1, last |-> <<>>]

CountMatch(offer, signature) ==
  IF offer.last = signature THEN offer
  ELSE [offer EXCEPT !.matches = @ + 1, !.last = signature]

ShouldOffer(offer) == offer.dismissedAt = -1 \/ offer.matches - offer.dismissedAt >= Cooldown

-----------------------------------------------------------------------------
(* The screen *)

EndOf(g) == [game |-> g, stage |-> "over"]

ClosedAsShown(p) == [p EXCEPT !.up = Nothing, !.pending = <<>>]

\* closeMatchEnd: the openings that wait are dropped, since the generation changes.
Closed(p) == [p EXCEPT !.up = Nothing, !.shown = Nowhere, !.pending = <<>>]

\* resetMatchEnd
Reset(p, g) == Closed([p EXCEPT !.dismissed = @ \ {g}, !.last[g] = Nothing])

IsUp(p, g) == p.shown = g

\* What neither draws nor opens the screen: that it is up, or was put away.
LeftAlone(p, g) == p.shown = g \/ g \in p.dismissed

\* openMatchEnd
Opened(p, m) == [p EXCEPT !.up = m, !.shown = m.game, !.last[m.game] = m]

\* celebrateMatchEnd, up to the pause: a screen that is up or was put away is left alone.
Celebrated(p, g, s) ==
  IF LeftAlone(p, g) THEN p
  ELSE [p EXCEPT !.pending = Append(@, EndingOf(g, s))]

\* renderTrickDiamond: cards are revealed when the trick is another than the one drawn before;
\* the first one drawn on the page is not.
TrickDrawn(p, g, s) ==
  LET trick == [game |-> g, number |-> s.number, stage |-> s.stage]
  IN [p EXCEPT !.trick = trick, !.revealing = p.trick # Nothing /\ p.trick # trick]

\* renderSolo; loadAuction draws an auction and lets the screen be.
Drawn(p, g, s) ==
  LET q == [p EXCEPT !.drawn = [game |-> g, stage |-> s.stage], !.asked = FALSE]
  IN CASE s.stage = "auction" -> q
       [] s.stage = "play" -> Reset(TrickDrawn(q, g, s), g)
       [] s.stage = "over" -> Celebrated(TrickDrawn(q, g, s), g, s)

-----------------------------------------------------------------------------
(* The match at the server *)

\* A match is played, to any score; the next one begins when the table agrees to play again.
PlayOn(g) ==
  /\ \/ server[g].stage = "auction" /\ server' = [server EXCEPT ![g].stage = "play"]
     \/ server[g].stage = "play"
        /\ \E score \in Scores :
             server' = [server EXCEPT ![g].stage = "over", ![g].score = score]
     \/ server[g].stage = "over" /\ server[g].number < Matches
        /\ server' = [server EXCEPT ![g].stage = "auction", ![g].number = @ + 1]
  /\ UNCHANGED <<place, late, loading, page, device, visitor, counted, putAway, offered>>

-----------------------------------------------------------------------------
(* Drawing, and the pause that follows *)

Room == Len(page.pending) < MaxPending

\* The table at hand, or one left before its load arrived.
Draw(g) ==
  /\ (place = g \/ g \in late) /\ Room
  /\ page' = Drawn(page, g, server[g])
  /\ loading' = (loading /\ place # g)
  /\ late' = IF place = g THEN late ELSE late \ {g}
  /\ UNCHANGED <<server, place, device, visitor, counted, putAway, offered>>

\* goalOutcome: a guest's result is added to the ledger, unless this page already did so.
GoalsAfter(w) ==
  IF visitor.goals = "device" /\ SignatureOf(w) \notin page.outcomes
  THEN RecordResult(device.goals, SignatureOf(w), Won(w.score)) ELSE device.goals

\* The pause is over; the screen opens unless it is up, or was put away meanwhile.
Open ==
  /\ page.pending # <<>>
  /\ LET w == Head(page.pending)
         p == [page EXCEPT !.pending = Tail(@)]
         guest == page.revealing /\ ~visitor.signedIn
         offer == IF guest THEN CountMatch(device.offer, SignatureOf(w)) ELSE device.offer
         m == [game |-> w.game, number |-> w.number, offer |-> guest /\ ShouldOffer(offer)]
         outcomes == IF visitor.goals = "unknown" THEN {} ELSE {SignatureOf(w)}
     IN IF LeftAlone(page, w.game)
        THEN page' = p /\ UNCHANGED <<device, counted, offered>>
        ELSE /\ page' = [Opened(p, m) EXCEPT !.outcomes = @ \cup outcomes]
             /\ device' = [goals |-> GoalsAfter(w), offer |-> offer]
             /\ counted' = IF GoalsAfter(w) = device.goals THEN counted
                           ELSE Append(counted, [game |-> w.game, number |-> w.number, won |-> Won(w.score)])
             /\ offered' = IF guest THEN [offered EXCEPT !.ended = @ \cup {<<w.game, w.number>>}]
                           ELSE offered
  /\ UNCHANGED <<server, place, late, loading, visitor, putAway>>

-----------------------------------------------------------------------------
(* The player *)

\* "View table" and Escape.
Dismiss ==
  /\ page.up # Nothing
  /\ page' = [page EXCEPT !.up = Nothing, !.shown = Nowhere, !.dismissed = @ \cup {page.up.game}]
  /\ putAway' = putAway \cup {<<page.up.game, page.up.number>>}
  /\ UNCHANGED <<server, place, late, loading, device, visitor, counted, offered>>

\* reopenMatchEnd, from the table drawn.
Results ==
  /\ page.up = Nothing /\ page.drawn = EndOf(place)
  /\ page.last[place] # Nothing
  /\ LET m == page.last[place]
     IN /\ page' = Opened([page EXCEPT !.dismissed = @ \ {place}], m)
        /\ putAway' = putAway \ {<<m.game, m.number>>}
  /\ UNCHANGED <<server, place, late, loading, device, visitor, counted, offered>>

\* "Not now": the offer is put away on the screen, in what "Results" opens, and on the device.
NotNow ==
  /\ page.up # Nothing /\ page.up.offer
  /\ LET m == [page.up EXCEPT !.offer = FALSE]
     IN page' = [page EXCEPT !.up = m, !.last[m.game] = m]
  /\ device' = [device EXCEPT !.offer.dismissedAt = device.offer.matches]
  /\ offered' = [offered EXCEPT !.before = Cardinality(offered.ended)]
  /\ UNCHANGED <<server, place, late, loading, visitor, counted, putAway>>

\* The match end's own button: the screen is reset, and the answer draws the table, if there is one.
PlayAgain ==
  /\ page.up # Nothing
  /\ page' = [Reset(page, page.up.game) EXCEPT !.asked = TRUE]
  /\ loading' \in {loading, place = page.up.game}
  /\ UNCHANGED <<server, place, late, device, visitor, counted, putAway, offered>>

\* renderView: another table, or none, closes the screen.  The load of the table left may
\* be under way.
Go(p) ==
  /\ p # place
  /\ place' = p
  /\ loading' = (p \in Games)
  /\ late' \in {late \ {p}, (late \cup ({place} \cap Games)) \ {p}}
  /\ page' = [Closed(page) EXCEPT !.drawn = Nothing, !.asked = FALSE]
  /\ UNCHANGED <<server, device, visitor, counted, putAway, offered>>

\* "Create my account" closes the screen and leads home.
CreateAccount ==
  /\ page.up # Nothing /\ page.up.offer
  /\ place' = Elsewhere /\ loading' = FALSE
  /\ page' = [Closed(page) EXCEPT !.last[page.up.game].offer = FALSE, !.drawn = Nothing]
  /\ UNCHANGED <<server, late, device, visitor, counted, putAway, offered>>

Reload ==
  /\ page' = NewPage
  /\ late' = {} /\ loading' = (place \in Games)
  /\ visitor' = [visitor EXCEPT !.signedIn = FALSE, !.goals = "unknown"]
  /\ putAway' = {}
  /\ UNCHANGED <<server, place, device, counted, offered>>

\* The browser signs in, or out with a reload of the page.
SignIn ==
  /\ ~visitor.session /\ place = Elsewhere
  /\ visitor' = [visitor EXCEPT !.session = TRUE]
  /\ UNCHANGED <<server, place, late, loading, page, device, counted, putAway, offered>>

SignOut ==
  /\ visitor.session /\ place = Elsewhere
  /\ visitor' = [session |-> FALSE, signedIn |-> FALSE, goals |-> "unknown"]
  /\ page' = NewPage /\ late' = {} /\ putAway' = {}
  /\ UNCHANGED <<server, place, loading, device, counted, offered>>

\* loadAccount, then loadGoals; without an answer the visitor is taken for a guest.
LoadAccount ==
  /\ visitor.goals = "unknown" \/ visitor.session # visitor.signedIn
  /\ visitor' \in {[visitor EXCEPT !.signedIn = visitor.session,
                                   !.goals = IF visitor.session THEN "account" ELSE "device"],
                   [visitor EXCEPT !.signedIn = FALSE, !.goals = "device"]}
  /\ UNCHANGED <<server, place, late, loading, page, device, counted, putAway, offered>>

-----------------------------------------------------------------------------

EndInit ==
  /\ server = [g \in Games |-> [stage |-> "auction", number |-> 1, score |-> 1]]
  /\ place = Elsewhere /\ late = {} /\ loading = FALSE
  /\ page = NewPage
  /\ device = [goals |-> EmptyLedger, offer |-> NoOffer]
  /\ visitor = [session |-> FALSE, signedIn |-> FALSE, goals |-> "unknown"]
  /\ counted = <<>> /\ putAway = {}
  /\ offered = [ended |-> {}, before |-> 0]

EndNext ==
  \/ \E g \in Games : PlayOn(g) \/ Draw(g)
  \/ \E p \in Games \cup {Elsewhere} : Go(p)
  \/ Open \/ Dismiss \/ Results \/ NotNow \/ PlayAgain \/ CreateAccount
  \/ Reload \/ SignIn \/ SignOut \/ LoadAccount

EndSpec == EndInit /\ [][EndNext]_endVars

\* Loads of the table at hand are answered, and pauses end.
EndFairness == WF_endVars(\E g \in Games : loading /\ place = g /\ Draw(g)) /\ WF_endVars(Open)

EndFairSpec == EndSpec /\ EndFairness

EndTypeOK ==
  /\ server \in [Games -> Match] /\ place \in Games \cup {Elsewhere}
  /\ late \subseteq Games /\ loading \in BOOLEAN
  /\ DOMAIN page = DOMAIN NewPage
  /\ page.up \in Model \cup {Nothing} /\ page.shown \in Games \cup {Nowhere}
  /\ page.last \in [Games -> Model \cup {Nothing}] /\ page.pending \in Seq(Ending)
  /\ page.dismissed \subseteq Games /\ page.outcomes \subseteq Signature
  /\ device.goals.results \in Seq(BOOLEAN) /\ device.goals.seen \in Seq(Signature)
  /\ visitor \in [session : BOOLEAN, signedIn : BOOLEAN, goals : {"unknown", "device", "account"}]

-----------------------------------------------------------------------------
(* Properties *)

\* A match counts once among the goals of the device, however often its end is drawn, come
\* back to, put away, reopened or loaded again (goalOutcomes, and the ledger's `seen`); it
\* counts again only after GOALS_KEEP matches of other tables, which the ledger keeps instead.
SameMatch(c, d) == c.game = d.game /\ c.number = d.number

CountedOnce ==
  \A i, j \in DOMAIN counted :
    i < j /\ SameMatch(counted[i], counted[j]) =>
      \A k \in DOMAIN counted : k < j /\ j <= k + Keep => counted[k].game # counted[j].game

WinsAtEnd(c) == Max({n \in 0..Len(c) : \A i \in (Len(c) - n + 1)..Len(c) : c[i].won})
AtMost(n, bound) == IF n > bound THEN bound ELSE n

\* The goals tell the matches that were counted: how many, how many won, the wins in a row and
\* those that the last match ended, as far as the last GOALS_KEEP results go (goalSummary).
GoalsTellTheMatches ==
  LET lost == counted # <<>> /\ ~counted[Len(counted)].won
      ended == IF lost THEN AtMost(WinsAtEnd(SubSeq(counted, 1, Len(counted) - 1)), Keep - 1) ELSE 0
  IN GoalSummary(device.goals) =
       [played |-> Len(counted), won |-> Cardinality({i \in DOMAIN counted : counted[i].won}),
        streak |-> AtMost(WinsAtEnd(counted), Keep),
        brokenStreak |-> IF ended >= 2 THEN ended ELSE 0]

\* A screen that was put away stays away while its match is on the table: neither a later
\* drawing nor a pause that was running brings it back (matchEndDismissed).
PutAwayStaysAway == page.up # Nothing => <<page.up.game, page.up.number>> \notin putAway

\* A guest who answers "Not now" finishes OFFER_COOLDOWN more matches before they are asked
\* again ("then again after OFFER_COOLDOWN more once dismissed", account-offer.js).
OfferIsSpaced ==
  page.up # Nothing /\ page.up.offer /\ device.offer.dismissedAt # -1
    => Cardinality(offered.ended) - offered.before >= Cooldown

AtOneTable == \A a, b \in offered.ended : a[1] = b[1]

\* The ledger of the device tells each match of a guest, and each once.
LedgerTellsTheMatches == EndTypeOK /\ CountedOnce /\ GoalsTellTheMatches

\* What the player put away, a screen or an offer, does not come back at once; of the offer
\* this is true as long as all the matches seen to end were at one table.
EndingIsLeftAlone == PutAwayStaysAway /\ (AtOneTable => OfferIsSpaced)

\* The end of the match on the table of a player who stays is shown, whatever was dropped with
\* an older pause, unless it was put away or is being answered (celebrateMatchEnd).
EndIsShown ==
  \A g \in Games :
    (place = g /\ page.drawn = EndOf(g) /\ ~page.asked)
      ~> (page.up # Nothing \/ g \in page.dismissed \/ page.drawn # EndOf(g) \/ page.asked)

=============================================================================
