-------------------------------- MODULE Table --------------------------------
(***************************************************************************)
(* One table of the server (beelot-server, tables/table.rs): its lobby,    *)
(* the hand being played, the match, and the rules that move it forward    *)
(* when players act, connections drop and time passes.  Every method of    *)
(* `Table` runs under the table's lock, so it is one action here, with     *)
(* the bots' moves (`drive_bots`) and the recording of a finished round    *)
(* as part of the action that calls them.                                  *)
(*                                                                         *)
(* Cards, calls and points are abstracted to what the table reads of them: *)
(* the hand of module Hand, and whether a finished round ends the match.   *)
(***************************************************************************)
EXTENDS Seats, Hand

CONSTANT TableKinds   \* the kinds of table considered

ASSUME TableAssumption == TableKinds \subseteq {"local", "private", "public"}

VARIABLES
  kind,      \* local, private or public, for the life of the table
  lobby,     \* the seats, their owner, and the status
  hand,      \* the auction or the board, as in module Hand
  match,     \* the match score: no match yet, open or complete; and its target
  recorded,  \* round_recorded: the finished round is in the match score
  votes,     \* rematch_votes
  shown,     \* trick_shown: the completed tricks when the trick on view was completed
  handed,    \* how often the caller was given this match as finished
  removed,   \* the table told the registry to remove it
  version    \* the version, modulo 2

vars == <<kind, lobby, hand, match, recorded, votes, shown, handed, removed, version>>

Online == kind # "local"
NoTrick == 0

Match == [state : {"none", "open", "complete"}, target : Targets]

-----------------------------------------------------------------------------
(* The moves of bots *)

FirstDealer == 3

\* The first seat from s on that a human plays, when there is one.
NextHuman(l, s) ==
  LET ahead == CHOOSE n \in 0..3 :
                 /\ (s + n) % 4 \in Humans(l)
                 /\ \A m \in 0..3 : (s + m) % 4 \in Humans(l) => n <= m
  IN  (s + ahead) % 4

\* What bots leave of the cards to play: a human's turn or a completed trick.
BotCards(l, h) ==
  LET toPlay == 4 - h.cards
      n == CHOOSE k \in 0..toPlay :
             /\ k = toPlay \/ (h.active + k) % 4 \in Humans(l)
             /\ \A j \in 0..toPlay :
                  (j = toPlay \/ (h.active + j) % 4 \in Humans(l)) => k <= j
  IN  Play(h, n)

\* What bots leave of an auction whose active seat is theirs.  While a human sits at
\* the table their calls can complete at most one redeal before that human's turn.
BotAuction(l, h) ==
  LET turns == IF Humans(l) = {}
               THEN {[dealer |-> d, from |-> Following(d)] : d \in Position}
               ELSE {[dealer |-> h.dealer, from |-> h.active],
                     [dealer |-> Following(h.dealer),
                      from |-> Following(Following(h.dealer))]}
      humanTurns == IF Humans(l) = {} THEN {}
                    ELSE {Auction(t.dealer, NextHuman(l, t.from)) : t \in turns}
  IN  humanTurns \cup UNION {BotCards(l, Board(t.dealer)) : t \in turns}

BotsPlayCardsOnly(l, h) == IF h.phase = "play" THEN BotCards(l, h) ELSE {h}

\* drive_bots: bots move until a human's turn, a completed trick or the end.
BotsPlay(l, h) ==
  CASE h.phase = "auction" /\ h.active \notin Humans(l) -> BotAuction(l, h)
    [] h.phase = "play" -> BotCards(l, h)
    [] OTHER -> {h}

Drive(l, hands) == UNION {BotsPlay(l, h) : h \in hands}

-----------------------------------------------------------------------------
(* What every change of the hand brings with it *)

\* changed: the table has a new version; it stays of its kind.
Changed == version' = 1 - version /\ UNCHANGED kind

OnViewOfTrickBefore(h) == IF Online /\ h.phase = "review" THEN h.tricks - 1 ELSE NoTrick

\* stamp_trick_review: an online table remembers which completed trick it shows.
OnView(h) == IF Online /\ h.phase = "review" THEN h.tricks ELSE NoTrick

NeverPassAndPlay(l) == FALSE

\* Pass-and-play players cannot be told apart: their matches are not handed over.
PassAndPlay(l) ==
  ~Online /\ Cardinality({s \in Position : l.seats[s].kind = "human"}) > 1

\* record_round_if_complete: a finished round is added to the match score once, and
\* the match is handed over when that round ends it.
RecordRound(h) ==
  IF h.phase = "over" /\ ~recorded
  THEN /\ recorded' = TRUE
       /\ \/ UNCHANGED <<match, handed>>
          \/ /\ match' = [match EXCEPT !.state = "complete"]
             /\ handed' = IF PassAndPlay(lobby') THEN handed ELSE handed + 1
  ELSE UNCHANGED <<recorded, match, handed>>

\* drive_bots after a move that leaves one of the given hands.
MoveOn(hands) ==
  \E h \in Drive(lobby', hands) :
    /\ hand' = h
    /\ shown' = OnView(h)
    /\ RecordRound(h)
    /\ UNCHANGED votes

\* deal and drive_bots: the hand of a new round starts with nothing recorded, no
\* votes and no trick on view.
DealRound(dealer) ==
  \E h \in Drive(lobby', {Deal(dealer)}) :
    /\ hand' = h
    /\ shown' = OnView(h)
    /\ recorded' = FALSE
    /\ votes' = {}

NewMatch ==
  /\ match' = [state |-> "open", target |-> lobby'.target]
  /\ handed' = 0

\* begin_match, at the lobby as it now stands.
BeginMatch == NewMatch /\ DealRound(FirstDealer)

NoMove == UNCHANGED <<hand, match, recorded, votes, shown, handed>>

-----------------------------------------------------------------------------
(* What players do before the game.  s is the position their token names: it *)
(* may be empty by now.                                                      *)

PlayerReady(s, ready) ==
  /\ Online /\ CanSetReady(lobby, s)
  /\ lobby' = SetReady(lobby, s, ready)
  /\ Changed /\ NoMove /\ UNCHANGED removed

PlayerChoosesSeat(s, to) ==
  /\ Online /\ CanChooseSeat(lobby, s, to)
  /\ lobby' = ChooseSeat(lobby, s, to)
  /\ Changed /\ NoMove /\ UNCHANGED removed

OwnerStarts(s) ==
  /\ Online
  /\ \/ CanStart(lobby, s) /\ lobby' = Start(lobby)
     \/ CanStartWithBots(lobby, s) /\ lobby' = SeatBotsAndStart(lobby)
  /\ BeginMatch
  /\ Changed /\ UNCHANGED removed

OwnerSetsTarget(s, target) ==
  /\ Online /\ CanSetTarget(lobby, s)
  /\ lobby' = SetTarget(lobby, target)
  /\ Changed /\ NoMove /\ UNCHANGED removed

\* A player takes the first free seat; the fourth at a public table starts the match.
PlayerJoins(account) ==
  /\ Online /\ CanJoin(lobby)
  /\ lobby' = Join(lobby, account)
  /\ IF Waiting(lobby') THEN NoMove ELSE BeginMatch
  /\ Changed /\ UNCHANGED removed

\* The last player to leave takes the table away; the device of a local table always does.
PlayerLeaves(s) ==
  /\ IF Online
     THEN /\ CanLeave(lobby, s)
          /\ lobby' = Leave(lobby, s)
          /\ removed' = (removed \/ Occupied(lobby') = {})
     ELSE removed' = TRUE /\ UNCHANGED lobby
  /\ Changed /\ NoMove

-----------------------------------------------------------------------------
(* What players do in a match *)

\* mover: at a local table, the device moves for the human whose turn it is.
MayMove(s) == s = hand.active /\ (Online \/ s \in Humans(lobby))

PlayerCalls(s) ==
  /\ hand.phase = "auction" /\ MayMove(s)
  /\ UNCHANGED lobby
  /\ MoveOn(AfterCall(hand))
  /\ Changed /\ UNCHANGED removed

PlayerPlays(s) ==
  /\ hand.phase = "play" /\ MayMove(s)
  /\ UNCHANGED lobby
  /\ MoveOn(Play(hand, 1))
  /\ Changed /\ UNCHANGED removed

\* Anyone seated may collect the trick, before the server does.
PlayerContinues ==
  /\ hand.phase = "review"
  /\ UNCHANGED lobby
  /\ MoveOn({Continue(hand)})
  /\ Changed /\ UNCHANGED removed

CanDealNextAtAnyTime == match.state = "open"
CanDealNext == match.state = "open" /\ hand.phase = "over"

\* Several players may click at once: once dealt, the next click finds no finished round.
PlayerDealsNext ==
  /\ CanDealNext
  /\ UNCHANGED lobby
  /\ DealRound(Following(hand.dealer))
  /\ Changed /\ UNCHANGED <<match, handed, removed>>

PendingOwner(l, voted) == {l.owner} \ voted

\* rematch_pending: bots and disconnected seats do not hold the rematch up.
Pending(l, voted) ==
  {p \in Humans(l) : l.seats[p].connection = "connected"} \ voted

\* Online, a second vote of the same seat changes nothing.
PlayerAsksRematch(s) ==
  /\ match.state = "complete"
  /\ Online => s \notin votes
  /\ UNCHANGED lobby
  /\ LET voted == votes \cup {s} IN
     IF Online /\ Pending(lobby, voted) # {}
     THEN votes' = voted /\ UNCHANGED <<hand, match, recorded, shown, handed>>
     ELSE NewMatch /\ DealRound(Following(hand.dealer))
  /\ Changed /\ UNCHANGED removed

-----------------------------------------------------------------------------
(* What the server does: connections, the sweep of the timed rules, accounts *)

\* disconnect is a new version even for a seat a bot already holds.
SeatDisconnects(s) ==
  /\ Online /\ s \in Occupied(lobby)
  /\ lobby' = Disconnect(lobby, s)
  /\ Changed /\ NoMove /\ UNCHANGED removed

SeatReconnectsSilently(s) ==
  /\ Online /\ CanReconnect(lobby, s)
  /\ lobby.seats[s].connection # "connected"
  /\ lobby' = Reconnect(lobby, s)
  /\ NoMove /\ UNCHANGED <<kind, removed, version>>

SeatReconnects(s) ==
  /\ Online /\ CanReconnect(lobby, s)
  /\ lobby.seats[s].connection # "connected"
  /\ lobby' = Reconnect(lobby, s)
  /\ Changed /\ NoMove /\ UNCHANGED removed

\* The bot-fill wait of a public table is over.  expired are the humans gone for the
\* whole timeout by then: they are replaced under the same lock.
SweepFills(expired) ==
  /\ Online /\ CanFillWithBots(lobby)
  /\ LET filled == FillWithBots(lobby) IN
     /\ lobby' = ReplaceExpired(filled, expired)
     /\ NewMatch
     /\ \E h \in Drive(lobby', Drive(filled, {Deal(FirstDealer)})) :
          /\ hand' = h
          /\ shown' = OnView(h)
          /\ recorded' = FALSE
          /\ votes' = {}
  /\ Changed /\ UNCHANGED removed

\* The hand after the sweep handed seats to bots, and maybe collected the trick that
\* was on view; a trick completed in this very sweep has not been shown long enough.
Swept(l, collected) ==
  IF collected THEN {Continue(hand)} ELSE {hand}

SweepReplaces(expired, collected) ==
  /\ Online
  /\ expired # {} \/ collected
  /\ collected => hand.phase = "review" /\ shown = hand.tricks
  /\ lobby' = ReplaceExpired(lobby, expired)
  /\ MoveOn(Swept(lobby', collected))
  /\ Changed /\ UNCHANGED removed

\* A deleted account leaves a waiting table; in a match its seats are handed to bots.
ReleaseAccount(account) ==
  LET seats == SeatsOf(lobby, account) IN
  /\ seats # {}
  /\ lobby' = CASE Waiting(lobby) -> LeaveAll(lobby, seats)
                 [] ~Waiting(lobby) /\ Online -> HandToBot(lobby, seats)
                 [] OTHER -> ForgetAccount(lobby, seats)
  /\ removed' = (removed \/ Occupied(lobby') = {})
  /\ IF Waiting(lobby) THEN NoMove ELSE MoveOn({hand})
  /\ Changed

-----------------------------------------------------------------------------
(* The specification *)

\* local_seats: one human in North against three bots, who may be signed in, or two
\* to four humans sharing the device, who are nobody's accounts.
Opened ==
  IF Online
  THEN {Open(a, kind = "public", t) : a \in Accounts \cup {NoAccount}, t \in Targets}
  ELSE {LocalLobby({0}, a, t) : a \in Accounts \cup {NoAccount}, t \in Targets}
       \cup {LocalLobby(H, NoAccount, t) :
              H \in {P \in SUBSET Position : Cardinality(P) >= 2}, t \in Targets}

Init ==
  /\ kind \in TableKinds
  /\ lobby \in Opened
  /\ IF Online
     THEN /\ hand = [Deal(FirstDealer) EXCEPT !.phase = "none"]
          /\ match = [state |-> "none", target |-> lobby.target]
     ELSE /\ hand \in Drive(lobby, {Deal(FirstDealer)})
          /\ match = [state |-> "open", target |-> lobby.target]
  /\ recorded = FALSE
  /\ votes = {}
  /\ shown = NoTrick
  /\ handed = 0
  /\ removed = FALSE
  /\ version = 0

PlayerStep ==
  \/ \E s \in Position :
       \/ \E ready \in BOOLEAN : PlayerReady(s, ready)
       \/ \E to \in Position : PlayerChoosesSeat(s, to)
       \/ OwnerStarts(s)
       \/ \E t \in Targets : OwnerSetsTarget(s, t)
       \/ PlayerLeaves(s)
       \/ PlayerCalls(s)
       \/ PlayerPlays(s)
       \/ PlayerAsksRematch(s)
  \/ \E a \in Accounts \cup {NoAccount} : PlayerJoins(a)
  \/ PlayerContinues
  \/ PlayerDealsNext

ServerStep ==
  \/ \E s \in Position : SeatDisconnects(s) \/ SeatReconnects(s)
  \/ \E expired \in SUBSET Disconnected(lobby) :
       \/ SweepFills(expired)
       \/ \E collected \in BOOLEAN : SweepReplaces(expired, collected)
  \/ \E a \in Accounts : ReleaseAccount(a)

Next == PlayerStep \/ ServerStep

Spec == Init /\ [][Next]_vars

\* The sweep runs every few seconds, so a trick on view is collected in the end.
FairSweep ==
  WF_vars(\E expired \in SUBSET Disconnected(lobby) : SweepReplaces(expired, TRUE))

FairSpec == Spec /\ FairSweep

-----------------------------------------------------------------------------
(* What the table promises *)

TypeOK ==
  /\ kind \in TableKinds
  /\ lobby \in Lobby
  /\ hand \in Hand
  /\ match \in Match
  /\ recorded \in BOOLEAN
  /\ votes \subseteq Position
  /\ shown \in 0..Tricks
  /\ handed \in Nat
  /\ removed \in BOOLEAN
  /\ version \in {0, 1}

\* A match is on exactly when the table has left the lobby, and then all four seats
\* are taken: nothing that happens in a match frees a seat or stops the game.
GameNeedsFour ==
  /\ Waiting(lobby) <=> hand.phase = "none"
  /\ Waiting(lobby) <=> match.state = "none"
  /\ ~Waiting(lobby) => Free(lobby) = {}

\* While anyone sits at the table its owner does, so somebody can always start it:
\* leaving, moving and deleted accounts hand the table on.
OwnerIsSeated == Occupied(lobby) # {} => lobby.owner \in Occupied(lobby)

\* The table at rest never waits for a bot: every handler that gives a seat to a bot
\* or the turn to a seat also lets the bots move.
NeverWaitsForBot == hand.phase \in {"auction", "play"} => hand.active \in Humans(lobby)

\* An online table shows a completed trick exactly while the board is reviewing it, and
\* remembers that very trick, so the sweep can collect it.
TrickOnViewIsCurrent ==
  Online => shown = IF hand.phase = "review" THEN hand.tricks ELSE NoTrick

\* A finished round is in the match score, and a complete match was handed over to the
\* history once, whoever finished it: a player, the sweep, or the bots of a deleted
\* account.  Only a match of several humans on one device is not.
FinishedMatchHandedOverOnce ==
  LET several == \E s, t \in Position : /\ s # t
                                        /\ lobby.seats[s].kind = "human"
                                        /\ lobby.seats[t].kind = "human"
  IN  /\ hand.phase = "over" <=> recorded
      /\ match.state = "complete" => hand.phase = "over"
      /\ handed = IF match.state = "complete" /\ (Online \/ ~several) THEN 1 ELSE 0

\* A match is played to the target the lobby shows: the owner cannot change it once
\* the match has begun, and a rematch keeps it.
MatchKeepsTarget == match.state # "none" => match.target = lobby.target

\* Once the last player has left, the table stays empty until the registry has removed
\* it: nobody can sit down at a table about to disappear.
RemovedTableIsEmpty == Online /\ removed => Occupied(lobby) = {}

\* A bot that took a seat during a match keeps it: the player cannot reconnect to it,
\* not even for a rematch.
BotKeepsSeat ==
  [][\A s \in Position :
       ~Waiting(lobby) /\ PlayedByBot(lobby.seats[s]) => PlayedByBot(lobby'.seats[s])]_vars

\* A deleted account's seat in an online match goes to a bot: it is not freed, and no
\* other account is ever recorded in its place.
DeletedSeatGoesToBot ==
  [][Online /\ ~Waiting(lobby) =>
       \A s \in Position : lobby'.seats[s].account # lobby.seats[s].account =>
         lobby'.seats[s].account = NoAccount /\ PlayedByBot(lobby'.seats[s])]_vars

\* An online match is only restarted when all the connected humans agreed: all but the
\* one whose vote restarts it had voted before.
RematchByConsent ==
  [][Online /\ match.state = "complete" /\ match'.state = "open" =>
       \A s, t \in Humans(lobby) \ votes :
         s # t => lobby.seats[s].connection = "disconnected"
                    \/ lobby.seats[t].connection = "disconnected"]_vars

\* A round on the board is played to its end, trick by trick: no second click for the next
\* round, rematch, sweep or deletion deals over it, or skips or takes back a trick.
RoundIsPlayedOut ==
  [][hand.phase \in {"play", "review"} =>
       /\ hand'.phase \in {"play", "review", "over"} /\ hand'.dealer = hand.dealer
       /\ hand'.tricks \in hand.tricks..(hand.tricks + 1)]_vars

\* Whatever the players can see of the table changes only with a new version, so no
\* open stream misses a change.
ChangeIsANewVersion ==
  [][<<lobby, hand, match, votes>>' # <<lobby, hand, match, votes>>
       => version' # version]_vars

\* The sweep alone collects every trick on view of an online table, though no player
\* continues, and never a newer trick on the time of an older one.
TrickIsCollected ==
  \A k \in 1..Tricks :
    [](Online /\ hand.phase = "review" /\ hand.tricks = k
         => shown = k /\ <>~(hand.phase = "review" /\ hand.tricks = k))

=============================================================================
