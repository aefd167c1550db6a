# Beelot in TLA+

Beelot is a server and a browser client for Belote and Contrée: four seats around a
table, played by people on their own devices, by people who share one, and by bots.
This directory holds TLA+ models of the program's own logic, the configurations that
check them with TLC, and proofs that TLAPS checks. Paths below are those of the
repository, under `crates/beelot-game/src` (the rules), `crates/beelot-server/src`
(the server) and `crates/beelot-server/static` (the client, the `.js` files).

## 1. The system

### Components, their state and their operations

| Component | State it keeps | Operations |
|---|---|---|
| Lobby (`tables/seats.rs`) | four seats (who, ready, connected / disconnected / taken over), owner, status, rules | open, join, leave, change seat, ready, start, fill with bots, disconnect, reconnect, replace the expired, hand to a bot, set the rules |
| Table (`tables/table.rs`) | lobby, auction or board, match score, votes for a rematch, the trick on view, a version | each action of a player, the bots' moves after it, the two rules of the sweep, release of an account |
| Registry (`tables/registry.rs`, `codes.rs`) | tables by id, tables by invitation code, the tokens and the stream counters of each table | create, join, watch, authorise, act, remove, evict, count, sweep, release an account |
| Matchmaking (`tables/matchmaking.rs`) | one lock | quick match: sit at the fullest open public table, or open one |
| Streams (`routes/events.rs`) | one open stream per page, counted for a seat | open, send a view for every version, end |
| Jobs (`jobs.rs`) | none | sweep of the tables, idle eviction, session sweep, purge of old data |
| Auction (`bidding.rs`) | calls, highest bid, passes, round, hands | pass, choose a suit, bid, coinche, redeal |
| Board (`board.rs`, `rules.rs`, `announcements.rs`, `scoring.rs`) | hands, the trick, announcements, points | play, continue, result of the round |
| Match score (`match_score.rs`), deck (`deck.rs`, `rng.rs`) | the recorded rounds; 32 cards in an order | record, total, winner; shuffle, cut, gather |
| Bots (`bot/`) | what has been seen of the cards | choose a legal call or card, hint, review |
| Reactions, rate limits, passkeys, sessions | recent reactions, counters, pending ceremonies, rows | check and count, prune, expire |
| Accounts, friends, history, ratings (`db/`, `routes/`, `history/`) | database rows | sign in, delete; request, accept; record a match |
| Online table in the tab (`app-core.js`, `app-session.js`, `app-table-ui.js`) | newest snapshot of each table, requests under way, the stream, what is on screen | load, act, receive, draw, reveal calls, reopen the stream |
| Lobby on the page (`lobby-model.js`, `app-session.js`) | none: computed from a snapshot | which buttons a player is offered |
| Solo and pass-and-play in the tab (`app-solo-table.js`, `app-auction.js`) | the match kept for later, held trick and timers, the cover | call, play, collect later, hand the device over, next round, rematch, resume |
| Addresses and sheets (`router.js`, `sheet.js`) | the browser's history, the open sheet, the steps back it owes | navigate, open, dismiss, go back, reload |
| Moments (`bot-expression-state.js`, `celebrations.js`, `game-events.js`) | the snapshots compared last, what was said of a round | tell an event, a line, a sticker, a sentence |
| End of a match (`match-end.js`, `goals.js`, `account-offer.js`, `app-celebrations.js`) | the screen, its pauses, the ledger and the offer kept on the device | draw, open after a pause, put away, answer the offer |
| Account, friends and tables of a tab (`app.js`, `app-friends.js`, `app-auction.js`) | signed in or not, the friends list, invitations seen, tokens, the session | sign in and out, delete, poll, enter by code, invitation or quick match, leave |

`PROJECT.json` lists all the parts, with those that are not modelled and why.

### How they interact

A request reaches the registry with a player token. The registry looks the table up in
one concurrent map, takes the lock of its tokens to find the seat, and then the lock of
the table to act; after the action it publishes the new version to the streams of the
table. Bots have no thread: whoever moves a table also plays the bots that follow
(`drive_bots`), under the same lock. Two things move a table with no request: the sweep
of the jobs, every few seconds, and the deletion of an account. A finished match is
returned by the method that finished it, to a caller that records it in a task.

An open stream *is* the presence of a player: opening it connects the seat, and the end
of the last one disconnects it, in a task of its own that takes the lock of the counters
first and that of the table later. Tables by id and tables by code are two maps that no
lock holds together; only quick matches exclude each other.

In a tab everything happens on one thread, between `await`s. What crosses are answers: to
loads, to actions, from the stream, from polls every twenty seconds, and from the browser
to `history.back()`; and timers, which fire after what they were set for is gone. Each part
guards itself with a number of its own: request numbers (`privateTableRequestId`,
`tableStream`), the version of a snapshot, a generation (`matchEndGeneration`), a count of
the steps back owed (`pendingBack`), keys of what was already shown. No module of the
client knows the guards of another.

### What is hard to get right, and to test

* A table changes for four reasons (players, lost connections, time, deleted accounts),
  and in each the bots must be driven, the trick on view stamped, the round recorded once
  and the owner kept; whoever forgets one leaves a table that waits for ever. No test
  walks through their interleavings.
* What was read under one lock is used under another: the seat of a token, the decision
  that a seat is gone, the table a code leads to, the tables that looked idle, a count.
* Things that must happen in the end although everybody is away: a trick is collected, a
  seat goes to a bot, an empty table disappears.
* The counts of the auction: three passes after a bid, four without, two rounds.
* The round is kept in many fields that must agree: hands, trick, piles, winners, the live
  scores the players see and the totals the result is computed from; and its last trick is
  played by the collection of the one before, with no player choosing.
* Answers that overtake each other, are lost, or arrive after the page they were for; and
  nevertheless the screen must not go back and must reach the newest state.
* Drawing is not an event: a snapshot is drawn again by every visit, poll and reload, and
  what is to happen once (a bot's line, a match counted among the goals, an invitation) must
  be recognised.
* Two places that compute the same condition: the buttons of the lobby and the guards of the
  server.

## 2. Modules

| Module | Models | Refers to |
|---|---|---|
| `Positions` | the four seats in turn | |
| `Seats` | the lobby as a record, one operator for each method of `Lobby`, a guard `Can...` beside each method that refuses | `Positions` |
| `Hand` | a hand as the table needs it: whose turn, how many cards, how many tricks | `Positions` |
| `HandPromise` | `Hand` as a specification: the abstract machine that auction and board implement | `Hand` |
| `Table` | one table, one action for each operation of `Table`; bots' moves, recording and hand-over are part of the action that causes them | `Seats`, `Hand` |
| `LobbyScreens` | the buttons both views of the client offer at a table in its lobby, as functions of the table | `Table` |
| `Bidding` | the auction of both variants, call by call; implements `HandPromise` | `Hand` |
| `Rules`, `Announcements`, `Scoring` | the pure parts of a round, as operators: which card beats which and may be played, announcements, the score | `Positions` |
| `Board` | the card play of a round, from the deal to its result; implements `HandPromise` | the three above |
| `Presence` | one table's tokens, requests in two steps, streams that open, end and disconnect | `Seats` |
| `Registry` | the two maps, the counts, eviction, joining and quick matches, one read or write at a time | |
| `Snapshots` | what a tab holds of one online table: the newest snapshot, the requests it waits for, the stream | |
| `OnlineTable`, `PrivateTable` | the new and the old view that draw the table | `Snapshots` |
| `TableClient` | the tab: one of the two views, decided once by a flag | both |
| `SoloGame` | a match on the device, from the auction to the rematch | |
| `Sheets` | addresses, history, sheets | |
| `Moments` | what is told of the snapshots drawn | |
| `MatchEnd` | the end of a match, the goals, the offer of an account | |
| `Account` | the account on the page, the friends list and the invitations | |
| `Crew` | how a tab comes to online tables and leaves them | `Account` |
| `MCTable`, `MCBoard`, `MCPresence` | the bounds and inputs of an instance that are not plain constants | |
| `SeatsProofs`, `TableProofs`, `BiddingProofs`, `PresenceProofs`, `RegistryProofs`, `BoardProofs`, `TableClientProofs`, `PageProofs` | lemmas and theorems | the module each is named after; `BiddingProofs` also `MatchEnd`, `RegistryProofs` also `Account` and `Crew`, `PageProofs` `Moments` and `Sheets`, `TableProofs` also `LobbyScreens`, `BoardProofs` also the rules, the announcements and the scoring |

### State and actions against the code

* `Table`: `lobby` is the field `lobby`; `hand` stands for `bidding` and `board`, of
  which calls, cards and points are left out, so a call or a card may lead to whatever
  some call or card leads to; `match` is `match_score`, open or complete, with its target;
  `recorded` is `round_recorded`, `votes` is `rematch_votes`, `shown` the trick count of
  `trick_shown`; `handed` counts the `finished` matches of the `Outcome`s; `version` is kept
  modulo two, enough to tell "changed" from "unchanged"; `kind` is the kind of the table
  (private, public, or local: solo and pass-and-play), which never changes. Actions carry
  the names of the methods or of who causes them: `PlayerCalls`, `PlayerPlays`,
  `PlayerContinues`, `SweepReplaces`, `ReleaseAccount`. A clock is nowhere: what a timeout
  allows may happen at any later step.
* `LobbyScreens`: `LobbyModel` and `PrivateLobby` are the buttons of the two views for the
  player of a seat, `Accepts` is the guard of the server for the action each sends. It has
  no steps of its own: the table's are enough.
* `Bidding`: one variable for each field of `BiddingState` the calls read. Cards are left
  out but for the upturned suit.
* `Board`: one record for the fields of `GameBoard`, and an operator for each method from
  a board to a board, since continuing calls `play`. Team fields are functions of the team,
  the parity of a seat. `winners` stands for `trick_winners`, `completed_tricks`,
  `next_leader` and the count of North-South's tricks, `trick` for the current trick and,
  while it is reviewed, the completed one. A hand is the set of its cards, an announcement
  what is compared of it.
* `Presence`: `tokens`, `streams` and `stream` are the maps behind the locks of a
  `TableHandle`; a request of a worker is `Authorize` and then one of the actions. Two
  variables are history, to state properties with: `player` (whose token sits where) and
  `streamed` (who ever had a stream).
* `Registry`: `tables` and `codes` are the two maps; `job[w]` is the program counter and
  the local variables of a worker between two accesses to them.
* `Snapshots`: a snapshot is its version; of each change of the table only its kind is
  kept (a reaction of this player or of another, a call, any other). `latest` is
  `latestSnapshots`, `stream` is `tableStream`, `calls` are the requests under way, `shown`
  counts how often the reaction of a version was shown. The server is only the number of the
  newest version: what `Table` proves of it (`ChangeIsANewVersion`) is what this rests on.
  `OnlineTable` and `PrivateTable` add what each view drew and what it does after an
  `await`; the reveal of calls is an action for each call revealed.
* `SoloGame`: `requests` is the queue of requests and answers between tab and server;
  `screen` is the snapshot on the page, `cover` and `shownTo` are the hand-off, `holdKey`
  and `timers` the held trick (`pendingTrickCollection`), `moving` the pause after the
  auction, or that another cover took the place of the one that leads on, `resume` the match
  kept in local storage. Two variables are history, to state properties with: `lost` (whether
  a request failed, and whether since the player last chose a page) and `missed` (the trick
  whose time was up while the player was away).
* `Sheets`: one record `tab`, with the entries of the history, the place in it, the sheet
  open, and the queue of steps the browser has not answered yet, each the player's or the
  tab's own; `pendingBack` is the counter of `sheet.js`.
* `Moments`: `server` is the newest snapshot, `board` and `view` what the modules that compare
  snapshots last saw; `told` is a history of the moments told, to state properties with.
* `MatchEnd`: `page` are the variables of `app-celebrations.js` and of the page, `device`
  what local storage keeps, `counted`, `putAway` and `offered` are history.
* `Account` and `Crew`: `page` is what the page knows, `server` what it holds of this
  browser, `calls` the requests under way, each with what it asked for, its answer, and where
  the tab was; `seats` are the seats this tab ever took, `tab` its tokens, session and
  address. `stranded` is history: the seats whose answer, or whose request to leave, was lost.

## 3. Runs

Each run finishes in under three minutes. "V" marks a run whose property the code
violates; section 6 says what that means.

| Run | Question | Distinct states |
|---|---|---|
| `tables` | A private, a public or a local table, from the lobby through rounds and rematches, with lost connections, takeovers, a deleted account, and the buttons both views offer beside it | 863,742 |
| `bidding` | Every auction of both variants, and that it is the hand `Table` works with | 32,224 |
| `presence` | A private table with two requests at once, or a public one with two streams: tokens, counters, and players who are gone | 246,796 |
| `registry` | Two workers create, join, leave, evict and match over the two maps | 1,386,951 |
| `board` | Whole rounds over 60 deals, against definitions of the rules, and that they are the hand of `Table` | 1,041,427 |
| `table_client` | A tab at an online table, on either view, with snapshots lost, overtaken and refused | 438,336 |
| `solo` | A match on the device, alone or handed over, with covers, pauses, visits home and failed requests | 399,586 |
| `sheets` | Addresses, history and sheets, while the browser still owes steps | 1,654,811 |
| `moments` | What is told of three rounds whose snapshots are skipped, drawn again and reloaded | 890,672 |
| `match_end` | The end of three matches drawn again, put away, come back to and reloaded | 1,321,939 |
| `crew` | A tab that signs in and out, polls, and enters and leaves two tables | 615,182 |
| `presence_reload` | V: does a page that reloads keep its seat connected? | 102 |

### What the properties say

* Table (`tables`). `NeverWaitsForBot`: at rest the turn is a human's.
  `FinishedMatchHandedOverOnce`, whoever finishes it. `OffersAreAccepted`: a button of the
  lobby, on either view, is one the server accepts. `ReadyLobbyCanStart`: when everybody in
  a private lobby is ready, somebody has a button that starts the game. As steps:
  `BotKeepsSeat` (a late reconnection never takes a seat back from a bot),
  `DeletedSeatGoesToBot`, `RematchByConsent`, `RoundIsPlayedOut` (no second click for the
  next round, rematch, sweep or deletion deals over a round, or skips a trick of it),
  `ChangeIsANewVersion` (no change without a version, or open streams would miss it). As
  liveness `TrickIsCollected`: the sweep collects each trick in the end, and times the very
  trick on view, so it never collects a newer one on the time of an older.
* Auction. `CallsInTurn`, `SoldOnlyAfterAnswers`, and `AuctionEndsWell`: the contract is the
  highest bid, a suit is taken in the round that offers it, and an auction cannot go on for
  ever. `ImplementsHand` is the refinement that lets `Table` forget calls and cards.
* Board. `CardsAreConserved` (down to the deck gathered for the next deal, which
  `Deck::new` asserts to be whole). `StrongestCardWins` and `LegalAsTheRulesSay` compare the
  code's folds and cases with definitions that quantify over the trick and the hand; the
  second also says that the seat to move always has a legal card. `ScoresAddUp` and
  `RoundIsAwarded` relate the score the players see to the totals, the piles, the
  announcements of one team and the result. `ImplementsHand` again, now for the cards.
* Presence. `TokenNamesItsSeat`, `CountersCountStreams`, `GoneIsNoticed`, and
  `AbandonedSeatGoesToBot` as liveness.
* Registry. `CodesLeadToTables`, `OneOpenTable`, and as liveness `EmptyTablesGo`: a table
  everyone left goes from both maps for good, and nobody sits down at it any more, though
  they looked it up before it was left.
* Online table in the tab. `OnlineScreenNeverGoesBack`, `TheirReactionOnce`,
  `OnlineStreamOnlyAtTheTable` (a stream is a presence: one opened late would keep at the
  table a player who left it), and as liveness `PresentSeesTheNewest`, on both views: over
  lost requests, streams that drop and calls that are being revealed.
* `MatchGoesOn` (solo), three parts. As liveness, a trick is collected for a player who is at
  the table and stays, whatever was visited or failed before, unless its time was up while
  they were away: that trick waits for ever (section 5). As liveness, a finished auction leads
  a player who stays to the cards or to the cover that asks for the next player, unless the
  game's page drew its cover late over that one (section 5). In both, a request that fails
  while the player is there excuses the tab: the player has to come again. A match that is
  over is not offered again, if no request ever failed.
* `HistoryMatchesSheets`: every step back the tab waits for is owed (`PendingBackIsOwed`, or
  it would swallow one of the player's later on), the page drawn is that of the address, and
  a sheet that has an address is open exactly there.
* `EachMomentIsToldOnce`: nothing is told twice, nor told of a snapshot that does not hold it;
  the bots say one line a round.
* `LedgerTellsTheMatches`: the goals count each match once, and their summary is that of the
  matches counted, streaks included; a match counts again only after as many matches of
  other tables as the ledger keeps. `EndingIsLeftAlone`: a screen put away does not come
  back, nor does an offer refused before its time, as long as the matches seen to end were
  at one table. `EndIsShown` as liveness: dropping an old pause never drops the end.
* `InviteIsShownOnce`, `SeatIsGivenUpFirst`, and as liveness `PolledListIsTheServers`.

Every property has a mutant of the code it is about, listed in `PROJECT.json`, that
violates it.

### Bounds, and why they are enough

* Seats are always the four of the program: nothing about them is scaled down, but for the
  dealers of `Moments`.
* `Tricks = 2`: a round has two tricks in place of eight, of which the last is played at
  once, as the eighth is. The table tells tricks apart only as "the last" and "not the
  last", and by their number while one is on view, so two are enough for a trick that is
  collected late to meet the next one.
* One target, since only the moment it is read matters. Accounts: guests and at most one
  seat with an account (`FewAccounts`), since accounts only meet when one is deleted.
* `Bidding`: three suits (one more than those a bid and a counter-bid use) and values
  that are too low, not a multiple, the lowest, in between, the highest and too high.
* `Board`: three tricks, with three suits (trump, the suit led, another) and four ranks
  whose order under trump, without it and for sequences is different each time. The first
  trick, where announcements count, the second and the last, played alone, are then three
  different ones. 60 deals with tierces against tierces, a carré against a tierce, pairs of
  King and Queen and hands that cannot follow; contracts in a suit (coinched or not, both
  variants), all trumps and no trumps. The literals of the score (162, 250 and the bids) are
  the program's though a smaller deck has fewer points: contracts are then made less often,
  not never. The dealer is fixed, since the deals give each seat another part.
* `Presence`: two workers, so that a request may meet another between its two locks; two
  tokens, reused once nothing refers to them, as new ones would be; two streams, so that the
  last is told from the last but one. `PrivateBounds` and `PublicBounds` split the two
  questions: requests and a deletion at a private table, streams at a public one.
* `Registry`: two workers, two tables, one code (so a second table takes a code over as
  soon as it is free), two places to a table (so the last seat and the first are different
  seats, and a join fills the table), the caps at or below the number of tables so that
  eviction and refusal happen. `DrawsDiffer` is a constraint of the run and an assumption
  of the theorems: two creations that are under way together do not draw the same of the
  32^6 codes. The code looks whether a code is in use and inserts it later, so it relies
  on that. `Width` bounds a machine word: differences below zero wrap around.
* `TableClient`: four versions on the old view, three on the new, two requests at once on
  the new view and one on the old, an auction of two calls. A request can then be overtaken
  by another and by the stream, and a reveal of two calls be interrupted between them.
* `SoloGame`: two tricks, two requests at once. `InOrder` says that the browser's requests to
  one server are served and answered in order; section 5 says what it hides.
* `Sheets`: four entries of the history, one step of the player's under way while the tab's
  own are answered: that is where the two can be mistaken for each other.
* `Moments`: three rounds, two tricks of two cards, two dealers, so that the dealer comes
  round again and a round looks like the one two before it.
* `MatchEnd`: one table of three matches, a ledger that keeps two results, an offer after two
  matches, two pauses at once. The theorems hold for any number of tables; of
  the offer they say nothing once the guest saw matches of two tables end (section 5).
* `Crew`: two tables, two seats in the tab's life, one invitation, two states of the list,
  two requests at once, two steps each of a guest and of a signed-in player.

### Fairness

Safety is checked of specifications without fairness. Liveness assumes no more than:
the sweep runs again and again (`jobs.rs` starts it as a periodic task), so what its
timeouts allow is done in the end; the end of a stream is a spawned task that runs to its
end; a worker that has begun an operation of the registry goes on, since it waits for
nothing but short locks. In a tab: a timer that is set fires, an answer that was sent is
received or lost, a stream that drops is opened again after its pause, and a stream or a
poll that is tried again and again gets through again and again (the strong fairness of
`TableClient` and `Crew`: a network that is always down would refute every liveness
property). No fairness is assumed of players, connections, or deletions.

## 4. Theorems

TLC checks the instances above; TLAPS proves the theorems for every value of the
constants the named assumptions allow: any accounts, targets, tricks of a round, tokens,
requests and streams at once, tables, codes, workers, caps, places and width, any deal and
contract, any ranks, at most four suits (`BoardAssumption`: the program's four), any values
bid, any versions and requests of a tab, any number of dealers, rounds, tricks and cards
of what is told, any length of the history, any tables, matches, length of the ledger and
matches between two offers, and any invitations, tables, seats and requests of a
tab (`CrewAssumption`: no table is called as the invitation that is none). Contracts have values in `Nat` (`BoardAssumption` takes them from `Contract`).

| Module | Proved |
|---|---|
| `TableProofs` | `TypeOK`, `GameNeedsFour`, `OwnerIsSeated`, `NeverWaitsForBot`, `TrickOnViewIsCurrent`, `FinishedMatchHandedOverOnce`, `MatchKeepsTarget`, `RemovedTableIsEmpty`; as steps `BotKeepsSeat`, `DeletedSeatGoesToBot`, `RematchByConsent`, `RoundIsPlayedOut`, `ChangeIsANewVersion`; of the screens `OffersAreAccepted`, `ReadyLobbyCanStart` |
| `BiddingProofs` | `TypeOK`, `CallsInTurn`, `SoldOnlyAfterAnswers`, `AuctionEndsWell`, `BoardAssertionHolds`, and the refinement `Spec => Promise!HandSpec`; of the end of a match `LedgerTellsTheMatches`, `EndingIsLeftAlone` |
| `PresenceProofs` | `TypeOK`, `TokenNamesItsSeat`, `CountersCountStreams`, `GoneIsNoticed` |
| `RegistryProofs` | while `DrawsDiffer`: `TypeOK`, `CodesLeadToTables`, `OneOpenTable`; of the tab `InviteIsShownOnce`, `SeatIsGivenUpFirst` |
| `BoardProofs` | `CardsAreConserved`, `StrongestCardWins`, `LegalAsTheRulesSay`, `ScoresAddUp`, `RoundIsAwarded`, and the refinement `Spec => Promise!HandSpec` |
| `TableClientProofs` | `OnlineStreamOnlyAtTheTable`, `TheirReactionOnce`, `OnlineScreenNeverGoesBack` |
| `PageProofs` | `EachMomentIsToldOnce`, `HistoryMatchesSheets` |

Arguments:

* Table. The properties are not inductive one by one: that the turn is a human's after a
  deal depends on the match having four seats, which depends on the status of the lobby.
  `TableInv` is a conjunction of five parts: `LobbyInv` (built on `LobbyOK` of
  `SeatsProofs`: the owner sits, a match has no free seat, a bot is taken over), `HandInv`
  (before the match no hand, in it one in which bots have nothing left to do: `Settled`),
  `ViewInv`, `ScoreInv` and `VotesInv`. `SeatsProofs` proves of every method of the lobby
  what it preserves, and each action is then a step of the proof that cites those lemmas.
  The properties of steps need the invariant before the step and a list of what a step may
  do to the lobby of a match (`LobbyInAMatch`): seats change their connection or lose their
  account, and only a vote begins the next match (`OnlyAVoteReopens`). For `RoundIsPlayedOut`,
  `StepsOfARound` reduces every step during a round to one of four: it leaves the hand, lets
  bots play, plays a card, or continues; `MovesGoOn` follows each through the bots' moves.
* Lobby screens. `OffersAreAccepted` compares two formulas over one lobby, and needs of it
  what `TableInv` says: an owner who is seated and human, a lobby that is waiting with the
  seats it counts. `ReadyLobbyCanStart` needs that the owner sits whenever somebody does.
* Auction. `CallsInTurn` needs the length of the calls tied to the two counters
  (`PassesInv`: calls are `4 * (round - 1) + passes` in the classic variant), the sale
  needs to know that only passes follow the highest bid (`HighestInv`), and the board's
  assertions that a bid once taken was valid (`ValidInv`). For the end of the auction,
  `BidsRise` relates every bid to the highest and `CountedInv` the number of calls to the
  valid values up to it: a higher bid is one value more (`OneMoreValue`), so there is room
  for its own call and two passes.
* Presence. Tokens and seats are proved together: moving tokens is right because a seat
  has one token at most, and stays so because the table refuses an occupied seat. That
  whoever is gone is noticed needs that a stream is counted for the seat its token names
  (`HeldInv`), which holds where nobody moves, that no stream that is open has an end
  pending (`EndsInv`), and that all other steps connect nobody who stays (`Calm`).
* Registry. A code is in the second map exactly while its table is in the first or a
  worker is inserting or removing it, so the invariant speaks of workers: whoever stands
  between the two maps holds a table nobody else holds (`JobsInv`), and the codes are those
  of `Known` tables (`CodesInv`). For quick matches the invariant is what the lock
  protects (`MatchInv`): its holder has every table a player may still sit down at on its
  list, or there is none and it opens one. It rests on tables never reopening: only an
  insertion adds an open table (`OpenableShrinks`).
* Tables of a tab. `CrewInv` is three parts. Of the account it needs that what was shown was
  seen (`AccountInv`). Of the seats, `SeatsInv` says where the tab has been: it *holds* a seat
  that is taken and of which no answer is still to tell it, and every token, the session, and
  every seat a request to leave names are held, at the table they are kept for. No two
  answers bring one seat (`EnterOK`), so a seat the tab is brought to is new to it. A request
  to leave is tied to what it found (`LeaveOK`): once it was answered the seat waits no more,
  unless the request was lost; and a quick match that had no token for the table of its
  session leaves two seats there, which is the exception in the property. Most steps know
  nothing of seats and are all one case (`QuietCalls`, `AccountIsRight`).
* Board. `BoardInv` ties the cards to the turn: the seats of the trick follow each other up
  to the active one (`TurnOK`), so a seat that has played is not asked again and its hand
  is one card short (`SizesOK`), so before the last trick every hand has exactly one card,
  which is what lets the board play it (`PlayedAloneIsPlayed`; that it is legal is
  `LegalIsAmong`: whoever holds a card may play one). `CardsOK` is the conservation within
  a round, `RestOK` what holds only between two methods: the round is over exactly when
  the last trick is won, and an unfinished trick is never the last. `PlayedOK` and
  `ContinuedOK` say what each method of the board does to them, and the refinement reads
  its two steps off the same lemmas.
* Rules and scores of a round. `RoundOK` (theorem `RoundInvariance`) is what a round keeps
  beside its cards: a trick under review is led on by its winner (`WonOK`), the live score
  of a team is the sum of the four totals and its points are those of its pile (`ScoreOK`),
  a pair of King and Queen counts the cards of it that left the hand (`BeloteOK`), and seats
  declare in turn until the first trick settles which team scores (`AnnounceOK`). Points are
  sums over sets of cards: `IsSum` describes such a sum by one chosen element after the
  other, and `SumTakes` proves that whichever element is taken first, the sum is the same,
  so a trick added to a pile adds its points and nothing else. `WinnerIsStrongest` relates
  the fold over a trick, which compares each card with the best so far, to the definition
  that compares all. At most four suits bound the length of a carré and the pairs that pay.
* The tab, on the new view. Of the loads under way only the latest is drawn, and an answer
  that is still to be drawn is no older than the screen (`CallsOK`): that is what every draw
  superseding the loads before it (`Superseded`) is for. `StreamOK` says that a stream is
  open only at the table and a timer only while there is one, `ReactionsOK` that a reaction
  that was shown is not beyond `seen`, so it is not among the new ones again; that a set of
  versions has a newest is `NewestOfVersions`, from well-founded induction of the library.
* Told moments. A moment could be told again only if the tab forgot what it compared with,
  and what was forgotten tells nothing at first. So `MomentsInv` relates every moment of
  the newest snapshot that was told to what is remembered of it: the board the bots saw is
  this very snapshot, or none (`BoardTold`); the auction they saw was coinched under this
  dealer (`CoincheTold`); the watcher heard this declaration and holds none back
  (`BeloteTold`); the view spoken last is of this trick and has these cards (`CardsTold`).
  A snapshot never goes back (`MovesOn`), so cards drawn earlier are a prefix of those
  drawn now (`EarlierIsAPrefix`), and numbering the tricks and cards tells them apart for
  any number of them (`NumberTells`). A second line on a round needs a round drawn to its
  end twice, which `LinesOK` excludes.
* History and sheets. Nothing of the history is known when the player races the browser, but
  for what `Sound` keeps whatever happens: `pendingBack` is less than the place in the history
  and at most the steps back under way (`Owed`), so it is none when they are all taken. While
  all goes in order, `Straight` names the situations there are: a sheet with an entry is on the
  last one and the entry before it is its table's (`TakesItsEntry`), or the tab's own step is
  under way between these two (`OwnUnderWay`), or none is (`NoneOfOwn`). The rules' address
  needs a case of its own (`AtRules`): the only way there is to open a tab at it.
* End of a match. The ledger knows a match by its table and its score, which the next match
  of the table may have too; so what it tells depends on what may still be drawn.
  `MatchEndInv` speaks of the ends that may still open a screen (`MayCome`: a pause that runs,
  or what the table comes to). They only become fewer (`ComesLess`), and they come in the order
  of the matches (`QueueOK`), so the matches of a table are counted in order (`CountedOK`).
  Whatever may still come of one of the last matches counted therefore has the signature kept
  for it (`WindowOK`), and is not counted twice while it is kept. `LedgerOK` ties the results
  to the matches counted, and the streaks follow: `winsFrom` counts from the newest result
  what `WinsAtEnd` counts from the end. A screen put away is held back by `dismissed`, or no
  end that may come can bring it (`HeldBack`, `IsPast`, in `PutAwayOK`);
  that it is the last one of its table is `ScreenOK`. For the offer, `OfferOK` says that its count never runs ahead of the matches
  seen to end (`EndedOK`), as long as they were at one table: there the signature kept is that
  of the match which may still be drawn. TLC checked `MatchEndInv` first, for one table
  over all its states and for two tables to a depth of twenty steps.

Out of the prover's reach, and left to TLC: liveness and `ENABLED` (`TrickIsCollected`,
`AbandonedSeatGoesToBot`, `EmptyTablesGo`, `PresentSeesTheNewest`, `MatchGoesOn`,
`EndIsShown`, `PolledListIsTheServers`). Every other property of
a passing run is a theorem, and so is the part of `TrickIsCollected` that is safety
(`TrickOnViewIsCurrent`). `OfferIsSpaced` is proved for one table, as a part of
`EndingIsLeftAlone`; with two it is false (section 5).

The properties proved but in no list of a run (`GameNeedsFour`, `OwnerIsSeated`,
`MatchKeepsTarget`, `RemovedTableIsEmpty`, `BoardAssertionHolds`, the type invariants of
`Table`, `Bidding`, `Presence` and `Registry`) hold for every instance, those of the runs
among them.

## 5. What is not modelled

Of the modelled parts: names, texts, clocks, the order of a hand and of equally full tables.
Calls and cards are open choices in `Table`, which `Bidding` and `Board` justify; what a bot
chooses is any legal move. Watchers are in no module. Of the client: hints, reviews, faces
and how long they stay, the sentences spoken of an auction, what is drawn and how, the
player's names, the export of data and the search for players. Bots' heuristics, ratings and
the shuffle are sampling and floating-point arithmetic, which TLC does not have; what the
database decides (friends' requests that cross, a match recorded beside a deletion) is SQL
and its isolation level, of which a model would only repeat an assumption; the two tables of
sentences are a fifth of the client and hold no logic. `PROJECT.json` names the reason part
by part.

### Behaviour met while modelling that no run states

On the server:

* A request authorised before its player changed seats or left acts on whoever sits there by
  then. A player who changed seats and closes the page disconnects the seat left behind.
* The stream of a player who changed seats still builds the view of the old seat
  (`routes/events.rs:153`).
* The votes for a rematch are counted when a vote arrives and at no other time: when the
  last connected player without a vote disconnects, nothing restarts the match
  (`table.rs:615`; `docs/superpowers/specs/2026-11-06-play-again-design.md:15` says that
  disconnected seats never hold it up).
* `counts()` subtracts two counts read one after the other: tables removed in between make
  the number of online tables wrap around, and a creation is refused with room left
  (`registry.rs:274`). Creations at the same time may pass a cap together.
* A table used again after the eviction collected it is evicted all the same.

At the table in the tab:

* A rematch begun at another seat leaves the end of the last match over the new auction on
  the new view, which only closes it from the board; the old view resets it
  (`app-session.js:299`).
* On the old view a reveal may leave the tab at the table without a stream when the player
  leaves and comes back during it, a refused call stays on screen until the next change, a
  load that fails brings the player to the lobby wherever the tab is by then, and an action
  is sent to the table of the session, not of the page.
* A reaction of another that arrives just before the answer to one's own is skipped: the
  answer moves the sequence number past it (`app-solo-table.js:76`).

On the device:

* A trick whose time is up while the player is away from the table is never collected. The
  timer returns without clearing `pendingTrickCollection` (`app-solo-table.js:218`), and when
  the player comes back to the trick, the draw takes it for one whose time still runs and
  sets no other (line 215). The server does not help: it keeps no time for the tricks of a
  local table (`table.rs:755`), so neither does the sweep, and no button collects. The match
  stands still until the page is loaded again, against `docs/product-backlog.md:757` ("then is
  collected with an animation"). TLC finds it in 21 states when `TrickIsCollected` of
  `SoloGame` drops its exception `missed # server.trick`.
* On a shared device, a cover that the game's page draws late, behind the auction's page,
  takes the place of the cover that would lead on, and what to do after it
  (`app-table-ui.js:25`); once it is taken away, the auction's page stays until the player
  goes to another.
* Solo answers out of order would draw an older state: loads carry no number. The runs assume
  the order (`InOrder`); with it `FALSE` the screen may go back.
* A draw that is late opens the end of a match over the home page. With two tables, switching
  between them may count a match again once the ledger has forgotten it, and coming back to a
  match that is over counts it again for the offer: of the matches counted the device remembers
  one, and the trick on view, another than that of the table drawn before, is taken for one just
  played. A rematch that ends with the score of the first may not be counted at all.
* With two tables the offer of an account may come back at once. "Not now" hides it on the
  screen it was answered on and on the device, but the screen kept for the other table
  (`matchEndLast`) still has its own, and "Results" there shows it with no match finished in
  between (`app-celebrations.js:98`;
  `docs/superpowers/specs/2026-11-06-account-offer-design.md:12` says that it comes back after
  3 more finished matches). TLC finds `OfferIsSpaced` violated in sixteen steps with two tables
  of one match each, `Keep = 1`, `Cooldown = 3` and `MaxPending = 1`.
* Goals loaded late after the deletion of the account overwrite those of the guest.
* A late answer to the friends list after a sign-out shows the list to a guest
  (`app-friends.js:79`). Of several new invitations one is shown, and all are marked as seen.
* Joining one table twice leaves the first seat without a token; a quick match forgets the
  token of a seat whose game has begun though the server refuses to let it go.

## 6. Findings

* `presence_reload`: a page that reloads opens its new stream between the two locks of the
  end of the old one, and its seat is disconnected with a stream open, against
  `docs/superpowers/plans/2026-10-23-phase-2-server.md:83`.

## 7. Plan

Done, in this order: the lobby and the table, the auction and its refinement, presence,
the registry with matchmaking, the round; then the client, from the table in the tab to the
end of a match and the account, and the lobby's screens proved against the server.

What would come next: `PresentSeesTheNewest` over `Table` itself in place of a number of
versions; a match of several hands composed of `Bidding` and `Board` with the totals of
`MatchScore`; watchers in `Presence`.
