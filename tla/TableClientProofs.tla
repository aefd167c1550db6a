-------------------------- MODULE TableClientProofs --------------------------
(***************************************************************************)
(* Proofs about a tab on the new table view, for any number of versions    *)
(* and of requests at once.  The screen never goes back because at most    *)
(* one load may still draw without looking, and what it brings is younger  *)
(* than the screen; the stream and the reactions follow the drawings.      *)
(***************************************************************************)
EXTENDS TableClient, WellFoundedInduction, TLAPS

-----------------------------------------------------------------------------
(* The inductive invariant *)

\* Only one load is the latest, and what it is answered is no older than the screen r.
CallsOK(cs, n, r) ==
  /\ cs \in [Slots -> Call]
  /\ \A c \in Slots : cs[c].at <= n
  /\ \A c \in Slots : cs[c].latest => cs[c].kind \in Loads
  /\ \A c \in Slots : cs[c].latest /\ cs[c].answer = "ok" => r <= cs[c].at
  /\ \A c, d \in Slots : cs[c].latest /\ cs[d].latest => c = d

NoLatest(cs) == \A c \in Slots : ~cs[c].latest

StreamOK(s, n, place) ==
  /\ s \in Stream
  /\ \A v \in s.wire : v <= n
  /\ s.state # "none" => place = "table"
  /\ s.timer => s.state # "none"

ReactionsOK ==
  /\ opened \in BOOLEAN /\ seen \in Held /\ seen <= known
  /\ shown \in [Version -> 0..1]
  /\ \A v \in Version : shown[v] # 0 => v <= seen

VersionsOK ==
  /\ version \in Version /\ changes \in [Version -> Changes]
  /\ address \in {"table", "away"}
  /\ known \in Held /\ rendered \in Held
  /\ rendered <= known /\ known <= version

NewViewInv ==
  /\ VersionsOK
  /\ CallsOK(calls, version, rendered)
  /\ StreamOK(stream, version, address)
  /\ ReactionsOK

ClientInv ==
  /\ legacy \in BOOLEAN /\ rendered \in Held
  /\ legacy => \A v \in Version : changes[v] # "theirReaction"
  /\ ~legacy => NewViewInv

-----------------------------------------------------------------------------
(* Requests *)

LEMMA HeldAreNaturals ==
  /\ Held \subseteq Nat /\ Version \subseteq Held /\ 0 \in Held /\ 1 \in Version
  /\ \A v \in Version : v # 0
BY SnapshotsAssumption DEF Held, Version

LEMMA SupersededOK ==
  ASSUME NEW cs, NEW n \in Held, NEW r \in Held, NEW q, CallsOK(cs, n, r)
  PROVE  CallsOK(Superseded(cs), n, q) /\ NoLatest(Superseded(cs))
BY DEF CallsOK, NoLatest, Superseded, Call

LEMMA NoCallIsCall == NoCall \in Call /\ NoCall.at = 0 /\ ~NoCall.latest
BY HeldAreNaturals DEF NoCall, Call

LEMMA DoneOK ==
  ASSUME NEW cs, NEW n \in Held, NEW r, CallsOK(cs, n, r), NEW c \in Slots
  PROVE  /\ CallsOK(Done(cs, c), n, r)
         /\ cs[c].latest => NoLatest(Done(cs, c))
         /\ NoLatest(cs) => NoLatest(Done(cs, c))
<1> 0 <= n BY HeldAreNaturals
<1> QED BY NoCallIsCall DEF CallsOK, NoLatest, Done

LEMMA NoLatestAnyScreen ==
  ASSUME NEW cs, NEW n, NEW r, NEW q, CallsOK(cs, n, r), NoLatest(cs)
  PROVE  CallsOK(cs, n, q)
BY DEF CallsOK, NoLatest

LEMMA SentOK ==
  ASSUME NEW cs, NEW n \in Held, NEW r, CallsOK(cs, n, r), NEW c \in Slots,
         NEW kind \in Loads \cup Actions, kind \in Loads => NoLatest(cs)
  PROVE  CallsOK(Sent(cs, c, kind), n, r)
<1> DEFINE sent == [NoCall EXCEPT !.kind = kind, !.latest = kind \in Loads]
<1>1. /\ sent \in Call /\ sent.at = 0 /\ sent.kind = kind
      /\ sent.latest = (kind \in Loads) /\ sent.answer = "waiting"
  <2> (kind \in Loads) \in BOOLEAN OBVIOUS
  <2> HIDE DEF Loads
  <2> QED BY HeldAreNaturals, Zenon DEF NoCall, Call
<1>2. Sent(cs, c, kind) = [cs EXCEPT ![c] = sent] BY DEF Sent
<1>3. 0 <= n BY HeldAreNaturals
<1> HIDE DEF sent
<1> QED BY <1>1, <1>2, <1>3 DEF CallsOK, NoLatest

LEMMA LaterCallsOK ==
  ASSUME NEW cs, NEW n \in Held, NEW m \in Held, n <= m, NEW r, CallsOK(cs, n, r)
  PROVE  CallsOK(cs, m, r)
<1>1. \A c \in Slots : cs[c].at \in Held BY DEF CallsOK, Call
<1>2. \A c \in Slots : cs[c].at <= n BY DEF CallsOK
<1>3. \A i \in Held : i <= n => i <= m BY HeldAreNaturals
<1>4. \A c \in Slots : cs[c].at <= m BY <1>1, <1>2, <1>3
<1> QED BY <1>4 DEF CallsOK

LEMMA AnsweredOK ==
  ASSUME NEW cs, NEW n \in Held, NEW r \in Held, CallsOK(cs, n, r), r <= n, NEW c \in Slots,
         NEW answer \in {"ok", "refused", "failed"}, NEW at \in Held, at <= n,
         cs[c].latest /\ answer = "ok" => at = n
  PROVE  CallsOK([cs EXCEPT ![c].answer = answer, ![c].at = at], n, r)
<1> DEFINE ds == [cs EXCEPT ![c].answer = answer, ![c].at = at]
<1>1. /\ ds \in [Slots -> Call]
      /\ ds[c].kind = cs[c].kind /\ ds[c].latest = cs[c].latest
      /\ ds[c].answer = answer /\ ds[c].at = at
      /\ \A d \in Slots \ {c} : ds[d] = cs[d]
  BY DEF CallsOK, Call
<1> HIDE DEF ds
<1>2. \A d \in Slots : ds[d].kind = cs[d].kind /\ ds[d].latest = cs[d].latest BY <1>1
<1>3. \A d \in Slots : ds[d].at <= n BY <1>1 DEF CallsOK
<1>4. \A d \in Slots : ds[d].latest /\ ds[d].answer = "ok" => r <= ds[d].at
  BY <1>1, <1>2 DEF CallsOK
<1>5. CallsOK(ds, n, r) BY <1>1, <1>2, <1>3, <1>4 DEF CallsOK
<1> QED BY <1>5 DEF ds

-----------------------------------------------------------------------------
(* The stream and the reactions *)

LEMMA NewStreams ==
  /\ NoStream \in Stream /\ NoStream.wire = {} /\ NoStream.state = "none" /\ ~NoStream.timer
  /\ NewStream \in Stream /\ NewStream.wire = {} /\ NewStream.state = "connecting"
  /\ ~NewStream.timer
BY HeldAreNaturals DEF NoStream, NewStream, Stream

LEMMA OpenedOK ==
  ASSUME NEW s, NEW n, StreamOK(s, n, "table")
  PROVE  StreamOK(Opened(s), n, "table")
BY NewStreams DEF StreamOK, Opened

LEMMA LaterStreamOK ==
  ASSUME NEW s, NEW n \in Held, NEW m \in Held, n <= m, NEW place, StreamOK(s, n, place)
  PROVE  StreamOK(s, m, place)
<1>1. \A v \in s.wire : v \in Held BY HeldAreNaturals DEF StreamOK, Stream
<1>2. \A v \in s.wire : v <= n BY DEF StreamOK
<1>3. \A i \in Held : i <= n => i <= m BY HeldAreNaturals
<1>4. \A v \in s.wire : v <= m BY <1>1, <1>2, <1>3
<1> QED BY <1>4 DEF StreamOK

LEMMA ReceivedOK ==
  ASSUME NEW s, NEW n, NEW place, StreamOK(s, n, place), NEW v
  PROVE  StreamOK(Received(s, v), n, place)
<1>1. /\ Received(s, v) \in Stream
      /\ Received(s, v).wire \subseteq s.wire
      /\ Received(s, v).state = s.state /\ Received(s, v).timer = s.timer
  BY DEF StreamOK, Received, Stream
<1> QED BY <1>1 DEF StreamOK

\* Every set of versions that is not empty has a newest one.
LEMMA NewestOfVersions ==
  ASSUME NEW T \in SUBSET Version, T # {}
  PROVE  \E v \in T : \A w \in T : w <= v
<1> DEFINE age == {MaxVersion - v : v \in T}
           less == OpToRel(<, Nat)
<1>1. age \subseteq Nat /\ age # {}
  <2>1. \A v \in Version : MaxVersion - v \in Nat BY SnapshotsAssumption DEF Version
  <2> QED BY <2>1
<1>2. IsWellFoundedOn(less, Nat) BY NatLessThanWellFounded
<1> HIDE DEF less
<1>3. \E x \in age : \A y \in age : <<y, x>> \notin less
  <2> HIDE DEF age
  <2> QED BY <1>1, <1>2, WFMin
<1>4. \A x, y \in Nat : y < x => <<y, x>> \in less BY DEF less, OpToRel
<1>5. PICK v \in T : \A w \in T : <<MaxVersion - w, MaxVersion - v>> \notin less BY <1>3
<1>6. \A w \in T : w <= v
  <2> TAKE w \in T
  <2>1. MaxVersion - w \in Nat /\ MaxVersion - v \in Nat BY SnapshotsAssumption DEF Version
  <2>2. ~(MaxVersion - w < MaxVersion - v) BY <2>1, <1>4, <1>5
  <2> QED BY <2>1, <2>2, SnapshotsAssumption DEF Version
<1> QED BY <1>6

LEMMA LoadReactionsOK ==
  ASSUME ReactionsOK, known \in Held, known' \in Held, known <= known',
         NEW at \in Held, at <= known', LoadReactions(at)
  PROVE  ReactionsOK'
<1> DEFINE new == {v \in Version : changes[v] \in Reactions /\ seen < v /\ v <= at}
<1>1. /\ opened' = TRUE
      /\ seen' = IF new = {} THEN seen ELSE CHOOSE v \in new : \A w \in new : w <= v
      /\ shown' = [v \in Version |->
           IF opened /\ v \in new /\ changes[v] = "theirReaction" /\ shown[v] < 2
           THEN shown[v] + 1 ELSE shown[v]]
  BY DEF LoadReactions
<1>2. new # {} => seen' \in new /\ \A w \in new : w <= seen'
  BY <1>1, NewestOfVersions
<1>3. new = {} => seen' = seen BY <1>1
<1>4. \A v \in new : v \in Version /\ seen < v /\ v <= at OBVIOUS
<1>5. seen \in Held /\ seen <= known' /\ shown \in [Version -> 0..1]
  BY HeldAreNaturals DEF ReactionsOK
<1> HIDE DEF new
<1>6. seen' \in Held /\ seen' <= known' /\ seen <= seen'
  <2> known' \in Nat /\ at \in Nat /\ seen \in Nat BY <1>5, HeldAreNaturals
  <2>1. CASE new = {} BY <2>1, <1>3, <1>5
  <2>2. CASE new # {}
    <3>1. seen' \in Version /\ seen < seen' /\ seen' <= at BY <2>2, <1>2, <1>4
    <3>2. seen' \in Held /\ seen' \in Nat BY <3>1, HeldAreNaturals
    <3> QED BY <3>1, <3>2
  <2> QED BY <2>1, <2>2
<1>7. \A v \in new : shown[v] = 0
  <2> TAKE v \in new
  <2>1. v \in Version /\ seen < v BY <1>4
  <2>2. v \in Nat /\ seen \in Nat BY <2>1, <1>5, HeldAreNaturals
  <2>3. ~(v <= seen) BY <2>1, <2>2
  <2> QED BY <2>1, <2>3 DEF ReactionsOK
<1>8. \A v \in Version : shown'[v] = shown[v] \/ (v \in new /\ shown'[v] = 1)
  BY <1>1, <1>7
<1>9. shown' \in [Version -> 0..1] BY <1>1, <1>5, <1>7
<1>10. \A v \in Version : shown'[v] # 0 => v <= seen'
  <2> TAKE v \in Version
  <2>1. CASE v \in new BY <2>1, <1>2
  <2>2. CASE v \notin new
    <3>1. shown[v] # 0 => v <= seen BY DEF ReactionsOK
    <3> QED BY <2>2, <3>1, <1>5, <1>6, <1>8, HeldAreNaturals
  <2> QED BY <2>1, <2>2
<1> QED BY <1>1, <1>6, <1>9, <1>10 DEF ReactionsOK

LEMMA ShowOwnReactionOK ==
  ASSUME ReactionsOK, known \in Held, known' \in Held, known <= known',
         NEW at \in Held, at <= known', ShowOwnReaction(at)
  PROVE  ReactionsOK'
<1>1. seen' \in Held /\ seen' <= known' /\ seen <= seen'
  BY HeldAreNaturals DEF ReactionsOK, ShowOwnReaction, Newer
<1>2. opened' = opened /\ shown' = shown BY DEF ShowOwnReaction
<1>3. \A v \in Version : v <= seen => v <= seen'
  BY <1>1, HeldAreNaturals DEF ReactionsOK
<1> QED BY <1>1, <1>2, <1>3 DEF ReactionsOK

LEMMA UnchangedReactionsOK ==
  ASSUME ReactionsOK, known \in Held, known' \in Held, known <= known', UNCHANGED reactionVars
  PROVE  ReactionsOK'
<1>1. seen <= known' BY HeldAreNaturals DEF ReactionsOK
<1> QED BY <1>1 DEF ReactionsOK, reactionVars

LEMMA NewerOK ==
  ASSUME NEW v \in Held, NEW w \in Held
  PROVE  Newer(v, w) \in Held /\ v <= Newer(v, w) /\ w <= Newer(v, w) /\ Newer(v, w) \in {v, w}
BY HeldAreNaturals DEF Newer

LEMMA DrawNewestOK ==
  ASSUME ReactionsOK, known \in Held, known' \in Held, known <= known',
         rendered \in Held, rendered <= known',
         NEW n, NEW place, NEW s, StreamOK(s, n, place), DrawNewest(place, known', s)
  PROVE  /\ ReactionsOK' /\ StreamOK(stream', n, place)
         /\ rendered' \in Held /\ rendered <= rendered' /\ rendered' <= known'
<1>1. CASE place = "table" /\ rendered <= known'
  <2>1. rendered' = known' /\ stream' = Opened(s) /\ LoadReactions(known')
    BY <1>1 DEF DrawNewest
  <2>2. StreamOK(stream', n, place) BY <1>1, <2>1, OpenedOK
  <2>3. known' <= known' BY HeldAreNaturals
  <2>4. ReactionsOK' BY <2>1, <2>3, LoadReactionsOK
  <2> QED BY <1>1, <2>1, <2>2, <2>3, <2>4
<1>2. CASE ~(place = "table" /\ rendered <= known')
  <2>1. rendered' = rendered /\ stream' = s /\ UNCHANGED reactionVars
    BY <1>2 DEF DrawNewest, reactionVars
  <2>2. rendered <= rendered' BY <2>1, HeldAreNaturals
  <2> QED BY <2>1, <2>2, UnchangedReactionsOK
<1> QED BY <1>1, <1>2

-----------------------------------------------------------------------------
(* The steps of the new view: each keeps the invariant and does not go back *)

Forward == NewViewInv' /\ rendered <= rendered'

\* What a step that changes neither versions nor reactions has to show.
LEMMA StillForward ==
  ASSUME NewViewInv, UNCHANGED <<version, changes, known, rendered, reactionVars>>,
         address' \in {"table", "away"},
         CallsOK(calls', version, rendered), StreamOK(stream', version, address')
  PROVE  Forward
<1>1. VersionsOK' /\ known <= known' /\ rendered <= rendered'
  BY HeldAreNaturals DEF NewViewInv, VersionsOK
<1>2. ReactionsOK' BY <1>1, UnchangedReactionsOK DEF NewViewInv, VersionsOK
<1> QED BY <1>1, <1>2 DEF NewViewInv, Forward

\* What a step at the page has to show when it may draw.
LEMMA DrawnForward ==
  ASSUME NewViewInv, UNCHANGED <<version, changes>>, address' \in {"table", "away"},
         known' \in Held, known <= known', known' <= version,
         CallsOK(calls', version, rendered'), StreamOK(stream', version, address'), ReactionsOK',
         rendered' \in Held, rendered <= rendered', rendered' <= known'
  PROVE  Forward
BY DEF NewViewInv, VersionsOK, Forward

LEMMA EnterForward ==
  ASSUME NewViewInv, NEW c \in Slots, Enter(c)
  PROVE  Forward
<1>1. /\ address' = "table" /\ UNCHANGED <<version, changes, known>>
      /\ version \in Held /\ known \in Held /\ rendered \in Held
      /\ rendered <= known /\ known <= version /\ known <= known
  BY HeldAreNaturals DEF Enter, NewViewInv, VersionsOK
<1>2. StreamOK(stream, version, "table") BY DEF Enter, NewViewInv, StreamOK
<1>3. \A q : CallsOK(Superseded(calls), version, q) /\ NoLatest(Superseded(calls))
  BY <1>1, SupersededOK DEF NewViewInv
<1>4. CASE /\ calls' = Sent(Superseded(calls), c, "load")
           /\ UNCHANGED <<stream, rendered, reactionVars>>
  <2>1. CallsOK(calls', version, rendered) BY <1>1, <1>3, <1>4, SentOK DEF Loads
  <2> QED BY <1>1, <1>2, <1>4, <2>1, StillForward
<1>5. CASE calls' = Superseded(calls) /\ DrawNewest("table", known, stream)
  <2>1. /\ ReactionsOK' /\ StreamOK(stream', version, "table")
        /\ rendered' \in Held /\ rendered <= rendered' /\ rendered' <= known'
    BY <1>1, <1>2, <1>5, DrawNewestOK DEF NewViewInv
  <2> QED BY <1>1, <1>3, <1>5, <2>1, DrawnForward
<1> QED BY <1>4, <1>5 DEF Enter

LEMMA LeaveForward ==
  ASSUME NewViewInv, Leave
  PROVE  Forward
<1>1. StreamOK(NoStream, version, "away") BY NewStreams DEF StreamOK
<1> QED BY <1>1, StillForward DEF Leave, Away, NewViewInv

LEMMA PressForward ==
  ASSUME NewViewInv, NEW c \in Slots, NEW kind \in {"act", "react"}, Press(c, kind)
  PROVE  Forward
<1>1. version \in Held BY HeldAreNaturals DEF NewViewInv, VersionsOK
<1>2. CallsOK(calls', version, rendered)
  BY <1>1, SentOK DEF Press, NewViewInv, Loads, Actions
<1> QED BY <1>2, StillForward DEF Press, NewViewInv, VersionsOK

LEMMA CollectTrickForward ==
  ASSUME NewViewInv, NEW c \in Slots, CollectTrick(c)
  PROVE  Forward
<1>1. version \in Held /\ rendered \in Held BY HeldAreNaturals DEF NewViewInv, VersionsOK
<1>2. CallsOK(Superseded(calls), version, rendered) /\ NoLatest(Superseded(calls))
  BY <1>1, SupersededOK DEF NewViewInv
<1>3. CallsOK(calls', version, rendered) BY <1>1, <1>2, SentOK DEF CollectTrick, Loads
<1> QED BY <1>3, StillForward DEF CollectTrick, NewViewInv, VersionsOK

\* Whatever arrives is remembered, and is no newer than the table.
LEMMA RememberedOK ==
  ASSUME NewViewInv, NEW at \in Held, at <= version, known' = Newer(known, at)
  PROVE  /\ known' \in Held /\ known <= known' /\ at <= known' /\ known' <= version
         /\ rendered <= known'
<1> version \in Nat /\ known \in Nat /\ rendered \in Nat /\ rendered <= known /\ known <= version
  BY HeldAreNaturals DEF NewViewInv, VersionsOK
<1>1. known \in Held BY DEF NewViewInv, VersionsOK
<1>2. known' \in Held /\ known <= known' /\ at <= known' /\ known' \in {known, at}
  BY <1>1, NewerOK
<1> QED BY <1>2, HeldAreNaturals

\* The facts that the answer of a request is typed and no newer than the table.
LEMMA AnswerIsHeld ==
  ASSUME NewViewInv, NEW c \in Slots
  PROVE  calls[c].at \in Held /\ calls[c].at <= version
BY DEF NewViewInv, CallsOK, Call

LEMMA DeliverForward ==
  ASSUME NewViewInv, NEW v \in Version, Deliver(v)
  PROVE  Forward
<1>1. /\ v \in Held /\ v <= version /\ version \in Held
      /\ known \in Held /\ rendered \in Held
      /\ known' = Newer(known, v) /\ calls' = Superseded(calls)
      /\ DrawNewest(address, known', Received(stream, v))
      /\ UNCHANGED <<version, changes, address>>
  BY HeldAreNaturals DEF Deliver, Oldest, Unmoved, NewViewInv, VersionsOK, StreamOK
<1>2. known' \in Held /\ known <= known' /\ known' <= version /\ rendered <= known'
  BY <1>1, RememberedOK
<1>3. StreamOK(Received(stream, v), version, address) BY ReceivedOK DEF NewViewInv
<1>4. /\ ReactionsOK' /\ StreamOK(stream', version, address)
      /\ rendered' \in Held /\ rendered <= rendered' /\ rendered' <= known'
  BY <1>1, <1>2, <1>3, DrawNewestOK DEF NewViewInv
<1>5. CallsOK(calls', version, rendered') BY <1>1, SupersededOK DEF NewViewInv
<1> QED BY <1>1, <1>2, <1>4, <1>5, DrawnForward DEF NewViewInv, VersionsOK

LEMMA ReceiveLoadForward ==
  ASSUME NewViewInv, NEW c \in Slots, ReceiveLoad(c)
  PROVE  Forward
<1> DEFINE at == calls[c].at
<1>1. /\ at \in Held /\ at <= version /\ version \in Held
      /\ known \in Held /\ rendered \in Held
      /\ known' = Newer(known, at) /\ calls' = Done(calls, c)
      /\ calls[c].answer = "ok"
      /\ UNCHANGED <<version, changes, address>>
  BY AnswerIsHeld, HeldAreNaturals DEF ReceiveLoad, Unmoved, NewViewInv, VersionsOK
<1>2. known' \in Held /\ known <= known' /\ at <= known' /\ known' <= version /\ rendered <= known'
  BY <1>1, RememberedOK
<1>3. /\ CallsOK(calls', version, rendered)
      /\ calls[c].latest => NoLatest(calls')
  BY <1>1, DoneOK DEF NewViewInv
<1>4. address \in {"table", "away"} /\ StreamOK(stream, version, address) /\ ReactionsOK
  BY DEF NewViewInv, VersionsOK
<1>5. CASE /\ calls[c].latest /\ address = "table"
           /\ rendered' = at /\ stream' = Opened(stream) /\ LoadReactions(at)
  <2>1. rendered <= rendered' BY <1>1, <1>5 DEF NewViewInv, CallsOK
  <2>2. CallsOK(calls', version, rendered') BY <1>3, <1>5, NoLatestAnyScreen
  <2>3. StreamOK(stream', version, address) BY <1>4, <1>5, OpenedOK
  <2>4. ReactionsOK' BY <1>1, <1>2, <1>4, <1>5, LoadReactionsOK
  <2> QED BY <1>1, <1>2, <1>4, <1>5, <2>1, <2>2, <2>3, <2>4, DrawnForward
<1>6. CASE UNCHANGED <<stream, rendered, reactionVars>>
  <2>1. rendered <= rendered' BY <1>1, <1>6, HeldAreNaturals
  <2>2. ReactionsOK' BY <1>1, <1>2, <1>4, <1>6, UnchangedReactionsOK
  <2> QED BY <1>1, <1>2, <1>3, <1>4, <1>6, <2>1, <2>2, DrawnForward
<1> QED BY <1>5, <1>6 DEF ReceiveLoad

LEMMA FailLoadForward ==
  ASSUME NewViewInv, NEW c \in Slots, FailLoad(c)
  PROVE  Forward
<1>1. version \in Held BY HeldAreNaturals DEF NewViewInv, VersionsOK
<1>2. CallsOK(calls', version, rendered) BY <1>1, DoneOK DEF FailLoad, NewViewInv
<1>3. StreamOK(NoStream, version, "away") BY NewStreams DEF StreamOK
<1>4. address' \in {"table", "away"} /\ StreamOK(stream', version, address')
  BY <1>3 DEF FailLoad, Away, NewViewInv, VersionsOK
<1> QED BY <1>2, <1>4, StillForward DEF FailLoad

LEMMA ReceiveActForward ==
  ASSUME NewViewInv, NEW c \in Slots, ReceiveAct(c)
  PROVE  Forward
<1> DEFINE at == calls[c].at
<1>1. /\ at \in Held /\ at <= version /\ version \in Held
      /\ known \in Held /\ rendered \in Held
      /\ known' = Newer(known, at) /\ calls' = Superseded(Done(calls, c))
      /\ DrawNewest(address, known', stream)
      /\ UNCHANGED <<version, changes, address>>
  BY AnswerIsHeld, HeldAreNaturals DEF ReceiveAct, Unmoved, NewViewInv, VersionsOK
<1>2. known' \in Held /\ known <= known' /\ known' <= version /\ rendered <= known'
  BY <1>1, RememberedOK
<1>3. /\ ReactionsOK' /\ StreamOK(stream', version, address)
      /\ rendered' \in Held /\ rendered <= rendered' /\ rendered' <= known'
  BY <1>1, <1>2, DrawNewestOK DEF NewViewInv
<1>4. CallsOK(Done(calls, c), version, rendered) BY <1>1, DoneOK DEF NewViewInv
<1>5. CallsOK(calls', version, rendered') BY <1>1, <1>4, SupersededOK
<1> QED BY <1>1, <1>2, <1>3, <1>5, DrawnForward DEF NewViewInv, VersionsOK

LEMMA FailActForward ==
  ASSUME NewViewInv, NEW c \in Slots, FailAct(c)
  PROVE  Forward
<1>1. version \in Held /\ rendered \in Held BY HeldAreNaturals DEF NewViewInv, VersionsOK
<1>2. CallsOK(Superseded(calls), version, rendered) /\ NoLatest(Superseded(calls))
  BY <1>1, SupersededOK DEF NewViewInv
<1>3. CallsOK(Sent(Superseded(calls), c, "fresh"), version, rendered)
  BY <1>1, <1>2, SentOK DEF Loads
<1>4. CallsOK(Done(calls, c), version, rendered) BY <1>1, DoneOK DEF NewViewInv
<1>5. CallsOK(calls', version, rendered) BY <1>3, <1>4 DEF FailAct
<1> QED BY <1>5, StillForward DEF FailAct, NewViewInv, VersionsOK

LEMMA ReceiveReactForward ==
  ASSUME NewViewInv, NEW c \in Slots, ReceiveReact(c)
  PROVE  Forward
<1> DEFINE at == calls[c].at
<1>1. /\ at \in Held /\ at <= version /\ version \in Held
      /\ known \in Held /\ rendered \in Held /\ rendered <= rendered
      /\ calls' = Done(calls, c)
      /\ UNCHANGED <<version, changes, address, stream, rendered>>
  BY AnswerIsHeld, HeldAreNaturals DEF ReceiveReact, NewViewInv, VersionsOK
<1>2. CallsOK(calls', version, rendered) BY <1>1, DoneOK DEF NewViewInv
<1>3. CASE known' = Newer(known, at) /\ ShowOwnReaction(at)
  <2>1. /\ known' \in Held /\ known <= known' /\ at <= known' /\ known' <= version
        /\ rendered <= known'
    BY <1>1, <1>3, RememberedOK
  <2>2. ReactionsOK' BY <1>1, <1>3, <2>1, ShowOwnReactionOK DEF NewViewInv
  <2> QED BY <1>1, <1>2, <2>1, <2>2, DrawnForward DEF NewViewInv, VersionsOK
<1>4. CASE UNCHANGED <<known, reactionVars>>
  BY <1>1, <1>2, <1>4, StillForward DEF NewViewInv, VersionsOK
<1> QED BY <1>3, <1>4 DEF ReceiveReact

LEMMA OnlineForward ==
  ASSUME NewViewInv, OnlineStep
  PROVE  Forward
BY EnterForward, LeaveForward, PressForward, CollectTrickForward, DeliverForward,
   ReceiveLoadForward, FailLoadForward, ReceiveActForward, FailActForward, ReceiveReactForward
   DEF OnlineStep, Receive

-----------------------------------------------------------------------------
(* The steps of the server and the network *)

\* What a change of the table has to show; the screen and the reactions wait for snapshots.
LEMMA ChangeForward ==
  ASSUME NewViewInv, NEW kind \in Changes, Change(kind),
         UNCHANGED <<address, known, stream, reactionVars, rendered>>,
         CallsOK(calls', version', rendered)
  PROVE  Forward
<1>1. version' \in Version /\ version <= version' /\ changes' \in [Version -> Changes]
  BY SnapshotsAssumption DEF Change, NewViewInv, VersionsOK, Version
<1>2. /\ known \in Held /\ rendered \in Held /\ version \in Held /\ version' \in Held
      /\ rendered <= rendered /\ known <= known /\ known <= version'
  BY <1>1, HeldAreNaturals DEF NewViewInv, VersionsOK
<1>3. VersionsOK' BY <1>1, <1>2 DEF NewViewInv, VersionsOK
<1>4. StreamOK(stream', version', address') BY <1>1, <1>2, LaterStreamOK DEF NewViewInv
<1>5. ReactionsOK' BY <1>2, UnchangedReactionsOK DEF NewViewInv
<1> QED BY <1>2, <1>3, <1>4, <1>5 DEF NewViewInv, Forward

LEMMA OthersChangeForward ==
  ASSUME NewViewInv, OthersChange(OnlineChanges), UNCHANGED rendered
  PROVE  Forward
<1>1. PICK kind \in OnlineChanges \ {"myReaction"} : Change(kind) BY DEF OthersChange
<1>2. kind \in Changes BY DEF OnlineChanges, Changes, Reactions
<1>3. version \in Held /\ version' \in Held /\ version <= version'
  BY <1>1, HeldAreNaturals, SnapshotsAssumption DEF Change, NewViewInv, VersionsOK, Version, Held
<1>4. CallsOK(calls', version', rendered) BY <1>3, LaterCallsOK DEF OthersChange, NewViewInv
<1> QED BY <1>1, <1>2, <1>4, ChangeForward DEF OthersChange

LEMMA AnswerLoadForward ==
  ASSUME NewViewInv, NEW c \in Slots, AnswerLoad(c), UNCHANGED rendered
  PROVE  Forward
<1>1. version \in Held /\ rendered \in Held /\ rendered <= version /\ version <= version
  BY HeldAreNaturals DEF NewViewInv, VersionsOK
<1>2. CallsOK(calls', version, rendered) BY <1>1, AnsweredOK DEF AnswerLoad, NewViewInv
<1> QED BY <1>2, StillForward DEF AnswerLoad, NewViewInv, VersionsOK

LEMMA AcceptForward ==
  ASSUME NewViewInv, NEW c \in Slots, Accept(c), UNCHANGED rendered
  PROVE  Forward
<1>1. Change(ChangeOf(calls[c].kind)) /\ ChangeOf(calls[c].kind) \in Changes
  BY DEF Accept, ChangeOf, Changes, Reactions, Bids
<1>2. /\ version \in Held /\ rendered \in Held /\ rendered <= version'
      /\ version' = version + 1 /\ version' \in Held /\ version <= version' /\ version' <= version'
  BY <1>1, HeldAreNaturals, SnapshotsAssumption DEF Change, NewViewInv, VersionsOK, Version, Held
<1>3. CallsOK(calls, version', rendered) BY <1>2, LaterCallsOK DEF NewViewInv
<1>4. ~calls[c].latest BY DEF Accept, NewViewInv, CallsOK, Loads, Actions
<1>5. CallsOK(calls', version', rendered) BY <1>2, <1>3, <1>4, AnsweredOK DEF Accept
<1> QED BY <1>1, <1>5, ChangeForward DEF Accept

LEMMA DeclineForward ==
  ASSUME NewViewInv, NEW c \in Slots, Decline(c), UNCHANGED rendered
  PROVE  Forward
<1>1. calls' \in [Slots -> Call]
  BY DEF Decline, NewViewInv, CallsOK, Call
<1>2. \A d \in Slots : /\ calls'[d].kind = calls[d].kind /\ calls'[d].latest = calls[d].latest
                       /\ calls'[d].at = calls[d].at
                       /\ calls'[d].answer \in {calls[d].answer, "refused"}
  BY DEF Decline, NewViewInv, CallsOK, Call
<1>3. CallsOK(calls', version, rendered) BY <1>1, <1>2 DEF NewViewInv, CallsOK
<1> QED BY <1>3, StillForward DEF Decline, NewViewInv, VersionsOK

LEMMA LoseForward ==
  ASSUME NewViewInv, NEW c \in Slots, Lose(c), UNCHANGED rendered
  PROVE  Forward
<1>1. version \in Held /\ rendered \in Held /\ rendered <= version /\ 0 \in Held /\ 0 <= version
  BY HeldAreNaturals DEF NewViewInv, VersionsOK
<1>2. CallsOK(calls', version, rendered) BY <1>1, AnsweredOK DEF Lose, NewViewInv
<1> QED BY <1>2, StillForward DEF Lose, NewViewInv, VersionsOK

StreamSteps ==
  Connected \/ Push \/ (\E state \in {"connecting", "closed"} : Drop(state)) \/ Refuse \/ Reopen

LEMMA StreamForward ==
  ASSUME NewViewInv, StreamSteps, UNCHANGED rendered
  PROVE  Forward
<1>1. UNCHANGED <<version, changes, address, known, calls, rendered, reactionVars>>
  BY DEF StreamSteps, Connected, Push, Drop, Refuse, Reopen
<1>2. /\ StreamOK(stream, version, address) /\ version \in Version /\ version <= version
  BY HeldAreNaturals DEF NewViewInv, VersionsOK
<1>3. CASE /\ stream' \in Stream /\ stream'.wire = {} /\ stream'.state # "none"
           /\ stream.state # "none"
  BY <1>1, <1>2, <1>3, StillForward DEF StreamOK, NewViewInv, VersionsOK
<1>4. CASE Push
  <2>1. /\ stream' \in Stream /\ stream'.state = stream.state /\ stream'.timer = stream.timer
        /\ \A v \in stream'.wire : v \in stream.wire \/ v = version
    BY <1>2, <1>4, HeldAreNaturals DEF Push, StreamOK, Stream
  <2> QED BY <1>1, <1>2, <2>1, StillForward DEF StreamOK, NewViewInv, VersionsOK
<1>5. CASE Reopen
  <2>1. stream' = NewStream \/ stream' = [stream EXCEPT !.timer = FALSE] BY <1>5 DEF Reopen
  <2>2. CASE stream' = NewStream
    <3>1. stream.state # "none" BY <1>2, <1>5 DEF Reopen, StreamOK
    <3> QED BY <1>1, <1>2, <2>2, <3>1, NewStreams, StillForward
         DEF StreamOK, NewViewInv, VersionsOK
  <2>3. CASE stream' = [stream EXCEPT !.timer = FALSE]
    <3>1. /\ stream' \in Stream /\ stream'.state = stream.state /\ ~stream'.timer
          /\ stream'.wire = stream.wire
      BY <1>2, <2>3 DEF StreamOK, Stream
    <3> QED BY <1>1, <1>2, <3>1, StillForward DEF StreamOK, NewViewInv, VersionsOK
  <2> QED BY <2>1, <2>2, <2>3
<1>6. CASE Connected \/ Refuse
  <2>1. PICK state \in {"open", "refused"} :
          stream' = [NoStream EXCEPT !.state = state] /\ stream.state # "none"
    BY <1>6 DEF Connected, Refuse
  <2>2. stream' \in Stream /\ stream'.wire = {} /\ stream'.state # "none"
    BY <2>1, HeldAreNaturals DEF NoStream, Stream
  <2> QED BY <1>3, <2>1, <2>2
<1>7. CASE \E state \in {"connecting", "closed"} : Drop(state)
  <2>1. PICK state \in {"connecting", "closed"} :
          /\ stream' = [NoStream EXCEPT !.state = state, !.timer = TRUE]
          /\ stream.state # "none"
    BY <1>7 DEF Drop
  <2>2. stream' \in Stream /\ stream'.wire = {} /\ stream'.state # "none"
    BY <2>1, HeldAreNaturals DEF NoStream, Stream
  <2> QED BY <1>3, <2>1, <2>2
<1> QED BY <1>4, <1>5, <1>6, <1>7 DEF StreamSteps

LEMMA NetworkForward ==
  ASSUME NewViewInv, Network(OnlineChanges), UNCHANGED rendered
  PROVE  Forward
BY OthersChangeForward, AnswerLoadForward, AcceptForward, DeclineForward, LoseForward,
   StreamForward DEF Network, StreamSteps

-----------------------------------------------------------------------------
(* Theorems *)

LEMMA ClientStarts == Init => ClientInv
<1> SUFFICES ASSUME Init PROVE ClientInv OBVIOUS
<1>1. /\ legacy \in BOOLEAN /\ changes = [v \in Version |-> "other"]
      /\ version = 1 /\ address = "away" /\ known = 0 /\ rendered = 0
      /\ opened = FALSE /\ seen = 0 /\ shown = [v \in Version |-> 0]
  BY DEF Init, PrivateInit, SnapshotsInit
<1>2. /\ version \in Version /\ version \in Held /\ 0 \in Held /\ 0 <= version /\ 0 <= 0
      /\ "other" \in Changes /\ rendered \in Held
  BY <1>1, HeldAreNaturals DEF Changes
<1>3. VersionsOK BY <1>1, <1>2 DEF VersionsOK
<1>4. CallsOK(calls, version, rendered)
  BY <1>2, NoCallIsCall DEF Init, PrivateInit, SnapshotsInit, CallsOK
<1>5. StreamOK(stream, version, address)
  BY NewStreams DEF Init, PrivateInit, SnapshotsInit, StreamOK
<1>6. ReactionsOK
  <2>1. shown \in [Version -> 0..1] /\ \A v \in Version : shown[v] = 0 BY <1>1
  <2>2. opened \in BOOLEAN /\ seen \in Held /\ seen <= known BY <1>1, <1>2
  <2> QED BY <2>1, <2>2 DEF ReactionsOK
<1> QED BY <1>1, <1>2, <1>3, <1>4, <1>5, <1>6 DEF ClientInv, NewViewInv

LEMMA ClientSteps ==
  ASSUME ClientInv, [Next]_vars
  PROVE  ClientInv' /\ rendered <= rendered'
<1> rendered \in Held /\ rendered <= rendered BY HeldAreNaturals DEF ClientInv
<1>1. CASE UNCHANGED vars
  BY <1>1 DEF vars, snapshotVars, reactionVars, ClientInv, NewViewInv, VersionsOK, ReactionsOK
<1>2. CASE Next /\ legacy
  <2>1. legacy' = legacy /\ rendered' = rendered
    BY <1>2 DEF Next, OnNewView, OnOldView, Elsewhere
  <2>2. \A v \in Version : changes'[v] # "theirReaction" BY <1>2 DEF Next, Bounds
  <2> QED BY <1>2, <2>1, <2>2 DEF ClientInv
<1>3. CASE Next /\ ~legacy
  <2>1. NewViewInv /\ legacy' = legacy /\ rendered \in Held
    BY <1>3 DEF Next, OnNewView, OnOldView, Elsewhere, ClientInv, NewViewInv, VersionsOK
  <2>2. Forward
    <3>1. CASE OnlineStep BY <2>1, <3>1, OnlineForward
    <3>2. CASE Network(OnlineChanges) /\ UNCHANGED rendered BY <2>1, <3>2, NetworkForward
    <3> QED BY <1>3, <3>1, <3>2 DEF Next, OnOldView, Elsewhere, KindsOfChanges
  <2> QED BY <1>3, <2>1, <2>2 DEF Forward, ClientInv, NewViewInv, VersionsOK
<1> QED BY <1>1, <1>2, <1>3

\* What a tab on the new view holds of the table fits together: the newest snapshot, the
\* screen, the requests under way, the stream and the reactions shown (app-core.js).
THEOREM ClientInvariance == Spec => []ClientInv
<1>1. Init => ClientInv BY ClientStarts
<1>2. ClientInv /\ [Next]_vars => ClientInv' BY ClientSteps
<1> QED BY <1>1, <1>2, PTL DEF Spec

\* A stream, which is a presence at the server, is held at the table only.
THEOREM ClientStreamOnlyAtTheTable == Spec => []OnlineStreamOnlyAtTheTable
<1>1. ClientInv => OnlineStreamOnlyAtTheTable
  BY DEF ClientInv, NewViewInv, StreamOK, OnlineStreamOnlyAtTheTable, StreamOnlyAtTheTable
<1> QED BY <1>1, ClientInvariance, PTL

\* No reaction of another player is shown twice, whether the stream, a load or the answer
\* to an action brings it.
THEOREM ClientTheirReactionOnce == Spec => []TheirReactionOnce
<1>1. ClientInv => TheirReactionOnce
  <2> SUFFICES ASSUME ClientInv, NEW v \in Version, changes[v] = "theirReaction"
               PROVE  shown[v] < 2
    BY DEF TheirReactionOnce
  <2>1. shown \in [Version -> 0..1] BY DEF ClientInv, NewViewInv, ReactionsOK
  <2> QED BY <2>1
<1> QED BY <1>1, ClientInvariance, PTL

\* The screen of the new view never goes back to an older state of the table.
THEOREM ClientScreenNeverGoesBack == Spec => OnlineScreenNeverGoesBack
<1>1. Init => ClientInv BY ClientStarts
<1>2. ClientInv /\ [Next]_vars => ClientInv' BY ClientSteps
<1>3. ClientInv /\ [Next]_vars => [rendered' >= rendered]_vars
  <2> SUFFICES ASSUME ClientInv, [Next]_vars, vars' # vars PROVE rendered' >= rendered
    OBVIOUS
  <2>1. rendered \in Held /\ rendered' \in Held /\ rendered <= rendered'
    BY ClientSteps DEF ClientInv
  <2> QED BY <2>1, HeldAreNaturals
<1> QED BY <1>1, <1>2, <1>3, PTL DEF Spec, OnlineScreenNeverGoesBack

=============================================================================
