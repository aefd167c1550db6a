---------------------------- MODULE PrivateTable ----------------------------
(***************************************************************************)
(* The online table as the old private-table view draws it                 *)
(* (static/app-session.js).  The calls of the auction are revealed one by  *)
(* one, each after a pause; the snapshots that arrive meanwhile wait.      *)
(* Sending a reaction is modelled in OnlineTable: both views do it alike.  *)
(***************************************************************************)
EXTENDS Snapshots

VARIABLE view  \* what the view remembers of what it drew

privateVars == <<snapshotVars, view>>

\* drawn is the version on screen; table and auction stand for the parts drawn last.
\* upto bounds the calls taken up, queue holds those to reveal before version revealing
\* is drawn, and told those the table has shown.  claimed says that the player's next
\* call in a snapshot was shown when it was made; waiting disables the buttons.
View == [drawn : Held, table : Held, auction : Held, looked : BOOLEAN, upto : Held,
         queue : SUBSET Version, told : SUBSET Version, revealing : Held,
         stage : {"", "bidding", "board"}, claimed : BOOLEAN, waiting : BOOLEAN]

-----------------------------------------------------------------------------
(* Drawing a snapshot *)

Last(vs) == IF vs = {} THEN 1 ELSE CHOOSE v \in vs : \A w \in vs : w <= v

\* What distinguishes the table, and the auction, of one snapshot from those of another.
TablePart(v) == Last({w \in 1..v : changes[w] = "other"})
AuctionPart(v) == Last(BidsBy(v))

\* showPrivateTable: seats drawn anew lose their calls, so the auction is drawn again too.
TableDrawn(w, v) ==
  IF w.table = TablePart(v) THEN w
  ELSE [w EXCEPT !.table = TablePart(v), !.auction = 0]

\* renderPrivateBidding, up to the reveal: the calls made since the last look are queued.
BiddingDrawn(w, v) ==
  IF w.auction = AuctionPart(v) THEN w
  ELSE LET new == IF w.looked THEN {u \in BidsBy(v) : w.upto < u} ELSE {}
           own == {u \in new : w.claimed /\ changes[u] = "myCall"}
       IN [w EXCEPT !.auction = AuctionPart(v), !.looked = TRUE, !.upto = v,
                    !.stage = IF OnBoard(v) THEN "" ELSE "bidding",
                    !.queue = new, !.told = @ \cup (BidsBy(v) \ new) \cup own]

\* loadPrivateGame after the reveal, and the end of loadPrivateTable.
Finished(w, v) ==
  [w EXCEPT !.drawn = v, !.revealing = 0,
            !.stage = IF OnBoard(v) THEN "board" ELSE @]

\* The player's own call, shown when they made it, is not announced again.
OwnCallSkipped(w) ==
  LET own == {u \in w.queue : w.claimed /\ changes[u] = "myCall" /\ \A o \in w.queue : u <= o}
  IN IF own = {} THEN w ELSE [w EXCEPT !.queue = @ \ own, !.claimed = FALSE]

\* revealPrivateCalls: on to the next call to announce, or to the end.
Revealed(w, v) ==
  LET s == OwnCallSkipped(w)
  IN IF s.queue = {} THEN [Finished(s, v) EXCEPT !.waiting = FALSE]
     ELSE [s EXCEPT !.revealing = v, !.waiting = TRUE]

\* The closing calls are revealed before the cards, if the auction was on screen.
Drawn(w, v) ==
  LET t == TableDrawn(w, v)
      b == IF OnBoard(v) /\ t.stage # "bidding" THEN t ELSE BiddingDrawn(t, v)
  IN IF b.queue = {} THEN Finished(b, v) ELSE Revealed(b, v)

\* loadPrivateTable with a snapshot at hand.  Where the tab is by now is not asked.
LoadNewest(w, newest, s) ==
  IF w.revealing # 0
  THEN view' = w /\ stream' = s /\ UNCHANGED reactionVars
  ELSE /\ view' = Drawn(w, newest)
       /\ stream' = Opened(s)
       /\ LoadReactions(newest)

SupersededUnlessRevealing(cs) == IF view.revealing = 0 THEN Superseded(cs) ELSE cs

-----------------------------------------------------------------------------
(* The player *)

EnterPrivate(c) ==
  /\ address # "table"
  /\ address' = "table"
  /\ \/ /\ known = 0 /\ view.revealing = 0
        /\ Idle(c)
        /\ calls' = Sent(Superseded(calls), c, "load")
        /\ UNCHANGED <<stream, view, reactionVars>>
     \/ /\ known # 0 \/ view.revealing # 0
        /\ calls' = SupersededUnlessRevealing(calls)
        /\ LoadNewest(view, known, stream)
  /\ UNCHANGED <<version, changes, known>>

LeavePrivate ==
  /\ address = "table"
  /\ address' = "away"
  /\ stream' = NoStream
  /\ UNCHANGED <<version, changes, known, calls, view, reactionVars>>

\* privateAction: the player's own call is shown before the server has taken it.
PressCall(c) ==
  /\ address = "table" /\ view.stage = "bidding" /\ ~view.waiting
  /\ Idle(c)
  /\ calls' = Sent(calls, c, "call")
  /\ view' = [view EXCEPT !.claimed = TRUE, !.waiting = TRUE]
  /\ UNCHANGED <<version, changes, address, known, stream, reactionVars>>

ReceiveCall(c) ==
  /\ calls[c].kind = "call" /\ Answered(c)
  /\ known' = Newer(known, calls[c].at)
  /\ calls' = SupersededUnlessRevealing(Done(calls, c))
  /\ LoadNewest([view EXCEPT !.waiting = FALSE, !.claimed = @ /\ calls[c].answer = "ok"],
                known', stream)
  /\ UNCHANGED <<version, changes, address>>

-----------------------------------------------------------------------------
(* Snapshots and timers *)

DeliverPrivate(v) ==
  /\ stream.state = "open" /\ Oldest(v)
  /\ known' = Newer(known, v)
  /\ IF address = "table"
     THEN /\ calls' = SupersededUnlessRevealing(calls)
          /\ LoadNewest(view, known', Received(stream, v))
     ELSE /\ stream' = Received(stream, v)
          /\ UNCHANGED <<calls, view, reactionVars>>
  /\ UNCHANGED <<version, changes, address>>

ReceivePrivateLoad(c) ==
  /\ calls[c].kind = "load" /\ calls[c].answer = "ok"
  /\ known' = Newer(known, calls[c].at)
  /\ calls' = Done(calls, c)
  /\ IF calls[c].latest THEN LoadNewest(view, calls[c].at, stream)
                        ELSE UNCHANGED <<view, stream, reactionVars>>
  /\ UNCHANGED <<version, changes, address>>

FailPrivateLoad(c) ==
  /\ calls[c].kind = "load" /\ calls[c].answer = "failed"
  /\ calls' = Done(calls, c)
  /\ IF calls[c].latest THEN address' = "away" /\ stream' = NoStream
                        ELSE UNCHANGED <<address, stream>>
  /\ UNCHANGED <<version, changes, known, view, reactionVars>>

\* A call has been announced.
RevealNext ==
  /\ view.revealing # 0
  /\ \E u \in view.queue :
       /\ \A other \in view.queue : u <= other
       /\ view' = Revealed([view EXCEPT !.queue = @ \ {u}, !.told = @ \cup {u}], view.revealing)
  /\ IF view'.revealing = 0 THEN LoadReactions(view.revealing) ELSE UNCHANGED reactionVars
  /\ UNCHANGED <<version, changes, address, known, stream, calls>>

\* Every half second: a newer snapshot that arrived during a reveal is drawn after it.
CatchUp ==
  /\ address = "table" /\ known > view.drawn /\ view.revealing = 0
  /\ calls' = Superseded(calls)
  /\ LoadNewest(view, known, stream)
  /\ UNCHANGED <<version, changes, address, known>>

ReceivePrivate(c) == ReceiveCall(c) \/ ReceivePrivateLoad(c) \/ FailPrivateLoad(c)

PrivateStep ==
  \/ \E c \in Slots : EnterPrivate(c) \/ PressCall(c) \/ ReceivePrivate(c)
  \/ LeavePrivate
  \/ \E v \in Version : DeliverPrivate(v)
  \/ RevealNext
  \/ CatchUp

PrivateChanges == {"other", "theirReaction", "theirCall", "myCall"}

\* A tab that saw the table before the auction has looked, and saw no call.
PrivateInit ==
  /\ SnapshotsInit
  /\ \E looked \in BOOLEAN :
       view = [drawn |-> 0, table |-> 0, auction |-> 0, looked |-> looked, upto |-> 0,
               queue |-> {}, told |-> {}, revealing |-> 0, stage |-> "",
               claimed |-> FALSE, waiting |-> FALSE]

PrivateNext == PrivateStep \/ (Network(PrivateChanges) /\ UNCHANGED view)

PrivateSpec == PrivateInit /\ [][PrivateNext]_privateVars

PrivateTypeOK == SnapshotsTypeOK /\ view \in View

=============================================================================
