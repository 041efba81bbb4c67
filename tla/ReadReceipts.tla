---------------------------- MODULE ReadReceipts ----------------------------
(***************************************************************************)
(* Delivery state of one thread: each member's read and delivered horizons *)
(* (thread_dialog.last_read_seq, last_delivered_seq), its denormalized     *)
(* unread_count, and the failures kept in message_errors.                  *)
(*                                                                         *)
(* A transaction appears at the step that takes its first conflicting row  *)
(* lock: nothing it wrote is visible before its commit, and no other       *)
(* transaction can change the locked rows meanwhile.  What it read before  *)
(* that step is read in a step of its own, and may be stale:               *)
(*   - a send reads the thread's members before its transaction;           *)
(*   - MarkRead reads last_seq, then the snapshot of its update.  When the *)
(*     dialog row changed after that snapshot, READ COMMITTED evaluates    *)
(*     the update again on the new row, but its counting subquery still    *)
(*     runs on the snapshot.                                               *)
(*                                                                         *)
(* Sources: service/message_status.go, service/message.go,                 *)
(* store/postgres/{message_status_store,message}.go.                       *)
(***************************************************************************)
EXTENDS Integers, Sequences, FiniteSets

CONSTANTS
    Members,        \* contacts that may be members of the thread
    Bots,           \* the bots among them
    Clients,        \* the members whose clients send receipts; bots send none
    Founders,       \* the members the thread starts with
    Calls,          \* calls that may be in progress at the same time
    MaxSeq,         \* bound: messages of the thread
    MaxBatch,       \* bound: receipts of a member in one request
    MaxJoins,       \* bound: members added later
    MaxErrors       \* bound: failures stored at the same time

ASSUME ReceiptConstants ==
    /\ Members # {}
    /\ Bots \subseteq Members
    /\ Clients \subseteq Members \ Bots
    /\ Founders \subseteq Members
    /\ MaxSeq \in Nat
    /\ MaxBatch \in Nat
    /\ MaxJoins \in Nat
    /\ MaxErrors \in Nat

VARIABLES
    msgs,       \* msgs[s]: the message with seq s; thread.last_seq = Len(msgs)
    dlg,        \* dlg[m]: m's latest thread_dialog row
    errs,       \* message_errors: pairs <<seq, member>>
    status,     \* the move of a horizon this step announced, if it did
    call,       \* call[k]: the call in progress
    joins       \* members added so far

vars == <<msgs, dlg, errs, status, call, joins>>

Message == [from : Members, system : BOOLEAN, deleted : BOOLEAN]

\* A NULL horizon is 0, as every statement coalesces it.  id tells the rows of a
\* member who left and was added again apart.
Row == [st : {"none", "live", "left"}, id : Nat, read : Nat, deliv : Nat, unread : Nat]

\* upTo: the points of the receipts announced.
NoStatus == [kind |-> "none", m |-> CHOOSE m \in Members : TRUE, upTo |-> {}]

\* m, to, system: the sender, its recipients and the type of a send; m, point: the
\* reader and its up_to_seq; seen, row: the snapshot of the read's update.
NoCall == [op |-> "none", m |-> CHOOSE m \in Members : TRUE, to |-> {}, system |-> FALSE,
           point |-> 0, seen |-> {}, row |-> 0]

StatusEvent == [kind : {"none", "read", "delivered"}, m : Members, upTo : SUBSET Nat]
Call == [op : {"none", "send", "read", "update"}, m : Members, to : SUBSET Members,
         system : BOOLEAN, point : Nat, seen : SUBSET Nat, row : Nat]

TypeOK ==
    /\ msgs \in Seq(Message)
    /\ dlg \in [Members -> Row]
    /\ errs \subseteq Nat \X Members
    /\ status \in StatusEvent
    /\ call \in [Calls -> Call]
    /\ joins \in 0..MaxJoins

-----------------------------------------------------------------------------
(* The rows *)

Live     == {m \in Members : dlg[m].st = "live"}
LastSeq  == Len(msgs)
Greatest(a, b) == IF a >= b THEN a ELSE b
Least(a, b)    == IF a <= b THEN a ELSE b

\* The messages the counting subqueries count for m, of those in S.
Content(ms)          == {s \in 1..Len(ms) : ~ms[s].system /\ ~ms[s].deleted}
Unread(ms, S, m, r)  == Cardinality({s \in S : ms[s].from # m /\ s > r})

-----------------------------------------------------------------------------
(* Receipts *)

\* A receipt has a message_id (id, a provider's), an up_to_message_id (upTo) and an
\* up_to_seq (seq); 0 is absent.  UUIDv7 ids of a thread sort like its seqs, and a
\* message is its seq here.

\* resolveReadSeqFromMessageID, resolveSeqFromMessageID and
\* resolveThreadIDsForDelivery: the seq of a receipt that names a message.
Point(r) == IF r.seq # 0 THEN r.seq ELSE IF r.upTo # 0 THEN r.upTo ELSE r.id

\* greaterUUID: of the receipts I of a batch, the first with the greatest
\* up_to_message_id.
Latest(b, I) ==
    {b[i] : i \in {i \in I : \A j \in I : \/ b[j].upTo < b[i].upTo
                                         \/ (b[j].upTo = b[i].upTo /\ i <= j)}}

\* dedupReadReceipts: one receipt.
dedupReadReceipts(b) == Latest(b, DOMAIN b)

\* dedupStatusReceipts: one of the watermark receipts; of those without an
\* up_to_message_id the first for each message_id, a missing one included.
dedupStatusReceipts(b) ==
    LET wm == {i \in DOMAIN b : b[i].upTo # 0}
        pm == DOMAIN b \ wm
    IN  Latest(b, wm) \union {b[i] : i \in {i \in pm : \A j \in pm : b[j].id = b[i].id => i <= j}}

\* Mutant: the client's seq is used as it came.
clampReadSeqToThreadMutant(p) == p

\* clampReadSeqToThread: no further than the newest message.
clampReadSeqToThread(p) == Least(p, LastSeq)

\* Mutant: every failure of the member is dropped.
clearRecoveredErrorsMutant(e, m, points) == {x \in e : ~ (x[2] = m /\ points # {})}

\* clearRecoveredErrors: drop m's failures of messages within the points.
clearRecoveredErrors(e, m, points) ==
    {x \in e : ~ (x[2] = m /\ x[1] \in 1..LastSeq /\ \E p \in points : x[1] <= p)}

\* Mutant: the delivered horizon is left where it was.
ReadRowMutant(d, p, n) == [d EXCEPT !.read = p, !.unread = n]

\* advanceReadHorizon: the row it writes, given the count.
ReadRow(d, p, n) ==
    [d EXCEPT !.read = p, !.deliv = Greatest(@, p), !.unread = n]

\* Mutant: the update takes whichever receipt is applied.
AdvancedMutant(d, points) == {p \in points : p # 0}

\* advanceDeliveredHorizon: the points its update may take.  UPDATE ... FROM joins
\* the row with every receipt beyond it and applies one of them.
Advanced(d, points) == {p \in points : p > d.deliv}

-----------------------------------------------------------------------------
(* Operations *)

Idle(k) == call[k].op = "none"
Done(k) == call' = [call EXCEPT ![k] = NoCall]

\* EnsureDirectThread / prepareMessageForSending: the recipients are read before
\* the transaction: every member but the sender.
BeginSend(k, m, sys) ==
    /\ Idle(k) /\ m \in Live
    /\ call' = [call EXCEPT ![k] = [NoCall EXCEPT !.op = "send", !.m = m, !.system = sys,
                                                  !.to = Live \ {m}]]
    /\ status' = NoStatus
    /\ UNCHANGED <<msgs, dlg, errs, joins>>

\* Mutant: system messages are counted too.
BumpedMutant(c) == c.to \intersect Live

\* InsertSent: the dialogs whose counter it bumps.
Bumped(c) == IF c.system THEN {} ELSE c.to \intersect Live

\* insertSentStatuses: the bots the message is delivered to right away (their status
\* events announce its seq, and are left out).
Promoted(c) == c.to \intersect Bots \intersect Live

\* SaveMessage takes the next seq under the thread's row lock; InsertSent bumps the
\* recipients and MarkDelivered promotes the bots, in the same transaction.
CommitSend(k) ==
    LET c == call[k]
        s == LastSeq + 1
    IN  /\ c.op = "send" /\ LastSeq < MaxSeq
        /\ msgs' = Append(msgs, [from |-> c.m, system |-> c.system, deleted |-> FALSE])
        /\ dlg' = [m \in Members |->
                     [dlg[m] EXCEPT
                        !.unread = IF m \in Bumped(c) THEN @ + 1 ELSE @,
                        !.deliv  = IF m \in Promoted(c) THEN Greatest(@, s) ELSE @]]
        /\ errs' = {x \in errs : ~ (x[2] \in c.to \intersect Bots /\ x[1] <= s)}
        /\ status' = NoStatus
        /\ Done(k)
        /\ UNCHANGED joins

\* MarkRead up to clampReadSeqToThread.
BeginRead(k, m, b) ==
    /\ Idle(k)
    /\ \E r \in dedupReadReceipts(b) :
         call' = [call EXCEPT ![k] =
                    [NoCall EXCEPT !.op = "read", !.m = m,
                                   !.point = clampReadSeqToThread(Point(r))]]
    /\ status' = NoStatus
    /\ UNCHANGED <<msgs, dlg, errs, joins>>

\* advanceReadHorizon, its snapshot: the row it will update and the messages its
\* subquery can see.
ScanRead(k) ==
    LET c == call[k]
        d == dlg[c.m]
    IN  /\ c.op = "read"
        /\ call' = [call EXCEPT ![k] =
                     [c EXCEPT !.op = "update", !.seen = Content(msgs),
                               !.row = IF d.st = "live" /\ c.point > d.read THEN d.id ELSE 0]]
        /\ status' = NoStatus
        /\ UNCHANGED <<msgs, dlg, errs, joins>>

\* Mutant: what the snapshot showed is not evaluated again on the row.
MovesMutant(c) == c.row # 0 /\ dlg[c.m].id = c.row /\ dlg[c.m].st = "live"

\* advanceReadHorizon, its write, on the row as it is now.
Moves(c) ==
    LET d == dlg[c.m]
    IN  c.row # 0 /\ d.id = c.row /\ d.st = "live" /\ c.point > d.read

CommitRead(k) ==
    LET c == call[k]
        n == Unread(msgs, c.seen, c.m, c.point)
    IN  /\ c.op = "update" /\ Moves(c)
        /\ dlg' = [dlg EXCEPT ![c.m] = ReadRow(@, c.point, n)]
        /\ errs' = clearRecoveredErrors(errs, c.m, {c.point})
        /\ status' = [kind |-> "read", m |-> c.m, upTo |-> {c.point}]
        /\ Done(k)
        /\ UNCHANGED <<msgs, joins>>

\* The horizon did not move.  Read rolls back with an error; MarkRead commits,
\* and has cleared the recovered errors all the same.
UnmovedRead(k) ==
    LET c == call[k]
    IN  /\ c.op = "update" /\ ~Moves(c)
        /\ errs' \in {errs, clearRecoveredErrors(errs, c.m, {c.point} \ {0})}
        /\ status' = NoStatus
        /\ Done(k)
        /\ UNCHANGED <<msgs, dlg, joins>>

\* A call that ends in an error (a deadlock victim, a cancelled context).
Abort(k) ==
    /\ ~Idle(k)
    /\ Done(k)
    /\ status' = NoStatus
    /\ UNCHANGED <<msgs, dlg, errs, joins>>

\* groupStatusChanges: one event for each via, with the furthest point of its
\* receipts; the vias of a batch may be any, so the furthest of all is announced and
\* any other may be too.
groupStatusChanges(points) ==
    {upTo \in SUBSET points : \E p \in upTo : \A q \in points : q <= p}

\* MarkDelivered: nothing in its update depends on the snapshot.  Once the horizon
\* moved, every receipt of the batch is announced.
MarkDelivered(m, b) ==
    LET points == {Point(r) : r \in dedupStatusReceipts(b)}
        open   == IF dlg[m].st = "live" THEN Advanced(dlg[m], points) ELSE {}
    IN  /\ errs' = clearRecoveredErrors(errs, m, points \ {0})
        /\ \/ /\ open = {}
              /\ status' = NoStatus
              /\ UNCHANGED dlg
           \/ \E p \in open, upTo \in groupStatusChanges(points) :
              /\ dlg' = [dlg EXCEPT ![m].deliv = p]
              /\ status' = [kind |-> "delivered", m |-> m, upTo |-> upTo]
        /\ UNCHANGED <<msgs, call, joins>>

\* MarkFailed: an error row for a recipient, current or former (its event, one for
\* each message, is left out).
MarkFailed(m, s) ==
    /\ s \in 1..LastSeq
    /\ msgs[s].from # m
    /\ dlg[m].st # "none"
    /\ <<s, m>> \in errs \/ Cardinality(errs) < MaxErrors
    /\ errs' = errs \union {<<s, m>>}
    /\ status' = NoStatus
    /\ UNCHANGED <<msgs, dlg, call, joins>>

\* Mutant: a deletion decrements instead of counting again.
RecountUnreadMutant(ms) ==
    [m \in Members |-> IF dlg[m].st = "live" THEN [dlg[m] EXCEPT !.unread = @ - 1] ELSE dlg[m]]

\* RecountUnread: every live row, from its read horizon.
RecountUnread(ms) ==
    [m \in Members |->
        IF dlg[m].st = "live"
        THEN [dlg[m] EXCEPT !.unread = Unread(ms, Content(ms), m, dlg[m].read)]
        ELSE dlg[m]]

\* DeleteMessages: the author's own message.  Its Publish locks the members'
\* update marks before RecountUnread, so no send and no read commits between.
\* It takes a call of its own, since like a read it writes counters it computed.
DeleteMessage(k, m, s) ==
    /\ Idle(k)
    /\ s \in 1..LastSeq
    /\ m \in Live /\ msgs[s].from = m /\ ~msgs[s].deleted
    /\ msgs' = [msgs EXCEPT ![s].deleted = TRUE]
    /\ dlg' = RecountUnread(msgs')
    /\ status' = NoStatus
    /\ UNCHANGED <<errs, call, joins>>

\* Create: a new row; its horizons are NULL and its counter 0.
Join(m) ==
    /\ dlg[m].st # "live" /\ joins < MaxJoins
    /\ dlg' = [dlg EXCEPT ![m] = [st |-> "live", id |-> joins + 2, read |-> 0, deliv |-> 0, unread |-> 0]]
    /\ joins' = joins + 1
    /\ status' = NoStatus
    /\ UNCHANGED <<msgs, errs, call>>

\* Delete: the row is kept, soft-deleted.
Leave(m) ==
    /\ dlg[m].st = "live"
    /\ dlg' = [dlg EXCEPT ![m].st = "left"]
    /\ status' = NoStatus
    /\ UNCHANGED <<msgs, errs, call, joins>>

-----------------------------------------------------------------------------

\* requireReceiptPoint: a receipt names a message or a seq.  An id is that of a
\* message the client has seen; next to it comes that message's seq or none.
ReadInputs ==
    {r \in [id : {0}, upTo : 0..LastSeq, seq : 0..MaxSeq + 1] :
        r.upTo # r.seq => r.upTo = 0 \/ r.seq = 0} \ {[id |-> 0, upTo |-> 0, seq |-> 0]}
StatusInputs == ReadInputs \union [id : 1..LastSeq, upTo : {0}, seq : {0}]
Batches(R) == UNION {[1..n -> R] : n \in 1..MaxBatch}

Init ==
    /\ msgs = <<>>
    /\ dlg = [m \in Members |-> [st |-> IF m \in Founders THEN "live" ELSE "none",
                                 id |-> 1, read |-> 0, deliv |-> 0, unread |-> 0]]
    /\ errs = {}
    /\ status = NoStatus
    /\ call = [k \in Calls |-> NoCall]
    /\ joins = 0

Next ==
    \/ \E k \in Calls :
         \/ \E m \in Members, sys \in BOOLEAN : BeginSend(k, m, sys)
         \/ CommitSend(k)
         \/ \E m \in Clients : \E b \in Batches(ReadInputs) : BeginRead(k, m, b)
         \/ ScanRead(k)
         \/ CommitRead(k)
         \/ UnmovedRead(k)
         \/ Abort(k)
         \/ \E m \in Members : \E s \in 1..LastSeq : DeleteMessage(k, m, s)
    \/ \E m \in Clients :
         \/ \E b \in Batches(StatusInputs) : MarkDelivered(m, b)
         \/ \E s \in 1..LastSeq : MarkFailed(m, s)
    \/ \E m \in Members :
         \/ Join(m)
         \/ Leave(m)

Spec == Init /\ [][Next]_vars

-----------------------------------------------------------------------------
(* Properties *)

\* m's counter is the number of content messages of others after its read horizon
\* (unread-counters.md, "The model").
CountExact(m) == dlg[m].unread = Unread(msgs, Content(msgs), m, dlg[m].read)

\* Every counter is exact at all times: "it can never drift below zero or miss a
\* concurrent insert" (unread-counters.md).  The code does not keep this: the count
\* of a read misses what is committed between its snapshot and its row lock.
UnreadExact == \A m \in Live : CountExact(m)

\* Where the counter may go wrong: a read of m counts on a snapshot that is not
\* current any more, and a send reached m after its recipients had been read.
Ends(k)        == call[k].op # "none" /\ call'[k].op = "none"
StaleRead(m)   == \E k \in Calls : /\ call[k].op = "update" /\ call[k].m = m /\ Ends(k)
                                   /\ call[k].seen # Content(msgs)
MissedSend(m)  == \E k \in Calls : /\ call[k].op = "send" /\ Ends(k)
                                   /\ m \notin call[k].to \union {call[k].m}
MovedRead(m)   == dlg'[m].read # dlg[m].read

\* An exact counter goes wrong at these two places only, whatever sends, reads,
\* deletions and changes of the members interleave, and a read that moves the horizon
\* on a current snapshot sets right whatever went wrong before (InsertSent,
\* advanceReadHorizon, RecountUnread).
CountKept(m) ==
    /\ CountExact(m) /\ ~StaleRead(m) /\ ~MissedSend(m) => CountExact(m)'
    /\ MovedRead(m) /\ ~StaleRead(m) => CountExact(m)'
UnreadKept ==
    [][\A m \in Live : dlg'[m].st = "live" => CountKept(m)]_vars

\* A read never covers a message that does not exist yet, although last_seq is
\* read before the update and the client chooses the seq (clampReadSeqToThread).
ReadBounded == \A m \in Members : dlg[m].read <= LastSeq

\* The delivered horizon is never behind the read one, in whatever order receipts
\* of both kinds arrive (advanceReadHorizon, advanceDeliveredHorizon).
ReadImpliesDelivered == \A m \in Members : dlg[m].read <= dlg[m].deliv

\* No receipt, late, duplicated or computed from a stale snapshot, moves a
\* horizon of a member's row backward.
HorizonsMonotone ==
    [][\A m \in Members :
         m \in Live /\ dlg'[m].id = dlg[m].id
            => dlg'[m].read >= dlg[m].read /\ dlg'[m].deliv >= dlg[m].deliv]_vars

\* A receipt that moves a horizon is announced, with the point that was stored or one
\* beyond it, and one that moves none, a duplicate or one overtaken between its
\* statements, is silent (movedHorizons, groupStatusChanges; StatusChange: "Duplicate
\* and out-of-order receipts produce no changes").
MovesAnnounced ==
    [][\A m \in Live :
         LET moved(old, new) == new # old /\ dlg'[m].id = dlg[m].id
             read      == moved(dlg[m].read, dlg'[m].read)
             delivered == moved(dlg[m].deliv, dlg'[m].deliv) /\ m \notin Bots
             says(k)   == status'.kind = k /\ status'.m = m
             upTo(s)   == \E p \in status'.upTo : p >= s
         IN  /\ read <=> says("read")
             /\ read => dlg'[m].read \in status'.upTo
             /\ says("delivered") => delivered
             /\ delivered /\ ~read => says("delivered") /\ upTo(dlg'[m].deliv)]_vars

\* A failure of a member is dropped only for a message that its delivered horizon, or
\* the receipt that drops it, covers: no receipt hides the failure of a later message,
\* whatever overtakes it (clearRecoveredErrors, insertSentStatuses).
Covers(m, s) ==
    \/ s <= dlg'[m].deliv
    \/ \E k \in Calls : call[k].op = "update" /\ call[k].m = m /\ Ends(k) /\ s <= call[k].point
    \/ status'.kind = "delivered" /\ status'.m = m /\ \E p \in status'.upTo : s <= p
ErrorsRecovered == [][\A x \in errs \ errs' : x[2] \in Live => Covers(x[2], x[1])]_vars

=============================================================================
