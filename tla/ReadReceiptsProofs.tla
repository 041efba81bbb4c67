------------------------- MODULE ReadReceiptsProofs -------------------------
(***************************************************************************)
(* For any members, calls in progress, batches, joins and numbers of       *)
(* messages: the read and delivered horizons, what is announced of them,   *)
(* the failures that receipts drop and the unread counters.                *)
(***************************************************************************)
EXTENDS ReadReceipts, FiniteSetTheorems, TLAPS

\* What a read in progress carries is about messages that exist: its point was
\* clamped, and its snapshot saw messages, before the thread grew.
CallsBounded ==
    \A k \in Calls : call[k].point <= LastSeq /\ call[k].seen \subseteq 1..LastSeq

\* The inductive invariant behind ReadBounded and ReadImpliesDelivered.
HorizonInv == TypeOK /\ CallsBounded /\ ReadBounded /\ ReadImpliesDelivered

-----------------------------------------------------------------------------

LEMMA NoCallType == NoCall \in Call /\ NoCall.point = 0 /\ NoCall.seen = {}
  BY ReceiptConstants DEF NoCall, Call

LEMMA NoStatusType == NoStatus \in StatusEvent
  BY ReceiptConstants DEF NoStatus, StatusEvent

\* The counting subqueries return a natural number.
LEMMA UnreadType ==
  ASSUME NEW n \in Nat, NEW ms, NEW S \in SUBSET (1..n), NEW m, NEW r
  PROVE  Unread(ms, S, m, r) \in Nat
<1> DEFINE U == {s \in S : ms[s].from # m /\ s > r}
<1>1. IsFiniteSet(1..n)
  BY FS_Interval
<1>2. U \subseteq 1..n
  OBVIOUS
<1>3. IsFiniteSet(U)
  BY <1>1, <1>2, FS_Subset
<1>4. Cardinality(U) \in Nat
  BY <1>3, FS_CardinalityType
<1> QED
  BY <1>4 DEF Unread

\* The point of a receipt is a natural number, and deduplication only drops
\* receipts.
LEMMA PointType ==
  ASSUME LastSeq \in Nat, NEW r \in StatusInputs
  PROVE  Point(r) \in Nat
  BY ReceiptConstants DEF StatusInputs, ReadInputs, Point

LEMMA BatchType ==
  ASSUME NEW R, NEW b \in Batches(R)
  PROVE  /\ \A i \in DOMAIN b : b[i] \in R
         /\ dedupReadReceipts(b) \subseteq R
         /\ dedupStatusReceipts(b) \subseteq R
<1>1. PICK n \in 1..MaxBatch : b \in [1..n -> R]
  BY DEF Batches
<1>2. \A i \in DOMAIN b : b[i] \in R
  BY <1>1
<1> QED
  BY <1>2 DEF dedupReadReceipts, dedupStatusReceipts, Latest

-----------------------------------------------------------------------------
(* The inductive step, action by action *)

\* Moving one call along, to a point and a snapshot within the thread, keeps the
\* calls bounded: the thread only grows.
LEMMA CallMoved ==
  ASSUME HorizonInv, NEW k \in Calls, NEW c \in Call, call' = [call EXCEPT ![k] = c],
         Len(msgs') \in Nat, Len(msgs') >= Len(msgs),
         c.point <= Len(msgs'), c.seen \subseteq 1..Len(msgs')
  PROVE  call' \in [Calls -> Call] /\ CallsBounded'
<1>1. call' \in [Calls -> Call]
  BY DEF HorizonInv, TypeOK
<1>2. ASSUME NEW j \in Calls
      PROVE  call'[j].point <= Len(msgs') /\ call'[j].seen \subseteq 1..Len(msgs')
  <2>1. Len(msgs) \in Nat
    BY DEF HorizonInv, TypeOK
  <2>2. call[j].point \in Nat /\ call[j].point <= Len(msgs) /\ call[j].seen \subseteq 1..Len(msgs)
    BY DEF HorizonInv, TypeOK, CallsBounded, LastSeq, Call
  <2>3. CASE j = k
    BY <2>3 DEF HorizonInv, TypeOK
  <2>4. CASE j # k
    <3>1. call'[j] = call[j]
      BY <2>4 DEF HorizonInv, TypeOK
    <3>2. 1..Len(msgs) \subseteq 1..Len(msgs')
      BY <2>1
    <3> QED
      BY <2>1, <2>2, <3>1, <3>2
  <2> QED
    BY <2>3, <2>4
<1> QED
  BY <1>1, <1>2 DEF CallsBounded, LastSeq

\* The same for a call that ends.
LEMMA CallEnded ==
  ASSUME HorizonInv, NEW k \in Calls, Done(k), Len(msgs') \in Nat, Len(msgs') >= Len(msgs)
  PROVE  call' \in [Calls -> Call] /\ CallsBounded'
<1>1. call' = [call EXCEPT ![k] = NoCall]
  BY DEF Done
<1>2. NoCall.point <= Len(msgs') /\ NoCall.seen \subseteq 1..Len(msgs')
  BY NoCallType
<1> QED
  BY <1>1, <1>2, NoCallType, CallMoved

LEMMA BeginSendStep ==
  ASSUME HorizonInv, NEW k \in Calls, NEW m \in Members, NEW sys \in BOOLEAN,
         BeginSend(k, m, sys)
  PROVE  HorizonInv'
<1> DEFINE c == [NoCall EXCEPT !.op = "send", !.m = m, !.system = sys, !.to = Live \ {m}]
<1>1. c \in Call /\ c.point = 0 /\ c.seen = {}
  BY NoCallType DEF Call, Live
<1>2. call' = [call EXCEPT ![k] = c]
  BY DEF BeginSend
<1>3. Len(msgs) \in Nat
  BY DEF HorizonInv, TypeOK
<1> HIDE DEF c
<1>4. TypeOK'
  BY <1>1, <1>2, NoStatusType DEF HorizonInv, TypeOK, BeginSend
<1>5. CallsBounded'
  <2>1. msgs' = msgs
    BY DEF BeginSend
  <2>2. /\ Len(msgs') \in Nat /\ Len(msgs') >= Len(msgs)
        /\ c.point <= Len(msgs') /\ c.seen \subseteq 1..Len(msgs')
    BY <1>1, <1>3, <2>1
  <2> QED
    BY <1>1, <1>2, <2>2, CallMoved
<1> QED
  BY <1>4, <1>5 DEF HorizonInv, BeginSend, ReadBounded, ReadImpliesDelivered, LastSeq

LEMMA CommitSendStep ==
  ASSUME HorizonInv, NEW k \in Calls, CommitSend(k)
  PROVE  /\ HorizonInv'
         /\ \A m \in Members : dlg'[m].read = dlg[m].read /\ dlg'[m].deliv >= dlg[m].deliv
<1> DEFINE c == call[k]
<1> DEFINE msg == [from |-> c.m, system |-> c.system, deleted |-> FALSE]
<1>1. msg \in Message /\ msgs \in Seq(Message) /\ Len(msgs) \in Nat
  BY DEF HorizonInv, TypeOK, Call, Message
<1>2. msgs' = Append(msgs, msg)
  BY DEF CommitSend
<1> HIDE DEF msg
<1>3. msgs' \in Seq(Message) /\ Len(msgs') = Len(msgs) + 1
  BY <1>1, <1>2
<1>4. call' \in [Calls -> Call] /\ CallsBounded'
  <2>1. Done(k)
    BY DEF CommitSend
  <2> QED
    BY <1>1, <1>3, <2>1, CallEnded
<1>5. /\ dlg' \in [Members -> Row]
      /\ \A m \in Members : dlg'[m].read = dlg[m].read /\ dlg'[m].deliv >= dlg[m].deliv
  <2>1. ASSUME NEW m \in Members
        PROVE  /\ dlg'[m] \in Row
               /\ dlg'[m].read = dlg[m].read
               /\ dlg'[m].deliv >= dlg[m].deliv
    <3>1. dlg[m] \in Row
      BY DEF HorizonInv, TypeOK
    <3> DEFINE u == IF m \in Bumped(c) THEN dlg[m].unread + 1 ELSE dlg[m].unread
    <3> DEFINE d == IF m \in Promoted(c)
                    THEN Greatest(dlg[m].deliv, LastSeq + 1) ELSE dlg[m].deliv
    <3>2. dlg'[m] = [dlg[m] EXCEPT !.unread = u, !.deliv = d]
      BY <3>1 DEF CommitSend, Row
    <3>3. u \in Nat /\ d \in Nat /\ d >= dlg[m].deliv
      BY <1>1, <3>1 DEF Row, Greatest, LastSeq
    <3> HIDE DEF u, d
    <3> QED
      BY <3>1, <3>2, <3>3 DEF Row
  <2>2. dlg' = [m \in Members |-> dlg'[m]]
    BY DEF CommitSend
  <2> QED
    BY <2>1, <2>2
<1>6. TypeOK'
  BY <1>3, <1>4, <1>5, NoStatusType DEF HorizonInv, TypeOK, CommitSend
<1>7. ReadBounded' /\ ReadImpliesDelivered'
  BY <1>1, <1>3, <1>5 DEF HorizonInv, TypeOK, Row, ReadBounded, ReadImpliesDelivered, LastSeq
<1> QED
  BY <1>4, <1>5, <1>6, <1>7 DEF HorizonInv

LEMMA BeginReadStep ==
  ASSUME HorizonInv, NEW k \in Calls, NEW m \in Clients, NEW b \in Batches(ReadInputs),
         BeginRead(k, m, b)
  PROVE  HorizonInv'
<1>1. Len(msgs) \in Nat /\ LastSeq \in Nat
  BY DEF HorizonInv, TypeOK, LastSeq
<1>2. \A r \in ReadInputs : Point(r) \in Nat
  BY <1>1, PointType DEF StatusInputs
<1>3. PICK r \in dedupReadReceipts(b) :
         call' = [call EXCEPT ![k] =
                    [NoCall EXCEPT !.op = "read", !.m = m,
                                   !.point = clampReadSeqToThread(Point(r))]]
  BY DEF BeginRead
<1> DEFINE p == clampReadSeqToThread(Point(r))
<1>4. p \in Nat /\ p <= LastSeq
  BY <1>1, <1>2, <1>3, BatchType DEF clampReadSeqToThread, Least
<1> HIDE DEF p
<1> DEFINE c == [NoCall EXCEPT !.op = "read", !.m = m, !.point = p]
<1>6. c \in Call /\ c.point = p /\ c.seen = {}
  BY <1>4, NoCallType, ReceiptConstants DEF Call
<1>7. call' = [call EXCEPT ![k] = c]
  BY <1>3 DEF p
<1> HIDE DEF c
<1>8. TypeOK'
  BY <1>6, <1>7, NoStatusType DEF HorizonInv, TypeOK, BeginRead
<1>9. CallsBounded'
  <2>1. msgs' = msgs
    BY DEF BeginRead
  <2>2. /\ Len(msgs') \in Nat /\ Len(msgs') >= Len(msgs)
        /\ c.point <= Len(msgs') /\ c.seen \subseteq 1..Len(msgs')
    BY <1>1, <1>4, <1>6, <2>1 DEF LastSeq
  <2> QED
    BY <1>6, <1>7, <2>2, CallMoved
<1> QED
  BY <1>8, <1>9 DEF HorizonInv, BeginRead, ReadBounded, ReadImpliesDelivered, LastSeq

LEMMA ScanReadStep ==
  ASSUME HorizonInv, NEW k \in Calls, ScanRead(k)
  PROVE  HorizonInv'
<1>1. Len(msgs) \in Nat /\ Content(msgs) \subseteq 1..Len(msgs) /\ Content(msgs) \in SUBSET Nat
  BY DEF HorizonInv, TypeOK, Content
<1>2. call[k] \in Call /\ call[k].point <= Len(msgs) /\ dlg[call[k].m] \in Row
  BY DEF HorizonInv, TypeOK, CallsBounded, LastSeq, Call
<1>3. PICK row \in Nat :
         call' = [call EXCEPT ![k] = [call[k] EXCEPT !.op = "update", !.seen = Content(msgs), !.row = row]]
  BY <1>2 DEF ScanRead, Row
<1> DEFINE c == [call[k] EXCEPT !.op = "update", !.seen = Content(msgs), !.row = row]
<1>4. c \in Call /\ c.point = call[k].point /\ c.seen = Content(msgs)
  BY <1>1, <1>2 DEF Call
<1>5. call' = [call EXCEPT ![k] = c]
  BY <1>3
<1> HIDE DEF c
<1>6. TypeOK'
  BY <1>4, <1>5, NoStatusType DEF HorizonInv, TypeOK, ScanRead
<1>7. CallsBounded'
  <2>1. msgs' = msgs
    BY DEF ScanRead
  <2>2. /\ Len(msgs') \in Nat /\ Len(msgs') >= Len(msgs)
        /\ c.point <= Len(msgs') /\ c.seen \subseteq 1..Len(msgs')
    BY <1>1, <1>2, <1>4, <2>1
  <2> QED
    BY <1>4, <1>5, <2>2, CallMoved
<1> QED
  BY <1>6, <1>7 DEF HorizonInv, ScanRead, ReadBounded, ReadImpliesDelivered, LastSeq

\* The row a read writes: both horizons move forward, and stay in order.
LEMMA ReadRowType ==
  ASSUME NEW d \in Row, NEW p \in Nat, NEW n \in Nat, p > d.read
  PROVE  /\ ReadRow(d, p, n) \in Row
         /\ ReadRow(d, p, n).id = d.id
         /\ ReadRow(d, p, n).read = p
         /\ ReadRow(d, p, n).deliv >= p
         /\ ReadRow(d, p, n).deliv >= d.deliv
<1> DEFINE g == Greatest(d.deliv, p)
<1>1. g \in Nat /\ g >= p /\ g >= d.deliv
  BY DEF Greatest, Row
<1>2. ReadRow(d, p, n) = [d EXCEPT !.read = p, !.deliv = g, !.unread = n]
  BY DEF ReadRow
<1> HIDE DEF g
<1> QED
  BY <1>1, <1>2 DEF Row

LEMMA CommitReadStep ==
  ASSUME HorizonInv, NEW k \in Calls, CommitRead(k)
  PROVE  /\ HorizonInv'
         /\ \A m \in Members : dlg'[m].read >= dlg[m].read /\ dlg'[m].deliv >= dlg[m].deliv
<1> DEFINE c == call[k]
<1> DEFINE n == Unread(msgs, c.seen, c.m, c.point)
<1>1. Len(msgs) \in Nat /\ c \in Call /\ c.point \in Nat /\ c.m \in Members /\ dlg[c.m] \in Row
  BY DEF HorizonInv, TypeOK, Call
<1>2. c.point <= Len(msgs) /\ c.seen \subseteq 1..Len(msgs)
  BY DEF HorizonInv, CallsBounded, LastSeq
<1>3. n \in Nat
  BY <1>1, <1>2, UnreadType
<1>4. /\ msgs' = msgs /\ joins' = joins /\ Done(k) /\ c.point > dlg[c.m].read
      /\ dlg' = [dlg EXCEPT ![c.m] = ReadRow(dlg[c.m], c.point, n)]
      /\ errs' \subseteq errs
      /\ status' = [kind |-> "read", m |-> c.m, upTo |-> {c.point}]
  BY DEF CommitRead, Moves, clearRecoveredErrors
<1>5. call' \in [Calls -> Call] /\ CallsBounded'
  BY <1>1, <1>4, CallEnded
<1>6. /\ ReadRow(dlg[c.m], c.point, n) \in Row
      /\ ReadRow(dlg[c.m], c.point, n).read = c.point
      /\ ReadRow(dlg[c.m], c.point, n).deliv >= c.point
      /\ ReadRow(dlg[c.m], c.point, n).deliv >= dlg[c.m].deliv
  BY <1>1, <1>3, <1>4, ReadRowType
<1>7. status' \in StatusEvent
  BY <1>1, <1>4 DEF StatusEvent, Call
<1> HIDE DEF n
<1>8. TypeOK'
  BY <1>1, <1>4, <1>5, <1>6, <1>7 DEF HorizonInv, TypeOK
<1>9. ASSUME NEW m \in Members
      PROVE  dlg'[m].read <= Len(msgs) /\ dlg'[m].read <= dlg'[m].deliv
  <2>1. CASE m = c.m
    BY <1>2, <1>4, <1>6, <2>1 DEF HorizonInv, TypeOK
  <2>2. CASE m # c.m
    BY <1>4, <2>2 DEF HorizonInv, TypeOK, ReadBounded, ReadImpliesDelivered, LastSeq
  <2> QED
    BY <2>1, <2>2
<1>10. ASSUME NEW m \in Members
       PROVE  dlg'[m].read >= dlg[m].read /\ dlg'[m].deliv >= dlg[m].deliv
  <2>1. dlg[m] \in Row
    BY DEF HorizonInv, TypeOK
  <2>2. CASE m = c.m
    BY <1>1, <1>4, <1>6, <2>1, <2>2 DEF HorizonInv, TypeOK, Row
  <2>3. CASE m # c.m
    <3>1. dlg'[m] = dlg[m]
      BY <1>4, <2>3 DEF HorizonInv, TypeOK
    <3> QED
      BY <2>1, <3>1 DEF Row
  <2> QED
    BY <2>2, <2>3
<1>11. HorizonInv'
  BY <1>4, <1>5, <1>8, <1>9 DEF HorizonInv, ReadBounded, ReadImpliesDelivered, LastSeq
<1> QED
  BY <1>10, <1>11

\* A call that ends without a write.
LEMMA EndStep ==
  ASSUME HorizonInv, NEW k \in Calls, UnmovedRead(k) \/ Abort(k)
  PROVE  HorizonInv'
<1>1. /\ msgs' = msgs /\ dlg' = dlg /\ joins' = joins /\ Done(k)
      /\ errs' \subseteq errs /\ status' = NoStatus
  BY DEF UnmovedRead, Abort, clearRecoveredErrors
<1>2. Len(msgs) \in Nat
  BY DEF HorizonInv, TypeOK
<1>3. call' \in [Calls -> Call] /\ CallsBounded'
  BY <1>1, <1>2, CallEnded
<1>4. TypeOK'
  BY <1>1, <1>3, NoStatusType DEF HorizonInv, TypeOK
<1> QED
  BY <1>1, <1>3, <1>4 DEF HorizonInv, ReadBounded, ReadImpliesDelivered, LastSeq

\* A step that keeps the calls and the thread's length, and no row's read horizon
\* ahead of where it was or of the delivered one, keeps the invariant.
LEMMA RowsStep ==
  ASSUME HorizonInv, call' = call, Len(msgs') = Len(msgs), TypeOK',
         \A m \in Members : /\ dlg'[m].read <= dlg[m].read
                            /\ dlg'[m].read <= dlg'[m].deliv
  PROVE  HorizonInv'
<1>1. CallsBounded'
  BY DEF HorizonInv, CallsBounded, LastSeq
<1>2. ReadBounded'
  <2> SUFFICES ASSUME NEW m \in Members PROVE dlg'[m].read <= Len(msgs')
    BY DEF ReadBounded, LastSeq
  <2>1. dlg[m] \in Row /\ dlg'[m] \in Row /\ Len(msgs) \in Nat /\ dlg[m].read <= Len(msgs)
    BY DEF HorizonInv, TypeOK, ReadBounded, LastSeq
  <2> QED
    BY <2>1 DEF Row
<1>3. ReadImpliesDelivered'
  BY DEF ReadImpliesDelivered
<1> QED
  BY <1>1, <1>2, <1>3 DEF HorizonInv

LEMMA MarkDeliveredStep ==
  ASSUME HorizonInv, NEW m \in Clients, NEW b \in Batches(StatusInputs), MarkDelivered(m, b)
  PROVE  /\ HorizonInv'
         /\ \A j \in Members : dlg'[j].read >= dlg[j].read /\ dlg'[j].deliv >= dlg[j].deliv
<1> DEFINE points == {Point(r) : r \in dedupStatusReceipts(b)}
<1>1. LastSeq \in Nat /\ m \in Members /\ dlg[m] \in Row
  BY ReceiptConstants DEF HorizonInv, TypeOK, LastSeq
<1>2. points \in SUBSET Nat
  BY <1>1, PointType, BatchType
<1>3. errs' \subseteq errs /\ msgs' = msgs /\ call' = call /\ joins' = joins
  BY DEF MarkDelivered, clearRecoveredErrors
<1>4. CASE dlg' = dlg /\ status' = NoStatus
  <2>1. TypeOK'
    BY <1>3, <1>4, NoStatusType DEF HorizonInv, TypeOK
  <2>2. HorizonInv'
    BY <1>3, <1>4, <2>1 DEF HorizonInv, CallsBounded, ReadBounded, ReadImpliesDelivered, LastSeq
  <2> QED
    BY <1>4, <2>2 DEF HorizonInv, TypeOK, Row
<1>5. CASE \E p \in points, upTo \in SUBSET points :
             /\ p > dlg[m].deliv
             /\ dlg' = [dlg EXCEPT ![m].deliv = p]
             /\ status' = [kind |-> "delivered", m |-> m, upTo |-> upTo]
  <2>1. PICK p \in points, upTo \in SUBSET points :
             /\ p > dlg[m].deliv
             /\ dlg' = [dlg EXCEPT ![m] = [dlg[m] EXCEPT !.deliv = p]]
             /\ status' = [kind |-> "delivered", m |-> m, upTo |-> upTo]
    BY <1>5
  <2> DEFINE d == [dlg[m] EXCEPT !.deliv = p]
  <2>2. d \in Row /\ d.read = dlg[m].read /\ d.deliv = p
    BY <1>1, <1>2 DEF Row
  <2>3. dlg' = [dlg EXCEPT ![m] = d]
    BY <2>1
  <2>4. status' \in StatusEvent
    BY <1>1, <1>2, <2>1 DEF StatusEvent
  <2> HIDE DEF d, points
  <2>5. TypeOK'
    BY <1>1, <1>3, <2>2, <2>3, <2>4 DEF HorizonInv, TypeOK
  <2>6. dlg'[m] = d
    BY <1>1, <2>3 DEF HorizonInv, TypeOK
  <2>7. ASSUME NEW j \in Members
        PROVE  /\ dlg'[j].read = dlg[j].read /\ dlg[j].read <= dlg[j].read
               /\ dlg'[j].read <= dlg'[j].deliv
               /\ dlg'[j].deliv >= dlg[j].deliv
    <3>1. dlg[j] \in Row /\ dlg[j].read <= dlg[j].deliv
      BY DEF HorizonInv, TypeOK, ReadImpliesDelivered
    <3>2. CASE j = m
      BY <1>1, <1>2, <2>1, <2>2, <2>6, <3>1, <3>2 DEF Row, points
    <3>3. CASE j # m
      <4>1. dlg'[j] = dlg[j]
        BY <2>3, <3>3 DEF HorizonInv, TypeOK
      <4> QED
        BY <3>1, <4>1 DEF Row
    <3> QED
      BY <3>2, <3>3
  <2>8. HorizonInv'
    BY <1>3, <2>5, <2>7, RowsStep
  <2> QED
    BY <2>7, <2>8
<1> QED
  BY <1>4, <1>5 DEF MarkDelivered, Advanced, groupStatusChanges

LEMMA MarkFailedStep ==
  ASSUME HorizonInv, NEW m \in Clients, NEW s \in 1..LastSeq, MarkFailed(m, s)
  PROVE  HorizonInv'
<1>1. s \in Nat /\ m \in Members /\ LastSeq \in Nat
  BY ReceiptConstants DEF HorizonInv, TypeOK, LastSeq
<1>2. status' \in StatusEvent
  BY NoStatusType DEF MarkFailed
<1>3. errs' \subseteq Nat \X Members
  BY <1>1 DEF MarkFailed, HorizonInv, TypeOK
<1>4. TypeOK'
  BY <1>2, <1>3 DEF HorizonInv, TypeOK, MarkFailed
<1> QED
  BY <1>4 DEF HorizonInv, MarkFailed, CallsBounded, ReadBounded, ReadImpliesDelivered, LastSeq

\* A recount changes the counters only.
LEMMA RecountType ==
  ASSUME dlg \in [Members -> Row], NEW ms \in Seq(Message)
  PROVE  /\ RecountUnread(ms) \in [Members -> Row]
         /\ \A m \in Members : /\ RecountUnread(ms)[m].read = dlg[m].read
                               /\ RecountUnread(ms)[m].deliv = dlg[m].deliv
<1>1. Len(ms) \in Nat /\ Content(ms) \in SUBSET (1..Len(ms))
  BY DEF Content
<1>2. ASSUME NEW m \in Members
      PROVE  /\ RecountUnread(ms)[m] \in Row
             /\ RecountUnread(ms)[m].read = dlg[m].read
             /\ RecountUnread(ms)[m].deliv = dlg[m].deliv
  <2> DEFINE n == Unread(ms, Content(ms), m, dlg[m].read)
  <2>1. n \in Nat
    BY <1>1, UnreadType
  <2>2. RecountUnread(ms)[m] = IF dlg[m].st = "live" THEN [dlg[m] EXCEPT !.unread = n] ELSE dlg[m]
    BY DEF RecountUnread
  <2> HIDE DEF n
  <2> QED
    BY <2>1, <2>2 DEF Row
<1>3. RecountUnread(ms) = [m \in Members |-> RecountUnread(ms)[m]]
  BY DEF RecountUnread
<1> QED
  BY <1>2, <1>3

LEMMA DeleteMessageStep ==
  ASSUME HorizonInv, NEW k \in Calls, NEW m \in Members, NEW s \in 1..LastSeq,
         DeleteMessage(k, m, s)
  PROVE  /\ HorizonInv'
         /\ \A j \in Members : dlg'[j].read = dlg[j].read /\ dlg'[j].deliv = dlg[j].deliv
<1>1. s \in Nat /\ LastSeq \in Nat /\ msgs \in Seq(Message) /\ s \in 1..Len(msgs)
  BY DEF HorizonInv, TypeOK, LastSeq
<1>2. msgs[s] \in Message
  BY <1>1
<1> DEFINE msg == [msgs[s] EXCEPT !.deleted = TRUE]
<1>3. msg \in Message
  BY <1>2 DEF Message
<1>4. msgs' = [msgs EXCEPT ![s] = msg]
  BY DEF DeleteMessage
<1> HIDE DEF msg
<1>5. msgs' \in Seq(Message) /\ Len(msgs') = Len(msgs)
  BY <1>1, <1>3, <1>4
<1>6. /\ dlg' \in [Members -> Row]
      /\ \A j \in Members : dlg'[j].read = dlg[j].read /\ dlg'[j].deliv = dlg[j].deliv
  <2>1. dlg \in [Members -> Row]
    BY DEF HorizonInv, TypeOK
  <2>2. dlg' = RecountUnread(msgs')
    BY DEF DeleteMessage
  <2> QED
    BY <1>5, <2>1, <2>2, RecountType
<1>7. status' \in StatusEvent
  BY NoStatusType DEF DeleteMessage
<1>8. TypeOK'
  BY <1>5, <1>6, <1>7 DEF HorizonInv, TypeOK, DeleteMessage
<1>9. \A j \in Members : dlg'[j].read <= dlg[j].read /\ dlg'[j].read <= dlg'[j].deliv
  BY <1>6 DEF HorizonInv, TypeOK, Row, ReadImpliesDelivered
<1>10. call' = call
  BY DEF DeleteMessage
<1>11. HorizonInv'
  BY <1>5, <1>8, <1>9, <1>10, RowsStep
<1> QED
  BY <1>6, <1>11

LEMMA JoinStep ==
  ASSUME HorizonInv, NEW m \in Members, Join(m)
  PROVE  HorizonInv' /\ \A j \in Members : j # m => dlg'[j] = dlg[j]
<1> DEFINE d == [st |-> "live", id |-> joins + 2, read |-> 0, deliv |-> 0, unread |-> 0]
<1>1. d \in Row /\ d.read = 0 /\ d.deliv = 0 /\ joins' \in 0..MaxJoins
  BY ReceiptConstants DEF HorizonInv, TypeOK, Row, Join
<1>2. dlg' = [dlg EXCEPT ![m] = d]
  BY DEF Join
<1> HIDE DEF d
<1>3. TypeOK'
  BY <1>1, <1>2, NoStatusType DEF HorizonInv, TypeOK, Join
<1>4. \A j \in Members : j # m => dlg'[j] = dlg[j]
  BY <1>2 DEF HorizonInv, TypeOK
<1>5. dlg'[m] = d
  BY <1>2 DEF HorizonInv, TypeOK
<1>6. ASSUME NEW j \in Members
      PROVE  dlg'[j].read <= dlg[j].read /\ dlg'[j].read <= dlg'[j].deliv
  <2>1. dlg[j] \in Row /\ dlg[j].read <= dlg[j].deliv
    BY DEF HorizonInv, TypeOK, ReadImpliesDelivered
  <2> QED
    BY <1>1, <1>4, <1>5, <2>1 DEF Row
<1>7. call' = call /\ msgs' = msgs
  BY DEF Join
<1>8. HorizonInv'
  BY <1>3, <1>6, <1>7, RowsStep
<1> QED
  BY <1>4, <1>8

LEMMA LeaveStep ==
  ASSUME HorizonInv, NEW m \in Members, Leave(m)
  PROVE  /\ HorizonInv'
         /\ \A j \in Members : dlg'[j].read = dlg[j].read /\ dlg'[j].deliv = dlg[j].deliv
<1> DEFINE d == [dlg[m] EXCEPT !.st = "left"]
<1>1. dlg[m] \in Row
  BY DEF HorizonInv, TypeOK
<1>2. d \in Row /\ d.read = dlg[m].read /\ d.deliv = dlg[m].deliv
  BY <1>1 DEF Row
<1>3. dlg' = [dlg EXCEPT ![m] = d]
  BY DEF Leave
<1> HIDE DEF d
<1>4. TypeOK'
  BY <1>2, <1>3, NoStatusType DEF HorizonInv, TypeOK, Leave
<1>5. \A j \in Members : dlg'[j].read = dlg[j].read /\ dlg'[j].deliv = dlg[j].deliv
  BY <1>2, <1>3 DEF HorizonInv, TypeOK
<1>6. \A j \in Members : dlg'[j].read <= dlg[j].read /\ dlg'[j].read <= dlg'[j].deliv
  BY <1>5 DEF HorizonInv, TypeOK, Row, ReadImpliesDelivered
<1>7. call' = call /\ msgs' = msgs
  BY DEF Leave
<1>8. HorizonInv'
  BY <1>4, <1>6, <1>7, RowsStep
<1> QED
  BY <1>5, <1>8

-----------------------------------------------------------------------------
(* Theorems *)

\* What a step may do to the horizons of a row.
Forward ==
    \A m \in Members :
        m \in Live /\ dlg'[m].id = dlg[m].id
            => dlg'[m].read >= dlg[m].read /\ dlg'[m].deliv >= dlg[m].deliv

LEMMA InitHorizon == Init => HorizonInv
<1> SUFFICES ASSUME Init PROVE HorizonInv
  OBVIOUS
<1> USE ReceiptConstants
<1>1. msgs \in Seq(Message) /\ Len(msgs) = 0
  BY DEF Init
<1>2. dlg \in [Members -> Row] /\ \A m \in Members : dlg[m].read = 0 /\ dlg[m].deliv = 0
  BY DEF Init, Row
<1>3. call \in [Calls -> Call] /\ \A k \in Calls : call[k].point = 0 /\ call[k].seen = {}
  BY NoCallType DEF Init
<1>4. TypeOK
  BY <1>1, <1>2, <1>3, NoStatusType DEF Init, TypeOK
<1> QED
  BY <1>1, <1>2, <1>3, <1>4 DEF HorizonInv, CallsBounded, ReadBounded, ReadImpliesDelivered, LastSeq

\* Rows that stay as they are move neither back nor forth.
LEMMA SameRows ==
  ASSUME HorizonInv, \A m \in Members : dlg'[m] = dlg[m]
  PROVE  Forward
  BY DEF HorizonInv, TypeOK, Row, Forward

LEMMA NextHorizon ==
  ASSUME HorizonInv, [Next]_vars
  PROVE  HorizonInv' /\ Forward
<1>1. ASSUME NEW k \in Calls, NEW m \in Members, NEW sys \in BOOLEAN, BeginSend(k, m, sys)
      PROVE  HorizonInv' /\ Forward
  <2>1. dlg' = dlg
    BY <1>1 DEF BeginSend
  <2> QED
    BY <1>1, <2>1, BeginSendStep, SameRows
<1>2. ASSUME NEW k \in Calls, CommitSend(k)
      PROVE  HorizonInv' /\ Forward
  <2>1. HorizonInv' /\ \A m \in Members : dlg'[m].read = dlg[m].read /\ dlg'[m].deliv >= dlg[m].deliv
    BY <1>2, CommitSendStep
  <2> QED
    BY <2>1 DEF HorizonInv, TypeOK, Row, Forward
<1>3. ASSUME NEW k \in Calls, NEW m \in Clients, NEW b \in Batches(ReadInputs), BeginRead(k, m, b)
      PROVE  HorizonInv' /\ Forward
  <2>1. dlg' = dlg
    BY <1>3 DEF BeginRead
  <2> QED
    BY <1>3, <2>1, BeginReadStep, SameRows
<1>4. ASSUME NEW k \in Calls, ScanRead(k)
      PROVE  HorizonInv' /\ Forward
  <2>1. dlg' = dlg
    BY <1>4 DEF ScanRead
  <2> QED
    BY <1>4, <2>1, ScanReadStep, SameRows
<1>5. ASSUME NEW k \in Calls, CommitRead(k)
      PROVE  HorizonInv' /\ Forward
  <2>1. HorizonInv' /\ \A m \in Members : dlg'[m].read >= dlg[m].read /\ dlg'[m].deliv >= dlg[m].deliv
    BY <1>5, CommitReadStep
  <2> QED
    BY <2>1 DEF Forward
<1>6. ASSUME NEW k \in Calls, UnmovedRead(k) \/ Abort(k)
      PROVE  HorizonInv' /\ Forward
  <2>1. dlg' = dlg
    BY <1>6 DEF UnmovedRead, Abort
  <2> QED
    BY <1>6, <2>1, EndStep, SameRows
<1>7. ASSUME NEW k \in Calls, NEW m \in Members, NEW s \in 1..LastSeq, DeleteMessage(k, m, s)
      PROVE  HorizonInv' /\ Forward
  <2>1. HorizonInv' /\ \A j \in Members : dlg'[j].read = dlg[j].read /\ dlg'[j].deliv = dlg[j].deliv
    BY <1>7, DeleteMessageStep
  <2> QED
    BY <2>1 DEF HorizonInv, TypeOK, Row, Forward
<1>8. ASSUME NEW m \in Clients, NEW b \in Batches(StatusInputs), MarkDelivered(m, b)
      PROVE  HorizonInv' /\ Forward
  <2>1. HorizonInv' /\ \A j \in Members : dlg'[j].read >= dlg[j].read /\ dlg'[j].deliv >= dlg[j].deliv
    BY <1>8, MarkDeliveredStep
  <2> QED
    BY <2>1 DEF Forward
<1>9. ASSUME NEW m \in Clients, NEW s \in 1..LastSeq, MarkFailed(m, s)
      PROVE  HorizonInv' /\ Forward
  <2>1. dlg' = dlg
    BY <1>9 DEF MarkFailed
  <2> QED
    BY <1>9, <2>1, MarkFailedStep, SameRows
<1>10. ASSUME NEW m \in Members, Join(m)
       PROVE  HorizonInv' /\ Forward
  <2>1. HorizonInv' /\ \A j \in Members : j # m => dlg'[j] = dlg[j]
    BY <1>10, JoinStep
  <2>2. m \notin Live
    BY <1>10 DEF Join, Live
  <2>3. \A j \in Members : dlg[j].read \in Nat /\ dlg[j].deliv \in Nat
    BY DEF HorizonInv, TypeOK, Row
  <2>4. Forward
    BY <2>1, <2>2, <2>3 DEF Forward
  <2> QED
    BY <2>1, <2>4
<1>11. ASSUME NEW m \in Members, Leave(m)
       PROVE  HorizonInv' /\ Forward
  <2>1. HorizonInv' /\ \A j \in Members : dlg'[j].read = dlg[j].read /\ dlg'[j].deliv = dlg[j].deliv
    BY <1>11, LeaveStep
  <2> QED
    BY <2>1 DEF HorizonInv, TypeOK, Row, Forward
<1>12. CASE UNCHANGED vars
  <2>1. dlg' = dlg /\ HorizonInv'
    BY <1>12 DEF vars, HorizonInv, TypeOK, CallsBounded, ReadBounded, ReadImpliesDelivered, LastSeq
  <2> QED
    BY <2>1, SameRows
<1> QED
  BY <1>1, <1>2, <1>3, <1>4, <1>5, <1>6, <1>7, <1>8, <1>9, <1>10, <1>11, <1>12 DEF Next

\* Type correctness and the bounds of the calls in progress, with the two horizon
\* invariants they support.
THEOREM HorizonInvariance == Spec => []HorizonInv
<1>1. HorizonInv /\ [Next]_vars => HorizonInv'
  BY NextHorizon
<1> QED
  BY InitHorizon, <1>1, PTL DEF Spec

\* No read horizon is ever beyond the thread's newest message, although MarkRead
\* reads last_seq in a statement of its own and the client chooses the seq.
THEOREM ReadsBounded == Spec => []ReadBounded
<1>1. HorizonInv => ReadBounded
  BY DEF HorizonInv
<1> QED
  BY HorizonInvariance, <1>1, PTL

\* Read implies delivered, in whatever order receipts arrive and commit.
THEOREM ReadsDelivered == Spec => []ReadImpliesDelivered
<1>1. HorizonInv => ReadImpliesDelivered
  BY DEF HorizonInv
<1> QED
  BY HorizonInvariance, <1>1, PTL

\* No step moves a horizon of a member's row backward.
THEOREM HorizonsForward == Spec => HorizonsMonotone
<1>1. HorizonInv /\ [Next]_vars => [Forward]_vars
  BY NextHorizon
<1> QED
  BY HorizonInvariance, <1>1, PTL DEF Spec, HorizonsMonotone, Forward

\* Type correctness of every reachable state.
THEOREM Typing == Spec => []TypeOK
<1>1. HorizonInv => TypeOK
  BY DEF HorizonInv
<1> QED
  BY HorizonInvariance, <1>1, PTL

-----------------------------------------------------------------------------
(* What is announced *)

\* What a step says of the horizon of m that it moves, or does not.
Announces(m) ==
    LET moved(old, new) == new # old /\ dlg'[m].id = dlg[m].id
        read      == moved(dlg[m].read, dlg'[m].read)
        delivered == moved(dlg[m].deliv, dlg'[m].deliv) /\ m \notin Bots
        says(k)   == status'.kind = k /\ status'.m = m
        upTo(s)   == \E p \in status'.upTo : p >= s
    IN  /\ read <=> says("read")
        /\ read => dlg'[m].read \in status'.upTo
        /\ says("delivered") => delivered
        /\ delivered /\ ~read => says("delivered") /\ upTo(dlg'[m].deliv)

\* A step that announces no receipt moves no horizon, but for a bot's delivered one.
LEMMA QuietStep ==
  ASSUME status'.kind \notin {"read", "delivered"},
         \A m \in Live : /\ dlg'[m].read = dlg[m].read
                         /\ m \notin Bots => dlg'[m].deliv = dlg[m].deliv
  PROVE  \A m \in Live : Announces(m)
  BY DEF Announces

LEMMA NoStatusQuiet == NoStatus.kind \notin {"read", "delivered"}
  BY DEF NoStatus

\* A read announces the point it stored.
LEMMA CommitReadAnnounces ==
  ASSUME HorizonInv, NEW k \in Calls, CommitRead(k), NEW m \in Live
  PROVE  Announces(m)
<1> DEFINE c == call[k]
<1> DEFINE n == Unread(msgs, c.seen, c.m, c.point)
<1>1. m \in Members /\ c.m \in Members /\ c.point \in Nat /\ dlg[m] \in Row /\ dlg[c.m] \in Row
  BY DEF HorizonInv, TypeOK, Call, Live
<1>2. /\ c.point > dlg[c.m].read
      /\ dlg' = [dlg EXCEPT ![c.m] = ReadRow(dlg[c.m], c.point, n)]
      /\ status' = [kind |-> "read", m |-> c.m, upTo |-> {c.point}]
  BY DEF CommitRead, Moves
<1>3. status'.kind = "read" /\ status'.m = c.m /\ status'.upTo = {c.point}
  BY <1>2
<1>4. CASE m = c.m
  <2>1. n \in Nat
    <3>1. Len(msgs) \in Nat /\ c.seen \in SUBSET (1..Len(msgs))
      BY DEF HorizonInv, TypeOK, CallsBounded, LastSeq
    <3> QED
      BY <3>1, UnreadType
  <2> HIDE DEF n
  <2>2. dlg'[m].read = c.point /\ dlg'[m].id = dlg[m].id
    BY <1>1, <1>2, <1>4, <2>1, ReadRowType DEF HorizonInv, TypeOK
  <2>3. dlg'[m].read # dlg[m].read
    BY <1>1, <1>2, <1>4, <2>2 DEF Row
  <2> QED
    BY <1>3, <1>4, <2>2, <2>3 DEF Announces
<1>5. CASE m # c.m
  <2>1. dlg'[m] = dlg[m]
    BY <1>1, <1>2, <1>5 DEF HorizonInv, TypeOK
  <2> QED
    BY <1>3, <1>5, <2>1 DEF Announces
<1> QED
  BY <1>4, <1>5

\* Of the points of a batch, the furthest is announced.
LEMMA FurthestAnnounced ==
  ASSUME NEW points, NEW upTo \in groupStatusChanges(points), NEW p \in points
  PROVE  \E q \in upTo : q >= p
<1>1. PICK q \in upTo : \A r \in points : r <= q
  BY DEF groupStatusChanges
<1> QED
  BY <1>1

\* A delivery receipt announces a point at or beyond the one that was stored.
LEMMA MarkDeliveredAnnounces ==
  ASSUME HorizonInv, NEW c \in Clients, NEW b \in Batches(StatusInputs), MarkDelivered(c, b),
         NEW m \in Live
  PROVE  Announces(m)
<1> DEFINE points == {Point(r) : r \in dedupStatusReceipts(b)}
<1>1. m \in Members /\ c \in Members /\ c \notin Bots /\ dlg[m] \in Row /\ dlg[c] \in Row
  BY ReceiptConstants DEF HorizonInv, TypeOK, Live
<1>2. points \in SUBSET Nat
  <2>1. LastSeq \in Nat
    BY DEF HorizonInv, TypeOK, LastSeq
  <2> QED
    BY <2>1, PointType, BatchType
<1>3. CASE dlg' = dlg /\ status' = NoStatus
  BY <1>3, QuietStep, NoStatusQuiet
<1>4. CASE \E p \in points, upTo \in groupStatusChanges(points) :
             /\ p > dlg[c].deliv
             /\ dlg' = [dlg EXCEPT ![c].deliv = p]
             /\ status' = [kind |-> "delivered", m |-> c, upTo |-> upTo]
  <2>1. PICK p \in points, upTo \in groupStatusChanges(points) :
             /\ p > dlg[c].deliv
             /\ dlg' = [dlg EXCEPT ![c] = [dlg[c] EXCEPT !.deliv = p]]
             /\ status' = [kind |-> "delivered", m |-> c, upTo |-> upTo]
    BY <1>4
  <2>2. status'.kind = "delivered" /\ status'.m = c /\ status'.upTo = upTo
    BY <2>1
  <2>3. p \in Nat /\ \E q \in upTo : q >= p
    BY <1>2, FurthestAnnounced
  <2> HIDE DEF points
  <2>4. CASE m = c
    <3>1. dlg'[m].deliv = p /\ dlg'[m].read = dlg[m].read /\ dlg'[m].id = dlg[m].id
      BY <1>1, <2>1, <2>4 DEF HorizonInv, TypeOK, Row
    <3>2. dlg'[m].deliv # dlg[m].deliv
      BY <1>1, <2>1, <2>3, <2>4, <3>1 DEF Row
    <3> QED
      BY <1>1, <2>2, <2>3, <2>4, <3>1, <3>2 DEF Announces
  <2>5. CASE m # c
    <3>1. dlg'[m] = dlg[m]
      BY <1>1, <2>1, <2>5 DEF HorizonInv, TypeOK
    <3> QED
      BY <2>2, <2>5, <3>1 DEF Announces
  <2> QED
    BY <2>4, <2>5
<1> QED
  BY <1>3, <1>4 DEF MarkDelivered, Advanced

\* The bots a send promotes are the only members whose horizon it moves.
LEMMA CommitSendQuiet ==
  ASSUME HorizonInv, NEW k \in Calls, CommitSend(k), NEW m \in Live
  PROVE  /\ dlg'[m].read = dlg[m].read
         /\ m \notin Bots => dlg'[m].deliv = dlg[m].deliv
<1>1. m \in Members /\ dlg[m] \in Row
  BY DEF HorizonInv, TypeOK, Live
<1> DEFINE u == IF m \in Bumped(call[k]) THEN dlg[m].unread + 1 ELSE dlg[m].unread
<1> DEFINE d == IF m \in Promoted(call[k])
                THEN Greatest(dlg[m].deliv, LastSeq + 1) ELSE dlg[m].deliv
<1>2. dlg'[m] = [dlg[m] EXCEPT !.unread = u, !.deliv = d]
  BY <1>1 DEF CommitSend, Row
<1>3. m \notin Bots => d = dlg[m].deliv
  BY DEF Promoted
<1> HIDE DEF u, d
<1> QED
  BY <1>1, <1>2, <1>3 DEF Row

LEMMA NextAnnounces ==
  ASSUME HorizonInv, Next
  PROVE  \A m \in Live : Announces(m)
<1>1. ASSUME NEW k \in Calls, \/ \E m \in Members, sys \in BOOLEAN : BeginSend(k, m, sys)
                              \/ \E m \in Clients : \E b \in Batches(ReadInputs) : BeginRead(k, m, b)
                              \/ ScanRead(k) \/ UnmovedRead(k) \/ Abort(k)
      PROVE  \A m \in Live : Announces(m)
  <2>1. dlg' = dlg /\ status' = NoStatus
    BY <1>1 DEF BeginSend, BeginRead, ScanRead, UnmovedRead, Abort
  <2> QED
    BY <2>1, QuietStep, NoStatusQuiet
<1>2. ASSUME NEW k \in Calls, CommitSend(k)
      PROVE  \A m \in Live : Announces(m)
  <2>1. status' = NoStatus
    BY <1>2 DEF CommitSend
  <2> QED
    BY <1>2, <2>1, CommitSendQuiet, QuietStep, NoStatusQuiet
<1>3. ASSUME NEW k \in Calls, CommitRead(k)
      PROVE  \A m \in Live : Announces(m)
  BY <1>3, CommitReadAnnounces
<1>4. ASSUME NEW k \in Calls, NEW j \in Members, NEW s \in 1..LastSeq, DeleteMessage(k, j, s)
      PROVE  \A m \in Live : Announces(m)
  <2>1. status' = NoStatus
    BY <1>4 DEF DeleteMessage
  <2>2. \A m \in Live : dlg'[m].read = dlg[m].read /\ dlg'[m].deliv = dlg[m].deliv
    BY <1>4, DeleteMessageStep DEF Live
  <2> QED
    BY <2>1, <2>2, QuietStep, NoStatusQuiet
<1>5. ASSUME NEW c \in Clients, NEW b \in Batches(StatusInputs), MarkDelivered(c, b)
      PROVE  \A m \in Live : Announces(m)
  BY <1>5, MarkDeliveredAnnounces
<1>6. ASSUME NEW c \in Clients, NEW s \in 1..LastSeq, MarkFailed(c, s)
      PROVE  \A m \in Live : Announces(m)
  <2>1. dlg' = dlg /\ status' = NoStatus
    BY <1>6 DEF MarkFailed
  <2> QED
    BY <2>1, QuietStep, NoStatusQuiet
<1>7. ASSUME NEW j \in Members, Join(j)
      PROVE  \A m \in Live : Announces(m)
  <2>1. \A m \in Live : m # j
    BY <1>7 DEF Join, Live
  <2>2. \A m \in Live : dlg'[m] = dlg[m]
    BY <1>7, <2>1, JoinStep DEF Live
  <2>3. status' = NoStatus
    BY <1>7 DEF Join
  <2> QED
    BY <2>2, <2>3, QuietStep, NoStatusQuiet
<1>8. ASSUME NEW j \in Members, Leave(j)
      PROVE  \A m \in Live : Announces(m)
  <2>1. \A m \in Live : dlg'[m].read = dlg[m].read /\ dlg'[m].deliv = dlg[m].deliv
    BY <1>8, LeaveStep DEF Live
  <2>2. status' = NoStatus
    BY <1>8 DEF Leave
  <2> QED
    BY <2>1, <2>2, QuietStep, NoStatusQuiet
<1> QED
  BY <1>1, <1>2, <1>3, <1>4, <1>5, <1>6, <1>7, <1>8 DEF Next

\* Whatever receipts are in progress and however they are batched, one that moves a
\* horizon is announced, with the point that was stored or one beyond it, and one that
\* moves none is silent.
THEOREM ReceiptsAnnounced == Spec => MovesAnnounced
<1>1. HorizonInv /\ [Next]_vars => [\A m \in Live : Announces(m)]_vars
  BY NextAnnounces
<1> QED
  BY HorizonInvariance, <1>1, PTL DEF Spec, MovesAnnounced, Announces

-----------------------------------------------------------------------------
(* Failures *)

Recovers == \A x \in errs \ errs' : x[2] \in Live => Covers(x[2], x[1])

\* A read drops the failures up to its point, whether it moves the horizon or not.
LEMMA ReadRecovers ==
  ASSUME HorizonInv, NEW k \in Calls, UnmovedRead(k) \/ CommitRead(k)
  PROVE  Recovers
<1>1. call[k] \in Call /\ errs \subseteq Nat \X Members /\ call \in [Calls -> Call]
  BY DEF HorizonInv, TypeOK
<1>2. SUFFICES ASSUME NEW x \in errs \ errs'
               PROVE  Covers(x[2], x[1])
  BY DEF Recovers
<1>3. x[2] = call[k].m /\ x[1] <= call[k].point
  BY <1>1, <1>2 DEF UnmovedRead, CommitRead, clearRecoveredErrors
<1>4. call[k].op = "update" /\ call'[k] = NoCall
  BY <1>1 DEF UnmovedRead, CommitRead, Done
<1>5. Ends(k)
  BY <1>4 DEF Ends, NoCall
<1> QED
  BY <1>3, <1>4, <1>5 DEF Covers

\* A send promotes the live bots it drops failures of.
LEMMA CommitSendRecovers ==
  ASSUME HorizonInv, NEW k \in Calls, CommitSend(k)
  PROVE  Recovers
<1>1. Len(msgs) \in Nat /\ dlg \in [Members -> Row] /\ errs \subseteq Nat \X Members
  BY DEF HorizonInv, TypeOK
<1>2. SUFFICES ASSUME NEW x \in errs \ errs', x[2] \in Live
               PROVE  x[1] <= dlg'[x[2]].deliv
  BY DEF Recovers, Covers
<1> DEFINE m == x[2]
<1>3. m \in Members /\ x[1] \in Nat /\ x[1] <= LastSeq + 1 /\ m \in Promoted(call[k])
  BY <1>1, <1>2 DEF CommitSend, Promoted
<1> HIDE DEF m
<1> DEFINE u == IF m \in Bumped(call[k]) THEN dlg[m].unread + 1 ELSE dlg[m].unread
<1> DEFINE d == Greatest(dlg[m].deliv, LastSeq + 1)
<1>4. dlg'[m] = [dlg[m] EXCEPT !.unread = u, !.deliv = d]
  BY <1>1, <1>3 DEF CommitSend, Row
<1>5. d \in Nat /\ d >= LastSeq + 1 /\ LastSeq \in Nat
  BY <1>1, <1>3 DEF Greatest, Row, LastSeq
<1> HIDE DEF u, d
<1>6. dlg'[m].deliv = d
  BY <1>1, <1>3, <1>4 DEF Row
<1> QED
  BY <1>3, <1>5, <1>6 DEF m

\* Delivery receipts drop the failures up to the furthest of them, which they announce
\* if the horizon moves; otherwise it was that far.
LEMMA MarkDeliveredRecovers ==
  ASSUME HorizonInv, NEW c \in Clients, NEW b \in Batches(StatusInputs), MarkDelivered(c, b)
  PROVE  Recovers
<1> DEFINE points == {Point(r) : r \in dedupStatusReceipts(b)}
<1>1. c \in Members /\ dlg \in [Members -> Row] /\ LastSeq \in Nat /\ errs \subseteq Nat \X Members
  BY ReceiptConstants DEF HorizonInv, TypeOK, LastSeq
<1>2. points \in SUBSET Nat
  BY <1>1, PointType, BatchType
<1>3. SUFFICES ASSUME NEW x \in errs \ errs', x[2] \in Live
               PROVE  Covers(x[2], x[1])
  BY DEF Recovers
<1>4. PICK p \in points : x[2] = c /\ x[1] \in Nat /\ x[1] <= p
  BY <1>1, <1>3 DEF MarkDelivered, clearRecoveredErrors
<1>5. dlg[c].st = "live"
  BY <1>3, <1>4 DEF Live
<1>6. \/ {q \in points : q > dlg[c].deliv} = {} /\ dlg' = dlg
      \/ \E upTo \in groupStatusChanges(points) :
            status' = [kind |-> "delivered", m |-> c, upTo |-> upTo]
  BY <1>5 DEF MarkDelivered, Advanced
<1>7. CASE {q \in points : q > dlg[c].deliv} = {} /\ dlg' = dlg
  <2>1. p \in Nat /\ ~ (p > dlg[c].deliv)
    BY <1>2, <1>7
  <2> QED
    BY <1>1, <1>4, <1>7, <2>1 DEF Row, Covers
<1>8. CASE \E upTo \in groupStatusChanges(points) :
             status' = [kind |-> "delivered", m |-> c, upTo |-> upTo]
  <2>1. PICK upTo \in groupStatusChanges(points) :
             status' = [kind |-> "delivered", m |-> c, upTo |-> upTo]
    BY <1>8
  <2>2. PICK q \in upTo : q >= p
    BY FurthestAnnounced
  <2>3. q \in Nat /\ p \in Nat
    BY <1>2, <2>1 DEF groupStatusChanges
  <2>4. status'.kind = "delivered" /\ status'.m = c /\ status'.upTo = upTo
    BY <2>1
  <2> HIDE DEF points
  <2>5. x[1] <= q
    BY <1>4, <2>2, <2>3
  <2> QED
    BY <1>4, <2>4, <2>5 DEF Covers
<1> QED
  BY <1>6, <1>7, <1>8

LEMMA NextRecovers ==
  ASSUME HorizonInv, Next
  PROVE  Recovers
<1>1. ASSUME errs \subseteq errs' PROVE Recovers
  BY <1>1 DEF Recovers
<1> QED
  BY <1>1, ReadRecovers, CommitSendRecovers, MarkDeliveredRecovers
     DEF Next, BeginSend, BeginRead, ScanRead, Abort, DeleteMessage, MarkFailed, Join, Leave

\* However calls overlap, receipts are batched and members come and go, a failure is
\* dropped only for a message that the member's delivered horizon, or the receipt that
\* drops it, covers.
THEOREM FailuresRecovered == Spec => ErrorsRecovered
<1>1. HorizonInv /\ [Next]_vars => [Recovers]_vars
  BY NextRecovers
<1> QED
  BY HorizonInvariance, <1>1, PTL DEF Spec, ErrorsRecovered, Recovers

-----------------------------------------------------------------------------
(* The counters *)

\* No sender is among its own recipients.
SendersOut == \A k \in Calls : call[k].m \notin call[k].to

\* What a message w adds to the count of a member who has read up to r.
Counted(ms, w, ms2, m, r) ==
    Unread(ms2, Content(ms2), m, r) =
        IF ~w.system /\ ~w.deleted /\ w.from # m
        THEN Unread(ms, Content(ms), m, r) + 1 ELSE Unread(ms, Content(ms), m, r)

LEMMA UnreadAppend ==
  ASSUME NEW ms \in Seq(Message), NEW w \in Message, NEW m, NEW r \in Nat, r <= Len(ms),
         NEW ms2, ms2 = Append(ms, w)
  PROVE  Counted(ms, w, ms2, m, r)
<1> DEFINE U  == {s \in Content(ms) : ms[s].from # m /\ s > r}
<1> DEFINE U2 == {s \in Content(ms2) : ms2[s].from # m /\ s > r}
<1>1. PICK n \in Nat : n = Len(ms)
  OBVIOUS
<1>2. /\ Len(ms2) = n + 1
      /\ \A s \in 1..n : ms2[s] = ms[s]
      /\ ms2[n + 1] = w
  BY <1>1
<1>3. U \subseteq 1..n
  BY <1>1 DEF Content
<1>4. IsFiniteSet(U)
  <2>1. IsFiniteSet(1..n)
    BY FS_Interval
  <2> HIDE DEF U
  <2> QED
    BY <1>3, <2>1, FS_Subset
<1>5. n + 1 \notin U
  BY <1>3
<1>6. CASE ~w.system /\ ~w.deleted /\ w.from # m
  <2>1. U2 = U \union {n + 1}
    <3>1. ASSUME NEW s \in U2 PROVE s \in U \union {n + 1}
      <4>1. s \in 1..(n + 1)
        BY <1>2 DEF Content
      <4>2. CASE s = n + 1
        BY <4>2
      <4>3. CASE s \in 1..n
        BY <1>1, <1>2, <4>3 DEF Content
      <4> QED
        BY <4>1, <4>2, <4>3
    <3>2. ASSUME NEW s \in U PROVE s \in U2
      <4>1. s \in 1..n /\ s \in 1..(n + 1) /\ ms2[s] = ms[s]
        BY <1>2, <1>3
      <4> QED
        BY <1>1, <1>2, <4>1 DEF Content
    <3>3. n + 1 \in U2
      BY <1>1, <1>2, <1>6 DEF Content
    <3> QED
      BY <3>1, <3>2, <3>3
  <2>2. Cardinality(U \union {n + 1}) = Cardinality(U) + 1
    BY <1>4, <1>5, FS_AddElement
  <2> QED
    BY <1>6, <2>1, <2>2 DEF Counted, Unread
<1>7. CASE ~ (~w.system /\ ~w.deleted /\ w.from # m)
  <2>1. U2 = U
    <3>1. ASSUME NEW s \in U2 PROVE s \in U
      <4>1. s \in 1..(n + 1)
        BY <1>2 DEF Content
      <4>2. CASE s = n + 1
        BY <1>2, <1>7, <4>2 DEF Content
      <4>3. CASE s \in 1..n
        BY <1>1, <1>2, <4>3 DEF Content
      <4> QED
        BY <4>1, <4>2, <4>3
    <3>2. ASSUME NEW s \in U PROVE s \in U2
      <4>1. s \in 1..n /\ s \in 1..(n + 1) /\ ms2[s] = ms[s]
        BY <1>2, <1>3
      <4> QED
        BY <1>1, <1>2, <4>1 DEF Content
    <3> QED
      BY <3>1, <3>2
  <2> QED
    BY <1>7, <2>1 DEF Counted, Unread
<1> QED
  BY <1>6, <1>7

\* A send counts once for every live member it was meant for, unless it is a system
\* message.
LEMMA CommitSendKeeps ==
  ASSUME HorizonInv, SendersOut, NEW k \in Calls, CommitSend(k), NEW m \in Live
  PROVE  CountKept(m)
<1> DEFINE c == call[k]
<1> DEFINE w == [from |-> c.m, system |-> c.system, deleted |-> FALSE]
<1>1. /\ w \in Message /\ w.from = c.m /\ w.system = c.system /\ w.deleted = FALSE
      /\ msgs \in Seq(Message) /\ dlg \in [Members -> Row] /\ c \in Call /\ m \in Members
      /\ call \in [Calls -> Call]
  BY DEF HorizonInv, TypeOK, Call, Message, Live
<1>2. msgs' = Append(msgs, w) /\ c.op = "send" /\ call'[k] = NoCall
  BY <1>1 DEF CommitSend, Done
<1> DEFINE u == IF m \in Bumped(c) THEN dlg[m].unread + 1 ELSE dlg[m].unread
<1> DEFINE d == IF m \in Promoted(c) THEN Greatest(dlg[m].deliv, LastSeq + 1) ELSE dlg[m].deliv
<1>3. dlg'[m] = [dlg[m] EXCEPT !.unread = u, !.deliv = d]
  BY <1>1 DEF CommitSend, Row
<1>4. dlg'[m].unread = u /\ dlg'[m].read = dlg[m].read
  <2> HIDE DEF u, d
  <2> QED
    BY <1>1, <1>3 DEF Row
<1>5. ~MovedRead(m)
  BY <1>4 DEF MovedRead
<1>6. SUFFICES ASSUME CountExact(m), ~MissedSend(m) PROVE CountExact(m)'
  BY <1>5 DEF CountKept
<1>7. Ends(k)
  BY <1>2 DEF Ends, NoCall
<1>8. m \in c.to \union {c.m}
  BY <1>2, <1>6, <1>7 DEF MissedSend
<1>9. m \in c.to <=> m # c.m
  BY <1>8 DEF SendersOut
<1>10. m \in Bumped(c) <=> (~w.system /\ ~w.deleted /\ w.from # m)
  BY <1>1, <1>9 DEF Bumped
<1>11. dlg[m].read \in Nat /\ dlg[m].read <= Len(msgs)
  BY <1>1 DEF HorizonInv, ReadBounded, LastSeq, Row
<1> HIDE DEF w, c
<1>12. Unread(msgs', Content(msgs'), m, dlg[m].read) =
          IF ~w.system /\ ~w.deleted /\ w.from # m
          THEN Unread(msgs, Content(msgs), m, dlg[m].read) + 1
          ELSE Unread(msgs, Content(msgs), m, dlg[m].read)
  <2>1. PICK r \in Nat : r = dlg[m].read
    BY <1>11
  <2>2. PICK ms \in Seq(Message) : ms = msgs
    BY <1>1
  <2>3. PICK v \in Message : v = w
    BY <1>1
  <2>4. PICK ms2 : ms2 = msgs'
    OBVIOUS
  <2>5. r <= Len(ms) /\ ms2 = Append(ms, v)
    BY <1>2, <1>11, <2>1, <2>2, <2>3, <2>4
  <2>6. Counted(ms, v, ms2, m, r)
    BY <2>5, UnreadAppend
  <2> QED
    BY <2>1, <2>2, <2>3, <2>4, <2>6 DEF Counted
<1>13. dlg[m].unread = Unread(msgs, Content(msgs), m, dlg[m].read)
  BY <1>6 DEF CountExact
<1> QED
  BY <1>4, <1>10, <1>12, <1>13 DEF CountExact

\* A step that leaves the messages and m's horizon and counter alone keeps its count.
LEMMA SameCount ==
  ASSUME msgs' = msgs, NEW m, dlg'[m].read = dlg[m].read, dlg'[m].unread = dlg[m].unread
  PROVE  CountKept(m)
  BY DEF CountKept, CountExact, MovedRead

\* A read on a current snapshot counts the messages there are.
LEMMA CommitReadKeeps ==
  ASSUME HorizonInv, NEW k \in Calls, CommitRead(k), NEW m \in Live
  PROVE  CountKept(m)
<1> DEFINE c == call[k]
<1> DEFINE n == Unread(msgs, c.seen, c.m, c.point)
<1>1. /\ c \in Call /\ c.m \in Members /\ c.point \in Nat /\ dlg \in [Members -> Row] /\ m \in Members
      /\ call \in [Calls -> Call]
  BY DEF HorizonInv, TypeOK, Call, Live
<1>2. /\ c.op = "update" /\ msgs' = msgs /\ call'[k] = NoCall
      /\ dlg' = [dlg EXCEPT ![c.m] = ReadRow(dlg[c.m], c.point, n)]
  BY <1>1 DEF CommitRead, Done
<1>3. CASE m # c.m
  <2>1. dlg'[m] = dlg[m]
    BY <1>1, <1>2, <1>3
  <2> QED
    BY <1>2, <2>1, SameCount
<1>4. CASE m = c.m
  <2>1. SUFFICES ASSUME ~StaleRead(m) PROVE CountExact(m)'
    BY DEF CountKept
  <2>2. Ends(k)
    BY <1>2 DEF Ends, NoCall
  <2>3. c.seen = Content(msgs)
    BY <1>2, <1>4, <2>1, <2>2 DEF StaleRead
  <2>4. n = Unread(msgs, Content(msgs), m, c.point)
    BY <1>4, <2>3
  <2> HIDE DEF n
  <2>5. ReadRow(dlg[c.m], c.point, n).read = c.point /\ ReadRow(dlg[c.m], c.point, n).unread = n
    BY <1>1 DEF ReadRow, Row
  <2>6. dlg'[m].read = c.point /\ dlg'[m].unread = n
    BY <1>1, <1>2, <1>4, <2>5
  <2> QED
    BY <1>2, <2>4, <2>6 DEF CountExact
<1> QED
  BY <1>3, <1>4

\* A deletion counts again.
LEMMA DeleteMessageKeeps ==
  ASSUME HorizonInv, NEW k \in Calls, NEW j \in Members, NEW s \in 1..LastSeq,
         DeleteMessage(k, j, s), NEW m \in Live
  PROVE  CountKept(m)
<1>1. dlg \in [Members -> Row] /\ dlg' = RecountUnread(msgs') /\ m \in Members /\ dlg[m].st = "live"
  BY DEF HorizonInv, TypeOK, DeleteMessage, Live
<1> DEFINE n == Unread(msgs', Content(msgs'), m, dlg[m].read)
<1>2. dlg'[m] = [dlg[m] EXCEPT !.unread = n]
  BY <1>1 DEF RecountUnread
<1> HIDE DEF n
<1>3. dlg'[m].unread = n /\ dlg'[m].read = dlg[m].read
  BY <1>1, <1>2 DEF Row
<1>4. CountExact(m)'
  BY <1>3 DEF n, CountExact
<1> QED
  BY <1>4 DEF CountKept

LEMMA NextKeeps ==
  ASSUME HorizonInv, SendersOut, Next, NEW m \in Live, dlg'[m].st = "live"
  PROVE  CountKept(m)
<1>1. dlg \in [Members -> Row] /\ m \in Members
  BY DEF HorizonInv, TypeOK, Live
<1>2. ASSUME msgs' = msgs, dlg' = dlg
      PROVE  CountKept(m)
  BY <1>2, SameCount
<1>3. ASSUME NEW c \in Clients, NEW b \in Batches(StatusInputs), MarkDelivered(c, b)
      PROVE  CountKept(m)
  <2>1. msgs' = msgs /\ (dlg' = dlg \/ \E p : dlg' = [dlg EXCEPT ![c] = [dlg[c] EXCEPT !.deliv = p]])
    BY <1>3 DEF MarkDelivered
  <2>2. ASSUME NEW p, dlg' = [dlg EXCEPT ![c] = [dlg[c] EXCEPT !.deliv = p]]
        PROVE  dlg'[m].read = dlg[m].read /\ dlg'[m].unread = dlg[m].unread
    <3> DEFINE d == [dlg[c] EXCEPT !.deliv = p]
    <3>1. c \in Members /\ d.read = dlg[c].read /\ d.unread = dlg[c].unread
      BY <1>1, ReceiptConstants DEF Row
    <3>2. dlg' = [dlg EXCEPT ![c] = d]
      BY <2>2
    <3> HIDE DEF d
    <3> QED
      BY <1>1, <3>1, <3>2
  <2> QED
    BY <2>1, <2>2, SameCount
<1>4. ASSUME NEW j \in Members, Join(j)
      PROVE  CountKept(m)
  <2>1. m # j
    BY <1>4 DEF Join, Live
  <2>2. msgs' = msgs /\ dlg'[m] = dlg[m]
    BY <1>1, <1>4, <2>1 DEF Join
  <2> QED
    BY <2>2, SameCount
<1>5. ASSUME NEW j \in Members, Leave(j)
      PROVE  CountKept(m)
  <2>1. msgs' = msgs /\ dlg'[m].read = dlg[m].read /\ dlg'[m].unread = dlg[m].unread
    BY <1>1, <1>5 DEF Leave, Row
  <2> QED
    BY <2>1, SameCount
<1> QED
  BY <1>2, <1>3, <1>4, <1>5, CommitSendKeeps, CommitReadKeeps, DeleteMessageKeeps
     DEF Next, BeginSend, BeginRead, ScanRead, UnmovedRead, Abort, MarkFailed

LEMMA NextSendersOut ==
  ASSUME HorizonInv, SendersOut, [Next]_vars
  PROVE  SendersOut'
<1>1. call \in [Calls -> Call]
  BY DEF HorizonInv, TypeOK
<1>2. ASSUME NEW k \in Calls, NEW c, call' = [call EXCEPT ![k] = c], c.m \notin c.to
      PROVE  SendersOut'
  BY <1>1, <1>2 DEF SendersOut
<1>3. NoCall.to = {} /\ NoCall \in Call
  BY NoCallType DEF NoCall
<1>4. ASSUME NEW k \in Calls, Done(k)
      PROVE  SendersOut'
  BY <1>2, <1>3, <1>4 DEF Done
<1>5. ASSUME NEW k \in Calls, NEW m \in Members, NEW sys \in BOOLEAN, BeginSend(k, m, sys)
      PROVE  SendersOut'
  <2> DEFINE c == [NoCall EXCEPT !.op = "send", !.m = m, !.system = sys, !.to = Live \ {m}]
  <2>1. c.m = m /\ c.to = Live \ {m}
    BY <1>3 DEF Call
  <2>2. call' = [call EXCEPT ![k] = c]
    BY <1>5 DEF BeginSend
  <2> HIDE DEF c
  <2> QED
    BY <1>2, <2>1, <2>2
<1>6. ASSUME NEW k \in Calls, NEW m \in Clients, NEW b \in Batches(ReadInputs), BeginRead(k, m, b)
      PROVE  SendersOut'
  <2>1. PICK p : call' = [call EXCEPT ![k] = [NoCall EXCEPT !.op = "read", !.m = m, !.point = p]]
    BY <1>6 DEF BeginRead
  <2> DEFINE c == [NoCall EXCEPT !.op = "read", !.m = m, !.point = p]
  <2>2. c.to = {}
    BY <1>3 DEF Call
  <2>3. call' = [call EXCEPT ![k] = c]
    BY <2>1
  <2> HIDE DEF c
  <2> QED
    BY <1>2, <2>2, <2>3
<1>7. ASSUME NEW k \in Calls, ScanRead(k)
      PROVE  SendersOut'
  <2>1. PICK row : call' = [call EXCEPT ![k] = [call[k] EXCEPT !.op = "update", !.seen = Content(msgs), !.row = row]]
    BY <1>7 DEF ScanRead
  <2> DEFINE c == [call[k] EXCEPT !.op = "update", !.seen = Content(msgs), !.row = row]
  <2>2. c.m = call[k].m /\ c.to = call[k].to
    BY <1>1 DEF Call
  <2>3. call' = [call EXCEPT ![k] = c] /\ call[k].m \notin call[k].to
    BY <2>1 DEF SendersOut
  <2> HIDE DEF c
  <2> QED
    BY <1>2, <2>2, <2>3
<1>8. CASE call' = call
  BY <1>8 DEF SendersOut
<1> QED
  BY <1>4, <1>5, <1>6, <1>7, <1>8
     DEF Next, vars, CommitSend, CommitRead, UnmovedRead, Abort, DeleteMessage, MarkDelivered,
         MarkFailed, Join, Leave

\* However sends, reads, deletions and changes of the members interleave, an exact
\* counter goes wrong only where a read of the member counts on a snapshot that is not
\* current any more or a send passes over a member who joined after its recipients were
\* read; and a read on a current snapshot makes it exact again.
THEOREM CountersKept == Spec => UnreadKept
<1>1. Init => SendersOut
  BY DEF Init, SendersOut, NoCall
<1>2. HorizonInv /\ SendersOut /\ [Next]_vars => SendersOut'
  BY NextSendersOut
<1>3. HorizonInv /\ SendersOut /\ [Next]_vars =>
        [\A m \in Live : dlg'[m].st = "live" => CountKept(m)]_vars
  BY NextKeeps
<1> QED
  BY <1>1, <1>2, <1>3, HorizonInvariance, PTL DEF Spec, UnreadKept

=============================================================================
