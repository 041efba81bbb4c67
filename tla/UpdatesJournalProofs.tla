------------------------ MODULE UpdatesJournalProofs ------------------------
(***************************************************************************)
(* Proofs about the catch-up journal, for any contacts, threads, bounds,   *)
(* overlap and retention.                                                  *)
(***************************************************************************)
EXTENDS UpdatesJournal, FiniteSetTheorems, TLAPS

\* Typing, with the finiteness that makes the budget arithmetic meaningful.
TypeInv == TypeOK /\ IsFiniteSet(rows)

\* Transaction ids are handed out in order.
XidOrder == \A x \in Xids : status[x] = "unassigned" <=> x >= nextXid

\* Every transaction up to b has ended.
Settled(b) == \A x \in Xids : x <= b => status[x] \in {"committed", "aborted"}

\* The window of a call in progress, and every cursor, is settled.
RequestsSettled ==
    \A c \in Contacts : /\ Settled(req[c].horizon)
                        /\ Settled(req[c].after)
                        /\ Settled(req[c].cursor)

\* The inductive invariant behind CursorSettled.
SettledInv == XidOrder /\ RequestsSettled /\ CursorSettled

-----------------------------------------------------------------------------
(* Typing *)

\* The rows one listed thread contributes are finitely many.
LEMMA UsedType ==
  ASSUME IsFiniteSet(rows), NEW c, NEW t, NEW w
  PROVE  Used(c, t, w) \in Nat
<1>1. ChangesSince(c, t, w) \subseteq rows
  BY DEF ChangesSince, Visible
<1>2. IsFiniteSet(ChangesSince(c, t, w))
  BY <1>1, FS_Subset
<1>3. Cardinality(ChangesSince(c, t, w)) \in Nat
  BY <1>2, FS_CardinalityType
<1> QED
  BY <1>3 DEF Used

\* A call that has not started, and one on its way to a resync, are requests.
LEMMA IdleType == Idle \in Request
  BY ConstantsAssumption DEF Idle, Request, Phases

LEMMA ResyncType ==
  ASSUME NEW r \in Request
  PROVE  Resync(r) \in Request
  BY DEF Resync, Request, Phases

\* Moving one call along leaves the database well typed.
LEMMA StepType ==
  ASSUME TypeInv, NEW c \in Contacts, NEW p, NEW r \in Request, Step(c, p, r),
         cursor' \in [Contacts -> 0..MaxXid \union {Nil}],
         known' \in [Contacts -> SUBSET (1..MaxEntries)]
  PROVE  TypeInv'
  BY DEF TypeInv, TypeOK, Step, dbVars

\* Type correctness of every reachable state, with finitely many journal rows.
THEOREM Typing == Spec => []TypeInv
<1>1. Init => TypeInv
  <2> SUFFICES ASSUME Init PROVE TypeInv
    OBVIOUS
  <2>1. TypeOK
    BY IdleType, ConstantsAssumption DEF Init, TypeOK, Xids, Status
  <2>2. IsFiniteSet(rows)
    BY FS_EmptySet DEF Init
  <2> QED BY <2>1, <2>2 DEF TypeInv
<1>2. TypeInv /\ [Next]_vars => TypeInv'
  <2> SUFFICES ASSUME TypeInv, [Next]_vars PROVE TypeInv'
    OBVIOUS
  <2> USE ConstantsAssumption
  <2>1. CASE Begin
    BY <2>1 DEF TypeInv, TypeOK, Begin, clientVars, Xids, Status
  <2>2. ASSUME NEW x \in Xids, NEW t \in Threads, NEW k \in Mutations, NEW c \in Contacts,
               Publish(x, t, k, c)
        PROVE  TypeInv'
    <3> DEFINE aud == Audience(x, t, k, c)
    <3>1. k \in Kinds
      BY DEF Kinds
    <3>2. MembersIn(x, t) \subseteq Contacts
      BY DEF MembersIn, TypeInv, TypeOK, Row
    <3>3. aud \subseteq Contacts
      BY <3>1, <3>2 DEF Audience, Kinds
    <3>4. PICK id \in 1..MaxEntries :
              rows' = rows \union {[id |-> id, thread |-> t, tx |-> x, kind |-> k,
                                    who |-> c, at |-> clock, aud |-> aud]}
      BY <2>2 DEF Publish, AppendJournal
    <3> HIDE DEF aud
    <3>5. rows' \subseteq Row
      BY <3>1, <3>3, <3>4 DEF TypeInv, TypeOK, Row
    <3>6. IsFiniteSet(rows')
      BY <3>4, FS_AddElement DEF TypeInv
    <3>7. pend' \in [Contacts \X Threads -> Mark \union {Nil}]
      <4>1. pend' = [p \in Contacts \X Threads |->
                       IF p[2] = t /\ p[1] \in aud THEN [tx |-> x, at |-> clock] ELSE pend[p]]
        BY <2>2 DEF Publish, MarkContacts, aud
      <4>2. [tx |-> x, at |-> clock] \in Mark
        BY DEF Mark, TypeInv, TypeOK
      <4> QED BY <4>1, <4>2 DEF TypeInv, TypeOK
    <3> QED
      BY <2>2, <3>5, <3>6, <3>7 DEF TypeInv, TypeOK, Publish, clientVars
  <2>3. ASSUME NEW x \in Xids, Commit(x) PROVE TypeInv'
    <3>1. \A t \in Threads : MembersIn(x, t) \subseteq Contacts
      BY DEF MembersIn, TypeInv, TypeOK, Row
    <3> QED
      BY <2>3, <3>1 DEF TypeInv, TypeOK, Commit, clientVars, Xids, Status
  <2>4. ASSUME NEW x \in Xids, Rollback(x) PROVE TypeInv'
    <3>1. IsFiniteSet(rows')
      BY <2>4, FS_Subset DEF Rollback, TypeInv
    <3> QED
      BY <2>4, <3>1 DEF TypeInv, TypeOK, Rollback, clientVars, Xids, Status
  <2>5. CASE Cleanup
    <3>1. gone' \subseteq 1..MaxEntries
      BY <2>5 DEF Cleanup, Visible, TypeInv, TypeOK, Row
    <3>2. trim' \in 0..MaxXid
      <4>1. \A r \in Visible : r.tx \in 0..MaxXid
        BY DEF Visible, TypeInv, TypeOK, Row, Xids
      <4>2. trim' = trim \/ \E r \in Visible : trim' = r.tx
        BY <2>5 DEF Cleanup
      <4> QED BY <4>1, <4>2 DEF TypeInv, TypeOK
    <3> QED
      BY <2>5, <3>1, <3>2 DEF Cleanup, TypeInv, TypeOK, clientVars
  <2>6. CASE Tick
    BY <2>6 DEF TypeInv, TypeOK, Tick, dbVars, clientVars
  <2>7. ASSUME NEW c \in Contacts, GetUpdates(c) PROVE TypeInv'
    <3>1. CASE cursor[c] = Nil
      BY <2>7, <3>1, StepType, IdleType, ResyncType DEF GetUpdates, TypeInv, TypeOK
    <3>2. CASE cursor[c] # Nil
      <4>1. cursor[c] \in 0..MaxXid
        BY <3>2 DEF TypeInv, TypeOK
      <4>2. MaxContactChanges \in 0..MaxContactChanges
        OBVIOUS
      <4>3. [Idle EXCEPT !.phase = "horizon", !.after = cursor[c],
                         !.budget = MaxContactChanges] \in Request
        BY <4>1, <4>2, IdleType DEF Request, Phases
      <4> QED
        BY <2>7, <3>2, <4>3, StepType DEF GetUpdates, TypeInv, TypeOK
    <3> QED BY <3>1, <3>2
  <2>8. ASSUME NEW c \in Contacts, ReadStep(c) PROVE TypeInv'
    <3>0. req[c] \in Request /\ cursor' \in [Contacts -> 0..MaxXid \union {Nil}]
                             /\ known' \in [Contacts -> SUBSET (1..MaxEntries)]
      <4>1. CASE Respond(c)
        BY <4>1 DEF Respond, TypeInv, TypeOK, Request
      <4>2. CASE Reload(c)
        BY <4>2 DEF Reload, TypeInv, TypeOK, Request, Row
      <4>3. CASE UNCHANGED <<cursor, known>>
        BY <4>3 DEF TypeInv, TypeOK
      <4> QED
        BY <2>8, <4>1, <4>2, <4>3
           DEF ReadStep, ReadHorizon, OverlapSince, ReadMarks, ReadLatest, ReadTrim,
               ThreadUpdates, ResyncHorizon, ResyncLatest
    <3>1. CASE ReadHorizon(c)
      <4>1. PICK h \in 0..MaxXid :
              Step(c, "horizon", [req[c] EXCEPT !.phase = "overlap", !.horizon = h])
        BY <3>1 DEF ReadHorizon
      <4>2. [req[c] EXCEPT !.phase = "overlap", !.horizon = h] \in Request
        BY <3>0 DEF Request, Phases
      <4> QED BY <3>0, <4>1, <4>2, StepType
    <3>2. CASE OverlapSince(c)
      <4>1. PICK ref \in 0..MaxClock \union {Nil} :
              Step(c, "overlap", [req[c] EXCEPT !.phase = "marks", !.ref = ref])
        BY <3>2 DEF OverlapSince
      <4>2. [req[c] EXCEPT !.phase = "marks", !.ref = ref] \in Request
        BY <3>0 DEF Request, Phases
      <4> QED BY <3>0, <4>1, <4>2, StepType
    <3>3. CASE ReadMarks(c)
      <4>1. Listed(c, req[c]) \subseteq Threads
        BY DEF Listed
      <4>2. [req[c] EXCEPT !.phase = "latest", !.threads = Listed(c, req[c])] \in Request
        BY <3>0, <4>1 DEF Request, Phases
      <4> QED BY <3>0, <3>3, <4>2, StepType DEF ReadMarks
    <3>4. CASE ReadLatest(c)
      <4> DEFINE next(m) == IF m > req[c].after THEN m ELSE req[c].after
                 r(m) == IF Cardinality(req[c].threads) > MaxContactChanges
                         THEN Resync(req[c])
                         ELSE [req[c] EXCEPT !.phase = "trim", !.cursor = next(m)]
      <4>1. PICK m \in 0..MaxXid : Step(c, "latest", r(m))
        BY <3>4 DEF ReadLatest
      <4>2. next(m) \in 0..MaxXid
        BY <3>0 DEF Request
      <4>3. r(m) \in Request
        BY <3>0, <4>2, ResyncType DEF Request, Phases
      <4> QED BY <3>0, <4>1, <4>3, StepType
    <3>5. CASE ReadTrim(c)
      <4>1. (IF req[c].after < trim /\ req[c].threads # {}
             THEN Resync(req[c])
             ELSE [req[c] EXCEPT !.phase = "threads"]) \in Request
        BY <3>0, ResyncType DEF Request, Phases
      <4> QED BY <3>0, <3>5, <4>1, StepType DEF ReadTrim
    <3>6. ASSUME NEW t \in Threads, ThreadUpdates(c, t) PROVE TypeInv'
      <4> DEFINE ids == {r.id : r \in Entry(c, t, req[c])}
                 u   == Used(c, t, req[c])
      <4>1. u \in Nat
        BY UsedType DEF TypeInv
      <4>2. ids \subseteq 1..MaxEntries
        BY DEF Entry, ChangesSince, Left, Visible, TypeInv, TypeOK, Row
      <4>3. ASSUME u <= req[c].budget
            PROVE  [req[c] EXCEPT !.threads = @ \ {t}, !.got = @ \union ids,
                                  !.budget = @ - u] \in Request
        <5>1. req[c].budget - u \in 0..MaxContactChanges
          BY <3>0, <4>1, <4>3 DEF Request
        <5> HIDE DEF u, ids
        <5> QED BY <3>0, <4>2, <5>1 DEF Request
      <4>4. (IF u > req[c].budget THEN Resync(req[c])
             ELSE [req[c] EXCEPT !.threads = @ \ {t}, !.got = @ \union ids,
                                 !.budget = @ - u]) \in Request
        <5>1. req[c].budget \in Nat
          BY <3>0 DEF Request
        <5> HIDE DEF u, ids
        <5> QED BY <3>0, <4>1, <4>3, <5>1, ResyncType
      <4> QED BY <3>0, <3>6, <4>4, StepType DEF ThreadUpdates
    <3>7. CASE Respond(c)
      BY <3>0, <3>7, StepType, IdleType DEF Respond
    <3>8. CASE ResyncHorizon(c)
      <4>1. PICK h \in 0..MaxXid :
              Step(c, "resync.horizon", [Idle EXCEPT !.phase = "resync.latest", !.horizon = h])
        BY <3>8 DEF ResyncHorizon
      <4>2. [Idle EXCEPT !.phase = "resync.latest", !.horizon = h] \in Request
        BY IdleType DEF Request, Phases
      <4> QED BY <3>0, <4>1, <4>2, StepType
    <3>9. CASE ResyncLatest(c)
      <4>1. PICK m \in 0..MaxXid :
              Step(c, "resync.latest", [Idle EXCEPT !.phase = "reload", !.cursor = m])
        BY <3>9 DEF ResyncLatest
      <4>2. [Idle EXCEPT !.phase = "reload", !.cursor = m] \in Request
        BY IdleType DEF Request, Phases
      <4> QED BY <3>0, <4>1, <4>2, StepType
    <3>10. CASE Reload(c)
      BY <3>0, <3>10, StepType, IdleType DEF Reload
    <3> QED
      BY <2>8, <3>1, <3>2, <3>3, <3>4, <3>5, <3>6, <3>7, <3>8, <3>9, <3>10 DEF ReadStep
  <2>9. ASSUME NEW c \in Contacts, CallFails(c) PROVE TypeInv'
    BY <2>9, IdleType DEF CallFails, TypeInv, TypeOK, dbVars
  <2>10. ASSUME NEW c \in Contacts, NEW r \in rows, LiveEvent(c, r) PROVE TypeInv'
    <3>1. r.tx \in 1..MaxXid /\ r.id \in 1..MaxEntries
      BY DEF TypeInv, TypeOK, Row, Xids
    <3> QED
      BY <2>10, <3>1 DEF LiveEvent, TypeInv, TypeOK, dbVars
  <2>11. CASE UNCHANGED vars
    BY <2>11 DEF TypeInv, TypeOK, vars
  <2> QED
    BY <2>1, <2>2, <2>3, <2>4, <2>5, <2>6, <2>7, <2>8, <2>9, <2>10, <2>11 DEF Next, Finish
<1> QED
  BY <1>1, <1>2, PTL DEF Spec

-----------------------------------------------------------------------------
(* Cursors never pass an in-flight transaction *)

\* A settled bound stays settled, whatever the step does: ended transactions
\* never come back.
LEMMA SettledStable ==
  ASSUME TypeInv, XidOrder, [Next]_vars, NEW b \in Nat, Settled(b)
  PROVE  Settled(b)'
<1> USE DEF Settled, TypeInv, TypeOK, Xids
<1>1. CASE Begin
  <2>1. nextXid \in Xids
    BY <1>1, ConstantsAssumption DEF Begin
  <2>2. b < nextXid
    BY <2>1 DEF XidOrder
  <2> QED BY <1>1, <2>1, <2>2 DEF Begin
<1>2. CASE \E x \in Xids : Commit(x)
  BY <1>2 DEF Commit
<1>3. CASE \E x \in Xids : Rollback(x)
  BY <1>3 DEF Rollback
<1>4. CASE status' = status
  BY <1>4
<1> QED
  BY <1>1, <1>2, <1>3, <1>4
     DEF Next, Finish, Publish, Cleanup, Tick, GetUpdates, ReadStep, CallFails, LiveEvent,
         ReadHorizon, OverlapSince, ReadMarks, ReadLatest, ReadTrim, ThreadUpdates,
         Respond, ResyncHorizon, ResyncLatest, Reload, Step, dbVars, vars

\* What a statement reads as the horizon is settled: every id up to it has been
\* handed out and none of those is in flight.
LEMMA HorizonSettled ==
  ASSUME TypeInv, XidOrder, NEW h \in Nat, SettledHorizon(h)
  PROVE  Settled(h)
<1> SUFFICES ASSUME NEW x \in Xids, x <= h
             PROVE  status[x] \in {"committed", "aborted"}
  BY DEF Settled
<1>1. x \in 1..h /\ x < nextXid
  BY DEF SettledHorizon, Xids, TypeInv, TypeOK
<1>2. status[x] # "active" /\ status[x] # "unassigned"
  BY <1>1 DEF SettledHorizon, XidOrder, TypeInv, TypeOK, Xids
<1> QED
  BY <1>2 DEF TypeInv, TypeOK, Status

\* A smaller bound than a settled one is settled.
LEMMA SettledBelow ==
  ASSUME NEW b \in Nat, NEW d \in Nat, d <= b, Settled(b)
  PROVE  Settled(d)
  BY DEF Settled, Xids

LEMMA SettledZero == Settled(0)
  BY DEF Settled, Xids

\* The latest mark up to a horizon is no later than the horizon.
LEMMA LatestBelow ==
  ASSUME NEW c, NEW h \in Nat, NEW m \in Nat, LatestMark(c, h, m)
  PROVE  m <= h
<1>1. m = 0 \/ m <= h
  BY Zenon DEF LatestMark
<1> QED BY <1>1

\* Transaction ids keep being handed out in order.
LEMMA XidOrderStep ==
  ASSUME TypeInv, XidOrder, [Next]_vars
  PROVE  XidOrder'
<1> USE DEF XidOrder, TypeInv, TypeOK, Xids
<1>1. CASE Begin
  BY <1>1, ConstantsAssumption DEF Begin
<1>2. CASE \E x \in Xids : Commit(x)
  BY <1>2 DEF Commit
<1>3. CASE \E x \in Xids : Rollback(x)
  BY <1>3 DEF Rollback
<1>4. CASE status' = status /\ nextXid' = nextXid
  BY <1>4
<1> QED
  BY <1>1, <1>2, <1>3, <1>4
     DEF Next, Finish, Publish, Cleanup, Tick, GetUpdates, ReadStep, CallFails, LiveEvent,
         ReadHorizon, OverlapSince, ReadMarks, ReadLatest, ReadTrim, ThreadUpdates,
         Respond, ResyncHorizon, ResyncLatest, Reload, Step, dbVars, vars

\* Every step gives a contact's call and cursor either values that were settled
\* before the step or the ones they had.
LEMMA RequestStep ==
  ASSUME TypeInv, SettledInv, [Next]_vars, NEW c \in Contacts
  PROVE  /\ Settled(req'[c].horizon)
         /\ Settled(req'[c].after)
         /\ Settled(req'[c].cursor)
         /\ cursor'[c] # Nil => Settled(cursor'[c])
<1> DEFINE Good(r) == Settled(r.horizon) /\ Settled(r.after) /\ Settled(r.cursor)
<1>0. /\ req[c] \in Request /\ Good(req[c])
      /\ req \in [Contacts -> Request]
      /\ cursor \in [Contacts -> 0..MaxXid \union {Nil}]
      /\ cursor[c] # Nil => Settled(cursor[c])
  BY DEF TypeInv, TypeOK, SettledInv, RequestsSettled, CursorSettled, Settled
<1>a. Good(Idle)
  BY SettledZero DEF Idle
<1>b. \A r \in Request : Good(r) => Good(Resync(r))
  BY DEF Resync, Request
<1>c. ASSUME NEW d \in Contacts, NEW p, NEW r, Step(d, p, r), d # c
      PROVE  req'[c] = req[c]
  BY <1>0, <1>c DEF Step
<1>d. ASSUME NEW p, NEW r, Step(c, p, r)
      PROVE  req'[c] = r
  BY <1>0, <1>d DEF Step
<1> HIDE DEF Good
<1> SUFFICES Good(req'[c]) /\ (cursor'[c] # Nil => Settled(cursor'[c]))
  BY DEF Good
<1>1. CASE UNCHANGED clientVars
  BY <1>0, <1>1 DEF clientVars
<1>2. ASSUME NEW d \in Contacts, d # c,
             GetUpdates(d) \/ ReadStep(d) \/ CallFails(d) \/ \E r \in rows : LiveEvent(d, r)
      PROVE  Good(req'[c]) /\ (cursor'[c] # Nil => Settled(cursor'[c]))
  <2>1. req'[c] = req[c]
    BY <1>0, <1>2, <1>c
       DEF GetUpdates, ReadStep, CallFails, LiveEvent, ReadHorizon, OverlapSince, ReadMarks,
           ReadLatest, ReadTrim, ThreadUpdates, Respond, ResyncHorizon, ResyncLatest, Reload
  <2>2. cursor'[c] = cursor[c]
    BY <1>0, <1>2
       DEF GetUpdates, ReadStep, CallFails, LiveEvent, ReadHorizon, OverlapSince, ReadMarks,
           ReadLatest, ReadTrim, ThreadUpdates, Respond, ResyncHorizon, ResyncLatest, Reload
  <2> QED BY <1>0, <2>1, <2>2
<1>3. CASE GetUpdates(c)
  <2>1. cursor'[c] = cursor[c]
    BY <1>3 DEF GetUpdates
  <2>2. CASE cursor[c] = Nil
    BY <1>0, <1>3, <1>a, <1>b, <1>d, <2>1, <2>2, IdleType DEF GetUpdates
  <2>3. CASE cursor[c] # Nil
    <3>1. req'[c] = [Idle EXCEPT !.phase = "horizon", !.after = cursor[c],
                                 !.budget = MaxContactChanges]
      BY <1>3, <1>d, <2>3 DEF GetUpdates
    <3>2. Good(req'[c])
      BY <1>0, <2>3, <3>1, SettledZero DEF Good, Idle
    <3> QED BY <1>0, <2>1, <3>2
  <2> QED BY <2>2, <2>3
<1>4. CASE CallFails(c)
  <2>1. req'[c] = Idle /\ cursor' = cursor
    BY <1>0, <1>4 DEF CallFails
  <2> QED BY <1>0, <1>a, <2>1
<1>5. ASSUME NEW r \in rows, LiveEvent(c, r)
      PROVE  Good(req'[c]) /\ (cursor'[c] # Nil => Settled(cursor'[c]))
  <2>1. r.tx \in Nat /\ r.tx \in Xids
    BY DEF TypeInv, TypeOK, Row, Xids
  <2>2. r.tx < nextXid
    BY <1>5, <2>1 DEF LiveEvent, Committed, SettledInv, XidOrder, TypeInv, TypeOK, Xids
  <2>3. Settled(r.tx)
    <3> SUFFICES ASSUME NEW x \in Xids, x <= r.tx
                 PROVE  status[x] \in {"committed", "aborted"}
      BY DEF Settled
    <3>1. x \in 1..r.tx /\ x < nextXid
      BY <2>1, <2>2 DEF Xids, TypeInv, TypeOK
    <3>2. status[x] # "active" /\ status[x] # "unassigned"
      BY <1>5, <3>1 DEF LiveEvent, SettledInv, XidOrder, TypeInv, TypeOK, Xids
    <3> QED BY <3>2 DEF TypeInv, TypeOK, Status
  <2>4. req' = req /\ (cursor'[c] = r.tx \/ cursor'[c] = cursor[c])
    BY <1>0, <1>5 DEF LiveEvent
  <2> QED BY <1>0, <2>3, <2>4
<1>6. CASE ReadStep(c)
  <2>1. CASE ReadHorizon(c)
    <3>1. PICK h \in 0..MaxXid :
            /\ SettledHorizon(h)
            /\ Step(c, "horizon", [req[c] EXCEPT !.phase = "overlap", !.horizon = h])
            /\ UNCHANGED <<cursor, known>>
      BY <2>1 DEF ReadHorizon
    <3>2. Settled(h)
      BY <3>1, HorizonSettled DEF SettledInv
    <3>3. req'[c] = [req[c] EXCEPT !.phase = "overlap", !.horizon = h]
      BY <1>d, <3>1
    <3>4. Good(req'[c])
      BY <1>0, <3>2, <3>3 DEF Good, Request
    <3> QED BY <1>0, <3>1, <3>4
  <2>2. CASE OverlapSince(c)
    <3>1. PICK ref : /\ Step(c, "overlap", [req[c] EXCEPT !.phase = "marks", !.ref = ref])
                     /\ UNCHANGED <<cursor, known>>
      BY <2>2 DEF OverlapSince
    <3>2. req'[c] = [req[c] EXCEPT !.phase = "marks", !.ref = ref]
      BY <1>d, <3>1
    <3>3. Good(req'[c])
      BY <1>0, <3>2 DEF Good, Request
    <3> QED BY <1>0, <3>1, <3>3
  <2>3. CASE ReadMarks(c)
    <3>1. req'[c] = [req[c] EXCEPT !.phase = "latest", !.threads = Listed(c, req[c])]
      BY <1>d, <2>3 DEF ReadMarks
    <3>2. Good(req'[c])
      BY <1>0, <3>1 DEF Good, Request
    <3> QED BY <1>0, <2>3, <3>2 DEF ReadMarks
  <2>4. CASE ReadLatest(c)
    <3> DEFINE next(m) == IF m > req[c].after THEN m ELSE req[c].after
               s(m) == [req[c] EXCEPT !.phase = "trim", !.cursor = next(m)]
    <3>1. PICK m \in 0..MaxXid :
            /\ LatestMark(c, req[c].horizon, m)
            /\ Step(c, "latest", IF Cardinality(req[c].threads) > MaxContactChanges
                                 THEN Resync(req[c]) ELSE s(m))
            /\ UNCHANGED <<cursor, known>>
      BY <2>4 DEF ReadLatest
    <3>2. Settled(m)
      <4>1. m <= req[c].horizon
        BY <1>0, <3>1, LatestBelow DEF Request
      <4> QED BY <1>0, <4>1, SettledBelow DEF Good, Request
    <3>3. Good(s(m))
      BY <1>0, <3>2 DEF Good, Request
    <3>4. req'[c] = Resync(req[c]) \/ req'[c] = s(m)
      BY <1>d, <3>1
    <3> QED BY <1>0, <1>b, <3>1, <3>3, <3>4
  <2>5. CASE ReadTrim(c)
    <3>1. req'[c] = Resync(req[c]) \/ req'[c] = [req[c] EXCEPT !.phase = "threads"]
      BY <1>d, <2>5 DEF ReadTrim
    <3>2. Good([req[c] EXCEPT !.phase = "threads"])
      BY <1>0 DEF Good, Request
    <3> QED BY <1>0, <1>b, <2>5, <3>1, <3>2 DEF ReadTrim
  <2>6. ASSUME NEW t \in Threads, ThreadUpdates(c, t)
        PROVE  Good(req'[c]) /\ (cursor'[c] # Nil => Settled(cursor'[c]))
    <3> DEFINE s == [req[c] EXCEPT !.threads = @ \ {t},
                                   !.got = @ \union {r.id : r \in Entry(c, t, req[c])},
                                   !.budget = @ - Used(c, t, req[c])]
    <3>1. req'[c] = Resync(req[c]) \/ req'[c] = s
      BY <1>d, <2>6 DEF ThreadUpdates
    <3>2. Good(s)
      BY <1>0 DEF Good, Request
    <3> QED BY <1>0, <1>b, <2>6, <3>1, <3>2 DEF ThreadUpdates
  <2>7. CASE Respond(c) \/ Reload(c)
    <3>1. req'[c] = Idle /\ cursor'[c] = req[c].cursor
      BY <1>0, <1>d, <2>7 DEF Respond, Reload
    <3> QED BY <1>0, <1>a, <3>1 DEF Good
  <2>8. CASE ResyncHorizon(c)
    <3>1. PICK h \in 0..MaxXid :
            /\ SettledHorizon(h)
            /\ Step(c, "resync.horizon", [Idle EXCEPT !.phase = "resync.latest", !.horizon = h])
            /\ UNCHANGED <<cursor, known>>
      BY <2>8 DEF ResyncHorizon
    <3>2. Settled(h)
      BY <3>1, HorizonSettled DEF SettledInv
    <3>3. req'[c] = [Idle EXCEPT !.phase = "resync.latest", !.horizon = h]
      BY <1>d, <3>1
    <3>4. Good(req'[c])
      BY <3>2, <3>3, SettledZero DEF Good, Idle
    <3> QED BY <1>0, <3>1, <3>4
  <2>9. CASE ResyncLatest(c)
    <3>1. PICK m \in 0..MaxXid :
            /\ LatestMark(c, req[c].horizon, m)
            /\ Step(c, "resync.latest", [Idle EXCEPT !.phase = "reload", !.cursor = m])
            /\ UNCHANGED <<cursor, known>>
      BY <2>9 DEF ResyncLatest
    <3>2. Settled(m)
      <4>1. m <= req[c].horizon
        BY <1>0, <3>1, LatestBelow DEF Request
      <4> QED BY <1>0, <4>1, SettledBelow DEF Good, Request
    <3>3. req'[c] = [Idle EXCEPT !.phase = "reload", !.cursor = m]
      BY <1>d, <3>1
    <3>4. Good(req'[c])
      BY <3>2, <3>3, SettledZero DEF Good, Idle
    <3> QED BY <1>0, <3>1, <3>4
  <2> QED
    BY <1>6, <2>1, <2>2, <2>3, <2>4, <2>5, <2>6, <2>7, <2>8, <2>9 DEF ReadStep
<1> QED
  BY <1>1, <1>2, <1>3, <1>4, <1>5, <1>6, ConstantsAssumption
     DEF Next, Finish, Begin, Publish, Commit, Rollback, Cleanup, Tick, vars, clientVars

\* The invariant that makes cursors safe is inductive.
THEOREM SettledInvariance == Spec => []SettledInv
<1>1. Init => SettledInv
  BY SettledZero, ConstantsAssumption
     DEF Init, SettledInv, XidOrder, RequestsSettled, CursorSettled, Idle, Xids
<1>2. TypeInv /\ TypeInv' /\ SettledInv /\ [Next]_vars => SettledInv'
  <2> SUFFICES ASSUME TypeInv, TypeInv', SettledInv, [Next]_vars
               PROVE  SettledInv'
    OBVIOUS
  <2>1. XidOrder'
    BY XidOrderStep DEF SettledInv
  <2>2. ASSUME NEW c \in Contacts
        PROVE  /\ Settled(req[c].horizon)' /\ Settled(req[c].after)' /\ Settled(req[c].cursor)'
               /\ cursor'[c] # Nil => \A x \in Xids : x <= cursor'[c] =>
                                        status'[x] \in {"committed", "aborted"}
    <3>1. /\ req'[c].horizon \in Nat /\ req'[c].after \in Nat /\ req'[c].cursor \in Nat
          /\ cursor'[c] # Nil => cursor'[c] \in Nat
      BY DEF TypeInv, TypeOK, Request
    <3>2. /\ Settled(req'[c].horizon) /\ Settled(req'[c].after) /\ Settled(req'[c].cursor)
          /\ cursor'[c] # Nil => Settled(cursor'[c])
      BY RequestStep
    <3>3. \A b \in Nat : Settled(b) => \A x \in Xids : x <= b => status'[x] \in {"committed", "aborted"}
      BY SettledStable DEF Settled, SettledInv
    <3> QED
      BY <3>1, <3>2, <3>3 DEF Settled
  <2>3. RequestsSettled' /\ CursorSettled'
    BY <2>2 DEF RequestsSettled, CursorSettled
  <2> QED BY <2>1, <2>3 DEF SettledInv
<1> QED
  BY <1>1, <1>2, Typing, PTL DEF Spec

\* No client's cursor ever reaches a transaction that is in flight or not yet
\* started, so a late commit always lies after every cursor handed out.
THEOREM CursorsSettled == Spec => []CursorSettled
  BY SettledInvariance, PTL DEF SettledInv

\* No step adds a row to a settled window.
LEMMA VisibleBelow ==
  ASSUME TypeInv, [Next]_vars, NEW h \in Nat, Settled(h),
         NEW r, r \in Visible', r.tx <= h
  PROVE  r \in Visible
<1>1. gone \subseteq gone'
  BY DEF Next, Finish, Begin, Publish, Commit, Rollback, Cleanup, Tick, GetUpdates, ReadStep,
         CallFails, LiveEvent, ReadHorizon, OverlapSince, ReadMarks, ReadLatest, ReadTrim,
         ThreadUpdates, Respond, ResyncHorizon, ResyncLatest, Reload, Step, dbVars, vars
<1>2. r \in rows' /\ status'[r.tx] = "committed"
  BY DEF Visible, Committed
<1>3. SUFFICES r \in rows /\ status[r.tx] = "committed"
  BY <1>1 DEF Visible, Committed
<1>4. CASE Begin
  <2>1. r \in rows /\ r.tx \in Xids
    BY <1>2, <1>4 DEF Begin, TypeInv, TypeOK, Row
  <2> QED BY <1>2, <1>4, <2>1 DEF Begin, Settled, TypeInv, TypeOK
<1>5. ASSUME NEW x \in Xids, NEW t \in Threads, NEW k \in Mutations, NEW d \in Contacts,
             Publish(x, t, k, d)
      PROVE  r \in rows /\ status[r.tx] = "committed"
  BY <1>2, <1>5 DEF Publish, AppendJournal, TypeInv, TypeOK, Row
<1>6. ASSUME NEW x \in Xids, Commit(x)
      PROVE  r \in rows /\ status[r.tx] = "committed"
  <2>1. r \in rows /\ r.tx \in Xids
    BY <1>2, <1>6 DEF Commit, TypeInv, TypeOK, Row
  <2> QED BY <1>2, <1>6, <2>1 DEF Commit, Settled, TypeInv, TypeOK
<1>7. ASSUME NEW x \in Xids, Rollback(x)
      PROVE  r \in rows /\ status[r.tx] = "committed"
  <2>1. r \in rows /\ r.tx \in Xids
    BY <1>2, <1>7 DEF Rollback, TypeInv, TypeOK, Row
  <2> QED BY <1>2, <1>7, <2>1 DEF Rollback, TypeInv, TypeOK
<1>8. CASE status' = status /\ rows' = rows
  BY <1>2, <1>8 DEF TypeInv, TypeOK, Row
<1> QED
  BY <1>4, <1>5, <1>6, <1>7, <1>8
     DEF Next, Finish, Cleanup, Tick, GetUpdates, ReadStep, CallFails, LiveEvent,
         ReadHorizon, OverlapSince, ReadMarks, ReadLatest, ReadTrim, ThreadUpdates,
         Respond, ResyncHorizon, ResyncLatest, Reload, Step, dbVars, vars

\* Once a call has read its horizon, no statement of any transaction can add a
\* row to the window the call serves.
THEOREM WindowsStable == Spec => WindowStable
<1>1. TypeInv /\ SettledInv /\ [Next]_vars =>
        [\A c \in Contacts :
           req[c].phase \in {"overlap", "marks", "latest", "trim", "threads"}
             /\ req'[c].horizon = req[c].horizon => Window(c)' \subseteq Window(c)]_vars
  <2> SUFFICES ASSUME TypeInv, SettledInv, [Next]_vars, NEW c \in Contacts,
                      req'[c].horizon = req[c].horizon
               PROVE  Window(c)' \subseteq Window(c)
    OBVIOUS
  <2>1. Settled(req[c].horizon) /\ req[c].horizon \in Nat
    BY DEF SettledInv, RequestsSettled, TypeInv, TypeOK, Request
  <2>2. PICK h \in Nat : h = req[c].horizon
    BY <2>1
  <2>3. ASSUME NEW r \in Window(c)'
        PROVE  r \in Window(c)
    <3>1. r \in Visible' /\ r.tx <= h
      BY <2>2 DEF Window
    <3>2. r \in Visible
      BY <2>1, <2>2, <3>1, VisibleBelow
    <3> QED BY <2>2, <3>1, <3>2 DEF Window
  <2> QED BY <2>3
<1> QED
  BY <1>1, Typing, SettledInvariance, PTL DEF Spec, WindowStable

\* Type correctness as the runs check it.
THEOREM Types == Spec => []TypeOK
<1>1. TypeInv => TypeOK
  BY DEF TypeInv
<1> QED
  BY Typing, <1>1, PTL

-----------------------------------------------------------------------------
(* Tag changes are private *)

\* Ids identify rows (a rolled back transaction's ids are taken again), and a tag
\* change is written for its contact alone.
RowsSound ==
    /\ \A r, q \in rows : r.id = q.id => r = q
    /\ \A r \in rows : r.kind = "tags" => r.aud = {r.who}

\* The row with id i is committed, and c may know of it.
Shown(c, i) == \E r \in rows : r.id = i /\ Committed(r) /\ (r.kind = "tags" => r.who = c)

\* The inductive invariant behind TagsPrivate: the rows a client learned of, or will
\* with the answer under way, are committed, so no id of them is ever taken again.
TagsInv ==
    /\ RowsSound
    /\ \A c \in Contacts : \A i \in known[c] \union req[c].got : Shown(c, i)

LEMMA RowsSoundStep ==
  ASSUME TypeInv, RowsSound, [Next]_vars
  PROVE  RowsSound'
<1>1. ASSUME NEW x \in Xids, NEW t \in Threads, NEW k \in Mutations, NEW c \in Contacts,
             Publish(x, t, k, c)
      PROVE  RowsSound'
  <2> DEFINE aud == Audience(x, t, k, c)
  <2>1. k = "tags" => aud = {c}
    BY DEF Audience
  <2> HIDE DEF aud
  <2>2. PICK id \in 1..MaxEntries :
           /\ \A r \in rows : r.id < id
           /\ rows' = rows \union {[id |-> id, thread |-> t, tx |-> x, kind |-> k,
                                    who |-> c, at |-> clock, aud |-> aud]}
    BY <1>1 DEF Publish, AppendJournal, aud
  <2>3. PICK w : w = [id |-> id, thread |-> t, tx |-> x, kind |-> k,
                      who |-> c, at |-> clock, aud |-> aud]
    OBVIOUS
  <2>4. w.id = id /\ w.kind = k /\ w.who = c /\ w.aud = aud /\ rows' = rows \union {w}
    BY <2>2, <2>3
  <2>5. \A r \in rows : r.id # w.id
    BY <2>2, <2>4 DEF TypeInv, TypeOK, Row
  <2> QED
    BY <2>1, <2>4, <2>5 DEF RowsSound
<1>2. CASE rows' \subseteq rows
  BY <1>2 DEF RowsSound
<1> QED
  BY <1>1, <1>2
     DEF Next, Finish, Begin, Commit, Rollback, Cleanup, Tick, GetUpdates, ReadStep, CallFails,
         LiveEvent, ReadHorizon, OverlapSince, ReadMarks, ReadLatest, ReadTrim, ThreadUpdates,
         Respond, ResyncHorizon, ResyncLatest, Reload, Step, dbVars, vars

\* A committed row stays, and stays committed.
LEMMA CommittedStays ==
  ASSUME TypeInv, XidOrder, [Next]_vars, NEW r \in rows, Committed(r)
  PROVE  r \in rows' /\ Committed(r)'
<1>1. r.tx \in Xids /\ status[r.tx] = "committed"
  BY DEF TypeInv, TypeOK, Row, Committed
<1>2. CASE Begin
  <2>1. status[nextXid] = "unassigned" /\ nextXid \in Xids
    BY <1>2, ConstantsAssumption DEF Begin, XidOrder, TypeInv, TypeOK, Xids
  <2> QED
    BY <1>1, <1>2, <2>1 DEF Begin, TypeInv, TypeOK, Committed
<1>3. CASE \E x \in Xids : Commit(x)
  BY <1>1, <1>3 DEF Commit, TypeInv, TypeOK, Committed
<1>4. CASE \E x \in Xids : Rollback(x)
  BY <1>1, <1>4 DEF Rollback, TypeInv, TypeOK, Committed
<1>5. CASE status' = status /\ rows \subseteq rows'
  BY <1>1, <1>5 DEF Committed
<1> QED
  BY <1>2, <1>3, <1>4, <1>5
     DEF Next, Finish, Publish, AppendJournal, Cleanup, Tick, GetUpdates, ReadStep, CallFails,
         LiveEvent, ReadHorizon, OverlapSince, ReadMarks, ReadLatest, ReadTrim, ThreadUpdates,
         Respond, ResyncHorizon, ResyncLatest, Reload, Step, dbVars, vars

\* What a listed thread contributes may be shown to the contact: both queries leave
\* other contacts' tag changes out, one by the row's contact, one by its audience.
LEMMA EntryShown ==
  ASSUME RowsSound, NEW c \in Contacts, NEW t, NEW w, NEW r \in Entry(c, t, w)
  PROVE  Shown(c, r.id)
<1>1. r \in rows /\ Committed(r) /\ ((r.kind # "tags" \/ r.who = c) \/ c \in r.aud)
  BY DEF Entry, ChangesSince, Left, Visible
<1>2. r.kind = "tags" => r.who = c
  BY <1>1 DEF RowsSound
<1> QED
  BY <1>1, <1>2 DEF Shown

\* What a contact learns in a step it may be shown.
LEMMA LearnedStep ==
  ASSUME TypeInv, TagsInv, [Next]_vars, NEW c \in Contacts, NEW i \in known'[c] \union req'[c].got
  PROVE  Shown(c, i)
<1>0. /\ req \in [Contacts -> Request] /\ req[c] \in Request
      /\ known \in [Contacts -> SUBSET (1..MaxEntries)]
      /\ \A j \in known[c] \union req[c].got : Shown(c, j)
  BY DEF TypeInv, TypeOK, TagsInv
<1>1. ASSUME NEW d \in Contacts, NEW p, NEW r, Step(d, p, r), r.got \subseteq req[d].got, known' = known
      PROVE  Shown(c, i)
  BY <1>0, <1>1 DEF Step
<1>2. Idle.got = {}
  BY DEF Idle
<1>3. ASSUME NEW r \in Request PROVE Resync(r).got = r.got
  BY DEF Resync, Request
<1>4. CASE UNCHANGED <<known, req>>
  BY <1>0, <1>4
<1>5. ASSUME NEW d \in Contacts, GetUpdates(d) PROVE Shown(c, i)
  <2>1. CASE cursor[d] = Nil
    BY <1>1, <1>2, <1>3, <1>5, <2>1, IdleType DEF GetUpdates
  <2>2. CASE cursor[d] # Nil
    <3> DEFINE r == [Idle EXCEPT !.phase = "horizon", !.after = cursor[d], !.budget = MaxContactChanges]
    <3>1. r.got = {}
      BY <1>2 DEF Idle
    <3>2. Step(d, "idle", r) /\ known' = known
      BY <1>5, <2>2 DEF GetUpdates
    <3> HIDE DEF r
    <3> QED
      BY <1>1, <3>1, <3>2
  <2> QED
    BY <2>1, <2>2
<1>6. ASSUME NEW d \in Contacts, CallFails(d) PROVE Shown(c, i)
  BY <1>0, <1>2, <1>6 DEF CallFails
<1>7. ASSUME NEW d \in Contacts, NEW r \in rows, LiveEvent(d, r) PROVE Shown(c, i)
  <2>1. Shown(d, r.id)
    BY <1>7 DEF Shown, LiveEvent, TagsInv, RowsSound
  <2>2. req' = req /\ known' = [known EXCEPT ![d] = @ \union {r.id}]
    BY <1>7 DEF LiveEvent
  <2> QED
    BY <1>0, <2>1, <2>2
<1>8. ASSUME NEW d \in Contacts, Respond(d) PROVE Shown(c, i)
  <2>1. req' = [req EXCEPT ![d] = Idle] /\ known' = [known EXCEPT ![d] = @ \union req[d].got]
    BY <1>8 DEF Respond, Step
  <2> QED
    BY <1>0, <1>2, <2>1
<1>9. ASSUME NEW d \in Contacts, Reload(d) PROVE Shown(c, i)
  <2> DEFINE ids == {r.id : r \in {q \in rows : Committed(q) /\ d \in q.aud}}
  <2>1. \A j \in ids : Shown(d, j)
    BY DEF Shown, TagsInv, RowsSound
  <2>2. req' = [req EXCEPT ![d] = Idle] /\ known' = [known EXCEPT ![d] = @ \union ids]
    BY <1>9 DEF Reload, Step
  <2> HIDE DEF ids
  <2> QED
    BY <1>0, <1>2, <2>1, <2>2
<1>10. ASSUME NEW d \in Contacts, NEW t \in Threads, ThreadUpdates(d, t) PROVE Shown(c, i)
  <2> DEFINE ids == {r.id : r \in Entry(d, t, req[d])}
  <2> DEFINE u == Used(d, t, req[d])
  <2> DEFINE s == [req[d] EXCEPT !.threads = @ \ {t}, !.got = @ \union ids, !.budget = @ - u]
  <2>1. \A j \in ids : Shown(d, j)
    BY EntryShown DEF TagsInv
  <2>2. req[d] \in Request
    BY <1>0
  <2>3. s.got = req[d].got \union ids
    <3> HIDE DEF ids, u
    <3> QED
      BY <2>2 DEF Request
  <2>4. known' = known /\ (Step(d, "threads", Resync(req[d])) \/ Step(d, "threads", s))
    BY <1>10 DEF ThreadUpdates
  <2> HIDE DEF ids, u, s
  <2>5. CASE Step(d, "threads", Resync(req[d]))
    BY <1>1, <1>3, <2>2, <2>4, <2>5
  <2>6. CASE Step(d, "threads", s)
    <3>1. req' = [req EXCEPT ![d] = s]
      BY <2>6 DEF Step
    <3>2. \A j \in req[d].got : d = c => Shown(c, j)
      BY <1>0
    <3> QED
      BY <1>0, <2>1, <2>3, <2>4, <3>1, <3>2
  <2> QED
    BY <2>4, <2>5, <2>6
<1>11. ASSUME NEW d \in Contacts, ReadHorizon(d) PROVE Shown(c, i)
  <2>1. PICK h : Step(d, "horizon", [req[d] EXCEPT !.phase = "overlap", !.horizon = h]) /\ known' = known
    BY <1>11 DEF ReadHorizon
  <2>2. [req[d] EXCEPT !.phase = "overlap", !.horizon = h].got = req[d].got
    BY <1>0 DEF Request
  <2> QED
    BY <1>1, <2>1, <2>2
<1>12. ASSUME NEW d \in Contacts, OverlapSince(d) PROVE Shown(c, i)
  <2>1. PICK ref : Step(d, "overlap", [req[d] EXCEPT !.phase = "marks", !.ref = ref]) /\ known' = known
    BY <1>12 DEF OverlapSince
  <2>2. [req[d] EXCEPT !.phase = "marks", !.ref = ref].got = req[d].got
    BY <1>0 DEF Request
  <2> QED
    BY <1>1, <2>1, <2>2
<1>13. ASSUME NEW d \in Contacts, ReadMarks(d) PROVE Shown(c, i)
  <2>1. PICK ts : Step(d, "marks", [req[d] EXCEPT !.phase = "latest", !.threads = ts]) /\ known' = known
    BY <1>13 DEF ReadMarks
  <2>2. [req[d] EXCEPT !.phase = "latest", !.threads = ts].got = req[d].got
    BY <1>0 DEF Request
  <2> QED
    BY <1>1, <2>1, <2>2
<1>14. ASSUME NEW d \in Contacts, ReadLatest(d) PROVE Shown(c, i)
  <2>1. PICK m : /\ \/ Step(d, "latest", Resync(req[d]))
                    \/ Step(d, "latest", [req[d] EXCEPT !.phase = "trim", !.cursor = m])
                 /\ known' = known
    BY <1>14 DEF ReadLatest
  <2>2. [req[d] EXCEPT !.phase = "trim", !.cursor = m].got = req[d].got /\ Resync(req[d]).got = req[d].got
    BY <1>0, <1>3 DEF Request
  <2> QED
    BY <1>1, <2>1, <2>2
<1>15. ASSUME NEW d \in Contacts, ReadTrim(d) PROVE Shown(c, i)
  <2>1. /\ \/ Step(d, "trim", Resync(req[d]))
           \/ Step(d, "trim", [req[d] EXCEPT !.phase = "threads"])
        /\ known' = known
    BY <1>15 DEF ReadTrim
  <2>2. [req[d] EXCEPT !.phase = "threads"].got = req[d].got /\ Resync(req[d]).got = req[d].got
    BY <1>0, <1>3 DEF Request
  <2> QED
    BY <1>1, <2>1, <2>2
<1>16. ASSUME NEW d \in Contacts, ResyncHorizon(d) PROVE Shown(c, i)
  <2>1. PICK h : Step(d, "resync.horizon", [Idle EXCEPT !.phase = "resync.latest", !.horizon = h]) /\ known' = known
    BY <1>16 DEF ResyncHorizon
  <2>2. [Idle EXCEPT !.phase = "resync.latest", !.horizon = h].got = {}
    BY DEF Idle
  <2> QED
    BY <1>1, <2>1, <2>2
<1>17. ASSUME NEW d \in Contacts, ResyncLatest(d) PROVE Shown(c, i)
  <2>1. PICK m : Step(d, "resync.latest", [Idle EXCEPT !.phase = "reload", !.cursor = m]) /\ known' = known
    BY <1>17 DEF ResyncLatest
  <2>2. [Idle EXCEPT !.phase = "reload", !.cursor = m].got = {}
    BY DEF Idle
  <2> QED
    BY <1>1, <2>1, <2>2
<1>18. ASSUME NEW d \in Contacts, ReadStep(d) PROVE Shown(c, i)
  BY <1>8, <1>9, <1>10, <1>11, <1>12, <1>13, <1>14, <1>15, <1>16, <1>17, <1>18 DEF ReadStep
<1> QED
  BY <1>4, <1>5, <1>6, <1>7, <1>18, ConstantsAssumption
     DEF Next, Finish, Begin, Publish, Commit, Rollback, Cleanup, Tick, vars, clientVars

\* No client learns of a tag change of another contact, over any of the ways rows
\* reach it: the window, the thread it left, a resync and live events.
THEOREM TagChangesPrivate == Spec => []TagsPrivate
<1>1. Init => TagsInv
  BY DEF Init, TagsInv, RowsSound, Idle
<1>2. TypeInv /\ SettledInv /\ TagsInv /\ [Next]_vars => TagsInv'
  <2> SUFFICES ASSUME TypeInv, SettledInv, TagsInv, [Next]_vars PROVE TagsInv'
    OBVIOUS
  <2>1. RowsSound'
    BY RowsSoundStep DEF TagsInv
  <2>2. ASSUME NEW c \in Contacts, NEW i \in known'[c] \union req'[c].got
        PROVE  Shown(c, i)'
    <3>1. PICK r \in rows : r.id = i /\ Committed(r) /\ (r.kind = "tags" => r.who = c)
      BY <2>2, LearnedStep DEF Shown
    <3>2. r \in rows' /\ Committed(r)'
      BY <3>1, CommittedStays DEF SettledInv
    <3> QED
      BY <3>1, <3>2 DEF Shown
  <2> QED
    BY <2>1, <2>2 DEF TagsInv
<1>3. TagsInv => TagsPrivate
  BY DEF TagsInv, TagsPrivate, Shown, RowsSound
<1> QED
  BY <1>1, <1>2, <1>3, Typing, SettledInvariance, PTL DEF Spec

-----------------------------------------------------------------------------
(* Answers are complete *)

\* A mark that a step writes belongs to a transaction that was in flight, so it lies
\* beyond every settled horizon.
LEMMA MarksBelow ==
  ASSUME TypeInv, [Next]_vars, NEW h \in Nat, Settled(h), NEW p \in Contacts \X Threads,
         mark'[p] # Nil, mark'[p].tx <= h
  PROVE  mark'[p] = mark[p]
<1>1. ASSUME NEW x \in Xids, Commit(x)
      PROVE  mark'[p] = mark[p]
  <2>1. status[x] = "active"
    BY <1>1 DEF Commit
  <2>2. ~ (x <= h)
    BY <2>1 DEF Settled
  <2>3. mark'[p] = IF pend[p] # Nil /\ pend[p].tx = x THEN pend[p] ELSE mark[p]
    BY <1>1 DEF Commit
  <2> QED BY <2>2, <2>3
<1>2. CASE mark' = mark
  BY <1>2
<1> QED
  BY <1>1, <1>2
     DEF Next, Finish, Begin, Publish, Rollback, Cleanup, Tick, GetUpdates, ReadStep, CallFails,
         LiveEvent, ReadHorizon, OverlapSince, ReadMarks, ReadLatest, ReadTrim, ThreadUpdates,
         Respond, ResyncHorizon, ResyncLatest, Reload, Step, dbVars, vars

\* c's mark of t lies in (a, h].
Marked(c, t, a, h) == mark[c, t] # Nil /\ mark[c, t].tx > a /\ mark[c, t].tx <= h

\* The rows of t in (a, h] that were written for c.
Owed(c, t, a, h) ==
    {r \in Visible : r.thread = t /\ c \in r.aud /\ r.tx > a /\ r.tx <= h}

\* Every thread marked in the window of w is still to be read or was read in full.
Collected(c, w) ==
    \A t \in Threads : Marked(c, t, w.after, w.horizon) =>
        \/ t \in w.threads
        \/ \A r \in Owed(c, t, w.after, w.horizon) : r.id \in w.got

Listing == {"latest", "trim", "threads"}

CollectedInv == \A c \in Contacts : req[c].phase \in Listing => Collected(c, req[c])

\* The rows of a settled window only go, and its marks only move past it.
LEMMA WindowShrinks ==
  ASSUME TypeInv, [Next]_vars, NEW w \in Request, Settled(w.horizon), NEW c \in Contacts,
         Collected(c, w)
  PROVE  Collected(c, w)'
<1>1. PICK h \in Nat : h = w.horizon
  BY DEF Request
<1>2. SUFFICES ASSUME NEW t \in Threads, Marked(c, t, w.after, w.horizon)', t \notin w.threads,
                      NEW r \in Owed(c, t, w.after, w.horizon)'
               PROVE  r.id \in w.got
  BY DEF Collected
<1>3. mark'[c, t] # Nil /\ mark'[c, t].tx <= h /\ mark'[c, t].tx > w.after
  BY <1>1, <1>2 DEF Marked
<1>4. mark'[c, t] = mark[c, t]
  <2>1. <<c, t>> \in Contacts \X Threads
    OBVIOUS
  <2> QED BY <1>1, <1>3, <2>1, MarksBelow
<1>5. Marked(c, t, w.after, w.horizon)
  BY <1>1, <1>3, <1>4 DEF Marked
<1>6. r \in Visible' /\ r.tx <= h /\ r.thread = t /\ c \in r.aud /\ r.tx > w.after
  BY <1>1, <1>2 DEF Owed
<1>7. r \in Visible
  BY <1>1, <1>6, VisibleBelow
<1>8. r \in Owed(c, t, w.after, w.horizon)
  BY <1>1, <1>6, <1>7 DEF Owed
<1> QED
  BY <1>2, <1>5, <1>8 DEF Collected

\* Reading a listed thread collects all its rows of the window, whether the contact is
\* still a member or not.
LEMMA EntryWhole ==
  ASSUME RowsSound, NEW c \in Contacts, NEW t, NEW w, NEW r \in Owed(c, t, w.after, w.horizon)
  PROVE  r \in Entry(c, t, w)
<1>1. r \in Visible /\ r.thread = t /\ c \in r.aud /\ r.tx > w.after /\ r.tx <= w.horizon
  BY DEF Owed
<1>2. r.kind # "tags" \/ r.who = c
  BY <1>1 DEF RowsSound, Visible
<1> QED
  BY <1>1, <1>2 DEF Entry, ChangesSince, Left

\* A thread marked in the window is listed.
LEMMA MarkedListed ==
  ASSUME NEW c, NEW t \in Threads, NEW w, Marked(c, t, w.after, w.horizon)
  PROVE  t \in Listed(c, w)
  BY DEF Marked, Listed

\* What a step makes of a call that is listing is collected before the step's effect
\* on the tables.
LEMMA CollectedStep ==
  ASSUME TypeInv, RowsSound, CollectedInv, [Next]_vars, NEW c \in Contacts,
         req'[c].phase \in Listing
  PROVE  Collected(c, req'[c]) /\ (req'[c].horizon = req[c].horizon)
<1>0. /\ req[c] \in Request /\ req \in [Contacts -> Request]
      /\ req[c].phase \in Listing => Collected(c, req[c])
  BY DEF TypeInv, TypeOK, CollectedInv
<1>c. ASSUME NEW d \in Contacts, NEW p, NEW r, Step(d, p, r), d # c
      PROVE  req'[c] = req[c]
  BY <1>0, <1>c DEF Step
<1>d. ASSUME NEW p, NEW r, Step(c, p, r)
      PROVE  req'[c] = r /\ req[c].phase = p
  BY <1>0, <1>d DEF Step
<1>1. CASE req'[c] = req[c]
  BY <1>0, <1>1
<1>2. ASSUME NEW d \in Contacts, d # c,
             GetUpdates(d) \/ ReadStep(d) \/ CallFails(d) \/ \E r \in rows : LiveEvent(d, r)
      PROVE  req'[c] = req[c]
  BY <1>0, <1>2, <1>c
     DEF GetUpdates, ReadStep, CallFails, LiveEvent, ReadHorizon, OverlapSince, ReadMarks,
         ReadLatest, ReadTrim, ThreadUpdates, Respond, ResyncHorizon, ResyncLatest, Reload
<1>3. Idle.phase \notin Listing /\ \A r \in Request : Resync(r).phase \notin Listing
  BY DEF Idle, Resync, Request, Listing
<1>4. CASE CallFails(c)
  BY <1>0, <1>3, <1>4 DEF CallFails
<1>5. CASE GetUpdates(c)
  <2>1. req'[c] = Resync(Idle)
          \/ req'[c] = [Idle EXCEPT !.phase = "horizon", !.after = cursor[c],
                                    !.budget = MaxContactChanges]
    BY <1>5, <1>d DEF GetUpdates
  <2>2. [Idle EXCEPT !.phase = "horizon", !.after = cursor[c],
                     !.budget = MaxContactChanges].phase \notin Listing
    BY DEF Idle, Listing
  <2> QED BY <1>3, <2>1, <2>2, IdleType
<1>6. CASE \E r \in rows : LiveEvent(c, r)
  BY <1>1, <1>6 DEF LiveEvent
<1>7. CASE ReadStep(c)
  <2>1. CASE ReadHorizon(c)
    <3>1. PICK h : Step(c, "horizon", [req[c] EXCEPT !.phase = "overlap", !.horizon = h])
      BY <2>1 DEF ReadHorizon
    <3>2. req'[c] = [req[c] EXCEPT !.phase = "overlap", !.horizon = h]
      BY <1>d, <3>1
    <3>3. req'[c].phase \in {"overlap", "marks"}
      BY <1>0, <3>2 DEF Request, Idle
    <3> QED BY <3>3 DEF Listing
  <2>2. CASE OverlapSince(c)
    <3>1. PICK ref : Step(c, "overlap", [req[c] EXCEPT !.phase = "marks", !.ref = ref])
      BY <2>2 DEF OverlapSince
    <3>2. req'[c] = [req[c] EXCEPT !.phase = "marks", !.ref = ref]
      BY <1>d, <3>1
    <3>3. req'[c].phase \in {"overlap", "marks"}
      BY <1>0, <3>2 DEF Request, Idle
    <3> QED BY <3>3 DEF Listing
  <2>3. CASE ReadMarks(c)
    <3>1. PICK ts : ts = Listed(c, req[c])
      OBVIOUS
    <3>2. req'[c] = [req[c] EXCEPT !.phase = "latest", !.threads = ts]
      BY <1>d, <2>3, <3>1 DEF ReadMarks
    <3>3. req'[c].after = req[c].after /\ req'[c].horizon = req[c].horizon /\ req'[c].threads = ts
      BY <1>0, <3>2 DEF Request
    <3> QED BY <3>1, <3>3, MarkedListed DEF Collected
  <2>4. CASE ReadLatest(c)
    <3>1. PICK m : \/ req'[c] = Resync(req[c])
                   \/ req'[c] = [req[c] EXCEPT !.phase = "trim", !.cursor = m]
      BY <1>d, <2>4 DEF ReadLatest
    <3>2. req'[c] = [req[c] EXCEPT !.phase = "trim", !.cursor = m]
      BY <1>0, <1>3, <3>1
    <3>3. req'[c].after = req[c].after /\ req'[c].horizon = req[c].horizon
            /\ req'[c].threads = req[c].threads /\ req'[c].got = req[c].got
      BY <1>0, <3>2 DEF Request
    <3>4. req[c].phase \in Listing
      BY <1>d, <2>4 DEF ReadLatest, Listing
    <3> QED BY <1>0, <3>3, <3>4 DEF Collected
  <2>5. CASE ReadTrim(c)
    <3>1. req'[c] = Resync(req[c]) \/ req'[c] = [req[c] EXCEPT !.phase = "threads"]
      BY <1>d, <2>5 DEF ReadTrim
    <3>2. req'[c] = [req[c] EXCEPT !.phase = "threads"]
      BY <1>0, <1>3, <3>1
    <3>3. req'[c].after = req[c].after /\ req'[c].horizon = req[c].horizon
            /\ req'[c].threads = req[c].threads /\ req'[c].got = req[c].got
      BY <1>0, <3>2 DEF Request
    <3>4. req[c].phase \in Listing
      BY <1>d, <2>5 DEF ReadTrim, Listing
    <3> QED BY <1>0, <3>3, <3>4 DEF Collected
  <2>6. ASSUME NEW t \in Threads, ThreadUpdates(c, t)
        PROVE  Collected(c, req'[c]) /\ req'[c].horizon = req[c].horizon
    <3>1. PICK ids, u : ids = {r.id : r \in Entry(c, t, req[c])} /\ u = Used(c, t, req[c])
      OBVIOUS
    <3>2. \/ req'[c] = Resync(req[c])
          \/ req'[c] = [req[c] EXCEPT !.threads = @ \ {t}, !.got = @ \union ids, !.budget = @ - u]
      BY <1>d, <2>6, <3>1 DEF ThreadUpdates
    <3>3. req'[c] = [req[c] EXCEPT !.threads = @ \ {t}, !.got = @ \union ids, !.budget = @ - u]
      BY <1>0, <1>3, <3>2
    <3>4. req'[c].after = req[c].after /\ req'[c].horizon = req[c].horizon
            /\ req'[c].threads = req[c].threads \ {t} /\ req'[c].got = req[c].got \union ids
      BY <1>0, <3>3 DEF Request
    <3>5. req[c].phase \in Listing
      BY <1>d, <2>6 DEF ThreadUpdates, Listing
    <3>6. \A r \in Owed(c, t, req[c].after, req[c].horizon) : r.id \in ids
      BY <3>1, EntryWhole
    <3> QED BY <1>0, <3>4, <3>5, <3>6 DEF Collected
  <2>7. CASE Respond(c) \/ Reload(c)
    BY <1>3, <1>d, <2>7 DEF Respond, Reload
  <2>8. CASE ResyncHorizon(c)
    <3>1. PICK h : Step(c, "resync.horizon", [Idle EXCEPT !.phase = "resync.latest", !.horizon = h])
      BY <2>8 DEF ResyncHorizon
    <3>2. req'[c] = [Idle EXCEPT !.phase = "resync.latest", !.horizon = h]
      BY <1>d, <3>1
    <3>3. req'[c].phase \in {"resync.latest", "reload"}
      BY <1>0, <3>2 DEF Request, Idle
    <3> QED BY <3>3 DEF Listing
  <2>9. CASE ResyncLatest(c)
    <3>1. PICK m : Step(c, "resync.latest", [Idle EXCEPT !.phase = "reload", !.cursor = m])
      BY <2>9 DEF ResyncLatest
    <3>2. req'[c] = [Idle EXCEPT !.phase = "reload", !.cursor = m]
      BY <1>d, <3>1
    <3>3. req'[c].phase \in {"resync.latest", "reload"}
      BY <1>0, <3>2 DEF Request, Idle
    <3> QED BY <3>3 DEF Listing
  <2> QED
    BY <1>7, <2>1, <2>2, <2>3, <2>4, <2>5, <2>6, <2>7, <2>8, <2>9 DEF ReadStep
<1> QED
  BY <1>1, <1>2, <1>4, <1>5, <1>6, <1>7, ConstantsAssumption
     DEF Next, Finish, Begin, Publish, Commit, Rollback, Cleanup, Tick, vars, clientVars, dbVars

\* The answer to a call holds every change in its window of each thread whose mark lies
\* there, whatever commits, rolls back, joins, leaves or expires between its statements.
THEOREM AnswersWhole == Spec => AnswersComplete
<1> DEFINE Inv == RowsSound /\ CollectedInv
<1>1. Init => Inv
  BY DEF Init, RowsSound, CollectedInv, Idle, Listing
<1>2. TypeInv /\ TypeInv' /\ SettledInv /\ Inv /\ [Next]_vars => Inv'
  <2> SUFFICES ASSUME TypeInv, TypeInv', SettledInv, RowsSound, CollectedInv, [Next]_vars PROVE Inv'
    OBVIOUS
  <2>1. RowsSound'
    BY RowsSoundStep
  <2>2. ASSUME NEW c \in Contacts, req'[c].phase \in Listing
        PROVE  Collected(c, req[c])'
    <3>1. PICK w : w = req'[c]
      OBVIOUS
    <3>2. w \in Request /\ Collected(c, w) /\ w.horizon = req[c].horizon
      BY <2>2, <3>1, CollectedStep DEF TypeInv, TypeOK
    <3>3. Settled(w.horizon)
      BY <3>2 DEF SettledInv, RequestsSettled
    <3>4. Collected(c, w)'
      BY <3>2, <3>3, WindowShrinks
    <3> QED BY <3>1, <3>4 DEF Collected, Marked, Owed
  <2> QED BY <2>1, <2>2 DEF CollectedInv
<1>3. TypeInv /\ Inv /\ [Next]_vars => [\A c \in Contacts : AnswerWhole(c)]_vars
  <2> SUFFICES ASSUME TypeInv, CollectedInv, [Next]_vars, NEW c \in Contacts
               PROVE  AnswerWhole(c)
    OBVIOUS
  <2> SUFFICES ASSUME req[c].phase = "threads", req'[c].phase = "idle", fails' = fails,
                      NEW r \in Window(c), c \in r.aud, r.tx > req[c].after,
                      Marked(c, r.thread, req[c].after, req[c].horizon)
               PROVE  r.id \in known'[c]
    BY DEF AnswerWhole, Marked
  <2>0. /\ req[c] \in Request /\ req \in [Contacts -> Request]
        /\ known \in [Contacts -> SUBSET (1..MaxEntries)] /\ fails \in Nat
    BY DEF TypeInv, TypeOK
  <2>1. Respond(c)
    <3>1. req'[c] # req[c]
      OBVIOUS
    <3>2. ASSUME NEW d \in Contacts, NEW p, NEW w, Step(d, p, w), d # c
          PROVE  req'[c] = req[c]
      BY <2>0, <3>2 DEF Step
    <3>3. ASSUME NEW p, NEW w, Step(c, p, w)
          PROVE  p = "threads"
      BY <2>0, <3>3 DEF Step
    <3>4. ASSUME NEW d \in Contacts, CallFails(d)
          PROVE  FALSE
      BY <2>0, <3>4 DEF CallFails
    <3>5. ASSUME NEW d \in Contacts, GetUpdates(d) \/ ReadStep(d), d # c
          PROVE  FALSE
      BY <3>1, <3>2, <3>5
         DEF GetUpdates, ReadStep, ReadHorizon, OverlapSince, ReadMarks, ReadLatest, ReadTrim,
             ThreadUpdates, Respond, ResyncHorizon, ResyncLatest, Reload
    <3>6. GetUpdates(c) \/ ReadStep(c)
      BY <3>1, <3>4, <3>5, ConstantsAssumption
         DEF Next, Finish, Begin, Publish, Commit, Rollback, Cleanup, Tick, vars, clientVars,
             LiveEvent
    <3>7. ASSUME NEW t \in Threads, ThreadUpdates(c, t) PROVE FALSE
      <4>1. PICK ids, u : ids = {q.id : q \in Entry(c, t, req[c])} /\ u = Used(c, t, req[c])
        OBVIOUS
      <4>2. \/ req'[c] = Resync(req[c])
            \/ req'[c] = [req[c] EXCEPT !.threads = @ \ {t}, !.got = @ \union ids, !.budget = @ - u]
        BY <2>0, <3>7, <4>1 DEF ThreadUpdates, Step
      <4> QED BY <2>0, <4>2 DEF Request, Resync
    <3> QED
      BY <3>3, <3>6, <3>7
         DEF GetUpdates, ReadStep, ReadHorizon, OverlapSince, ReadMarks, ReadLatest, ReadTrim,
             Respond, ResyncHorizon, ResyncLatest, Reload
  <2>2. req[c].threads = {} /\ known'[c] = known[c] \union req[c].got
    BY <2>0, <2>1 DEF Respond
  <2>3. r \in Visible /\ r.tx <= req[c].horizon /\ r.thread \in Threads
    BY DEF Window, Visible, TypeInv, TypeOK, Row
  <2>4. r \in Owed(c, r.thread, req[c].after, req[c].horizon)
    BY <2>3 DEF Owed
  <2> QED
    BY <2>2, <2>3, <2>4 DEF CollectedInv, Collected, Listing
<1> QED
  BY <1>1, <1>2, <1>3, Typing, SettledInvariance, PTL DEF Spec, AnswersComplete

=============================================================================
