------------------------- MODULE OutboxRelayProofs -------------------------
(***************************************************************************)
(* For any nodes, routers, transactions, batch sizes and faults: the relay *)
(* skips no event, and it implements the at-least-once log EventLog.       *)
(***************************************************************************)
EXTENDS OutboxRelay, TLAPS

-----------------------------------------------------------------------------
(* The inductive invariant.                                                *)

\* Every committed event up to row f was handed on.
Covered(f) == \A e \in Committed : (e = f \/ Before(e, f)) => e \in handed

\* Nothing can commit any more at or before the offset, or what a router last handled.
OffsetInv == offset # Unregistered => Settled(offset[1]) /\ Covered(offset)

LastInv == \A r \in Routers : Settled(router[r].last[1]) /\ Covered(router[r].last)

\* What precedes an event of a batch is handed on or in the batch, with or without
\* the lock on the offset.
BatchOK(B) ==
    \A b \in B : /\ b \in Committed
                 /\ Settled(b[1])
                 /\ \A e \in Committed : Before(e, b) => e \in handed \union B

BatchInv == \A r \in Routers : BatchOK(router[r].batch)

HandedInv == \A e \in handed : e \in Committed /\ Settled(e[1])

\* A router that runs has registered its group.
RunInv == \A r \in Routers : router[r].st = "run" => offset # Unregistered

RelayInv == RunInv /\ OffsetInv /\ LastInv /\ BatchInv /\ HandedInv /\ deleted \subseteq handed

-----------------------------------------------------------------------------
(* Types.                                                                  *)

RouterRecord == [node : Nodes, live : BOOLEAN, st : {"none", "building", "run", "stopped"},
                 held : BOOLEAN, batch : SUBSET Rows, last : Rows \union {Origin}]

LEMMA NoRouterType == NoRouter \in RouterRecord
<1>1. (CHOOSE m \in Nodes : TRUE) \in Nodes
  BY ElectionConstants
<1> QED BY <1>1 DEF NoRouter, RouterRecord

(* Every step of a node's loop and of its environment keeps the types of   *)
(* the election.                                                           *)
LEMMA FaultType ==
  ASSUME ElectionTypeOK, Fault \/ NoFault
  PROVE  faults' \in 0..MaxFaults
BY ElectionConstants DEF ElectionTypeOK, Fault, NoFault

LEMMA InvalidateType ==
  ASSUME ElectionTypeOK, NEW m \in Nodes, Invalidate(m) \/ DestroySession(m)
  PROVE  /\ lock' \in (Nodes \X {"own", "old"}) \union {Free}
         /\ delay' \in BOOLEAN
         /\ sess' \in [Nodes -> BOOLEAN]
<1>1. CASE Invalidate(m)
  BY <1>1 DEF ElectionTypeOK, Invalidate
<1>2. CASE /\ sess' = [sess EXCEPT ![m] = FALSE]
           /\ lock' \in {lock, Old(m)}
           /\ UNCHANGED delay
  <2>1. Old(m) \in Nodes \X {"own", "old"}
    BY DEF Old
  <2> QED BY <1>2, <2>1 DEF ElectionTypeOK
<1> QED BY <1>1, <1>2 DEF DestroySession

LEMMA GoType ==
  ASSUME ElectionTypeOK, NEW m \in Nodes, NEW p \in Phases, Go(m, p)
  PROVE  phase' \in [Nodes -> Phases]
BY DEF ElectionTypeOK, Go

LEMMA PhaseNames ==
  {"down", "start", "session", "watch", "lead", "release", "leave"} \subseteq Phases
BY DEF Phases

LEMMA LoopType ==
  ASSUME ElectionTypeOK, NEW m \in Nodes, Loop(m)
  PROVE  ElectionTypeOK'
<1>1. CASE CreateSession(m)
  BY <1>1, FaultType, GoType, PhaseNames DEF ElectionTypeOK, CreateSession
<1>2. CASE NotAcquired(m)
  BY <1>2, FaultType, GoType, PhaseNames DEF ElectionTypeOK, NotAcquired
<1>3. CASE AcquireFails(m)
  <2>1. faults' \in 0..MaxFaults
    BY <1>3, FaultType DEF AcquireFails
  <2>2. phase' \in [Nodes -> Phases]
    BY <1>3, GoType, PhaseNames DEF AcquireFails
  <2> QED BY <1>3, <2>1, <2>2, InvalidateType DEF ElectionTypeOK, AcquireFails
<1>4. CASE watchKey(m)
  <2>1. faults' \in 0..MaxFaults
    BY <1>4, FaultType DEF watchKey, DestroySession
  <2>2. phase' \in [Nodes -> Phases]
    BY <1>4, GoType, PhaseNames DEF watchKey
  <2> QED BY <1>4, <2>1, <2>2, InvalidateType DEF ElectionTypeOK, watchKey
<1>5. CASE monitorLeadership(m)
  BY <1>5, FaultType, GoType, PhaseNames DEF ElectionTypeOK, monitorLeadership
<1>6. CASE MonitorFails(m)
  BY <1>6, FaultType, GoType, PhaseNames DEF ElectionTypeOK, MonitorFails
<1>7. CASE releaseLock(m)
  BY <1>7, FaultType, GoType, PhaseNames DEF ElectionTypeOK, releaseLock
<1>8. CASE RunReturns(m)
  BY <1>8, FaultType, GoType, PhaseNames DEF ElectionTypeOK, RunReturns
<1> QED BY <1>1, <1>2, <1>3, <1>4, <1>5, <1>6, <1>7, <1>8 DEF Loop

LEMMA TermType ==
  ASSUME ElectionTypeOK, NEW m \in Nodes,
         \/ Acquire(m) \/ StepDown(m) \/ Leave(m) \/ Shutdown(m)
         \/ Crash(m) \/ Restart(m) \/ Expire(m)
  PROVE  ElectionTypeOK'
<1>1. CASE Acquire(m)
  BY <1>1, FaultType, GoType, PhaseNames DEF ElectionTypeOK, Acquire, Own
<1>2. CASE StepDown(m)
  BY <1>2, FaultType DEF ElectionTypeOK, StepDown
<1>3. CASE Leave(m)
  <2>1. faults' \in 0..MaxFaults
    BY <1>3, FaultType DEF Leave, DestroySession
  <2>2. phase' \in [Nodes -> Phases]
    BY <1>3, GoType, PhaseNames DEF Leave
  <2> QED BY <1>3, <2>1, <2>2, InvalidateType DEF ElectionTypeOK, Leave
<1>4. CASE Shutdown(m)
  BY <1>4, FaultType DEF ElectionTypeOK, Shutdown
<1>5. CASE Crash(m)
  BY <1>5, FaultType, GoType, PhaseNames DEF ElectionTypeOK, Crash, Old
<1>6. CASE Restart(m)
  BY <1>6, FaultType, GoType, PhaseNames DEF ElectionTypeOK, Restart
<1>7. CASE Expire(m)
  BY <1>7, FaultType, InvalidateType DEF ElectionTypeOK, Expire
<1> QED BY <1>1, <1>2, <1>3, <1>4, <1>5, <1>6, <1>7

LEMMA TimerType ==
  ASSUME ElectionTypeOK, ExpireOld \/ DelayEnds
  PROVE  ElectionTypeOK'
BY FaultType DEF ElectionTypeOK, ExpireOld, DelayEnds

LEMMA PublishType ==
  ASSUME TypeOK, NEW x \in Txs, Publish(x) \/ EndTx(x)
  PROVE  TypeOK'
<1>1. ElectionTypeOK'
  BY DEF TypeOK, ElectionTypeOK, electionVars, Publish, EndTx
<1>2. n' \in [Txs -> 0..MaxRows]
  BY RelayConstants DEF TypeOK, Publish, EndTx
<1>3. tx' \in [Txs -> {"none", "open", "committed", "aborted"}]
  BY DEF TypeOK, Publish, EndTx
<1>4. UNCHANGED <<deleted, offset, handed, router>>
  BY DEF Publish, EndTx
<1> QED BY <1>1, <1>2, <1>3, <1>4 DEF TypeOK

\* The relay's own variables are typed.
RelayTypeOK ==
    /\ tx \in [Txs -> {"none", "open", "committed", "aborted"}]
    /\ n \in [Txs -> 0..MaxRows]
    /\ deleted \subseteq Rows
    /\ offset \in Rows \union {Origin, Unregistered}
    /\ handed \subseteq Rows
    /\ router \in [Routers -> RouterRecord]

LEMMA TypeParts ==
  /\ TypeOK <=> ElectionTypeOK /\ RelayTypeOK
  /\ TypeOK' <=> ElectionTypeOK' /\ RelayTypeOK'
BY DEF TypeOK, RelayTypeOK, RouterRecord

LEMMA ElectionType ==
  ASSUME TypeOK, Elections
  PROVE  TypeOK'
<1>0. ElectionTypeOK /\ RelayTypeOK
  BY TypeParts
<1>1. ASSUME NEW m \in Nodes, Promote(m)
      PROVE  TypeOK'
  <2>1. ElectionTypeOK'
    BY <1>0, <1>1, TermType DEF Promote
  <2>2. PICK r \in Routers :
          router' = [router EXCEPT ![r] = [NoRouter EXCEPT !.node = m, !.live = ctx'[m], !.st = "building"]]
    BY <1>1 DEF Promote
  <2>3. ctx'[m] \in BOOLEAN
    BY <2>1 DEF ElectionTypeOK
  <2>4. [NoRouter EXCEPT !.node = m, !.live = ctx'[m], !.st = "building"] \in RouterRecord
    BY <2>3, NoRouterType DEF RouterRecord
  <2>5. router' \in [Routers -> RouterRecord]
    BY <1>0, <2>2, <2>4 DEF RelayTypeOK
  <2>6. RelayTypeOK'
    BY <1>0, <1>1, <2>5 DEF Promote, outbox, RelayTypeOK
  <2> QED BY <2>1, <2>6, TypeParts
<1>2. ASSUME NEW m \in Nodes, Demote(m)
      PROVE  TypeOK'
  <2>1. ElectionTypeOK'
    BY <1>0, <1>2, TermType DEF Demote
  <2>2. router' \in [Routers -> RouterRecord]
    BY <1>0, <1>2 DEF Demote, Cancelled, RelayTypeOK, RouterRecord
  <2>3. RelayTypeOK'
    BY <1>0, <1>2, <2>2 DEF Demote, outbox, RelayTypeOK
  <2> QED BY <2>1, <2>3, TypeParts
<1>3. ASSUME NEW m \in Nodes, Die(m) \/ Reboot(m)
      PROVE  TypeOK'
  <2>1. ElectionTypeOK'
    BY <1>0, <1>3, TermType DEF Die, Reboot
  <2>2. router' \in [Routers -> RouterRecord]
    BY <1>0, <1>3, NoRouterType DEF Die, Reboot, Killed, RelayTypeOK
  <2>3. RelayTypeOK'
    BY <1>0, <1>3, <2>2 DEF Die, Reboot, outbox, RelayTypeOK
  <2> QED BY <2>1, <2>3, TypeParts
<1>4. ASSUME UNCHANGED relayVars, ElectionTypeOK'
      PROVE  TypeOK'
  BY <1>0, <1>4, TypeParts DEF relayVars, RelayTypeOK
<1> QED BY <1>0, <1>1, <1>2, <1>3, <1>4, LoopType, TermType, TimerType DEF Elections

LEMMA RouterType ==
  ASSUME TypeOK, NEW r \in Routers,
         RouterStep(r) \/ BuildFails(r) \/ RunFails(r) \/ HandleNack(r) \/ ConnectionLost(r) \/ Cleanup(r)
  PROVE  TypeOK'
<1>0. ElectionTypeOK /\ RelayTypeOK /\ router[r] \in RouterRecord
  BY TypeParts DEF RelayTypeOK
<1>a. ASSUME UNCHANGED electionVars, RelayTypeOK'
      PROVE  TypeOK'
  <2>1. ElectionTypeOK'
    BY <1>0, <1>a DEF ElectionTypeOK, electionVars
  <2> QED BY <1>a, <2>1, TypeParts
<1>1. CASE StartRouter(r)
  <2>1. router' \in [Routers -> RouterRecord]
    BY <1>0, <1>1 DEF StartRouter, RelayTypeOK, RouterRecord
  <2>2. RelayTypeOK'
    BY <1>0, <1>1, <2>1 DEF StartRouter, RelayTypeOK, outbox
  <2> QED BY <1>1, <1>a, <2>2 DEF StartRouter
<1>2. CASE Fetch(r)
  <2>1. PICK B \in SUBSET Unread : router' = [router EXCEPT ![r].held = TRUE, ![r].batch = B]
    BY <1>2 DEF Fetch
  <2>2. B \subseteq Rows
    BY DEF Unread, Stored, Committed
  <2>3. router' \in [Routers -> RouterRecord]
    BY <1>0, <2>1, <2>2 DEF RelayTypeOK, RouterRecord
  <2>4. RelayTypeOK'
    BY <1>0, <1>2, <2>3 DEF Fetch, RelayTypeOK, outbox
  <2> QED BY <1>2, <1>a, <2>4 DEF Fetch
<1>3. CASE Handle(r) \/ HandleNack(r)
  <2>1. PICK e \in Current(r) :
          /\ handed' = handed \union {e}
          /\ \/ router' = [router EXCEPT ![r].batch = @ \ {e}, ![r].last = e]
             \/ router' = router
    BY <1>3 DEF Handle, HandleNack
  <2>2. e \in Rows
    BY <1>0 DEF Current, RouterRecord
  <2>3. router' \in [Routers -> RouterRecord]
    BY <1>0, <2>1, <2>2 DEF RelayTypeOK, RouterRecord
  <2>4. RelayTypeOK'
    BY <1>0, <1>3, <2>1, <2>2, <2>3 DEF Handle, HandleNack, RelayTypeOK
  <2> QED BY <1>3, <1>a, <2>4 DEF Handle, HandleNack
<1>4. CASE CutBatch(r)
  <2>1. PICK b \in SUBSET Current(r) : router' = [router EXCEPT ![r].batch = b]
    BY <1>4 DEF CutBatch
  <2>2. b \subseteq Rows
    BY <1>0 DEF Current, RouterRecord
  <2>3. router' \in [Routers -> RouterRecord]
    BY <1>0, <2>1, <2>2 DEF RelayTypeOK, RouterRecord
  <2>4. RelayTypeOK'
    BY <1>0, <1>4, <2>3 DEF CutBatch, RelayTypeOK, outbox
  <2> QED BY <1>4, <1>a, <2>4 DEF CutBatch
<1>5. CASE Ack(r) \/ AckFails(r)
  <2>1. router' = [router EXCEPT ![r].held = FALSE, ![r].last = Origin]
    BY <1>5 DEF Ack, AckFails
  <2>2. router' \in [Routers -> RouterRecord]
    BY <1>0, <2>1 DEF RelayTypeOK, RouterRecord
  <2>3. offset' \in Rows \union {Origin, Unregistered}
    BY <1>0, <1>5 DEF Ack, AckFails, Acked, RelayTypeOK, RouterRecord
  <2>4. RelayTypeOK'
    BY <1>0, <1>5, <2>2, <2>3 DEF Ack, AckFails, RelayTypeOK, outbox
  <2> QED BY <1>5, <1>a, <2>4 DEF Ack, AckFails
<1>6. CASE CloseRouter(r)
  <2>1. router' \in [Routers -> RouterRecord]
    BY <1>0, <1>6, NoRouterType DEF CloseRouter, RelayTypeOK
  <2>2. RelayTypeOK'
    BY <1>0, <1>6, <2>1 DEF CloseRouter, RelayTypeOK, outbox
  <2> QED BY <1>6, <1>a, <2>2 DEF CloseRouter
<1>7. CASE BuildFails(r)
  <2>1. router' \in [Routers -> RouterRecord]
    BY <1>0, <1>7, NoRouterType DEF BuildFails, RelayTypeOK
  <2>2. RelayTypeOK'
    BY <1>0, <1>7, <2>1 DEF BuildFails, RelayTypeOK, outbox
  <2>3. ElectionTypeOK'
    BY <1>0, <1>7, FaultType DEF BuildFails, ElectionTypeOK, RouterRecord
  <2> QED BY <2>2, <2>3, TypeParts
<1>b. CASE RunFails(r)
  <2>1. router' \in [Routers -> RouterRecord]
    BY <1>0, <1>b DEF RunFails, RelayTypeOK, RouterRecord
  <2>2. RelayTypeOK'
    BY <1>0, <1>b, <2>1 DEF RunFails, RelayTypeOK, outbox
  <2>3. ElectionTypeOK'
    BY <1>0, <1>b, FaultType DEF RunFails, ElectionTypeOK
  <2> QED BY <2>2, <2>3, TypeParts
<1>8. CASE ConnectionLost(r)
  <2>1. router' \in [Routers -> RouterRecord]
    BY <1>0, <1>8 DEF ConnectionLost, RelayTypeOK, RouterRecord
  <2>2. RelayTypeOK'
    BY <1>0, <1>8, <2>1 DEF ConnectionLost, RelayTypeOK, outbox
  <2>3. faults' \in 0..MaxFaults
    BY <1>0, <1>8, FaultType DEF ConnectionLost
  <2>4. ElectionTypeOK'
    BY <1>0, <1>8, <2>3 DEF ConnectionLost, ElectionTypeOK
  <2> QED BY <2>2, <2>4, TypeParts
<1>9. CASE Cleanup(r)
  <2>1. PICK D \in SUBSET Expendable : deleted' = deleted \union D
    BY <1>9 DEF Cleanup
  <2>2. D \subseteq Rows
    BY DEF Expendable, Stored, Committed
  <2>3. RelayTypeOK'
    BY <1>0, <1>9, <2>1, <2>2 DEF Cleanup, RelayTypeOK
  <2> QED BY <1>9, <1>a, <2>3 DEF Cleanup
<1> QED BY <1>1, <1>2, <1>3, <1>4, <1>5, <1>6, <1>7, <1>8, <1>9, <1>b DEF RouterStep

LEMMA InitType == Init => TypeOK
<1> SUFFICES ASSUME Init PROVE TypeOK
  OBVIOUS
<1>1. ElectionTypeOK
  <2>1. phase \in [Nodes -> Phases]
    BY PhaseNames DEF Init, ElectionInit
  <2>2. /\ sess \in [Nodes -> BOOLEAN] /\ ctx \in [Nodes -> BOOLEAN] /\ quit \in [Nodes -> BOOLEAN]
        /\ delay \in BOOLEAN /\ lock \in (Nodes \X {"own", "old"}) \union {Free}
    BY DEF Init, ElectionInit
  <2>3. faults \in 0..MaxFaults
    BY ElectionConstants DEF Init, ElectionInit
  <2> QED BY <2>1, <2>2, <2>3 DEF ElectionTypeOK
<1>2. RelayTypeOK
  BY RelayConstants, NoRouterType DEF Init, RelayTypeOK
<1> QED BY <1>1, <1>2, TypeParts

LEMMA StepType ==
  ASSUME TypeOK, [Next]_vars
  PROVE  TypeOK'
<1>1. CASE UNCHANGED vars
  <2>1. ElectionTypeOK' /\ RelayTypeOK'
    BY <1>1, TypeParts DEF vars, electionVars, relayVars, ElectionTypeOK, RelayTypeOK
  <2> QED BY <2>1, TypeParts
<1> QED BY <1>1, PublishType, ElectionType, RouterType DEF Next, Writers, Relay

(* Every state of the election and of the relay is well typed: TypeOK.     *)
THEOREM Typing == Spec => []TypeOK
BY InitType, StepType, PTL DEF Spec

-----------------------------------------------------------------------------
(* The order of rows, and how the tables grow.                             *)

LEMMA RowParts ==
  ASSUME NEW e \in Rows
  PROVE  e[1] \in Txs /\ e[1] \in Nat /\ e[1] > 0 /\ e[2] \in Nat /\ e = <<e[1], e[2]>>
BY RelayConstants DEF Rows, Txs

LEMMA BeforeAsymmetric ==
  ASSUME NEW e \in Rows, NEW f \in Rows, Before(e, f)
  PROVE  e # f /\ ~Before(f, e)
BY RowParts DEF Before

LEMMA OriginFirst ==
  /\ Settled(Origin[1]) /\ Covered(Origin)
  /\ Settled(Origin[1])' /\ Covered(Origin)'
<1>1. Origin[1] = 0 /\ Origin[2] = 0
  BY DEF Origin
<1>2. \A e \in Rows : e # Origin /\ ~Before(e, Origin)
  BY <1>1, RowParts DEF Before
<1>3. \A y \in Txs : ~(y <= Origin[1])
  BY <1>1, RelayConstants DEF Txs
<1> QED BY <1>2, <1>3 DEF Settled, Covered, Committed

(* Routers that keep what they have, or lose it all, keep the invariant:   *)
(* every step of the election, and the ends of terms and connections.      *)
LEMMA QuietStep ==
  ASSUME RelayInv, UNCHANGED <<tx, n, deleted, offset, handed>>,
         \A r \in Routers :
           /\ router'[r].batch = router[r].batch \/ router'[r].batch = {}
           /\ router'[r].last = router[r].last \/ router'[r].last = Origin
           /\ router'[r].st = "run" => router[r].st = "run"
  PROVE  RelayInv'
<1>1. UNCHANGED Committed /\ \A x : Settled(x)' = Settled(x)
  BY DEF Committed, Settled
<1>2. \A f : Covered(f)' = Covered(f)
  BY <1>1 DEF Covered
<1>3. OffsetInv'
  BY <1>1, <1>2 DEF RelayInv, OffsetInv
<1>4. LastInv'
  BY <1>1, <1>2, OriginFirst DEF RelayInv, LastInv
<1>5. \A B : BatchOK(B)' = BatchOK(B)
  BY <1>1 DEF BatchOK
<1>6. BatchOK({})
  BY DEF BatchOK
<1>7. BatchInv'
  BY <1>5, <1>6 DEF RelayInv, BatchInv
<1>8. HandedInv' /\ RunInv' /\ deleted' \subseteq handed'
  BY <1>1 DEF RelayInv, HandedInv, RunInv
<1> QED BY <1>3, <1>4, <1>7, <1>8 DEF RelayInv

(* A transaction in flight is settled for nobody, so its end takes nothing *)
(* back that the relay relies on.                                          *)
LEMMA WriterStep ==
  ASSUME TypeOK, RelayInv, NEW x \in Txs, Publish(x) \/ EndTx(x)
  PROVE  RelayInv' /\ Committed \subseteq Committed'
                   /\ \A e \in Committed' \ Committed : e[1] = x /\ \A y : Settled(y) => ~(x <= y)
<1>0. /\ tx \in [Txs -> {"none", "open", "committed", "aborted"}]
      /\ n \in [Txs -> 0..MaxRows]
  BY DEF TypeOK
<1>1. UNCHANGED <<deleted, offset, handed, router>> /\ tx[x] \in {"none", "open"}
      /\ \E s \in {"open", "committed", "aborted"} : tx' = [tx EXCEPT ![x] = s]
      /\ n' \in [Txs -> Nat] /\ \A y \in Txs : y # x => n'[y] = n[y]
  BY <1>0, RelayConstants DEF Publish, EndTx
<1>2. \A y : Settled(y) => Settled(y)' /\ ~(x <= y)
  BY <1>0, <1>1 DEF Settled
<1>3. \A e \in Rows : e[1] # x => (e \in Committed' <=> e \in Committed)
  BY <1>0, <1>1, RowParts DEF Committed
<1>4. \A e \in Committed : e[1] # x
  BY <1>1 DEF Committed
<1>5. /\ Committed \subseteq Committed'
      /\ \A e \in Committed' \ Committed : e[1] = x
  BY <1>3, <1>4 DEF Committed
<1>6. ASSUME NEW f, Settled(f[1]), f[1] \in Nat,
             NEW e \in Committed', e \notin Committed
      PROVE  e # f /\ ~Before(e, f)
  <2>1. e[1] = x /\ ~(x <= f[1])
    BY <1>2, <1>5, <1>6
  <2>2. x \in Nat
    BY RelayConstants DEF Txs
  <2> QED BY <1>6, <2>1, <2>2 DEF Before
<1>7. ASSUME NEW f, Settled(f[1]), f[1] \in Nat, Covered(f)
      PROVE  Covered(f)'
  BY <1>1, <1>6, <1>7 DEF Covered
<1>8. OffsetInv'
  <2>1. offset # Unregistered => offset[1] \in Nat
    BY RowParts DEF TypeOK, Origin
  <2> QED BY <1>1, <1>2, <1>7, <2>1 DEF RelayInv, OffsetInv
<1>9. LastInv'
  <2>1. \A r \in Routers : router[r].last[1] \in Nat
    BY RowParts DEF TypeOK, Origin
  <2> QED BY <1>1, <1>2, <1>7, <2>1 DEF RelayInv, LastInv
<1>12. BatchInv'
  <2> SUFFICES ASSUME NEW r \in Routers, NEW b \in router[r].batch
               PROVE  /\ b \in Committed' /\ Settled(b[1])'
                      /\ \A e \in Committed' : Before(e, b) => e \in handed \union router[r].batch
    BY <1>1 DEF BatchInv, BatchOK
  <2>1. /\ b \in Committed /\ Settled(b[1])
        /\ \A e \in Committed : Before(e, b) => e \in handed \union router[r].batch
    BY DEF RelayInv, BatchInv, BatchOK
  <2>2. b[1] \in Nat
    BY <2>1, RowParts DEF Committed
  <2> QED BY <1>2, <1>5, <1>6, <2>1, <2>2
<1>11. HandedInv' /\ RunInv' /\ deleted' \subseteq handed'
  BY <1>1, <1>2, <1>5 DEF RelayInv, HandedInv, RunInv
<1> QED BY <1>2, <1>5, <1>8, <1>9, <1>12, <1>11 DEF RelayInv

(* The event with the handler: everything before it was handed on.         *)
LEMMA CurrentNext ==
  ASSUME TypeOK, RelayInv, NEW r \in Routers, NEW e \in Current(r)
  PROVE  /\ e \in Committed /\ Settled(e[1]) /\ e \in router[r].batch
         /\ \A c \in Committed : Before(c, e) => c \in handed
<1>1. /\ e \in router[r].batch /\ \A f \in router[r].batch : f = e \/ Before(e, f)
  BY DEF Current
<1>2. /\ e \in Committed /\ Settled(e[1])
      /\ \A c \in Committed : Before(c, e) => c \in handed \union router[r].batch
  BY <1>1 DEF RelayInv, BatchInv, BatchOK
<1>3. ASSUME NEW c \in Committed, Before(c, e)
      PROVE  c \notin router[r].batch
  <2>1. c # e /\ ~Before(e, c)
    BY <1>2, <1>3, BeforeAsymmetric DEF Committed
  <2> QED BY <1>1, <2>1
<1> QED BY <1>1, <1>2, <1>3

(* More is handed on, and one router goes on: Handle and HandleNack.       *)
LEMMA HandleStep ==
  ASSUME TypeOK, RelayInv, NEW r \in Routers, NEW e \in Current(r),
         handed' = handed \union {e}, UNCHANGED <<tx, n, deleted, offset>>,
         \/ router' = [router EXCEPT ![r].batch = @ \ {e}, ![r].last = e]
         \/ router' = router
  PROVE  RelayInv'
<1>0. router \in [Routers -> RouterRecord] /\ Committed \subseteq Rows
  BY TypeParts DEF RelayTypeOK, Committed
<1>1. UNCHANGED Committed /\ \A x : Settled(x)' = Settled(x)
  BY DEF Committed, Settled
<1>2. /\ e \in Committed /\ Settled(e[1]) /\ e \in router[r].batch
      /\ \A c \in Committed : Before(c, e) => c \in handed
  BY CurrentNext
<1>3. \A f : Covered(f) => Covered(f)'
  BY <1>1 DEF Covered
<1>4. Covered(e)'
  BY <1>1, <1>2 DEF Covered
<1>5. OffsetInv'
  BY <1>1, <1>3 DEF RelayInv, OffsetInv
<1>6. \A q \in Routers :
        /\ router'[q].last = router[q].last \/ router'[q].last = e
        /\ router'[q].batch = router[q].batch \/ router'[q].batch = router[q].batch \ {e}
        /\ router'[q].st = router[q].st
  BY <1>0 DEF RouterRecord
<1>7. LastInv'
  BY <1>1, <1>2, <1>3, <1>4, <1>6 DEF RelayInv, LastInv
<1>8. ASSUME NEW B, BatchOK(B)
      PROVE  BatchOK(B)' /\ BatchOK(B \ {e})'
  BY <1>1, <1>8 DEF BatchOK
<1>9. BatchInv'
  BY <1>6, <1>8 DEF RelayInv, BatchInv
<1>11. HandedInv' /\ RunInv' /\ deleted' \subseteq handed'
  BY <1>1, <1>2, <1>6 DEF RelayInv, HandedInv, RunInv
<1> QED BY <1>5, <1>7, <1>9, <1>11 DEF RelayInv

(* What is fetched continues where the offset ends.                        *)
LEMMA FetchStep ==
  ASSUME TypeOK, RelayInv, NEW r \in Routers, Fetch(r)
  PROVE  RelayInv'
<1>0. router \in [Routers -> RouterRecord] /\ Committed \subseteq Rows
  BY TypeParts DEF RelayTypeOK, Committed
<1>1. PICK B \in SUBSET Unread :
        /\ \A e \in B, f \in Unread : Before(f, e) => f \in B
        /\ B # {}
        /\ router' = [router EXCEPT ![r].held = TRUE, ![r].batch = B]
  BY DEF Fetch
<1>2. UNCHANGED <<tx, n, deleted, offset, handed>>
  BY DEF Fetch, outbox
<1>3. UNCHANGED Committed /\ \A x : Settled(x)' = Settled(x)
  BY <1>2 DEF Committed, Settled
<1>4. \A f : Covered(f)' = Covered(f)
  BY <1>2, <1>3 DEF Covered
<1>5. \A C : BatchOK(C)' = BatchOK(C)
  BY <1>2, <1>3 DEF BatchOK
<1>6. BatchOK(B)
  <2> SUFFICES ASSUME NEW b \in B, NEW e \in Committed, Before(e, b)
               PROVE  e \in handed \union B
    BY DEF BatchOK, Unread, Stored
  <2>0. b \in Unread /\ b \in Rows /\ e \in Rows /\ Settled(b[1]) /\ Before(offset, b)
    BY <1>0 DEF Unread, Stored
  <2>1. CASE e \in deleted
    BY <2>1 DEF RelayInv
  <2>2. offset # Unregistered
    BY DEF RelayInv, RunInv, Fetch
  <2>3. CASE offset # Unregistered /\ (e = offset \/ Before(e, offset))
    BY <2>3 DEF RelayInv, OffsetInv, Covered
  <2>4. CASE e \notin deleted /\ Before(offset, e)
    <3>1. Settled(e[1])
      <4>1. e[1] \in Nat /\ b[1] \in Nat /\ e[1] <= b[1]
        BY <2>0, RowParts DEF Before
      <4> QED BY <2>0, <4>1, RelayConstants DEF Settled, Txs
    <3>2. e \in Unread
      BY <2>4, <3>1 DEF Unread, Stored
    <3> QED BY <1>1, <3>2
  <2>5. offset # Unregistered => e = offset \/ Before(e, offset) \/ Before(offset, e)
    <3> SUFFICES ASSUME offset # Unregistered
                 PROVE  e = offset \/ Before(e, offset) \/ Before(offset, e)
      OBVIOUS
    <3>1. offset[1] \in Nat /\ offset[2] \in Nat /\ offset = <<offset[1], offset[2]>>
      BY RowParts, TypeParts DEF RelayTypeOK, Origin
    <3>2. e[1] \in Nat /\ e[2] \in Nat /\ e = <<e[1], e[2]>>
      BY <2>0, RowParts
    <3> QED BY <3>1, <3>2 DEF Before
  <2> QED BY <2>1, <2>2, <2>3, <2>4, <2>5
<1>7. \A q \in Routers :
        /\ router'[q].last = router[q].last
        /\ router'[q].st = router[q].st
        /\ router'[q].batch = router[q].batch \/ router'[q].batch = B
  BY <1>0, <1>1 DEF RouterRecord
<1>8. OffsetInv' /\ LastInv' /\ BatchInv'
  BY <1>2, <1>3, <1>4, <1>5, <1>6, <1>7 DEF RelayInv, OffsetInv, LastInv, BatchInv
<1>9. HandedInv' /\ RunInv' /\ deleted' \subseteq handed'
  BY <1>2, <1>3, <1>7 DEF RelayInv, HandedInv, RunInv
<1> QED BY <1>8, <1>9 DEF RelayInv

(* Only what the offset has passed is cleaned up.                          *)
LEMMA ExpendableHanded ==
  ASSUME TypeOK, RelayInv
  PROVE  Expendable \subseteq handed
<1> SUFFICES ASSUME NEW e \in Expendable
             PROVE  e \in handed
  OBVIOUS
<1>1. e \in Committed /\ offset # Unregistered /\ Before(e, offset)
  BY DEF Expendable, Stored, Before
<1> QED BY <1>1 DEF RelayInv, OffsetInv, Covered

LEMMA RouterKeeps ==
  ASSUME TypeOK, RelayInv, NEW r \in Routers,
         RouterStep(r) \/ BuildFails(r) \/ RunFails(r) \/ HandleNack(r) \/ ConnectionLost(r) \/ Cleanup(r)
  PROVE  RelayInv'
<1>0. router \in [Routers -> RouterRecord]
  BY TypeParts DEF RelayTypeOK
<1>a. NoRouter.batch = {} /\ NoRouter.last = Origin /\ NoRouter.st = "none"
  BY DEF NoRouter
<1>1. CASE StartRouter(r)
  <2>1. /\ UNCHANGED <<tx, n, deleted, handed>> /\ router' = [router EXCEPT ![r].st = "run"]
        /\ offset' = IF offset = Unregistered THEN Origin ELSE offset
    BY <1>1 DEF StartRouter, outbox
  <2>2. UNCHANGED Committed /\ \A x : Settled(x)' = Settled(x)
    BY <2>1 DEF Committed, Settled
  <2>3. \A f : Covered(f)' = Covered(f)
    BY <2>1, <2>2 DEF Covered
  <2>4. \A C : BatchOK(C)' = BatchOK(C)
    BY <2>1, <2>2 DEF BatchOK
  <2>5. \A q \in Routers : router'[q].last = router[q].last /\ router'[q].batch = router[q].batch
    BY <1>0, <2>1 DEF RouterRecord
  <2>6. LastInv' /\ BatchInv'
    BY <2>2, <2>3, <2>4, <2>5 DEF RelayInv, LastInv, BatchInv
  <2>7. OffsetInv'
    <3>1. CASE offset = Unregistered
      BY <2>1, <3>1, OriginFirst DEF OffsetInv
    <3>2. CASE offset # Unregistered
      BY <2>1, <2>2, <2>3, <3>2 DEF OffsetInv, RelayInv
    <3> QED BY <3>1, <3>2
  <2>8. RunInv'
    BY <2>1 DEF RunInv, Origin, Unregistered
  <2> QED BY <2>1, <2>2, <2>6, <2>7, <2>8 DEF RelayInv, HandedInv
<1>2. CASE Fetch(r)
  BY <1>2, FetchStep
<1>3. CASE Handle(r) \/ HandleNack(r)
  BY <1>3, HandleStep DEF Handle, HandleNack
<1>4. CASE CutBatch(r)
  <2>1. PICK b \in SUBSET Current(r) : router' = [router EXCEPT ![r].batch = b]
    BY <1>4 DEF CutBatch
  <2>2. UNCHANGED <<tx, n, deleted, offset, handed>>
    BY <1>4 DEF CutBatch, outbox
  <2>3. UNCHANGED Committed /\ \A x : Settled(x)' = Settled(x)
    BY <2>2 DEF Committed, Settled
  <2>4. (\A f : Covered(f)' = Covered(f)) /\ \A C : BatchOK(C)' = BatchOK(C)
    BY <2>2, <2>3 DEF Covered, BatchOK
  <2>5. BatchOK(b)
    BY CurrentNext DEF BatchOK
  <2>6. \A q \in Routers : /\ router'[q].last = router[q].last /\ router'[q].st = router[q].st
                           /\ router'[q].batch = router[q].batch \/ router'[q].batch = b
    BY <1>0, <2>1 DEF RouterRecord
  <2>7. OffsetInv' /\ LastInv' /\ BatchInv'
    BY <2>2, <2>3, <2>4, <2>5, <2>6 DEF RelayInv, OffsetInv, LastInv, BatchInv
  <2>8. HandedInv' /\ RunInv'
    BY <2>2, <2>3, <2>6 DEF RelayInv, HandedInv, RunInv
  <2> QED BY <2>2, <2>7, <2>8 DEF RelayInv
<1>5. CASE Ack(r)
  <2>1. /\ UNCHANGED <<tx, n, deleted, handed>>
        /\ router' = [router EXCEPT ![r].held = FALSE, ![r].last = Origin]
        /\ offset' = offset \/ (offset' = router[r].last /\ router[r].last # Origin)
    BY <1>5 DEF Ack, Acked, outbox
  <2>2. UNCHANGED Committed /\ \A x : Settled(x)' = Settled(x)
    BY <2>1 DEF Committed, Settled
  <2>3. (\A f : Covered(f)' = Covered(f)) /\ \A C : BatchOK(C)' = BatchOK(C)
    BY <2>1, <2>2 DEF Covered, BatchOK
  <2>4. \A q \in Routers : /\ router'[q].last = router[q].last \/ router'[q].last = Origin
                           /\ router'[q].batch = router[q].batch /\ router'[q].st = router[q].st
    BY <1>0, <2>1 DEF RouterRecord
  <2>5. LastInv' /\ BatchInv'
    BY <2>2, <2>3, <2>4, OriginFirst DEF RelayInv, LastInv, BatchInv
  <2>6. OffsetInv'
    BY <2>1, <2>2, <2>3 DEF RelayInv, OffsetInv, LastInv
  <2>7. router[r].last # Origin => router[r].last # Unregistered
    BY <1>0, RowParts DEF RouterRecord, Rows, Unregistered
  <2>8. HandedInv' /\ RunInv'
    BY <2>1, <2>2, <2>4, <2>7 DEF RelayInv, HandedInv, RunInv
  <2> QED BY <2>1, <2>5, <2>6, <2>8 DEF RelayInv
<1>6. CASE AckFails(r) \/ ConnectionLost(r)
  <2>1. UNCHANGED <<tx, n, deleted, offset, handed>>
    BY <1>6 DEF AckFails, ConnectionLost, outbox
  <2>2. \A q \in Routers : /\ router'[q].last = router[q].last \/ router'[q].last = Origin
                           /\ router'[q].batch = router[q].batch /\ router'[q].st = router[q].st
    BY <1>0, <1>6 DEF AckFails, ConnectionLost, RouterRecord
  <2> QED BY <2>1, <2>2, QuietStep
<1>7. CASE CloseRouter(r) \/ BuildFails(r)
  <2>1. UNCHANGED <<tx, n, deleted, offset, handed>> /\ router' = [router EXCEPT ![r] = NoRouter]
    BY <1>7 DEF CloseRouter, BuildFails, outbox
  <2> QED BY <1>0, <1>a, <2>1, QuietStep
<1>b. CASE RunFails(r)
  <2>1. UNCHANGED <<tx, n, deleted, offset, handed>> /\ router' = [router EXCEPT ![r].st = "stopped"]
    BY <1>b DEF RunFails, outbox
  <2>2. \A q \in Routers : /\ router'[q].batch = router[q].batch /\ router'[q].last = router[q].last
                           /\ router'[q].st = "run" => router[q].st = "run"
    BY <1>0, <2>1 DEF RouterRecord
  <2> QED BY <2>1, <2>2, QuietStep
<1>8. CASE Cleanup(r)
  <2>1. UNCHANGED <<tx, n, offset, handed, router>> /\ deleted' \subseteq handed
    BY <1>8, ExpendableHanded DEF Cleanup, RelayInv
  <2>2. UNCHANGED Committed /\ \A x : Settled(x)' = Settled(x)
    BY <2>1 DEF Committed, Settled
  <2>3. (\A f : Covered(f)' = Covered(f)) /\ \A C : BatchOK(C)' = BatchOK(C)
    BY <2>1, <2>2 DEF Covered, BatchOK
  <2> QED BY <2>1, <2>2, <2>3 DEF RelayInv, OffsetInv, LastInv, BatchInv, HandedInv, RunInv
<1> QED BY <1>1, <1>2, <1>3, <1>4, <1>5, <1>6, <1>7, <1>8, <1>b DEF RouterStep

LEMMA ElectionKeeps ==
  ASSUME TypeOK, RelayInv, Elections
  PROVE  RelayInv' /\ UNCHANGED outbox
<1>0. router \in [Routers -> RouterRecord]
  BY TypeParts DEF RelayTypeOK
<1>a. NoRouter.batch = {} /\ NoRouter.last = Origin /\ NoRouter.st = "none"
  BY DEF NoRouter
<1>1. ASSUME NEW m \in Nodes, Promote(m)
      PROVE  RelayInv' /\ UNCHANGED outbox
  <2>1. PICK r \in Routers :
          router' = [router EXCEPT ![r] = [NoRouter EXCEPT !.node = m, !.live = ctx'[m], !.st = "building"]]
    BY <1>1 DEF Promote
  <2>2. \A q \in Routers :
          \/ router'[q] = router[q]
          \/ router'[q].batch = {} /\ router'[q].last = Origin /\ router'[q].st = "building"
    BY <1>0, <2>1 DEF NoRouter
  <2>3. UNCHANGED <<tx, n, deleted, offset, handed>> /\ UNCHANGED outbox
    BY <1>1 DEF Promote, outbox
  <2> QED BY <2>2, <2>3, QuietStep
<1>2. ASSUME NEW m \in Nodes, Demote(m)
      PROVE  RelayInv' /\ UNCHANGED outbox
  <2>1. \A q \in Routers : /\ router'[q].batch = router[q].batch /\ router'[q].last = router[q].last
                           /\ router'[q].st = router[q].st
    BY <1>0, <1>2 DEF Demote, Cancelled, RouterRecord
  <2>2. UNCHANGED <<tx, n, deleted, offset, handed>> /\ UNCHANGED outbox
    BY <1>2 DEF Demote, outbox
  <2> QED BY <2>1, <2>2, QuietStep
<1>3. ASSUME NEW m \in Nodes, Die(m) \/ Reboot(m)
      PROVE  RelayInv' /\ UNCHANGED outbox
  <2>1. \A q \in Routers : router'[q] = router[q] \/ router'[q] = NoRouter
    BY <1>3 DEF Die, Reboot, Killed
  <2>2. UNCHANGED <<tx, n, deleted, offset, handed>> /\ UNCHANGED outbox
    BY <1>3 DEF Die, Reboot, outbox
  <2> QED BY <1>a, <2>1, <2>2, QuietStep
<1>4. ASSUME UNCHANGED relayVars
      PROVE  RelayInv' /\ UNCHANGED outbox
  BY <1>4, QuietStep DEF relayVars, outbox
<1> QED BY <1>1, <1>2, <1>3, <1>4 DEF Elections

LEMMA InitInv == Init => RelayInv
<1> SUFFICES ASSUME Init PROVE RelayInv
  OBVIOUS
<1>1. \A r \in Routers : router[r].batch = {} /\ router[r].last = Origin /\ router[r].st = "none"
  BY DEF Init, NoRouter
<1>2. LastInv /\ BatchInv /\ RunInv
  BY <1>1, OriginFirst DEF LastInv, BatchInv, BatchOK, RunInv
<1>3. OffsetInv /\ HandedInv /\ deleted \subseteq handed
  BY DEF Init, OffsetInv, HandedInv
<1> QED BY <1>2, <1>3 DEF RelayInv

LEMMA StepInv ==
  ASSUME TypeOK, RelayInv, [Next]_vars
  PROVE  RelayInv'
<1>1. CASE UNCHANGED vars
  BY <1>1, QuietStep DEF vars, relayVars
<1> QED BY <1>1, WriterStep, ElectionKeeps, RouterKeeps DEF Next, Writers, Relay

(* The inductive invariant of the relay: what each router has read and     *)
(* handled, in whichever term, continues where the offset ends.            *)
THEOREM RelayInvariance == Spec => []RelayInv
BY InitInv, StepInv, Typing, PTL DEF Spec

(* No event is passed over, for any overlap of terms, crashes and lost     *)
(* connections (messages_offsets, subscriber.go).                          *)
THEOREM NoEventSkipped == Spec => []NothingSkipped
<1>1. RelayInv => NothingSkipped
  BY DEF RelayInv, OffsetInv, Covered, NothingSkipped
<1> QED BY <1>1, RelayInvariance, PTL

-----------------------------------------------------------------------------
(* The refinement.                                                         *)

(* A commit records the events of its transaction, all of them after what  *)
(* was handed on; a rollback and an open transaction record none.          *)
LEMMA WriterRefines ==
  ASSUME TypeOK, RelayInv, NEW x \in Txs, Publish(x) \/ EndTx(x)
  PROVE  \E E \in SUBSET Rows : Log!Record(E)
<1> DEFINE E == Committed' \ Committed
<1>1. /\ Committed \subseteq Committed'
      /\ \A e \in E : e[1] = x /\ \A y : Settled(y) => ~(x <= y)
  BY WriterStep
<1>2. UNCHANGED <<handed, deleted>>
  BY DEF Publish, EndTx
<1>3. Committed \subseteq Rows /\ Committed' \subseteq Rows
  BY DEF Committed
<1>4. ASSUME NEW e \in E, NEW f \in handed
      PROVE  Log!Before(f, e)
  <2>1. f \in Rows /\ Settled(f[1]) /\ e \in Rows
    BY <1>3 DEF RelayInv, HandedInv
  <2>2. ~(e[1] <= f[1])
    BY <1>1, <2>1
  <2> QED BY <2>1, <2>2, RowParts DEF Log!Before
<1>5. \A e \in E : e \notin deleted
  BY DEF RelayInv, HandedInv
<1>6. Stored' = Stored \union E /\ Committed' = Committed \union E
  BY <1>1, <1>2, <1>5 DEF Stored
<1>7. Log!Record(E)
  BY <1>2, <1>4, <1>6 DEF Log!Record
<1> QED BY <1>3, <1>7

(* The handler hands on the next event of the log.                         *)
LEMMA HandleRefines ==
  ASSUME TypeOK, RelayInv, NEW r \in Routers, Handle(r) \/ HandleNack(r)
  PROVE  \E e \in Rows : Log!Hand(e)
<1>1. PICK e \in Current(r) : handed' = handed \union {e}
  BY DEF Handle, HandleNack
<1>2. e \in Committed /\ \A c \in Committed : Before(c, e) => c \in handed
  BY CurrentNext
<1>3. UNCHANGED <<Committed, Stored>>
  BY DEF Handle, HandleNack, Committed, Stored
<1>4. Log!Hand(e)
  BY <1>1, <1>2, <1>3 DEF Log!Hand, Log!Before, Before
<1> QED BY <1>2, <1>4 DEF Committed

(* Clean-up forgets only what was handed on.                               *)
LEMMA CleanupRefines ==
  ASSUME TypeOK, RelayInv, NEW r \in Routers, Cleanup(r)
  PROVE  \E D \in SUBSET Rows : Log!Discard(D)
<1>1. PICK D \in SUBSET Expendable : deleted' = deleted \union D
  BY DEF Cleanup
<1>2. D \subseteq handed /\ D \subseteq Rows
  BY ExpendableHanded DEF Expendable, Stored, Committed
<1>3. UNCHANGED <<Committed, handed>>
  BY DEF Cleanup, Committed
<1>4. Stored' = Stored \ D
  BY <1>1, <1>3 DEF Stored
<1>5. Log!Discard(D)
  BY <1>2, <1>3, <1>4 DEF Log!Discard
<1> QED BY <1>2, <1>5

LEMMA StepRefines ==
  ASSUME TypeOK, RelayInv, [Next]_vars
  PROVE  [Log!LogNext]_(Log!logVars)
<1>0. ASSUME UNCHANGED outbox
      PROVE  UNCHANGED Log!logVars
  BY <1>0 DEF outbox, Log!logVars, Committed, Stored
<1>1. ASSUME NEW x \in Txs, Publish(x) \/ EndTx(x)
      PROVE  Log!LogNext
  BY <1>1, WriterRefines DEF Log!LogNext
<1>2. CASE Elections
  BY <1>0, <1>2, ElectionKeeps
<1>3. ASSUME NEW r \in Routers, Handle(r) \/ HandleNack(r)
      PROVE  Log!LogNext
  BY <1>3, HandleRefines DEF Log!LogNext
<1>4. ASSUME NEW r \in Routers, Cleanup(r)
      PROVE  Log!LogNext
  BY <1>4, CleanupRefines DEF Log!LogNext
<1>5. ASSUME NEW r \in Routers,
             \/ StartRouter(r) \/ Fetch(r) \/ CutBatch(r) \/ Ack(r) \/ AckFails(r)
             \/ CloseRouter(r) \/ BuildFails(r) \/ RunFails(r) \/ ConnectionLost(r)
      PROVE  UNCHANGED outbox
  BY <1>5 DEF StartRouter, Fetch, CutBatch, Ack, AckFails, CloseRouter, BuildFails, RunFails, ConnectionLost, outbox
<1>6. CASE UNCHANGED vars
  BY <1>0, <1>6 DEF vars, relayVars, outbox
<1> QED BY <1>0, <1>1, <1>2, <1>3, <1>4, <1>5, <1>6 DEF Next, Writers, Relay, RouterStep

LEMMA InitRefines == Init => Log!LogInit
<1> SUFFICES ASSUME Init PROVE Log!LogInit
  OBVIOUS
<1>1. \A e \in Rows : tx[e[1]] = "none"
  BY RowParts DEF Init
<1>2. Committed = {} /\ Stored = {}
  BY <1>1 DEF Committed, Stored
<1> QED BY <1>2 DEF Init, Log!LogInit

(* The relay implements the at-least-once log: in the order of the log,    *)
(* nothing forgotten before it was handed on (ImplementsLog).              *)
THEOREM RelayImplementsLog == Spec => ImplementsLog
BY InitRefines, StepRefines, Typing, RelayInvariance, PTL DEF Spec, ImplementsLog, Log!LogSpec
=============================================================================
