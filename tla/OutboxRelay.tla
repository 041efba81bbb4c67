---------------------------- MODULE OutboxRelay ----------------------------
(***************************************************************************)
(* From a mutation's transaction to the broker: outbox rows, the relay of  *)
(* every leadership term, the consumer group's offset and the clean-up.    *)
(*                                                                         *)
(* A mutation writes its events to messages_outbox in its own transaction. *)
(* Each promotion of LeaderElection starts a router with a subscriber of   *)
(* its own.  The subscriber (a library) works in transactions: it locks    *)
(* the group's row of messages_offsets, reads the rows beyond it that are  *)
(* older than every transaction in flight, passes them to the handler one  *)
(* by one, and moves the offset when it commits.  When its connection is   *)
(* lost PostgreSQL frees the lock at once, and the subscriber only learns  *)
(* of it when it wants to commit: until then two routers relay.            *)
(*                                                                         *)
(* Sources: adapter/pubsub/{forwarder,subscriber,publisher}.go,            *)
(* store/postgres/{outbox,uow}.go.                                         *)
(***************************************************************************)
EXTENDS LeaderElection

CONSTANTS
    Routers,    \* bound: routers that exist at the same time
    MaxTx,      \* bound: transactions
    MaxRows,    \* bound: events of a transaction
    BatchSize   \* rows a subscriber reads, and clean-up deletes, at a time

ASSUME RelayConstants ==
    /\ Routers # {}
    /\ MaxTx \in Nat
    /\ MaxRows \in Nat
    /\ BatchSize \in Nat \ {0}

VARIABLES
    tx,         \* tx[x]: transaction x
    n,          \* n[x]: events it has written to the outbox
    deleted,    \* outbox rows removed by clean-up
    offset,     \* the group's committed offset, the last row acknowledged
    handed,     \* rows handed to the broker or to its dead letter topic
    router      \* router[r]

relayVars == <<tx, n, deleted, offset, handed, router>>
vars == <<electionVars, relayVars>>
outbox == <<tx, n, deleted, handed>>

Txs    == 1..MaxTx
Rows   == Txs \X (1..MaxRows)
Origin == <<0, 0>>      \* the offset a new group starts with
Unregistered == <<>>    \* the group has no row in messages_offsets yet

\* node: whose term it serves; live: the term's leader context is not cancelled;
\* st: not there, being built, running, or stopped by an error; held: it holds the lock on the offset row;
\* batch: the rows read and not handled yet; last: the last one handled.
NoRouter == [node |-> CHOOSE m \in Nodes : TRUE, live |-> FALSE, st |-> "none",
             held |-> FALSE, batch |-> {}, last |-> Origin]

Before(e, f) == e[1] < f[1] \/ (e[1] = f[1] /\ e[2] < f[2])

Committed == {r \in Rows : tx[r[1]] = "committed" /\ r[2] <= n[r[1]]}
Stored    == Committed \ deleted

Log == INSTANCE EventLog WITH Events <- Rows, committed <- Committed, stored <- Stored

TypeOK ==
    /\ ElectionTypeOK
    /\ tx \in [Txs -> {"none", "open", "committed", "aborted"}]
    /\ n \in [Txs -> 0..MaxRows]
    /\ deleted \subseteq Rows
    /\ offset \in Rows \union {Origin, Unregistered}
    /\ handed \subseteq Rows
    /\ router \in [Routers -> [node : Nodes, live : BOOLEAN, st : {"none", "building", "run", "stopped"},
                               held : BOOLEAN, batch : SUBSET Rows, last : Rows \union {Origin}]]

-----------------------------------------------------------------------------
(* The mutation's transaction *)

\* outboxStore.Publish, always inside the transaction, which has its id from its first
\* write; what it writes before its first event is left out.
Publish(x) ==
    /\ \/ tx[x] = "none" /\ \A y \in 1..(x - 1) : tx[y] # "none"
       \/ tx[x] = "open"
    /\ n[x] < MaxRows
    /\ tx' = [tx EXCEPT ![x] = "open"]
    /\ n' = [n EXCEPT ![x] = @ + 1]
    /\ UNCHANGED <<electionVars, deleted, offset, handed, router>>

\* WithinTransaction ends in a commit or a rollback.
EndTx(x) ==
    /\ tx[x] = "open"
    /\ \E s \in {"committed", "aborted"} : tx' = [tx EXCEPT ![x] = s]
    /\ UNCHANGED <<electionVars, n, deleted, offset, handed, router>>

-----------------------------------------------------------------------------
(* Terms *)

\* The routers whose context hangs on node m's leader context.
Cancelled(rs, m) == [r \in Routers |-> IF rs[r].node = m THEN [rs[r] EXCEPT !.live = FALSE] ELSE rs[r]]
Killed(rs, m)    == [r \in Routers |-> IF rs[r].node = m THEN NoRouter ELSE rs[r]]

\* onStart: every term builds a router and a subscriber of its own.
Promote(m) ==
    /\ Acquire(m)
    /\ \E r \in Routers :
         /\ router[r].st = "none"
         /\ router' = [router EXCEPT ![r] = [NoRouter EXCEPT !.node = m, !.live = ctx'[m], !.st = "building"]]
    /\ UNCHANGED <<outbox, offset>>

Demote(m) ==
    /\ StepDown(m) \/ Leave(m) \/ Shutdown(m)
    /\ router' = Cancelled(router, m)
    /\ UNCHANGED <<outbox, offset>>

Die(m) ==
    /\ Crash(m)
    /\ router' = Killed(router, m)
    /\ UNCHANGED <<outbox, offset>>

\* OnStop waits for the routers, or times out and the process ends with them.
Reboot(m) ==
    /\ Restart(m)
    /\ router' = Killed(router, m)
    /\ UNCHANGED <<outbox, offset>>

\* router.Run subscribes: the subscriber registers its group.
StartRouter(r) ==
    /\ router[r].st = "building"
    /\ router' = [router EXCEPT ![r].st = "run"]
    /\ offset' = IF offset = Unregistered THEN Origin ELSE offset
    /\ UNCHANGED <<electionVars, outbox>>

\* Mutant: the error of onStart is only logged, and the node keeps the lock.
BuildFailsMutant(r) ==
    /\ router[r].st = "building"
    /\ Fault
    /\ router' = [router EXCEPT ![r] = NoRouter]
    /\ UNCHANGED <<lock, delay, sess, phase, ctx, quit, outbox, offset>>

\* newForwarderRouter returns an error: the term ends.
BuildFails(r) ==
    LET m == router[r].node
    IN  /\ router[r].st = "building"
        /\ Fault
        /\ ctx' = [ctx EXCEPT ![m] = ctx[m] /\ ~router[r].live]
        /\ router' = [router EXCEPT ![r] = NoRouter]
        /\ UNCHANGED <<lock, delay, sess, phase, quit, outbox, offset>>

\* router.Run returns an error, because the subscription fails: by then onStart has
\* returned, so the goroutine logs the error and closes the router.  The term goes on:
\* the node keeps the key, its context and its clean-up jobs, and relays nothing.
RunFails(r) ==
    /\ router[r].st = "building"
    /\ Fault
    /\ router' = [router EXCEPT ![r].st = "stopped"]
    /\ UNCHANGED <<lock, delay, sess, phase, ctx, quit, outbox, offset>>

-----------------------------------------------------------------------------
(* The relay *)

\* Transaction x is older than all in flight: its id is less than pg_snapshot_xmin.
Settled(x) == \A y \in Txs : y <= x => tx[y] \in {"committed", "aborted"}

\* The rows beyond the offset of settled transactions.
Unread == {r \in Stored : Before(offset, r) /\ Settled(r[1])}

\* The subscriber's transaction: lock the offset, read the first rows beyond it.
Fetch(r) ==
    /\ router[r].st = "run" /\ router[r].live
    /\ router[r].batch = {} /\ router[r].last = Origin
    /\ \A q \in Routers : ~router[q].held
    /\ \E B \in SUBSET Unread :
         /\ B # {}
         /\ Cardinality(B) = BatchSize \/ (Cardinality(B) < BatchSize /\ B = Unread)
         /\ \A e \in B, f \in Unread : Before(f, e) => f \in B
         /\ router' = [router EXCEPT ![r].held = TRUE, ![r].batch = B]
    /\ UNCHANGED <<electionVars, outbox, offset>>

\* The event the subscriber has passed to the handler: the first of its batch, if any.
Current(r) == {e \in router[r].batch : \A f \in router[r].batch : f = e \/ Before(e, f)}

\* Mutant: a publication that fails is logged and not returned as an error.
HandleMutant(r) ==
    /\ \E e \in Current(r) :
         /\ handed' \in {handed, handed \union {e}}
         /\ router' = [router EXCEPT ![r].batch = @ \ {e}, ![r].last = e]
    /\ UNCHANGED <<electionVars, tx, n, deleted, offset>>

\* handleOutboxEvent publishes, with retries; when all fail the poison queue takes the
\* event.
Handle(r) ==
    /\ \E e \in Current(r) :
         /\ handed' = handed \union {e}
         /\ router' = [router EXCEPT ![r].batch = @ \ {e}, ![r].last = e]
    /\ UNCHANGED <<electionVars, tx, n, deleted, offset>>

\* The poison queue fails too: the event is not acknowledged and is passed again,
\* although one of the attempts may have reached the broker (if none has, nothing changes).
HandleNack(r) ==
    /\ \E e \in Current(r) : handed' = handed \union {e}
    /\ UNCHANGED <<electionVars, tx, n, deleted, offset, router>>

\* The connection of the subscriber's transaction is lost, or closed because the term's
\* context is done: PostgreSQL rolls back.
ConnectionLost(r) ==
    /\ router[r].held
    /\ IF router[r].live THEN Fault ELSE NoFault
    /\ router' = [router EXCEPT ![r].held = FALSE]
    /\ UNCHANGED <<lock, delay, sess, phase, ctx, quit, outbox, offset>>

\* The term's context is done: the rest of the batch is dropped, except for an event
\* already with the handler.
CutBatch(r) ==
    /\ router[r].st = "run" /\ ~router[r].live
    /\ router[r].batch # {}
    /\ \E b \in SUBSET Current(r) : b # router[r].batch /\ router' = [router EXCEPT ![r].batch = b]
    /\ UNCHANGED <<electionVars, outbox, offset>>

\* Mutant: the offset is the next row to read, not the last one read.
AckedNextMutant(r) == <<router[r].last[1], router[r].last[2] + 1>>

\* The row the offset moves to.
Acked(r) == router[r].last

\* The end of the subscriber's transaction: the offset moves past what was handled.
Ack(r) ==
    /\ router[r].held
    /\ router[r].batch = {}
    /\ offset' = IF router[r].last = Origin THEN offset ELSE Acked(r)
    /\ router' = [router EXCEPT ![r].held = FALSE, ![r].last = Origin]
    /\ UNCHANGED <<electionVars, outbox>>

\* The commit fails, for a lost connection or a cancelled context: rolled back.
AckFails(r) ==
    /\ router[r].batch = {}
    /\ \/ ~router[r].held /\ router[r].last # Origin
       \/ router[r].held /\ ~router[r].live
    /\ router' = [router EXCEPT ![r].held = FALSE, ![r].last = Origin]
    /\ UNCHANGED <<electionVars, outbox, offset>>

\* The router of a finished term stops.
CloseRouter(r) ==
    /\ router[r].st # "none" /\ ~router[r].live
    /\ router[r].batch = {} /\ ~router[r].held /\ router[r].last = Origin
    /\ router' = [router EXCEPT ![r] = NoRouter]
    /\ UNCHANGED <<electionVars, outbox, offset>>

\* Mutant: the rows of the transaction the offset is in go too.
ExpendableMutant == {r \in Stored : offset # Unregistered /\ r[1] <= offset[1]}

\* Rows of transactions the group is past; none before the group is registered.
Expendable == {r \in Stored : offset # Unregistered /\ r[1] < offset[1]}

\* outboxStore.Cleanup, one statement: a batch of those beyond their retention.
Cleanup(r) ==
    /\ router[r].live
    /\ \E D \in SUBSET Expendable :
         /\ D # {} /\ Cardinality(D) <= BatchSize
         /\ deleted' = deleted \union D
    /\ UNCHANGED <<electionVars, tx, n, offset, handed, router>>

-----------------------------------------------------------------------------
(* Specification *)

Init ==
    /\ ElectionInit
    /\ tx = [x \in Txs |-> "none"]
    /\ n = [x \in Txs |-> 0]
    /\ deleted = {}
    /\ offset = Unregistered
    /\ handed = {}
    /\ router = [r \in Routers |-> NoRouter]

Writers == \E x \in Txs : Publish(x) \/ EndTx(x)

Elections ==
    \/ \E m \in Nodes : Promote(m) \/ Demote(m) \/ Die(m) \/ Reboot(m)
    \/ /\ \/ \E m \in Nodes : Loop(m) \/ Expire(m)
          \/ ExpireOld
          \/ DelayEnds
       /\ UNCHANGED relayVars

\* What a router does by itself.
RouterStep(r) ==
    \/ StartRouter(r)
    \/ Fetch(r)
    \/ Handle(r)
    \/ CutBatch(r)
    \/ Ack(r)
    \/ AckFails(r)
    \/ CloseRouter(r)

Relay == \E r \in Routers :
            RouterStep(r) \/ BuildFails(r) \/ RunFails(r) \/ HandleNack(r) \/ ConnectionLost(r) \/ Cleanup(r)

Next == Writers \/ Elections \/ Relay

Spec == Init /\ [][Next]_vars

\* Transactions end; every loop, lock delay and TTL runs on, a stopped process is
\* started again (systemd restarts it), and a router's own steps are taken: an event
\* that is not published is retried until the broker or the dead letters take it.
FairSpec ==
    /\ Spec
    /\ \A x \in Txs : WF_vars(EndTx(x))
    /\ \A m \in Nodes :
         /\ WF_vars(Loop(m) /\ UNCHANGED relayVars)
         /\ SF_vars(Promote(m))
         /\ WF_vars(StepDown(m) /\ router' = Cancelled(router, m) /\ UNCHANGED <<outbox, offset>>)
         /\ WF_vars(Leave(m) /\ router' = Cancelled(router, m) /\ UNCHANGED <<outbox, offset>>)
         /\ WF_vars(Reboot(m))
    /\ WF_vars(ExpireOld /\ UNCHANGED relayVars)
    /\ WF_vars(DelayEnds /\ UNCHANGED relayVars)
    /\ \A r \in Routers : WF_vars(RouterStep(r))

-----------------------------------------------------------------------------
(* Properties *)

\* No event is passed over: what the group's offset covers was handed on
\* (subscriber.go: "Store ack progress in messages_offsets to ensure At-Least-Once
\* delivery"), for every overlap of two terms, crash and lost connection.
NothingSkipped ==
    offset # Unregistered => \A e \in Committed : (e = offset \/ Before(e, offset)) => e \in handed

\* The relay implements the ordered log with at-least-once delivery; in particular
\* clean-up removes an event only after it was handed on (outbox.go Cleanup: "Delete
\* rows only when all consumer groups have confirmed consumption").
ImplementsLog == Log!LogSpec

\* Some term has a router that runs; some term has lost its router to an error of Run.
Relaying == \E r \in Routers : router[r].st = "run" /\ router[r].live
Stranded == \E r \in Routers : router[r].st = "stopped" /\ router[r].live

\* Every committed event is handed on in the end, whichever nodes fail on the way.  The
\* one exception is the error of router.Run that forwarder.go only logs: while the term
\* lasts whose router it ended, nothing is relayed.
Delivered == []<>(Committed \subseteq handed) \/ <>[]Stranded

\* The service is never left without a leader whose router runs: the loop survives
\* expiries, lock delays, failed calls, a release it did not see and a router that could
\* not be built; a term whose router.Run failed holds it up only while the term lasts.
Led == []<>Relaying \/ <>[]Stranded
=============================================================================
