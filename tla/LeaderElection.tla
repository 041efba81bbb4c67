--------------------------- MODULE LeaderElection ---------------------------
(***************************************************************************)
(* Which node relays the outbox: the election loop of every node over one  *)
(* Consul key.                                                             *)
(*                                                                         *)
(* An attempt creates a session, tries to acquire the key with it and then *)
(* either watches the key or leads.  A leader renews its session, watches  *)
(* the key, and steps down when a renewal fails, its worker cannot start,  *)
(* the key is no longer its own or the watch fails.  It releases the key   *)
(* first; only then is its context cancelled (the deferred cancelLeader)   *)
(* and its session destroyed, so the next leader may start meanwhile.      *)
(*                                                                         *)
(* Consul itself is modelled from how the loop uses it: a session holds    *)
(* the key until it is released, destroyed or expires, and the last two    *)
(* start a lock delay in which nobody may acquire the key.                 *)
(*                                                                         *)
(* Source: infra/discovery/consul/leader.go.                               *)
(***************************************************************************)
EXTENDS Naturals, FiniteSets

CONSTANTS
    Nodes,      \* instances of the service
    Free,       \* the key is held by no session
    MaxFaults   \* bound: crashes, restarts, expiries and failed calls

ASSUME ElectionConstants ==
    /\ Nodes # {}
    /\ Free \notin Nodes \X {"own", "old"}
    /\ MaxFaults \in Nat

VARIABLES
    lock,       \* the session that holds the key: a node's own one, or an old
                \* one that an attempt left behind
    delay,      \* the lock delay is in force
    sess,       \* sess[n]: the session of n's attempt is valid
    phase,      \* phase[n]: where n's loop is
    ctx,        \* ctx[n]: n's leader context is live
    quit,       \* quit[n]: n is shutting down
    faults      \* faults so far

electionVars == <<lock, delay, sess, phase, ctx, quit, faults>>

Phases == {"down", "start", "session", "watch", "lead", "release", "leave"}

ElectionTypeOK ==
    /\ lock \in (Nodes \X {"own", "old"}) \union {Free}
    /\ delay \in BOOLEAN
    /\ sess \in [Nodes -> BOOLEAN]
    /\ phase \in [Nodes -> Phases]
    /\ ctx \in [Nodes -> BOOLEAN]
    /\ quit \in [Nodes -> BOOLEAN]
    /\ faults \in 0..MaxFaults

ElectionInit ==
    /\ lock = Free
    /\ delay = FALSE
    /\ sess = [n \in Nodes |-> FALSE]
    /\ phase = [n \in Nodes |-> "start"]
    /\ ctx = [n \in Nodes |-> FALSE]
    /\ quit = [n \in Nodes |-> FALSE]
    /\ faults = 0

Own(n) == <<n, "own">>
Old(n) == <<n, "old">>

Fault    == faults < MaxFaults /\ faults' = faults + 1
NoFault  == UNCHANGED faults
Go(n, p) == phase' = [phase EXCEPT ![n] = p]

\* Session invalidation: a lock it holds is freed, with a delay.
Invalidate(n) ==
    /\ sess' = [sess EXCEPT ![n] = FALSE]
    /\ IF lock = Own(n) THEN lock' = Free /\ delay' = TRUE ELSE UNCHANGED lock /\ UNCHANGED delay

\* destroySession at the end of an attempt: when the call fails the session lives on
\* until its TTL.
DestroySession(n) ==
    \/ Invalidate(n) /\ NoFault
    \/ /\ Fault
       /\ sess' = [sess EXCEPT ![n] = FALSE]
       /\ IF lock = Own(n) THEN lock' = Old(n) ELSE UNCHANGED lock
       /\ UNCHANGED delay

-----------------------------------------------------------------------------
(* attemptLeadership *)

\* createSession; a failure only waits and tries again.
CreateSession(n) ==
    /\ phase[n] = "start" /\ ~quit[n]
    /\ sess' = [sess EXCEPT ![n] = TRUE]
    /\ Go(n, "session")
    /\ UNCHANGED lock /\ NoFault
    /\ UNCHANGED <<delay, ctx, quit>>

\* acquireLock succeeds: the node is promoted and its leader context begins.
Acquire(n) ==
    /\ phase[n] = "session"
    /\ sess[n] /\ lock = Free /\ ~delay
    /\ lock' = Own(n)
    /\ ctx' = [ctx EXCEPT ![n] = ~quit[n]]
    /\ Go(n, "lead")
    /\ NoFault
    /\ UNCHANGED <<delay, sess, quit>>

\* acquireLock fails because the key is held, or may not be acquired yet.
NotAcquired(n) ==
    /\ phase[n] = "session"
    /\ sess[n] /\ (lock # Free \/ delay)
    /\ Go(n, "watch")
    /\ UNCHANGED lock /\ NoFault
    /\ UNCHANGED <<delay, sess, ctx, quit>>

\* acquireLock returns an error: always for a session that is no longer valid.
AcquireFails(n) ==
    /\ phase[n] = "session"
    /\ IF sess[n] THEN Fault /\ Invalidate(n) ELSE NoFault /\ UNCHANGED lock /\ UNCHANGED <<delay, sess>>
    /\ Go(n, "start")
    /\ UNCHANGED <<ctx, quit>>

\* watchKey returns for a change, after blockingWait, or for an error, so at any
\* time (the index it waits from is read after the failed attempt, and only the wait
\* time covers a release between the two); its session is destroyed and the loop
\* tries again.
watchKey(n) ==
    /\ phase[n] = "watch"
    /\ DestroySession(n)
    /\ Go(n, "start")
    /\ UNCHANGED <<ctx, quit>>

\* RenewPeriodic, or onStart, returns an error: the leader context is cancelled.
StepDown(n) ==
    /\ phase[n] = "lead"
    /\ ctx[n]
    /\ IF sess[n] THEN Fault ELSE NoFault
    /\ ctx' = [ctx EXCEPT ![n] = FALSE]
    /\ UNCHANGED <<lock, delay, sess, phase, quit>>

\* monitorLeadership returns: the context is done, or the key is not ours any more.
monitorLeadership(n) ==
    /\ phase[n] = "lead"
    /\ ~ctx[n] \/ lock # Own(n)
    /\ Go(n, "release")
    /\ UNCHANGED lock /\ NoFault
    /\ UNCHANGED <<delay, sess, ctx, quit>>

\* monitorLeadership returns because its query failed.
MonitorFails(n) ==
    /\ phase[n] = "lead"
    /\ ctx[n] /\ lock = Own(n)
    /\ Fault
    /\ Go(n, "release")
    /\ UNCHANGED lock
    /\ UNCHANGED <<delay, sess, ctx, quit>>

\* releaseLock hands the key off without a delay; a failed call leaves it to the
\* session.
releaseLock(n) ==
    /\ phase[n] = "release"
    /\ \/ lock = Own(n) /\ lock' = Free /\ NoFault
       \/ lock # Own(n) /\ UNCHANGED lock /\ NoFault
       \/ lock = Own(n) /\ UNCHANGED lock /\ Fault
    /\ Go(n, "leave")
    /\ UNCHANGED <<delay, sess, ctx, quit>>

\* The attempt returns: cancelLeader and destroySession run.
Leave(n) ==
    /\ phase[n] = "leave"
    /\ ctx' = [ctx EXCEPT ![n] = FALSE]
    /\ DestroySession(n)
    /\ Go(n, "start")
    /\ UNCHANGED quit

-----------------------------------------------------------------------------
(* The process and its environment *)

\* OnStop cancels the loop's context, and with it the leader's.
Shutdown(n) ==
    /\ phase[n] # "down" /\ ~quit[n]
    /\ Fault
    /\ quit' = [quit EXCEPT ![n] = TRUE]
    /\ ctx' = [ctx EXCEPT ![n] = FALSE]
    /\ UNCHANGED <<lock, delay, sess, phase>>

\* Run returns.
RunReturns(n) ==
    /\ phase[n] = "start" /\ quit[n]
    /\ Go(n, "down")
    /\ UNCHANGED lock /\ NoFault
    /\ UNCHANGED <<delay, sess, ctx, quit>>

\* The process dies: its session is left behind.
Crash(n) ==
    /\ phase[n] # "down"
    /\ Fault
    /\ Go(n, "down")
    /\ IF lock = Own(n) THEN lock' = Old(n) ELSE UNCHANGED lock
    /\ sess' = [sess EXCEPT ![n] = FALSE]
    /\ ctx' = [ctx EXCEPT ![n] = FALSE]
    /\ quit' = [quit EXCEPT ![n] = FALSE]
    /\ UNCHANGED delay

Restart(n) ==
    /\ phase[n] = "down"
    /\ quit' = [quit EXCEPT ![n] = FALSE]
    /\ Go(n, "start")
    /\ UNCHANGED lock /\ NoFault
    /\ UNCHANGED <<delay, sess, ctx>>

\* The TTL runs out while the node is paused or cut off from Consul.
Expire(n) ==
    /\ phase[n] \in {"session", "lead", "release"}
    /\ sess[n]
    /\ Fault
    /\ Invalidate(n)
    /\ UNCHANGED <<phase, ctx, quit>>

\* The TTL of a session left behind runs out.
ExpireOld ==
    /\ \E n \in Nodes : lock = Old(n)
    /\ lock' = Free
    /\ delay' = TRUE
    /\ NoFault
    /\ UNCHANGED <<sess, phase, ctx, quit>>

\* The lock delay is over; the key itself does not change.
DelayEnds ==
    /\ delay
    /\ delay' = FALSE
    /\ UNCHANGED lock /\ NoFault
    /\ UNCHANGED <<sess, phase, ctx, quit>>

\* The steps of n's loop other than its promotion.
Loop(n) ==
    \/ CreateSession(n)
    \/ NotAcquired(n)
    \/ AcquireFails(n)
    \/ watchKey(n)
    \/ monitorLeadership(n)
    \/ MonitorFails(n)
    \/ releaseLock(n)
    \/ RunReturns(n)
=============================================================================
