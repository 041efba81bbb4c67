------------------------------ MODULE EventLog ------------------------------
(***************************************************************************)
(* What the outbox and its relay promise to the subscribers of live        *)
(* events: the events of committed transactions are handed on at least     *)
(* once, the first time in the order of the log, and the log forgets none  *)
(* that was not handed on.                                                 *)
(***************************************************************************)
EXTENDS Naturals

CONSTANT Events     \* pairs <<transaction, position in it>>

VARIABLES
    committed,      \* events of committed transactions
    stored,         \* those the log still holds
    handed          \* those handed on, to the broker or to its dead letters

logVars == <<committed, stored, handed>>

Before(e, f) == e[1] < f[1] \/ (e[1] = f[1] /\ e[2] < f[2])

LogInit == committed = {} /\ stored = {} /\ handed = {}

\* A transaction commits.  Nothing after its events was handed on before.
Record(E) ==
    /\ E \intersect committed = {}
    /\ \A e \in E, f \in handed : Before(f, e)
    /\ committed' = committed \union E
    /\ stored' = stored \union E
    /\ UNCHANGED handed

\* An event is handed on for the first time, after all events before it.
Hand(e) ==
    /\ e \in committed
    /\ \A f \in committed : Before(f, e) => f \in handed
    /\ handed' = handed \union {e}
    /\ UNCHANGED <<committed, stored>>

\* The log drops events that were handed on.
Discard(D) ==
    /\ D \subseteq handed
    /\ stored' = stored \ D
    /\ UNCHANGED <<committed, handed>>

LogNext ==
    \/ \E E \in SUBSET Events : Record(E)
    \/ \E e \in Events : Hand(e)
    \/ \E D \in SUBSET Events : Discard(D)

LogSpec == LogInit /\ [][LogNext]_logVars
=============================================================================
