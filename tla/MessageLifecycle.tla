-------------------------- MODULE MessageLifecycle --------------------------
(***************************************************************************)
(* The life of a message after its author wrote it: edits and their        *)
(* revisions, deletion, reactions, button callbacks and forwarding.        *)
(*                                                                         *)
(* Every statement reads the snapshot of its start.  An UPDATE that waited *)
(* for a row lock is evaluated again on the new row, but the CTE it joins  *)
(* (target) keeps the values of the snapshot, so what a call read may be   *)
(* stale when it writes.  A call is therefore a step that reads and a step *)
(* that takes its locks and commits; an edit has its transaction id before *)
(* it waits for the row, and a reaction its own before it waits for the    *)
(* thread.  The relay hands events on in the order of these ids, not in    *)
(* the order of the commits (module OutboxRelay): view is what a client    *)
(* holds that was handed everything committed so far.                      *)
(*                                                                         *)
(* Sources: service/{message,message_forward}.go, store/postgres/{message, *)
(* message_reaction_store,interactive_callback,message_forward_store}.go.  *)
(***************************************************************************)
EXTENDS Integers, Sequences, FiniteSets

CONSTANTS
    Threads,        \* threads
    Members,        \* contacts
    Bodies,         \* texts
    Emojis,         \* emojis
    Buttons,        \* buttons of interactive messages
    Changing,       \* pairs <<thread, contact>> whose dialog may change; the other
                    \* contacts are members of the thread
    Calls,          \* calls that may be in progress at the same time
    MaxMsgs,        \* bound: messages
    MaxSends,       \* bound: messages that are not copies
    MaxTx           \* bound: transactions other than sends

None == ""          \* no emoji: a clear, or no row

ASSUME LifecycleConstants ==
    /\ Threads # {} /\ Members # {} /\ Bodies # {}
    /\ Changing \subseteq Threads \X Members
    /\ None \notin Emojis
    /\ MaxMsgs \in Nat /\ MaxSends \in Nat /\ MaxTx \in Nat

VARIABLES
    msg,        \* im_message.messages in the order they were saved
    rev,        \* rev[i]: the revisions of message i, pairs <<version, body>>
    react,      \* react[i][m]: m's emoji on message i, or None
    pressed,    \* buttons_callback: pairs <<message, button>>
    dlg,        \* dlg[t][m]: the dialog of m in t, with what m may do
    call,       \* call[k]: the call in progress
    view,       \* what a client holds that was handed the committed events
    xid         \* transaction ids given to these transactions

tables == <<msg, rev, react, pressed>>
vars == <<tables, dlg, call, view, xid>>

Ids == 1..MaxMsgs

\* authors: sender_id and origin_sender, which differ when a member sends as another
\* one; src: the forwarded message, 0 for an original.
Message == [in : Threads, authors : SUBSET Members, body : Bodies, system : BOOLEAN,
            deleted : BOOLEAN, src : 0..MaxMsgs]

\* none: never a member; muted: without can_delete_messages and can_react_messages.
Dialog  == {"none", "live", "muted", "closed"}
Revs    == SUBSET ((1..MaxTx) \X Bodies)
Marks   == [Members -> Emojis \union {None}]

\* edited, reacted: the transactions of the edit and of the reaction handed on last;
\* behind: a reaction of a lower id than reacted was the last one to commit.
View    == [body : Bodies, version : 1..(MaxTx + 1), edited : 0..MaxTx, deleted : BOOLEAN,
            reactions : Marks, reacted : 0..MaxTx, behind : BOOLEAN, pressed : SUBSET Buttons]

NoMarks == [m \in Members |-> None]

\* st: the snapshot is read, the row is being written (with the transaction id xid), the
\* thread is locked, the aggregate agg is read; by: the caller; as: whom it sends as;
\* ids: the messages; body, emoji: the new one; old, revs: the body and revisions of the
\* snapshot; to: the target thread; texts: the sources of a forward, pairs
\* <<message, body>>.
NoCall == [op |-> "none", st |-> "read", by |-> CHOOSE m \in Members : TRUE,
           as |-> CHOOSE m \in Members : TRUE, ids |-> {},
           body |-> CHOOSE b \in Bodies : TRUE, old |-> CHOOSE b \in Bodies : TRUE,
           revs |-> {}, emoji |-> None, agg |-> NoMarks, to |-> CHOOSE t \in Threads : TRUE,
           texts |-> {}, xid |-> 0]
Call == [op : {"none", "edit", "delete", "react", "forward"},
         st : {"read", "row", "locked", "ready"}, by : Members, as : Members,
         ids : SUBSET Ids, body : Bodies, old : Bodies, revs : Revs,
         emoji : Emojis \union {None}, agg : Marks, to : Threads,
         texts : SUBSET (Ids \X Bodies), xid : 0..MaxTx]

TypeOK ==
    /\ msg \in Seq(Message) /\ Len(msg) <= MaxMsgs
    /\ rev \in [DOMAIN msg -> Revs]
    /\ react \in [DOMAIN msg -> Marks]
    /\ pressed \subseteq (DOMAIN msg) \X Buttons
    /\ dlg \in [Threads -> [Members -> Dialog]]
    /\ call \in [Calls -> Call]
    /\ view \in [DOMAIN msg -> View]
    /\ xid \in 0..MaxTx

-----------------------------------------------------------------------------
(* Rows *)

DialogOf(m, i) == dlg[msg[i].in][m]
LastVersion(R) == IF R = {} THEN 0 ELSE CHOOSE v \in {r[1] : r \in R} : \A r \in R : r[1] <= v
Active(m, i)   == DialogOf(m, i) \in {"live", "muted"}

Idle(k)   == call[k].op = "none"
Finish(k) == call' = [call EXCEPT ![k] = NoCall]
TakeId    == xid < MaxTx /\ xid' = xid + 1

\* The call is a reaction to message i that holds the lock on its thread.
Holds(c, i) == c.op = "react" /\ c.st \in {"locked", "ready"} /\ i \in c.ids

\* Mutant: LockForUpdate does not wait.
UnlockedMutant(t) == TRUE

\* No reaction holds the row of thread t, which every journaled change locks before it
\* commits.
Unlocked(t) == \A k \in Calls, i \in DOMAIN msg : Holds(call[k], i) => msg[i].in # t

-----------------------------------------------------------------------------
(* Sending *)

\* What a Created event tells of each new message.
Fresh(b) == [body |-> b, version |-> 1, edited |-> 0, deleted |-> FALSE,
             reactions |-> NoMarks, reacted |-> 0, behind |-> FALSE, pressed |-> {}]

\* The rows of new messages ms: last_seq and the inserts are one statement under the
\* thread's row lock, and the Created events commit with them.
Insert(ms) ==
    /\ msg' = msg \o ms
    /\ rev' = rev \o [j \in DOMAIN ms |-> {}]
    /\ react' = react \o [j \in DOMAIN ms |-> NoMarks]
    /\ view' = view \o [j \in DOMAIN ms |-> Fresh(ms[j].body)]

\* SendText, SendDocument, SendLocation, SendContact, SendInteractive and
\* SendSystemMessage; a member may send as another one.
Send(t, by, as, b, system) ==
    /\ Len(msg) < MaxMsgs
    /\ Cardinality({i \in DOMAIN msg : msg[i].src = 0}) < MaxSends
    /\ dlg[t][by] \in {"live", "muted"} /\ Unlocked(t)
    /\ Insert(<<[in |-> t, authors |-> {by, as}, body |-> b, system |-> system,
                 deleted |-> FALSE, src |-> 0]>>)
    /\ UNCHANGED <<pressed, dlg, call, xid>>

-----------------------------------------------------------------------------
(* Editing *)

\* The target CTE of messageStore.EditMessage.
MayEdit(by, i) == ~msg[i].deleted /\ by \in msg[i].authors /\ Active(by, i)

EditMessage(k) ==
    /\ Idle(k)
    /\ \E by \in Members, i \in DOMAIN msg, b \in Bodies :
         /\ MayEdit(by, i)
         /\ call' = [call EXCEPT ![k] = [NoCall EXCEPT !.op = "edit", !.by = by, !.ids = {i},
                                          !.body = b, !.old = msg[i].body, !.revs = rev[i]]]
    /\ UNCHANGED <<tables, dlg, view, xid>>

\* The update of the row begins: the transaction has its id, and waits for the row.
EditUpdates(k) ==
    /\ call[k].op = "edit" /\ call[k].st = "read"
    /\ TakeId
    /\ call' = [call EXCEPT ![k].st = "row", ![k].xid = xid + 1]
    /\ UNCHANGED <<tables, dlg, view>>

\* Mutant: the version is the one of the last revision.
NextVersionMutant(R) == LastVersion(R)

\* The version of the revision an edit stores.
NextVersion(R) == LastVersion(R) + 1

\* Mutant: revisions of a message may share a version.
VersionTakenMutant(k, i) == FALSE

\* unique (message_id, version): another edit committed after this one's snapshot.
VersionTaken(k, i) == \E r \in rev[i] : r[1] = NextVersion(call[k].revs)

\* "message was edited concurrently, retry"
EditConflict(k) ==
    /\ call[k].op = "edit" /\ call[k].st = "row"
    /\ \E i \in call[k].ids : VersionTaken(k, i)
    /\ Finish(k)
    /\ UNCHANGED <<tables, dlg, view, xid>>

\* The client's copy v once the Edited event of c is handed on in its place.
Edited(v, c) ==
    IF v.edited < c.xid
    THEN [v EXCEPT !.body = c.body, !.version = Cardinality(c.revs) + 2, !.edited = c.xid]
    ELSE v

\* The row is updated whether or not it was deleted meanwhile.
EditCommits(k) ==
    LET c == call[k]
    IN  /\ c.op = "edit" /\ c.st = "row"
        /\ \E i \in c.ids :
             /\ ~VersionTaken(k, i) /\ Unlocked(msg[i].in)
             /\ msg' = [msg EXCEPT ![i].body = c.body]
             /\ rev' = [rev EXCEPT ![i] = @ \union {<<NextVersion(c.revs), c.old>>}]
             /\ view' = [view EXCEPT ![i] = Edited(@, c)]
        /\ Finish(k)
        /\ UNCHANGED <<react, pressed, dlg, xid>>

-----------------------------------------------------------------------------
(* Deletion *)

\* The rows the update of messageStore.DeleteMessages takes.  Why the others are skipped
\* (not_found, for an unknown id or a message of a thread the caller was never in,
\* not_author, already_deleted, chat_closed, not_allowed) only the answer tells.
MayDelete(by, i) ==
    i \in DOMAIN msg /\ ~msg[i].deleted /\ by \in msg[i].authors /\ DialogOf(by, i) = "live"

\* A batch that deletes nothing commits nothing; with nothing deleted before either it
\* is refused.
DeleteMessages(k) ==
    /\ Idle(k)
    /\ \E by \in Members, I \in SUBSET Ids :
         LET D == {i \in I : MayDelete(by, i)}
         IN  /\ D # {}
             /\ call' = [call EXCEPT ![k] = [NoCall EXCEPT !.op = "delete", !.by = by, !.ids = D]]
    /\ UNCHANGED <<tables, dlg, view, xid>>

\* Every row of the snapshot is updated and announced, deleted meanwhile or not.
DeleteCommits(k) ==
    LET D == call[k].ids
    IN  /\ call[k].op = "delete"
        /\ \A i \in D : Unlocked(msg[i].in)
        /\ msg' = [i \in DOMAIN msg |-> IF i \in D THEN [msg[i] EXCEPT !.deleted = TRUE] ELSE msg[i]]
        /\ view' = [i \in DOMAIN view |-> IF i \in D THEN [view[i] EXCEPT !.deleted = TRUE] ELSE view[i]]
        /\ TakeId
        /\ Finish(k)
        /\ UNCHANGED <<rev, react, pressed, dlg>>

-----------------------------------------------------------------------------
(* Reactions and callbacks *)

\* The guard CTE.
MayReact(by, i) == ~msg[i].deleted /\ DialogOf(by, i) = "live"

\* The snapshot of setReactionSQL.  An emoji that is stored already and a clear without
\* a row settle as 'unchanged' and commit nothing.
SetReaction(k) ==
    /\ Idle(k)
    /\ \E by \in Members, i \in DOMAIN msg, e \in Emojis \union {None} :
         /\ MayReact(by, i)
         /\ react[i][by] # e
         /\ call' = [call EXCEPT ![k] = [NoCall EXCEPT !.op = "react", !.by = by, !.ids = {i}, !.emoji = e]]
    /\ UNCHANGED <<tables, dlg, view, xid>>

\* The row of another call on the same (message, reactor) is locked until its commit.
RowLocked(k) ==
    \E j \in Calls \ {k} : /\ call[j].op = "react" /\ call[j].st # "read"
                           /\ call[j].ids = call[k].ids /\ call[j].by = call[k].by

\* The row is written and the transaction has its id.  A clear finds the row gone when
\* another call removed it first: 'unchanged'.
WriteReaction(k) ==
    LET c == call[k]
    IN  /\ c.op = "react" /\ c.st = "read"
        /\ ~RowLocked(k)
        /\ \/ /\ c.emoji = None
              /\ \E i \in c.ids : react[i][c.by] = None
              /\ Finish(k)
              /\ UNCHANGED xid
           \/ /\ c.emoji = None => \E i \in c.ids : react[i][c.by] # None
              /\ TakeId
              /\ call' = [call EXCEPT ![k].st = "row", ![k].xid = xid + 1]
        /\ UNCHANGED <<tables, dlg, view>>

\* ThreadStore.LockForUpdate, held until the commit.
LockForUpdate(k) ==
    /\ call[k].op = "react" /\ call[k].st = "row"
    /\ \A i \in call[k].ids : Unlocked(msg[i].in)
    /\ call' = [call EXCEPT ![k].st = "locked"]
    /\ UNCHANGED <<tables, dlg, view, xid>>

\* What is committed, and the transaction's own change.
Aggregate(i, c) == [react[i] EXCEPT ![c.by] = c.emoji]

AggregateForMessage(k) ==
    /\ call[k].op = "react" /\ call[k].st = "locked"
    /\ \E i \in call[k].ids :
         call' = [call EXCEPT ![k].st = "ready", ![k].agg = Aggregate(i, call[k])]
    /\ UNCHANGED <<tables, dlg, view, xid>>

\* The client's copy v once the Reaction event of c is handed on in its place.
Reacted(v, c) ==
    IF v.reacted < c.xid
    THEN [v EXCEPT !.reactions = c.agg, !.reacted = c.xid, !.behind = FALSE]
    ELSE [v EXCEPT !.behind = TRUE]

\* The event and the commit.
ReactionCommits(k) ==
    LET c == call[k]
    IN  /\ c.op = "react" /\ c.st = "ready"
        /\ \E i \in c.ids :
             /\ react' = [react EXCEPT ![i][c.by] = c.emoji]
             /\ view' = [view EXCEPT ![i] = Reacted(@, c)]
        /\ Finish(k)
        /\ UNCHANGED <<msg, rev, pressed, dlg, xid>>

\* SendInteractiveCallback: any member, a former one too, presses a button once.
SendInteractiveCallback(by, i, n) ==
    /\ DialogOf(by, i) # "none"
    /\ <<i, n>> \notin pressed
    /\ pressed' = pressed \union {<<i, n>>}
    /\ view' = [view EXCEPT ![i].pressed = @ \union {n}]
    /\ TakeId
    /\ UNCHANGED <<msg, rev, react, dlg, call>>

-----------------------------------------------------------------------------
(* Forwarding *)

\* The reasons of LoadForwardSources.
Forwardable(by, i) == ~msg[i].deleted /\ Active(by, i) /\ ~msg[i].system

\* The sources are read and the target thread, where the caller is a member, is ensured
\* before the transaction that saves the copies.
ForwardMessages(k) ==
    /\ Idle(k)
    /\ \E by \in Members, as \in Members, I \in SUBSET DOMAIN msg, t \in Threads :
         LET S == {i \in I : Forwardable(by, i)}
         IN  /\ S # {}
             /\ Len(msg) + Cardinality(S) <= MaxMsgs
             /\ dlg[t][by] \in {"live", "muted"}
             /\ call' = [call EXCEPT ![k] = [NoCall EXCEPT !.op = "forward", !.by = by, !.as = as, !.to = t,
                                              !.texts = {<<i, msg[i].body>> : i \in S}]]
    /\ UNCHANGED <<tables, dlg, view, xid>>

\* The sources in the order they were created: one sequence for every set.
Ordered(S) == {o \in [1..Cardinality(S) -> S] : \A i, j \in DOMAIN o : i < j => o[i][1] < o[j][1]}

\* One transaction copies the sources in that order, as they were read, whether or not
\* the caller is still a member.
ForwardCommits(k) ==
    LET c  == call[k]
        Copy(s) == [in |-> c.to, authors |-> {c.by, c.as}, body |-> s[2],
                    system |-> FALSE, deleted |-> FALSE, src |-> s[1]]
    IN  /\ c.op = "forward"
        /\ Len(msg) + Cardinality(c.texts) <= MaxMsgs
        /\ Unlocked(c.to)
        /\ \E order \in Ordered(c.texts) : Insert([j \in DOMAIN order |-> Copy(order[j])])
        /\ TakeId
        /\ Finish(k)
        /\ UNCHANGED <<pressed, dlg>>

-----------------------------------------------------------------------------
(* Failures, and the dialogs *)

\* A call fails or its process stops before the commit: rolled back.
CallFails(k) ==
    /\ ~Idle(k)
    /\ Finish(k)
    /\ UNCHANGED <<tables, dlg, view, xid>>

\* The contact joins, leaves or comes back, or a permission of its dialog changes.
DialogChanges(t, m) ==
    /\ Unlocked(t)
    /\ \E d \in Dialog \ {"none", dlg[t][m]} : dlg' = [dlg EXCEPT ![t][m] = d]
    /\ TakeId
    /\ UNCHANGED <<tables, call, view>>

-----------------------------------------------------------------------------
(* Specification *)

Init ==
    /\ msg = <<>> /\ rev = <<>> /\ react = <<>> /\ pressed = {}
    /\ dlg \in [Threads -> [Members -> {"none", "live"}]]
    /\ \A t \in Threads, m \in Members : dlg[t][m] = "none" => <<t, m>> \in Changing
    /\ call = [k \in Calls |-> NoCall]
    /\ view = <<>> /\ xid = 0

Step(k) ==
    \/ EditMessage(k) \/ EditUpdates(k) \/ EditConflict(k) \/ EditCommits(k)
    \/ DeleteMessages(k) \/ DeleteCommits(k)
    \/ SetReaction(k) \/ WriteReaction(k) \/ LockForUpdate(k) \/ AggregateForMessage(k) \/ ReactionCommits(k)
    \/ ForwardMessages(k) \/ ForwardCommits(k)
    \/ CallFails(k)

Next ==
    \/ \E k \in Calls : Step(k)
    \/ \E t \in Threads, by \in Members, as \in Members, b \in Bodies, s \in BOOLEAN :
          Send(t, by, as, b, s)
    \/ \E by \in Members, i \in DOMAIN msg, n \in Buttons : SendInteractiveCallback(by, i, n)
    \/ \E c \in Changing : DialogChanges(c[1], c[2])

Spec == Init /\ [][Next]_vars

-----------------------------------------------------------------------------
(* Properties *)

\* Every text a message had is kept: an edit stores the text it replaces under the next
\* version, although it read both from a snapshot that may be stale (EditMessage: two
\* overlapping edits compute the same version, and one of them must fail).
RevisionsComplete ==
    [][\A i \in DOMAIN msg :
         (rev'[i] # rev[i] \/ msg'[i].body # msg[i].body) =>
             rev'[i] = rev[i] \union {<<Cardinality(rev[i]) + 1, msg[i].body>>}]_vars

\* A client that was handed the committed events, in the order of their transaction
\* ids, holds the stored text and its version, deletion and pressed buttons, although
\* transactions commit in another order.  It holds the stored reactions too ("Lock first
\* so the aggregate read includes all earlier reactions", SetReaction), unless the
\* reaction that committed last has a lower id than another one to the same message (it
\* wrote its row before it, and got the thread's lock after it): then the client holds
\* an older aggregate until the next reaction.
Announced ==
    \A i \in DOMAIN msg :
        /\ view[i].body = msg[i].body
        /\ view[i].version = Cardinality(rev[i]) + 1
        /\ view[i].deleted = msg[i].deleted
        /\ view[i].pressed = {n \in Buttons : <<i, n>> \in pressed}
        /\ view[i].reactions = react[i] \/ view[i].behind
=============================================================================
