--------------------------- MODULE UpdatesJournal ---------------------------
(***************************************************************************)
(* The catch-up journal behind GetUpdates.                                 *)
(*                                                                         *)
(* Every mutation of a thread runs in a PostgreSQL transaction that also   *)
(* writes a journal row (thread_updates) and, for every human member, a    *)
(* mark (contact_updates): the last transaction that changed the thread    *)
(* for that contact.  A contact who was offline calls GetUpdates with the  *)
(* transaction id it last saw.  The call is a sequence of statements, each *)
(* with a snapshot of its own (READ COMMITTED, no enclosing transaction),  *)
(* so writers, the retention job and other calls interleave with it.       *)
(*                                                                         *)
(* Sources: store/postgres/outbox.go, adapter/journal/{journal,contact}.go *)
(* and handler/grpc/updates.go.                                            *)
(***************************************************************************)
EXTENDS Naturals, FiniteSets

CONSTANTS
    Contacts,           \* human contacts (bots are never marked)
    Threads,
    Nil,                \* an absent row, cursor or time
    MaxXid,             \* bound: transactions
    MaxEntries,         \* bound: journal rows
    MaxClock,           \* bound: clock ticks
    MaxFails,           \* bound: GetUpdates calls that end in an error
    Overlap,            \* how far before the cursor's change a call replays
    TTL,                \* retention of journal rows
    CleanupBatch,       \* rows one retention statement deletes
    MaxContactChanges,  \* changes one call may serve
    Clients,            \* contacts whose client calls GetUpdates
    Sockets,            \* clients that also receive live events
    Mutations           \* the kinds of mutation the writers make

ASSUME ConstantsAssumption ==
    /\ Nil \notin Nat
    /\ Nil \notin [tx : Nat, at : Nat]
    /\ {MaxXid, MaxEntries, MaxClock, MaxFails, Overlap, TTL} \subseteq Nat
    /\ {CleanupBatch, MaxContactChanges} \subseteq Nat \ {0}
    /\ Clients \subseteq Contacts
    /\ Sockets \subseteq Clients
    /\ Mutations \subseteq {"change", "joined", "left", "tags"}

VARIABLES
    \* the database
    nextXid,    \* the transaction id the next writer gets
    status,     \* status[x]: "unassigned", "active", "committed", "aborted"
    rows,       \* journal rows ever written by a transaction not rolled back
    gone,       \* ids of the rows retention deleted
    mark,       \* mark[c, t]: committed contact_updates row, or Nil
    pend,       \* pend[c, t]: uncommitted version of it (its row lock), or Nil
    members,    \* members[t]: contacts with a live dialog, committed
    trim,       \* thread_updates_trim: newest transaction retention deleted
    clock,
    \* the contacts
    cursor,     \* cursor[c]: the position the client holds, or Nil
    known,      \* known[c]: ids of the rows the client learned of
    req,        \* req[c]: the GetUpdates call in progress
    fails       \* calls that ended in an error so far

dbVars     == <<nextXid, status, rows, gone, mark, pend, members, trim>>
clientVars == <<cursor, known, req, fails>>
vars       == <<nextXid, status, rows, gone, mark, pend, members, trim, clock,
                cursor, known, req, fails>>

-----------------------------------------------------------------------------
(* Types *)

Xids   == 1..MaxXid
Status == {"unassigned", "active", "committed", "aborted"}
Kinds  == {"change", "joined", "left", "tags"}
Mark   == [tx : Xids, at : 0..MaxClock]
Row    == [id : 1..MaxEntries, thread : Threads, tx : Xids, kind : Kinds,
           who : Contacts, at : 0..MaxClock, aud : SUBSET Contacts]
Phases == {"idle", "horizon", "overlap", "marks", "latest", "trim", "threads",
           "resync.horizon", "resync.latest", "reload"}

\* A call in progress.  after, horizon, ref: the window it serves; threads:
\* the listed threads still to be read; cursor: the cursor it will return;
\* got: the rows collected so far; budget: changes it may still serve.
Request == [phase : Phases, after : 0..MaxXid, horizon : 0..MaxXid,
            ref : 0..MaxClock \union {Nil}, threads : SUBSET Threads,
            cursor : 0..MaxXid, got : SUBSET (1..MaxEntries),
            budget : 0..MaxContactChanges]

Idle == [phase |-> "idle", after |-> 0, horizon |-> 0, ref |-> Nil,
         threads |-> {}, cursor |-> 0, got |-> {}, budget |-> 0]

TypeOK ==
    /\ nextXid \in 1..(MaxXid + 1)
    /\ status \in [Xids -> Status]
    /\ rows \subseteq Row
    /\ gone \subseteq 1..MaxEntries
    /\ mark \in [Contacts \X Threads -> Mark \union {Nil}]
    /\ pend \in [Contacts \X Threads -> Mark \union {Nil}]
    /\ members \in [Threads -> SUBSET Contacts]
    /\ trim \in 0..MaxXid
    /\ clock \in 0..MaxClock
    /\ cursor \in [Contacts -> 0..MaxXid \union {Nil}]
    /\ known \in [Contacts -> SUBSET (1..MaxEntries)]
    /\ req \in [Contacts -> Request]
    /\ fails \in 0..MaxFails

-----------------------------------------------------------------------------
(* What a statement sees *)

Committed(r) == status[r.tx] = "committed"

\* Rows visible to a statement outside any writing transaction.
Visible == {r \in rows : Committed(r) /\ r.id \notin gone}

\* h is the newest transaction id older than every in-flight one.
SettledHorizon(h) ==
    /\ h \in 0..(nextXid - 1)
    /\ \A x \in 1..h : status[x] # "active"
    /\ h + 1 < nextXid => status[h + 1] = "active"

\* The overlap predicate "at >= ref - Overlap"; a null bound matches nothing.
Replays(at, ref) == ref # Nil /\ at + Overlap >= ref

\* Mutant: the latest mark, whatever the horizon.
LatestMarkMutant(c, h, m) ==
    LET seen == {mark[c, t].tx : t \in {u \in Threads : mark[c, u] # Nil}}
    IN  m \in {0} \union seen /\ \A x \in seen : x <= m

\* m is the contact's latest mark up to the horizon, 0 if there is none.
LatestMark(c, h, m) ==
    LET seen == {mark[c, t].tx : t \in {u \in Threads : mark[c, u] # Nil}}
    IN  /\ m \in {0} \union {x \in seen : x <= h}
        /\ \A x \in seen : x <= h => x <= m

\* Members as transaction x sees them: the committed ones and its own writes.
MembersIn(x, t) ==
    LET own(k) == {r.who : r \in {q \in rows : q.tx = x /\ q.thread = t /\ q.kind = k}}
    IN  (members[t] \union own("joined")) \ own("left")

-----------------------------------------------------------------------------
(* Writers *)

\* A transaction's first write gives it its id; it may publish much later.
Begin ==
    /\ nextXid <= MaxXid
    /\ status' = [status EXCEPT ![nextXid] = "active"]
    /\ nextXid' = nextXid + 1
    /\ UNCHANGED <<rows, gone, mark, pend, members, trim, clock, clientVars>>

\* Who a mutation is about: a joining contact is not a member yet and a leaving
\* one is; the mutation locks the thread row, so two never overlap.
MembershipAllowed(x, t, kind, who) ==
    /\ kind = "joined" => who \notin MembersIn(x, t)
    /\ kind \in {"left", "tags", "change"} => who \in MembersIn(x, t)
    /\ kind \in {"joined", "left"} =>
         ~ \E r \in rows : /\ r.thread = t
                           /\ r.kind \in {"joined", "left"}
                           /\ status[r.tx] = "active"

\* Whom markContacts marks: the members after the mutation, and its subject;
\* a tag change is private to its contact.
Audience(x, t, kind, who) ==
    CASE kind = "tags"   -> {who}
      [] kind = "joined" -> MembersIn(x, t) \union {who}
      [] kind = "left"   -> MembersIn(x, t) \union {who}
      [] kind = "change" -> MembersIn(x, t)

\* The mark upsert overwrites tx_id whatever it was.
MarkContacts(x, t, aud) ==
    /\ \A c \in aud : pend[c, t] # Nil => pend[c, t].tx = x
    /\ pend' = [p \in Contacts \X Threads |->
                  IF p[2] = t /\ p[1] \in aud THEN [tx |-> x, at |-> clock] ELSE pend[p]]

AppendJournal(x, t, kind, who, aud) ==
    \E id \in 1..MaxEntries :
        /\ \A r \in rows : r.id < id
        /\ ~ \E j \in 1..MaxEntries : j < id /\ \A r \in rows : r.id < j
        /\ id \notin gone
        /\ rows' = rows \union {[id |-> id, thread |-> t, tx |-> x, kind |-> kind,
                                 who |-> who, at |-> clock, aud |-> aud]}

Publish(x, t, kind, who) ==
    LET aud == Audience(x, t, kind, who)
    IN  /\ status[x] = "active"
        /\ MembershipAllowed(x, t, kind, who)
        /\ AppendJournal(x, t, kind, who, aud)
        /\ MarkContacts(x, t, aud)
        /\ UNCHANGED <<nextXid, status, gone, mark, members, trim, clock, clientVars>>

Commit(x) ==
    /\ status[x] = "active"
    /\ status' = [status EXCEPT ![x] = "committed"]
    /\ mark' = [p \in Contacts \X Threads |->
                  IF pend[p] # Nil /\ pend[p].tx = x THEN pend[p] ELSE mark[p]]
    /\ pend' = [p \in Contacts \X Threads |->
                  IF pend[p] # Nil /\ pend[p].tx = x THEN Nil ELSE pend[p]]
    /\ members' = [t \in Threads |-> MembersIn(x, t)]
    /\ UNCHANGED <<nextXid, rows, gone, trim, clock, clientVars>>

Rollback(x) ==
    /\ status[x] = "active"
    /\ status' = [status EXCEPT ![x] = "aborted"]
    /\ rows' = {r \in rows : r.tx # x}
    /\ pend' = [p \in Contacts \X Threads |->
                  IF pend[p] # Nil /\ pend[p].tx = x THEN Nil ELSE pend[p]]
    /\ UNCHANGED <<nextXid, gone, mark, members, trim, clock, clientVars>>

-----------------------------------------------------------------------------
(* Retention: one batch deletes the oldest expired rows and records, in the *)
(* same statement, the newest transaction it deleted.                       *)

Cleanup ==
    LET expired == {r \in Visible : r.at + TTL < clock}
        batch   == {r \in expired :
                      Cardinality({q \in expired : q.id < r.id}) < CleanupBatch}
    IN  /\ batch # {}
        /\ gone' = gone \union {r.id : r \in batch}
        /\ \E m \in {trim} \union {r.tx : r \in batch} :
              /\ m >= trim
              /\ \A r \in batch : r.tx <= m
              /\ trim' = m
        /\ UNCHANGED <<nextXid, status, rows, mark, pend, members, clock, clientVars>>

Tick ==
    /\ clock < MaxClock
    /\ clock' = clock + 1
    /\ UNCHANGED <<dbVars, clientVars>>

-----------------------------------------------------------------------------
(* GetUpdates, statement by statement *)

\* Control moves to another phase of c's call.
Step(c, from, r) ==
    /\ req[c].phase = from
    /\ req' = [req EXCEPT ![c] = r]
    /\ UNCHANGED <<dbVars, clock, fails>>

Resync(r) == [r EXCEPT !.phase = "resync.horizon"]

\* The client calls with the cursor it holds; an empty one is a first sync.
GetUpdates(c) ==
    /\ Step(c, "idle",
            IF cursor[c] = Nil
            THEN Resync(Idle)
            ELSE [Idle EXCEPT !.phase = "horizon", !.after = cursor[c],
                              !.budget = MaxContactChanges])
    /\ UNCHANGED <<cursor, known>>

\* Mutant: the newest transaction assigned, in flight or not.
ReadHorizonMutant(c) ==
    /\ Step(c, "horizon", [req[c] EXCEPT !.phase = "overlap", !.horizon = nextXid - 1])
    /\ UNCHANGED <<cursor, known>>

ReadHorizon(c) ==
    \E h \in 0..MaxXid :
        /\ SettledHorizon(h)
        /\ Step(c, "horizon", [req[c] EXCEPT !.phase = "overlap", !.horizon = h])
        /\ UNCHANGED <<cursor, known>>

\* The earliest journal time of the cursor's own transaction, if still there.
OverlapSince(c) ==
    \E ref \in 0..MaxClock \union {Nil} :
        /\ LET times == {r.at : r \in {q \in Visible : q.tx = req[c].after}}
           IN  IF times = {} THEN ref = Nil
               ELSE ref \in times /\ \A at \in times : ref <= at
        /\ Step(c, "overlap", [req[c] EXCEPT !.phase = "marks", !.ref = ref])
        /\ UNCHANGED <<cursor, known>>

\* Mutant: the horizon itself is left out.
ListedMutant(c, w) ==
    {t \in Threads : /\ mark[c, t] # Nil
                     /\ mark[c, t].tx < w.horizon
                     /\ mark[c, t].tx > w.after \/ Replays(mark[c, t].at, w.ref)}

\* Threads marked inside the window.
Listed(c, w) ==
    {t \in Threads : /\ mark[c, t] # Nil
                     /\ mark[c, t].tx <= w.horizon
                     /\ mark[c, t].tx > w.after \/ Replays(mark[c, t].at, w.ref)}

ReadMarks(c) ==
    /\ Step(c, "marks", [req[c] EXCEPT !.phase = "latest", !.threads = Listed(c, req[c])])
    /\ UNCHANGED <<cursor, known>>

\* The returned cursor is the later of the request's and the latest mark; too
\* many threads end in a resync.
ReadLatest(c) ==
    \E m \in 0..MaxXid :
        /\ LatestMark(c, req[c].horizon, m)
        /\ LET next == IF m > req[c].after THEN m ELSE req[c].after
           IN  Step(c, "latest",
                    IF Cardinality(req[c].threads) > MaxContactChanges
                    THEN Resync(req[c])
                    ELSE [req[c] EXCEPT !.phase = "trim", !.cursor = next])
        /\ UNCHANGED <<cursor, known>>

\* Retention may have removed changes after an old cursor.
ReadTrim(c) ==
    /\ Step(c, "trim",
            IF req[c].after < trim /\ req[c].threads # {}
            THEN Resync(req[c])
            ELSE [req[c] EXCEPT !.phase = "threads"])
    /\ UNCHANGED <<cursor, known>>

\* Mutant: every row of the thread in the window.
ChangesSinceMutant(c, t, w) ==
    {r \in Visible : /\ r.thread = t
                     /\ r.tx <= w.horizon
                     /\ r.tx > w.after \/ Replays(r.at, w.ref)}

\* Rows of a thread in the window; other contacts' tag changes are left out.
ChangesSince(c, t, w) ==
    {r \in Visible : /\ r.thread = t
                     /\ r.tx <= w.horizon
                     /\ r.tx > w.after \/ Replays(r.at, w.ref)
                     /\ r.kind # "tags" \/ r.who = c}

\* What one listed thread contributes: a contact who is no longer a member is
\* told it left (and drops the thread), at the price of one change.
Left(c, t)        == {r \in Visible : r.thread = t /\ c \in r.aud}
Entry(c, t, w)    == IF c \in members[t] THEN ChangesSince(c, t, w) ELSE Left(c, t)
Used(c, t, w)     == IF c \in members[t] THEN Cardinality(ChangesSince(c, t, w)) ELSE 1

\* Mutant: the budget is spent without being checked.
ThreadUpdatesMutant(c, t) ==
    /\ t \in req[c].threads
    /\ Step(c, "threads",
            [req[c] EXCEPT !.threads = @ \ {t},
                           !.got = @ \union {r.id : r \in Entry(c, t, req[c])},
                           !.budget = @ - Used(c, t, req[c])])
    /\ UNCHANGED <<cursor, known>>

\* Mutant: too many changes end in an error instead of a resync.
ThreadUpdatesErrorMutant(c, t) ==
    /\ t \in req[c].threads
    /\ Step(c, "threads",
            IF Used(c, t, req[c]) > req[c].budget
            THEN Idle
            ELSE [req[c] EXCEPT !.threads = @ \ {t},
                                !.got = @ \union {r.id : r \in Entry(c, t, req[c])},
                                !.budget = @ - Used(c, t, req[c])])
    /\ UNCHANGED <<cursor, known>>

ThreadUpdates(c, t) ==
    /\ t \in req[c].threads
    /\ Step(c, "threads",
            IF Used(c, t, req[c]) > req[c].budget
            THEN Resync(req[c])
            ELSE [req[c] EXCEPT !.threads = @ \ {t},
                                !.got = @ \union {r.id : r \in Entry(c, t, req[c])},
                                !.budget = @ - Used(c, t, req[c])])
    /\ UNCHANGED <<cursor, known>>

Respond(c) ==
    /\ req[c].threads = {}
    /\ Step(c, "threads", Idle)
    /\ cursor' = [cursor EXCEPT ![c] = req[c].cursor]
    /\ known' = [known EXCEPT ![c] = @ \union req[c].got]

\* A resync answers with the contact's cursor now; the client then reloads its
\* thread list, which shows every change committed by then.
ResyncHorizon(c) ==
    \E h \in 0..MaxXid :
        /\ SettledHorizon(h)
        /\ Step(c, "resync.horizon",
                [Idle EXCEPT !.phase = "resync.latest", !.horizon = h])
        /\ UNCHANGED <<cursor, known>>

ResyncLatest(c) ==
    \E m \in 0..MaxXid :
        /\ LatestMark(c, req[c].horizon, m)
        /\ Step(c, "resync.latest", [Idle EXCEPT !.phase = "reload", !.cursor = m])
        /\ UNCHANGED <<cursor, known>>

Reload(c) ==
    /\ Step(c, "reload", Idle)
    /\ cursor' = [cursor EXCEPT ![c] = req[c].cursor]
    /\ known' = [known EXCEPT ![c] = @ \union {r.id : r \in {q \in rows : Committed(q) /\ c \in q.aud}}]

\* Any statement may fail: the call returns an error and the client keeps its
\* cursor.
CallFails(c) ==
    /\ req[c].phase # "idle"
    /\ fails < MaxFails
    /\ fails' = fails + 1
    /\ req' = [req EXCEPT ![c] = Idle]
    /\ UNCHANGED <<dbVars, clock, cursor, known>>

\* A live event carries its transaction as a cursor.  The relay forwards only
\* settled transactions, but its queues deliver them in any order.
LiveEvent(c, r) ==
    /\ cursor[c] # Nil
    /\ c \in r.aud
    /\ Committed(r)
    /\ r.id \notin known[c]
    /\ \A x \in 1..r.tx : status[x] # "active"
    /\ cursor' = [cursor EXCEPT ![c] = IF r.tx > @ THEN r.tx ELSE @]
    /\ known' = [known EXCEPT ![c] = @ \union {r.id}]
    /\ UNCHANGED <<dbVars, clock, req, fails>>

-----------------------------------------------------------------------------
(* Specification *)

Init ==
    /\ nextXid = 1
    /\ status = [x \in Xids |-> "unassigned"]
    /\ rows = {}
    /\ gone = {}
    /\ mark = [p \in Contacts \X Threads |-> Nil]
    /\ pend = [p \in Contacts \X Threads |-> Nil]
    /\ members = [t \in Threads |-> Contacts]
    /\ trim = 0
    /\ clock = 0
    /\ cursor = [c \in Contacts |-> Nil]
    /\ known = [c \in Contacts |-> {}]
    /\ req = [c \in Contacts |-> Idle]
    /\ fails = 0

Finish(x) == Commit(x) \/ Rollback(x)

ReadStep(c) ==
    \/ ReadHorizon(c)
    \/ OverlapSince(c)
    \/ ReadMarks(c)
    \/ ReadLatest(c)
    \/ ReadTrim(c)
    \/ \E t \in Threads : ThreadUpdates(c, t)
    \/ Respond(c)
    \/ ResyncHorizon(c)
    \/ ResyncLatest(c)
    \/ Reload(c)

Next ==
    \/ Begin
    \/ \E x \in Xids, t \in Threads, k \in Mutations, c \in Contacts : Publish(x, t, k, c)
    \/ \E x \in Xids : Finish(x)
    \/ Cleanup
    \/ Tick
    \/ \E c \in Clients : GetUpdates(c) \/ ReadStep(c) \/ CallFails(c)
    \/ \E c \in Sockets, r \in rows : LiveEvent(c, r)

Spec == Init /\ [][Next]_vars

\* A transaction ends (commit, rollback or a dropped connection), a call that
\* started runs to its answer, and a client keeps polling.
FairSpec ==
    /\ Spec
    /\ \A x \in Xids : WF_vars(Finish(x))
    /\ \A c \in Clients : WF_vars(ReadStep(c)) /\ WF_vars(GetUpdates(c))
-----------------------------------------------------------------------------
(* Properties *)

\* No client ever holds a cursor at or past a transaction that is still in
\* flight or not yet started (contact.go: SettledHorizon bounds every cursor
\* ContactChanges and ContactCursor return, and the relay every live one), so a
\* transaction that commits late always lies after every cursor.
CursorSettled ==
    \A c \in Contacts : cursor[c] # Nil =>
        \A x \in Xids : x <= cursor[c] => status[x] \in {"committed", "aborted"}

\* The statements of one GetUpdates call have different snapshots, yet no row
\* enters the window (.., horizon] once the call has read its horizon: what it
\* lists, the cursor it returns and the rows it serves agree on the window.
Window(c) == {r \in Visible : r.tx <= req[c].horizon}
WindowStable ==
    [][\A c \in Contacts :
          req[c].phase \in {"overlap", "marks", "latest", "trim", "threads"}
            /\ req'[c].horizon = req[c].horizon => Window(c)' \subseteq Window(c)]_vars

\* Tag changes are private: no client learns of a tag change of another contact
\* (contact.go ChangesSince, outbox.go markAudience).
TagsPrivate ==
    \A c \in Contacts : \A r \in rows :
        r.id \in known[c] \union req[c].got /\ r.kind = "tags" => r.who = c

\* The answer to a call holds every change in its window (after, horizon] of each
\* thread whose mark lies there, save the rows retention deleted: neither what commits,
\* joins or leaves between its statements nor the budget makes it leave one out
\* (updates.go GetUpdates, contact.go ContactChanges and ChangesSince).
AnswerWhole(c) ==
    req[c].phase = "threads" /\ req'[c].phase = "idle" /\ fails' = fails =>
        \A r \in Window(c) :
            /\ c \in r.aud /\ r.tx > req[c].after
            /\ mark[c, r.thread] # Nil
            /\ mark[c, r.thread].tx > req[c].after
            /\ mark[c, r.thread].tx <= req[c].horizon
            => r.id \in known'[c]
AnswersComplete == [][\A c \in Contacts : AnswerWhole(c)]_vars

\* A call from cursor k, made when nothing is in flight, would deliver row r:
\* its thread is listed and the row is in the window, or retention is noticed.
Reachable(c, r, k) ==
    LET times == {q.at : q \in {p \in Visible : p.tx = k}}
        replays(at) == times # {} /\ \E ref \in times : at + Overlap >= ref
        m == mark[c, r.thread]
    IN  /\ m # Nil
        /\ m.tx > k \/ replays(m.at)
        /\ \/ r.id \notin gone /\ (r.tx > k \/ replays(r.at))
           \/ k < trim

\* A committed change a client does not know of is never out of its reach: the
\* client's cursor still makes GetUpdates deliver it or ask for a resync
\* (contact.go: "a late commit comes on a later call, never skipped").
NothingLost ==
    \A c \in Contacts : req[c].phase = "idle" /\ cursor[c] # Nil =>
        \A r \in rows :
            Committed(r) /\ c \in r.aud /\ r.id \notin known[c]
                => Reachable(c, r, cursor[c])

\* A client that keeps calling GetUpdates learns of every committed change made
\* for it.
CatchesUp ==
    \A c \in Clients, i \in 1..MaxEntries :
        (\E r \in rows : r.id = i /\ Committed(r) /\ c \in r.aud) ~> (i \in known[c])
=============================================================================
