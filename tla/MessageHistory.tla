--------------------------- MODULE MessageHistory ---------------------------
(***************************************************************************)
(* Paging through the history of a thread, or through what a search finds  *)
(* in one thread or in all of them, while messages keep being sent.        *)
(*                                                                         *)
(* A message gets its id, a time-ordered uuid, in the insert that also     *)
(* raises the thread's last_seq and so holds the thread row until the end  *)
(* of the transaction: in one thread ids are committed in their order,     *)
(* across threads they are not.  A page is one query.  The client keeps    *)
(* what it was given and follows the cursor at either end of it.           *)
(***************************************************************************)
EXTENDS Integers, Sequences, FiniteSets, FiniteSetsExt

CONSTANTS
  Threads,        \* the threads the caller is or was a member of
  Sizes,          \* page sizes clients ask for
  MaxSize,        \* the largest size that is honoured (100 in the code)
  DefaultLimit,   \* the size of a page whose request names none (20)
  MaxMsgs         \* bound: messages ever sent

ASSUME HistoryAssumption ==
  /\ IsFiniteSet(Threads)
  /\ Sizes \subseteq Nat /\ MaxSize \in Nat /\ MaxMsgs \in Nat
  /\ DefaultLimit \in 1..MaxSize

VARIABLES
  row,      \* the messages by id: thread, and whether it is sent, in flight or lost
  member,   \* the threads the caller is a member of now
  view      \* what the client holds of its current session

vars == <<row, member, view>>

None == 0

Row == [thread : Threads, state : {"open", "sent", "lost"}]

Closed == [kind |-> "history", scope |-> {}, limit |-> 0, got |-> {}, next |-> None, prev |-> None,
           bottom |-> FALSE]

-----------------------------------------------------------------------------
(* Messages and members.                                                   *)

LockedMutant(t) == FALSE

\* An open insert holds its thread row.
Locked(t) == \E m \in DOMAIN row : row[m].thread = t /\ row[m].state = "open"

\* SaveMessage: the update of last_seq waits for the thread row.
SaveMessage(t) ==
  /\ Len(row) < MaxMsgs
  /\ ~Locked(t)
  /\ row' = Append(row, [thread |-> t, state |-> "open"])
  /\ UNCHANGED <<member, view>>

EndTx(m, s) ==
  /\ row[m].state = "open"
  /\ row' = [row EXCEPT ![m].state = s]
  /\ UNCHANGED <<member, view>>

\* The caller is removed from a thread, or comes back, as a member or with a preview.
Leave(t) ==
  /\ t \in member
  /\ member' = member \ {t}
  /\ UNCHANGED <<row, view>>

Join(t) ==
  /\ t \notin member
  /\ member' = member \cup {t}
  /\ UNCHANGED <<row, view>>

-----------------------------------------------------------------------------
(* The query.                                                              *)

Sent(scope) == {m \in DOMAIN row : row[m].state = "sent" /\ row[m].thread \in scope}

\* WithCallerLimitation: everything, the deleted messages too, of a thread that the
\* caller may read now.
Visible(scope) == {m \in Sent(scope) : row[m].thread \in member}

\* MessageSearchQuery: the messages that have the term, are not deleted, and were
\* written while the caller was a member (WithCallerScope), a former one too.  Which
\* ones these are may change with every edit and deletion, from page to page.
Found(scope) == SUBSET Sent(scope)

\* The rows a query may page through.
Rows(kind, scope) == IF kind = "history" THEN {Visible(scope)} ELSE Found(scope)

LimitMutant(size) == IF size > 0 THEN size ELSE DefaultLimit

\* WithLimit ignores a size out of range; ToSQL then takes the default.
Limit(size) == IF size \in 1..MaxSize THEN size ELSE DefaultLimit

Newest(S, n) == {m \in S : Cardinality({x \in S : x > m}) < n}

Oldest(S, n) == {m \in S : Cardinality({x \in S : x < m}) < n}

BeyondMutant(S, cur, dir) ==
  {m \in S : cur # None => IF dir = "after" THEN m <= cur ELSE m > cur}

\* cursorPredicate for the one column, id descending: the cursor's message
\* belongs to the page before.
Beyond(S, cur, dir) ==
  {m \in S : cur # None => IF dir = "after" THEN m < cur ELSE m > cur}

HasExtraMutant(S, n) == Cardinality(S) > n + 1

\* Apply fetches one row more than the page to see whether there is another.
HasExtra(S, n) == Cardinality(S) > n

Page(rows, next, prev) == [rows |-> rows, next |-> next, prev |-> prev]

\* Apply and BuildPageInfo.  The edge that was walked from always has a
\* cursor, the other one when there are more rows.
PageInfo(S, limit, cur, dir) ==
  LET side == Beyond(S, cur, dir)
      more == HasExtra(side, limit) IN
  IF dir = "after"
    THEN LET rows == Newest(side, limit) IN
         Page(rows, IF rows # {} /\ more THEN Min(rows) ELSE None,
                    IF rows # {} /\ cur # None THEN Max(rows) ELSE None)
    ELSE LET rows == Oldest(side, limit) IN
         Page(rows, IF rows # {} /\ cur # None THEN Min(rows) ELSE None,
                    IF rows # {} /\ more THEN Max(rows) ELSE None)

\* The cursor's message itself belongs to the older side.
AroundSides(S, cur) == [next |-> {m \in S : m <= cur}, prev |-> {m \in S : m > cur}]

\* ApplyAround and BuildAroundPageInfo; aroundLimits gives the older side
\* the odd row.  An empty window keeps the requested cursor.
AroundPageInfo(S, limit, cur) ==
  LET prevLimit == limit \div 2
      nextLimit == limit - prevLimit
      side      == AroundSides(S, cur)
      rows      == Newest(side.next, nextLimit) \cup Oldest(side.prev, prevLimit) IN
  Page(rows,
       IF ~HasExtra(side.next, nextLimit) THEN None ELSE IF rows = {} THEN cur ELSE Min(rows),
       IF ~HasExtra(side.prev, prevLimit) THEN None ELSE IF rows = {} THEN cur ELSE Max(rows))

-----------------------------------------------------------------------------
(* The client.                                                             *)

\* bottom: the client was told, while it could read the thread, that nothing is older.
Session(kind, scope, size, p) ==
  [kind |-> kind, scope |-> scope, limit |-> Limit(size), got |-> p.rows,
   next |-> p.next, prev |-> p.prev, bottom |-> p.next = None /\ scope \subseteq member]

\* The first request of a session names no cursor.
Open(kind, scope, size) ==
  /\ view = Closed
  /\ \E S \in Rows(kind, scope) :
       view' = Session(kind, scope, size, PageInfo(S, Limit(size), None, "after"))
  /\ UNCHANGED <<row, member>>

\* Or jumps to a message, of this thread or not; a search does not.
OpenAround(t, size, m) ==
  /\ view = Closed
  /\ view' = Session("history", {t}, size, AroundPageInfo(Visible({t}), Limit(size), m))
  /\ UNCHANGED <<row, member>>

\* next_cursor with before = false.
Older ==
  /\ view.next # None
  /\ \E S \in Rows(view.kind, view.scope) :
       LET p == PageInfo(S, view.limit, view.next, "after") IN
       view' = [view EXCEPT !.got = @ \cup p.rows, !.next = p.next,
                            !.bottom = p.next = None /\ view.scope \subseteq member]
  /\ UNCHANGED <<row, member>>

\* prev_cursor with before = true.
Newer ==
  /\ view.prev # None
  /\ \E S \in Rows(view.kind, view.scope) :
       LET p == PageInfo(S, view.limit, view.prev, "before") IN
       view' = [view EXCEPT !.got = @ \cup p.rows, !.prev = p.prev]
  /\ UNCHANGED <<row, member>>

Close ==
  /\ view # Closed
  /\ view' = Closed
  /\ UNCHANGED <<row, member>>

-----------------------------------------------------------------------------
Init ==
  /\ row = <<>>
  /\ member = Threads
  /\ view = Closed

\* The history is of one thread, a search of one or of all.
Scopes(kind) == {{t} : t \in Threads} \cup (IF kind = "search" THEN {Threads} ELSE {})

Next ==
  \/ \E t \in Threads : SaveMessage(t) \/ Leave(t) \/ Join(t)
  \/ \E m \in DOMAIN row, s \in {"sent", "lost"} : EndTx(m, s)
  \/ \E kind \in {"history", "search"}, size \in Sizes :
        \E scope \in Scopes(kind) : Open(kind, scope, size)
  \/ \E t \in Threads, size \in Sizes, m \in DOMAIN row : OpenAround(t, size, m)
  \/ Older \/ Newer \/ Close

(* A client that was given a next_cursor asks for the next page.           *)
Spec == Init /\ [][Next]_vars /\ WF_vars(Older)

-----------------------------------------------------------------------------
(* Types: rows are appended in the order of their ids, and cursors are ids *)
(* of messages.                                                            *)
TypeOK ==
  /\ row \in Seq(Row) /\ Len(row) <= MaxMsgs
  /\ member \subseteq Threads
  /\ view.limit \in 0..MaxSize
  /\ view.got \subseteq DOMAIN row
  /\ {view.next, view.prev} \subseteq DOMAIN row \cup {None}

(* What a client holds of a thread's history has no hole: it is every      *)
(* message of the thread between the oldest and the newest it holds,       *)
(* whatever was sent, in whatever order, between its requests, and also    *)
(* when it lost access and got it back (BuildPageInfo,                     *)
(* BuildAroundPageInfo, SaveMessage's lock).                               *)
NoGap ==
  view.kind = "history" /\ view.scope \subseteq member /\ view.got # {} =>
    view.got = {m \in Visible(view.scope) : m \in Min(view.got)..Max(view.got)}

(* A missing next_cursor means that the history ends there, if the caller  *)
(* could read the thread then (docs/cursor_pagination.md, hasExtra).       *)
EndHonest ==
  view.kind = "history" /\ view.bottom /\ view.got # {} =>
    \A m \in Visible(view.scope) : m >= Min(view.got)

(* A client that follows next_cursor reaches the end of a history or of a  *)
(* search, also while messages arrive, are edited or deleted, and when it  *)
(* loses access on the way.                                                *)
ReachesEnd == view.next # None ~> view.next = None

=============================================================================
