----------------------- MODULE MessageLifecycleProofs -----------------------
(***************************************************************************)
(* For any threads, members, messages and concurrent calls: a client that  *)
(* applies the events in the order of their transaction ids holds what is  *)
(* stored, and every replaced text is kept as the next revision.           *)
(***************************************************************************)
EXTENDS MessageLifecycle, FiniteSetTheorems, TLAPS

-----------------------------------------------------------------------------
(* The inductive invariant.                                                *)

\* The versions of a message's revisions are 1, 2, 3 and so on, each once.
Numbered(R) ==
    /\ IsFiniteSet(R)
    /\ \A r \in R : r[1] \in 1..Cardinality(R)
    /\ \A v \in 1..Cardinality(R) : \E r \in R : r[1] = v

\* Every revision took a transaction, of which the client was handed the last one.
RevisionsNumbered ==
    \A i \in DOMAIN msg :
        Numbered(rev[i]) /\ Cardinality(rev[i]) <= view[i].edited /\ view[i].edited <= xid

\* What an edit read of message i is a former state of it, and its present one if no
\* revision was added since: then its id is higher than that of any edit before it.
SnapshotOf(c, i) ==
    /\ c.revs \subseteq rev[i]
    /\ c.revs = rev[i] => /\ c.old = msg[i].body
                          /\ c.st = "row" => view[i].edited < c.xid

\* A reaction that has read the aggregate will leave just that behind.
AggregateExact(c) ==
    /\ \E i : c.ids = {i}
    /\ c.st = "ready" => \A i \in c.ids : c.agg = Aggregate(i, c)

CallSound(c) ==
    /\ c.ids \subseteq DOMAIN msg /\ IsFiniteSet(c.texts)
    /\ c.op = "edit" => Numbered(c.revs) /\ \A i \in c.ids : SnapshotOf(c, i)
    /\ c.op = "react" => AggregateExact(c)

CallsSound == \A k \in Calls : CallSound(call[k])

\* A thread is locked by one reaction at a time.
OneHolder ==
    \A j, k \in Calls : \A i \in call[j].ids, l \in call[k].ids :
        Holds(call[j], i) /\ Holds(call[k], l) /\ msg[i].in = msg[l].in => j = k

\* The ids of the calls in progress were given to them.
IdsGiven == \A k \in Calls : call[k].xid <= xid

LifecycleInv == TypeOK /\ RevisionsNumbered /\ CallsSound /\ OneHolder /\ IdsGiven /\ Announced

\* What RevisionsComplete says of one step.
RevisionStep ==
    \A i \in DOMAIN msg :
        (rev'[i] # rev[i] \/ msg'[i].body # msg[i].body) =>
            rev'[i] = rev[i] \union {<<Cardinality(rev[i]) + 1, msg[i].body>>}

-----------------------------------------------------------------------------
(* Facts about the operators.                                              *)

LEMMA LastIsCount ==
  ASSUME NEW R, Numbered(R)
  PROVE  Cardinality(R) \in Nat /\ LastVersion(R) = Cardinality(R) /\ NextVersion(R) = Cardinality(R) + 1
<1>1. Cardinality(R) \in Nat
  BY FS_CardinalityType DEF Numbered
<1>2. CASE R = {}
  <2>1. Cardinality(R) = 0
    BY <1>2, FS_EmptySet
  <2> QED BY <1>2, <2>1 DEF LastVersion, NextVersion
<1>3. CASE R # {}
  <2>1. Cardinality(R) # 0
    BY <1>3, FS_EmptySet DEF Numbered
  <2> DEFINE V == {r[1] : r \in R}
             IsLast(v) == \A r \in R : r[1] <= v
  <2>2. Cardinality(R) \in V /\ IsLast(Cardinality(R))
    BY <1>1, <2>1 DEF Numbered
  <2>3. \A v \in V : IsLast(v) => v = Cardinality(R)
    BY <1>1, <2>1 DEF Numbered
  <2>4. (CHOOSE v \in V : IsLast(v)) = Cardinality(R)
    BY <2>2, <2>3
  <2> QED BY <1>1, <1>3, <2>4 DEF LastVersion, NextVersion
<1> QED BY <1>2, <1>3

LEMMA NextIsNumbered ==
  ASSUME NEW R, Numbered(R), NEW b
  PROVE  LET S == R \union {<<Cardinality(R) + 1, b>>}
         IN  Numbered(S) /\ Cardinality(S) = Cardinality(R) + 1 /\ S # R /\ ~(S \subseteq R)
<1> DEFINE new == <<Cardinality(R) + 1, b>>
           S   == R \union {new}
<1>1. Cardinality(R) \in Nat /\ new[1] = Cardinality(R) + 1
  BY LastIsCount
<1>2. new \notin R
  BY <1>1 DEF Numbered
<1>3. IsFiniteSet(S) /\ Cardinality(S) = Cardinality(R) + 1
  <2> HIDE DEF new
  <2> QED BY <1>2, FS_AddElement DEF Numbered
<1>4. \A r \in S : r[1] \in 1..(Cardinality(R) + 1)
  BY <1>1 DEF Numbered
<1>5. \A v \in 1..(Cardinality(R) + 1) : \E r \in S : r[1] = v
  <2> SUFFICES ASSUME NEW v \in 1..(Cardinality(R) + 1)
               PROVE  \E r \in S : r[1] = v
    OBVIOUS
  <2>1. CASE v = Cardinality(R) + 1
    BY <1>1, <2>1
  <2>2. CASE v \in 1..Cardinality(R)
    BY <2>2 DEF Numbered
  <2> QED BY <1>1, <2>1, <2>2
<1> HIDE DEF new
<1>6. Numbered(S)
  BY <1>3, <1>4, <1>5 DEF Numbered
<1> QED BY <1>2, <1>3, <1>6 DEF new

(* The unique version tells whether a snapshot is stale.                   *)
LEMMA FreshSnapshot ==
  ASSUME NEW R, NEW S, Numbered(R), Numbered(S), R \subseteq S,
         ~ \E r \in S : r[1] = NextVersion(R)
  PROVE  R = S
<1>1. Cardinality(R) \in Nat /\ Cardinality(S) \in Nat /\ NextVersion(R) = Cardinality(R) + 1
  BY LastIsCount
<1>2. ~(Cardinality(R) + 1 \in 1..Cardinality(S))
  BY <1>1 DEF Numbered
<1>3. Cardinality(R) <= Cardinality(S)
  BY FS_Subset DEF Numbered
<1>4. Cardinality(R) = Cardinality(S)
  BY <1>1, <1>2, <1>3
<1> QED BY <1>4, FS_Subset DEF Numbered

LEMMA ConcatShape ==
  ASSUME NEW S, NEW s \in Seq(S), NEW t \in Seq(S)
  PROVE  /\ s \o t \in Seq(S)
         /\ Len(s \o t) = Len(s) + Len(t)
         /\ DOMAIN (s \o t) = 1..(Len(s) + Len(t))
         /\ \A i \in 1..Len(s) : (s \o t)[i] = s[i]
         /\ \A j \in 1..Len(t) : (s \o t)[Len(s) + j] = t[j]
OBVIOUS

LEMMA FunctionIsSeq ==
  ASSUME NEW S, NEW l \in Nat, NEW f \in [1..l -> S]
  PROVE  f \in Seq(S) /\ Len(f) = l
OBVIOUS

LEMMA NoCallType ==
  /\ NoCall \in Call /\ NoCall.ids = {} /\ NoCall.op = "none" /\ NoCall.st = "read" /\ NoCall.xid = 0
  /\ IsFiniteSet(NoCall.texts)
<1>1. /\ (CHOOSE m \in Members : TRUE) \in Members
      /\ (CHOOSE b \in Bodies : TRUE) \in Bodies
      /\ (CHOOSE t \in Threads : TRUE) \in Threads
  BY LifecycleConstants
<1>2. 0 \in 0..MaxTx /\ NoMarks \in Marks
  BY LifecycleConstants DEF NoMarks, Marks
<1>3. NoCall.texts = {} /\ IsFiniteSet({})
  BY FS_EmptySet DEF NoCall
<1>4. NoCall \in Call
  BY <1>1, <1>2 DEF NoCall, Call, Revs
<1> QED BY <1>3, <1>4 DEF NoCall

LEMMA IdleSound == CallSound(NoCall) /\ CallSound(NoCall)'
BY NoCallType DEF CallSound

LEMMA SoundNext ==
  ASSUME NEW j, NEW c, c = call'[j], CallSound(c)'
  PROVE  CallSound(call[j])'
<1>1. ASSUME NEW i, SnapshotOf(c, i)' PROVE SnapshotOf(call[j], i)'
  BY <1>1 DEF SnapshotOf
<1>2. ASSUME AggregateExact(c)' PROVE AggregateExact(call[j])'
  <2>1. \A i : Aggregate(i, c)' = Aggregate(i, call[j])'
    BY DEF Aggregate
  <2> QED BY <1>2, <2>1 DEF AggregateExact
<1> QED BY <1>1, <1>2 DEF CallSound

-----------------------------------------------------------------------------
(* Steps that change no stored message.                                    *)

(* The call k becomes r, which holds a thread only if k did or if nobody   *)
(* does.                                                                   *)
LEMMA CallStep ==
  ASSUME LifecycleInv, NEW k \in Calls, NEW r \in Call, CallSound(r),
         \A i \in r.ids : Holds(r, i) =>
            \/ Unlocked(msg[i].in)
            \/ Holds(call[k], i) /\ r.ids = call[k].ids,
         call' = [call EXCEPT ![k] = r], UNCHANGED <<tables, dlg, view>>,
         xid' \in 0..MaxTx, xid <= xid', r.xid <= xid'
  PROVE  LifecycleInv' /\ RevisionStep
<1>0. call \in [Calls -> Call] /\ call'[k] = r /\ \A j \in Calls : j # k => call'[j] = call[j]
  BY DEF LifecycleInv, TypeOK
<1>a. UNCHANGED msg /\ UNCHANGED rev /\ UNCHANGED react /\ UNCHANGED view
  BY DEF tables
<1>1. TypeOK'
  <2>1. call' \in [Calls -> Call]
    BY DEF LifecycleInv, TypeOK
  <2> QED BY <2>1 DEF LifecycleInv, TypeOK, tables
<1>2. RevisionsNumbered'
  <2> SUFFICES ASSUME NEW i \in DOMAIN msg
               PROVE  /\ Numbered(rev[i]) /\ Cardinality(rev[i]) <= view[i].edited
                      /\ view[i].edited <= xid'
    BY <1>a DEF RevisionsNumbered
  <2>1. Numbered(rev[i]) /\ Cardinality(rev[i]) <= view[i].edited /\ view[i].edited <= xid
    BY DEF LifecycleInv, RevisionsNumbered
  <2>2. view[i].edited \in Nat /\ xid \in Nat /\ xid' \in Nat
    BY DEF LifecycleInv, TypeOK, View
  <2> QED BY <2>1, <2>2
<1>3. CallsSound'
  <2>1. \A c : CallSound(c) => CallSound(c)'
    BY <1>a DEF CallSound, SnapshotOf, AggregateExact, Aggregate
  <2>2. ASSUME NEW j \in Calls PROVE CallSound(call[j])'
    <3>1. PICK c : c = call'[j]
      OBVIOUS
    <3>2. CallSound(c)
      BY <1>0, <3>1 DEF LifecycleInv, CallsSound
    <3>3. CallSound(c)'
      BY <2>1, <3>2
    <3> QED BY <3>1, <3>3, SoundNext
  <2> QED BY <2>2 DEF CallsSound
<1>4. Announced'
  BY <1>a DEF LifecycleInv, Announced, tables
<1>5. RevisionStep
  BY <1>a DEF RevisionStep
<1>6. OneHolder'
  <2> SUFFICES ASSUME NEW j1 \in Calls, NEW j2 \in Calls, NEW i \in call'[j1].ids, NEW l \in call'[j2].ids,
                      Holds(call'[j1], i), Holds(call'[j2], l), msg[i].in = msg[l].in, j1 # j2
               PROVE  FALSE
    BY <1>a DEF OneHolder, Holds
  <2>1. ASSUME NEW j \in Calls, NEW a \in call[j].ids, Holds(call[j], a), j # k,
               NEW b \in r.ids, Holds(r, b), msg[a].in = msg[b].in
        PROVE  FALSE
    <3>1. a \in DOMAIN msg /\ b \in DOMAIN msg
      BY <2>1 DEF LifecycleInv, CallsSound, CallSound
    <3>2. CASE Unlocked(msg[b].in)
      BY <2>1, <3>1, <3>2 DEF Unlocked
    <3>3. CASE Holds(call[k], b) /\ r.ids = call[k].ids
      BY <2>1, <3>3 DEF LifecycleInv, OneHolder
    <3> QED BY <2>1, <3>2, <3>3
  <2>2. CASE j1 = k
    BY <1>0, <2>1, <2>2
  <2>3. CASE j2 = k
    BY <1>0, <2>1, <2>3
  <2>4. CASE j1 # k /\ j2 # k
    BY <1>0, <2>4 DEF LifecycleInv, OneHolder
  <2> QED BY <2>2, <2>3, <2>4
<1>7. IdsGiven'
  <2>1. xid \in Nat /\ xid' \in Nat /\ \A j \in Calls : call[j].xid \in Nat /\ call[j].xid <= xid
    BY DEF LifecycleInv, TypeOK, IdsGiven, Call
  <2> QED BY <1>0, <2>1 DEF IdsGiven
<1> QED BY <1>1, <1>2, <1>3, <1>4, <1>5, <1>6, <1>7 DEF LifecycleInv

(* A call that does not hold a thread.                                     *)
LEMMA FreeCallStep ==
  ASSUME LifecycleInv, NEW k \in Calls, NEW r \in Call, CallSound(r),
         r.op # "react" \/ r.st \in {"read", "row"},
         call' = [call EXCEPT ![k] = r], UNCHANGED <<tables, dlg, view>>,
         xid' \in 0..MaxTx, xid <= xid', r.xid <= xid'
  PROVE  LifecycleInv' /\ RevisionStep
<1>1. \A i \in r.ids : ~Holds(r, i)
  BY DEF Holds
<1> QED BY <1>1, CallStep

LEMMA SameXid ==
  LifecycleInv => xid \in 0..MaxTx /\ xid <= xid /\ 0 <= xid /\ \A k \in Calls : call[k].xid <= xid
BY LifecycleConstants DEF LifecycleInv, TypeOK, IdsGiven

LEMMA FinishStep ==
  ASSUME LifecycleInv, NEW k \in Calls, Finish(k), UNCHANGED <<tables, dlg, view, xid>>
  PROVE  LifecycleInv' /\ RevisionStep
BY SameXid, FreeCallStep, NoCallType, IdleSound DEF Finish

LEMMA TakeIdType ==
  ASSUME TypeOK, TakeId
  PROVE  xid' \in 0..MaxTx /\ xid <= xid' /\ xid' \in 1..MaxTx /\ xid' = xid + 1 /\ xid \in Nat /\ MaxTx \in Nat
BY LifecycleConstants DEF TypeOK, TakeId

LEMMA MessageParts ==
  ASSUME TypeOK, NEW i \in DOMAIN msg
  PROVE  /\ i \in Ids /\ i \in 1..Len(msg) /\ DOMAIN msg = 1..Len(msg) /\ Len(msg) \in Nat
         /\ msg[i] \in Message /\ msg[i].body \in Bodies
         /\ rev[i] \in Revs /\ react[i] \in Marks /\ view[i] \in View
<1>1. msg \in Seq(Message) /\ Len(msg) <= MaxMsgs
  BY DEF TypeOK
<1>2. DOMAIN msg = 1..Len(msg) /\ Len(msg) \in Nat
  BY <1>1
<1>3. i \in 1..Len(msg)
  BY <1>2
<1>4. i \in Ids
  BY <1>1, <1>2, <1>3, LifecycleConstants DEF Ids
<1>5. msg[i] \in Message
  BY <1>1, <1>2, <1>3
<1>6. msg[i].body \in Bodies
  BY <1>5 DEF Message
<1> QED BY <1>2, <1>3, <1>4, <1>5, <1>6 DEF TypeOK

LEMMA EditMessageStep ==
  ASSUME LifecycleInv, NEW k \in Calls, EditMessage(k)
  PROVE  LifecycleInv' /\ RevisionStep
<1>1. PICK by \in Members, i \in DOMAIN msg, b \in Bodies :
        call' = [call EXCEPT ![k] = [NoCall EXCEPT !.op = "edit", !.by = by, !.ids = {i},
                                      !.body = b, !.old = msg[i].body, !.revs = rev[i]]]
  BY DEF EditMessage
<1> DEFINE r == [NoCall EXCEPT !.op = "edit", !.by = by, !.ids = {i},
                                !.body = b, !.old = msg[i].body, !.revs = rev[i]]
<1>2. i \in Ids /\ msg[i].body \in Bodies /\ rev[i] \in Revs
  BY MessageParts DEF LifecycleInv
<1>3. r \in Call /\ r.op = "edit" /\ r.xid = 0
  BY <1>2, NoCallType DEF Call
<1>4. CallSound(r)
  <2>1. Numbered(rev[i])
    BY DEF LifecycleInv, RevisionsNumbered
  <2>2. /\ r.op = "edit" /\ r.st = "read" /\ r.ids = {i} /\ r.old = msg[i].body
        /\ r.revs = rev[i] /\ IsFiniteSet(r.texts)
    BY NoCallType DEF Call
  <2> HIDE DEF r
  <2> QED BY <2>1, <2>2 DEF CallSound, SnapshotOf
<1>6. UNCHANGED <<tables, dlg, view, xid>>
  BY DEF EditMessage
<1>7. call' = [call EXCEPT ![k] = r]
  BY <1>1
<1> HIDE DEF r
<1> QED BY <1>3, <1>4, <1>6, <1>7, SameXid, FreeCallStep

(* The id an edit gets is higher than that of every edit handed on.        *)
LEMMA EditUpdatesStep ==
  ASSUME LifecycleInv, NEW k \in Calls, EditUpdates(k)
  PROVE  LifecycleInv' /\ RevisionStep
<1> DEFINE r == [call[k] EXCEPT !.st = "row", !.xid = xid + 1]
<1>1. xid' \in 0..MaxTx /\ xid <= xid' /\ xid' = xid + 1 /\ xid \in Nat /\ xid + 1 <= xid'
  BY TakeIdType DEF LifecycleInv, EditUpdates
<1>2. call[k] \in Call /\ call[k].op = "edit" /\ CallSound(call[k])
  BY DEF LifecycleInv, TypeOK, CallsSound, EditUpdates
<1>3. /\ r \in Call /\ r.op = "edit" /\ r.ids = call[k].ids /\ r.texts = call[k].texts
      /\ r.revs = call[k].revs /\ r.old = call[k].old /\ r.xid = xid + 1
  BY <1>1, <1>2 DEF Call
<1>4. call' = [call EXCEPT ![k] = r] /\ UNCHANGED <<tables, dlg, view>>
  BY DEF EditUpdates
<1> HIDE DEF r
<1>5. CallSound(r)
  <2>1. ASSUME NEW i \in r.ids PROVE SnapshotOf(r, i)
    <3>1. i \in DOMAIN msg /\ SnapshotOf(call[k], i)
      BY <1>2, <1>3 DEF CallSound
    <3>2. view[i].edited \in Nat /\ view[i].edited <= xid
      BY <3>1, MessageParts DEF LifecycleInv, RevisionsNumbered, View
    <3> QED BY <1>1, <1>3, <3>1, <3>2 DEF SnapshotOf
  <2> QED BY <1>2, <1>3, <2>1 DEF CallSound
<1> QED BY <1>1, <1>3, <1>4, <1>5, FreeCallStep

LEMMA DeleteMessagesStep ==
  ASSUME LifecycleInv, NEW k \in Calls, DeleteMessages(k)
  PROVE  LifecycleInv' /\ RevisionStep
<1>1. PICK by \in Members, D \in SUBSET DOMAIN msg :
        call' = [call EXCEPT ![k] = [NoCall EXCEPT !.op = "delete", !.by = by, !.ids = D]]
  <2>1. PICK by \in Members, I \in SUBSET Ids :
          call' = [call EXCEPT ![k] = [NoCall EXCEPT !.op = "delete", !.by = by,
                                         !.ids = {i \in I : MayDelete(by, i)}]]
    BY DEF DeleteMessages
  <2>2. {i \in I : MayDelete(by, i)} \subseteq DOMAIN msg
    BY DEF MayDelete
  <2> QED BY <2>1, <2>2
<1> DEFINE r == [NoCall EXCEPT !.op = "delete", !.by = by, !.ids = D]
<1>2. D \subseteq Ids
  BY MessageParts DEF LifecycleInv
<1>3. r \in Call /\ r.op = "delete" /\ r.xid = 0 /\ r.ids = D /\ r.texts = NoCall.texts
  BY <1>2, NoCallType DEF Call
<1>4. CallSound(r)
  BY <1>3, NoCallType DEF CallSound
<1>6. UNCHANGED <<tables, dlg, view, xid>>
  BY DEF DeleteMessages
<1>7. call' = [call EXCEPT ![k] = r]
  BY <1>1
<1> HIDE DEF r
<1> QED BY <1>3, <1>4, <1>6, <1>7, SameXid, FreeCallStep

LEMMA SetReactionStep ==
  ASSUME LifecycleInv, NEW k \in Calls, SetReaction(k)
  PROVE  LifecycleInv' /\ RevisionStep
<1>1. PICK by \in Members, i \in DOMAIN msg, e \in Emojis \union {None} :
        call' = [call EXCEPT ![k] = [NoCall EXCEPT !.op = "react", !.by = by, !.ids = {i}, !.emoji = e]]
  BY DEF SetReaction
<1> DEFINE r == [NoCall EXCEPT !.op = "react", !.by = by, !.ids = {i}, !.emoji = e]
<1>2. i \in Ids
  BY MessageParts DEF LifecycleInv
<1>3. r \in Call /\ r.op = "react" /\ r.xid = 0 /\ r.st = "read" /\ r.ids = {i} /\ r.texts = NoCall.texts
  BY <1>2, NoCallType DEF Call
<1>6. UNCHANGED <<tables, dlg, view, xid>>
  BY DEF SetReaction
<1>7. call' = [call EXCEPT ![k] = r]
  BY <1>1
<1> HIDE DEF r
<1>4. CallSound(r)
  BY <1>3, NoCallType DEF CallSound, AggregateExact
<1> QED BY <1>3, <1>4, <1>6, <1>7, SameXid, FreeCallStep

LEMMA ForwardMessagesStep ==
  ASSUME LifecycleInv, NEW k \in Calls, ForwardMessages(k)
  PROVE  LifecycleInv' /\ RevisionStep
<1>1. PICK by \in Members, as \in Members, I \in SUBSET DOMAIN msg, t \in Threads :
        call' = [call EXCEPT ![k] = [NoCall EXCEPT !.op = "forward", !.by = by, !.as = as, !.to = t,
                   !.texts = {<<i, msg[i].body>> : i \in {j \in I : Forwardable(by, j)}}]]
  BY DEF ForwardMessages
<1> DEFINE texts == {<<i, msg[i].body>> : i \in {j \in I : Forwardable(by, j)}}
           r == [NoCall EXCEPT !.op = "forward", !.by = by, !.as = as, !.to = t, !.texts = texts]
<1>2. texts \subseteq Ids \X Bodies
  BY MessageParts DEF LifecycleInv
<1>7. call' = [call EXCEPT ![k] = r]
  BY <1>1
<1>8. IsFiniteSet(texts)
  <2> DEFINE S == {j \in I : Forwardable(by, j)}
             f == [i \in S |-> <<i, msg[i].body>>]
  <2>1. S \subseteq 1..Len(msg) /\ Len(msg) \in Nat
    BY DEF LifecycleInv, TypeOK
  <2>2. IsFiniteSet(S)
    BY <2>1, FS_Interval, FS_Subset
  <2>4. f \in Surjection(S, texts)
    BY DEF Surjection
  <2> HIDE DEF S, f, texts
  <2> QED BY <2>2, <2>4, FS_Surjection
<1> HIDE DEF texts
<1>3. r \in Call /\ r.op = "forward" /\ r.xid = 0 /\ r.ids = {} /\ r.texts = texts
  BY <1>2, NoCallType DEF Call
<1>6. UNCHANGED <<tables, dlg, view, xid>>
  BY DEF ForwardMessages
<1> HIDE DEF r
<1>4. CallSound(r)
  BY <1>3, <1>8 DEF CallSound
<1> QED BY <1>3, <1>4, <1>6, <1>7, SameXid, FreeCallStep

LEMMA WriteReactionStep ==
  ASSUME LifecycleInv, NEW k \in Calls, WriteReaction(k)
  PROVE  LifecycleInv' /\ RevisionStep
<1>1. CASE Finish(k) /\ UNCHANGED xid
  BY <1>1, FinishStep DEF WriteReaction
<1>2. CASE TakeId /\ call' = [call EXCEPT ![k].st = "row", ![k].xid = xid + 1]
  <2> DEFINE r == [call[k] EXCEPT !.st = "row", !.xid = xid + 1]
  <2>1. xid' \in 0..MaxTx /\ xid <= xid' /\ xid' = xid + 1 /\ xid + 1 <= xid'
    BY <1>2, TakeIdType DEF LifecycleInv
  <2>2. call[k] \in Call /\ call[k].op = "react" /\ CallSound(call[k])
    BY DEF LifecycleInv, TypeOK, CallsSound, WriteReaction
  <2>3. /\ r \in Call /\ r.op = "react" /\ r.st = "row" /\ r.ids = call[k].ids
        /\ r.texts = call[k].texts /\ r.xid = xid + 1
    BY <2>1, <2>2 DEF Call
  <2>4. call' = [call EXCEPT ![k] = r]
    BY <1>2
  <2>5. UNCHANGED <<tables, dlg, view>>
    BY DEF WriteReaction
  <2> HIDE DEF r
  <2>6. CallSound(r)
    BY <2>2, <2>3 DEF CallSound, AggregateExact
  <2> QED BY <2>1, <2>3, <2>4, <2>5, <2>6, FreeCallStep
<1> QED BY <1>1, <1>2 DEF WriteReaction

LEMMA LockForUpdateStep ==
  ASSUME LifecycleInv, NEW k \in Calls, LockForUpdate(k)
  PROVE  LifecycleInv' /\ RevisionStep
<1> DEFINE r == [call[k] EXCEPT !.st = "locked"]
<1>1. call[k] \in Call /\ call[k].op = "react" /\ CallSound(call[k])
  BY DEF LifecycleInv, TypeOK, CallsSound, LockForUpdate
<1>2. /\ r \in Call /\ r.op = "react" /\ r.st = "locked" /\ r.ids = call[k].ids
      /\ r.texts = call[k].texts /\ r.xid = call[k].xid
  BY <1>1 DEF Call
<1>3. call' = [call EXCEPT ![k] = r] /\ UNCHANGED <<tables, dlg, view, xid>>
  BY DEF LockForUpdate
<1> HIDE DEF r
<1>4. CallSound(r)
  BY <1>1, <1>2 DEF CallSound, AggregateExact
<1>5. \A i \in r.ids : Unlocked(msg[i].in)
  BY <1>2 DEF LockForUpdate
<1> QED BY <1>2, <1>3, <1>4, <1>5, SameXid, CallStep

LEMMA AggregateStep ==
  ASSUME LifecycleInv, NEW k \in Calls, AggregateForMessage(k)
  PROVE  LifecycleInv' /\ RevisionStep
<1>1. PICK i \in call[k].ids :
        call' = [call EXCEPT ![k].st = "ready", ![k].agg = Aggregate(i, call[k])]
  BY DEF AggregateForMessage
<1> DEFINE a == Aggregate(i, call[k])
           r == [call[k] EXCEPT !.st = "ready", !.agg = a]
<1>2. /\ call[k] \in Call /\ call[k].op = "react" /\ call[k].st = "locked" /\ CallSound(call[k])
      /\ call[k].by \in Members /\ call[k].emoji \in Emojis \union {None}
  BY DEF LifecycleInv, TypeOK, CallsSound, AggregateForMessage, Call
<1>3. i \in DOMAIN msg /\ react[i] \in Marks
  BY <1>2, MessageParts DEF LifecycleInv, CallSound
<1>4. a \in Marks
  BY <1>2, <1>3 DEF Aggregate, Marks
<1>5. call' = [call EXCEPT ![k] = r] /\ UNCHANGED <<tables, dlg, view, xid>>
  BY <1>1 DEF AggregateForMessage
<1> HIDE DEF a
<1>6. /\ r \in Call /\ r.op = "react" /\ r.st = "ready" /\ r.ids = call[k].ids
      /\ r.texts = call[k].texts /\ r.by = call[k].by /\ r.emoji = call[k].emoji /\ r.agg = a
      /\ r.xid = call[k].xid
  BY <1>2, <1>4 DEF Call
<1> HIDE DEF r
<1>7. r.ids = {i} /\ r.agg = Aggregate(i, r)
  BY <1>2, <1>6 DEF CallSound, AggregateExact, Aggregate, a
<1>8. CallSound(r)
  BY <1>2, <1>6, <1>7 DEF CallSound, AggregateExact
<1>9. \A l \in r.ids : Holds(call[k], l) /\ r.ids = call[k].ids
  BY <1>2, <1>6 DEF Holds
<1> QED BY <1>5, <1>6, <1>8, <1>9, SameXid, CallStep

-----------------------------------------------------------------------------
(* Steps that change stored messages.                                      *)

\* What Announced says of message i.
PressedOn(i) == {n \in Buttons : <<i, n>> \in pressed}

Agrees(i) ==
    /\ view[i].body = msg[i].body /\ view[i].version = Cardinality(rev[i]) + 1
    /\ view[i].deleted = msg[i].deleted /\ view[i].pressed = PressedOn(i)
    /\ view[i].reactions = react[i] \/ view[i].behind

LEMMA AnnouncedParts ==
  /\ Announced <=> \A i \in DOMAIN msg : Agrees(i)
  /\ Announced' <=> \A i \in DOMAIN msg' : Agrees(i)'
BY DEF Announced, Agrees, PressedOn

LEMMA AgreesNow ==
  ASSUME LifecycleInv, NEW i \in DOMAIN msg
  PROVE  Agrees(i)
BY AnnouncedParts DEF LifecycleInv

LEMMA OtherCalls ==
  ASSUME LifecycleInv, NEW k \in Calls, Finish(k),
         \A c \in Call : (\E j \in Calls \ {k} : c = call[j]) /\ CallSound(c) => CallSound(c)'
  PROVE  CallsSound' /\ call' \in [Calls -> Call] /\ \A j \in Calls : call'[j] \in {NoCall, call[j]}
<1>1. call' \in [Calls -> Call]
  BY NoCallType DEF LifecycleInv, TypeOK, Finish
<1>2. ASSUME NEW j \in Calls PROVE CallSound(call[j])'
  <2>1. CASE j = k
    <3>1. call'[j] = NoCall
      BY <2>1 DEF LifecycleInv, TypeOK, Finish
    <3> QED BY <3>1, NoCallType DEF CallSound
  <2>2. CASE j # k
    <3>1. call'[j] = call[j] /\ call[j] \in Call /\ CallSound(call[j])
      BY <2>2 DEF LifecycleInv, TypeOK, Finish, CallsSound
    <3>2. PICK d \in Call : d = call[j]
      BY <3>1
    <3>3. CallSound(d)'
      BY <2>2, <3>1, <3>2
    <3>4. d = call'[j]
      BY <3>1, <3>2
    <3> QED BY <3>3, <3>4, SoundNext
  <2> QED BY <2>1, <2>2
<1>3. \A j \in Calls : call'[j] \in {NoCall, call[j]}
  BY DEF LifecycleInv, TypeOK, Finish
<1> QED BY <1>1, <1>2, <1>3 DEF CallsSound

(* Calls that go on, and messages that stay in their thread, keep locks    *)
(* exclusive.                                                              *)
LEMMA LocksKept ==
  ASSUME LifecycleInv, \A j \in Calls : call'[j] \in {NoCall, call[j]},
         \A i \in DOMAIN msg : msg'[i].in = msg[i].in, xid' \in Nat, xid <= xid'
  PROVE  OneHolder' /\ IdsGiven'
<1>3. IdsGiven'
  <2>1. xid \in Nat /\ \A j \in Calls : call[j].xid \in Nat /\ call[j].xid <= xid
    BY DEF LifecycleInv, TypeOK, IdsGiven, Call
  <2> QED BY <2>1, NoCallType DEF IdsGiven
<1> SUFFICES ASSUME NEW j \in Calls, NEW k \in Calls, NEW i \in call'[j].ids, NEW l \in call'[k].ids,
                    Holds(call'[j], i), Holds(call'[k], l), msg'[i].in = msg'[l].in
             PROVE  j = k
  BY <1>3 DEF OneHolder, Holds
<1>1. call'[j] = call[j] /\ call'[k] = call[k]
  BY NoCallType DEF Holds
<1>2. i \in DOMAIN msg /\ l \in DOMAIN msg
  BY <1>1 DEF LifecycleInv, CallsSound, CallSound
<1> QED BY <1>1, <1>2 DEF LifecycleInv, OneHolder

LEMMA DeleteCommitsStep ==
  ASSUME LifecycleInv, NEW k \in Calls, DeleteCommits(k)
  PROVE  LifecycleInv' /\ RevisionStep
<1> DEFINE D == call[k].ids
<1>1. /\ msg' = [i \in DOMAIN msg |-> IF i \in D THEN [msg[i] EXCEPT !.deleted = TRUE] ELSE msg[i]]
      /\ view' = [i \in DOMAIN view |-> IF i \in D THEN [view[i] EXCEPT !.deleted = TRUE] ELSE view[i]]
      /\ TakeId /\ Finish(k) /\ UNCHANGED <<rev, react, pressed, dlg>>
  BY DEF DeleteCommits
<1>2. TypeOK
  BY DEF LifecycleInv
<1>3. xid' \in 0..MaxTx /\ xid' = xid + 1 /\ xid \in Nat
  BY <1>1, <1>2, TakeIdType
<1>4. DOMAIN msg = 1..Len(msg) /\ Len(msg) \in Nat /\ DOMAIN view = DOMAIN msg
  BY <1>2 DEF TypeOK
<1> HIDE DEF D
<1>5. ASSUME NEW i \in DOMAIN msg
      PROVE  /\ msg'[i] \in Message /\ msg'[i].body = msg[i].body /\ msg'[i].in = msg[i].in
             /\ msg'[i].deleted = view'[i].deleted
             /\ view'[i] \in View /\ view'[i].body = view[i].body
             /\ view'[i].version = view[i].version /\ view'[i].edited = view[i].edited
             /\ view'[i].reactions = view[i].reactions /\ view'[i].behind = view[i].behind
             /\ view'[i].pressed = view[i].pressed
  <2>1. msg[i] \in Message /\ view[i] \in View /\ view[i].deleted = msg[i].deleted
    BY <1>2, MessageParts, AgreesNow DEF Agrees
  <2>2. CASE i \in D
    <3>1. msg'[i] = [msg[i] EXCEPT !.deleted = TRUE] /\ view'[i] = [view[i] EXCEPT !.deleted = TRUE]
      BY <1>1, <1>4, <2>2
    <3> QED BY <2>1, <2>2, <3>1 DEF Message, View
  <2>3. CASE i \notin D
    <3>1. msg'[i] = msg[i] /\ view'[i] = view[i]
      BY <1>1, <1>4, <2>3
    <3> QED BY <2>1, <3>1
  <2> QED BY <2>2, <2>3
<1>6. DOMAIN msg' = DOMAIN msg /\ msg' \in [1..Len(msg) -> Message] /\ view' \in [DOMAIN msg -> View]
  BY <1>1, <1>4, <1>5
<1>7. msg' \in Seq(Message) /\ Len(msg') = Len(msg)
  BY <1>4, <1>6, FunctionIsSeq
<1>8. \A c \in Call : CallSound(c) => CallSound(c)'
  BY <1>1, <1>5, <1>6 DEF CallSound, SnapshotOf, AggregateExact, Aggregate
<1>a. xid' \in Nat /\ xid <= xid'
  BY <1>3
<1>9. CallsSound' /\ call' \in [Calls -> Call] /\ OneHolder' /\ IdsGiven'
  BY <1>1, <1>5, <1>8, <1>a, OtherCalls, LocksKept
<1>10. TypeOK'
  BY <1>1, <1>2, <1>3, <1>6, <1>7, <1>9 DEF TypeOK
<1>11. RevisionsNumbered'
  <2> SUFFICES ASSUME NEW i \in DOMAIN msg
               PROVE  /\ Numbered(rev[i]) /\ Cardinality(rev[i]) <= view'[i].edited
                      /\ view'[i].edited <= xid'
    BY <1>1, <1>6 DEF RevisionsNumbered
  <2>1. Numbered(rev[i]) /\ Cardinality(rev[i]) <= view[i].edited /\ view[i].edited <= xid
    BY DEF LifecycleInv, RevisionsNumbered
  <2>2. view[i].edited \in Nat /\ view'[i].edited = view[i].edited
    BY <1>2, <1>5, MessageParts DEF View
  <2> QED BY <1>3, <2>1, <2>2
<1>12. Announced'
  <2>1. ASSUME NEW i \in DOMAIN msg PROVE Agrees(i)'
    <3>1. Agrees(i) /\ PressedOn(i)' = PressedOn(i)
      BY <1>1, AgreesNow DEF PressedOn
    <3> QED BY <1>1, <1>5, <3>1 DEF Agrees
  <2> QED BY <1>6, <2>1, AnnouncedParts
<1>13. RevisionStep
  BY <1>1, <1>5 DEF RevisionStep
<1> QED BY <1>9, <1>10, <1>11, <1>12, <1>13 DEF LifecycleInv

(* The reactions are what the aggregate under the thread's lock said: no   *)
(* other reaction to the message has read its aggregate.                   *)
LEMMA ReactionCommitsStep ==
  ASSUME LifecycleInv, NEW k \in Calls, ReactionCommits(k)
  PROVE  LifecycleInv' /\ RevisionStep
<1> DEFINE c == call[k]
<1>1. /\ TypeOK /\ c \in Call /\ c.ids \subseteq DOMAIN msg /\ c.by \in Members
      /\ c.emoji \in Emojis \union {None} /\ c.op = "react" /\ c.st = "ready"
      /\ c.agg \in Marks /\ c.xid \in 0..MaxTx /\ AggregateExact(c)
  BY DEF LifecycleInv, TypeOK, CallsSound, CallSound, Call, ReactionCommits
<1>2. PICK i \in c.ids :
        /\ react' = [react EXCEPT ![i][c.by] = c.emoji]
        /\ view' = [view EXCEPT ![i] = Reacted(view[i], c)]
  BY DEF ReactionCommits
<1>3. Finish(k) /\ UNCHANGED <<msg, rev, pressed, dlg, xid>>
  BY DEF ReactionCommits
<1>4. i \in DOMAIN msg /\ react[i] \in Marks /\ view[i] \in View
  BY <1>1, MessageParts
<1> DEFINE own == c.agg
           seen == Reacted(view[i], c)
<1>5. own \in Marks /\ react' = [react EXCEPT ![i] = own]
  <2>1. own = [react[i] EXCEPT ![c.by] = c.emoji]
    BY <1>1 DEF AggregateExact, Aggregate
  <2> QED BY <1>1, <1>2, <2>1
<1>6. /\ seen \in View /\ seen.body = view[i].body /\ seen.version = view[i].version
      /\ seen.edited = view[i].edited /\ seen.deleted = view[i].deleted /\ seen.pressed = view[i].pressed
      /\ seen.reactions = own \/ seen.behind
  <2>1. CASE view[i].reacted < c.xid
    <3>1. seen = [view[i] EXCEPT !.reactions = c.agg, !.reacted = c.xid, !.behind = FALSE]
      BY <2>1 DEF Reacted
    <3> QED BY <1>1, <1>4, <3>1 DEF View
  <2>2. CASE ~(view[i].reacted < c.xid)
    <3>1. seen = [view[i] EXCEPT !.behind = TRUE]
      BY <2>2 DEF Reacted
    <3> QED BY <1>4, <3>1 DEF View
  <2> QED BY <2>1, <2>2
<1>7. view' = [view EXCEPT ![i] = seen]
  BY <1>2
<1> HIDE DEF own, seen
<1>8. react' \in [DOMAIN msg -> Marks] /\ view' \in [DOMAIN msg -> View]
  BY <1>1, <1>4, <1>5, <1>6, <1>7 DEF TypeOK
<1>9. ASSUME NEW j \in DOMAIN msg
      PROVE  /\ view'[j].edited = view[j].edited
             /\ j # i => react'[j] = react[j] /\ view'[j] = view[j]
             /\ j = i => react'[j] = own /\ view'[j] = seen
  BY <1>1, <1>5, <1>6, <1>7 DEF TypeOK
<1>a. xid' \in Nat /\ xid <= xid' /\ \A j \in DOMAIN msg : msg'[j].in = msg[j].in
  BY <1>1, <1>3 DEF TypeOK
<1>10. CallsSound' /\ call' \in [Calls -> Call] /\ OneHolder' /\ IdsGiven'
  <2>1. ASSUME NEW d \in Call, CallSound(d), NEW j \in Calls \ {k}, d = call[j]
        PROVE  CallSound(d)'
    <3>1. d.ids \subseteq DOMAIN msg' /\ IsFiniteSet(d.texts)
      BY <1>3, <2>1 DEF CallSound
    <3>2. ASSUME d.op = "edit" PROVE Numbered(d.revs) /\ \A l \in d.ids : SnapshotOf(d, l)'
      <4>1. ASSUME NEW l \in d.ids PROVE SnapshotOf(d, l)'
        <5>1. l \in DOMAIN msg /\ SnapshotOf(d, l)
          BY <2>1, <3>2, <4>1 DEF CallSound
        <5> QED BY <1>3, <1>9, <5>1 DEF SnapshotOf
      <4> QED BY <2>1, <3>2, <4>1 DEF CallSound
    <3>3. ASSUME d.op = "react" PROVE AggregateExact(d)'
      <4>1. AggregateExact(d)
        BY <2>1, <3>3 DEF CallSound
      <4>2. ASSUME d.st = "ready", NEW l \in d.ids PROVE d.agg = Aggregate(l, d)'
        <5>1. l \in DOMAIN msg /\ d.agg = Aggregate(l, d)
          BY <2>1, <4>1, <4>2 DEF CallSound, AggregateExact
        <5>2. CASE l = i
          <6>1. Holds(c, i) /\ Holds(call[j], l) /\ l \in call[j].ids /\ j \in Calls
            BY <1>1, <2>1, <3>3, <4>2 DEF Holds
          <6> QED BY <2>1, <5>2, <6>1 DEF LifecycleInv, OneHolder
        <5>3. CASE l # i
          BY <1>9, <5>1, <5>3 DEF Aggregate
        <5> QED BY <5>2, <5>3
      <4> QED BY <4>1, <4>2 DEF AggregateExact
    <3> QED BY <2>1, <3>1, <3>2, <3>3 DEF CallSound
  <2> HIDE DEF c
  <2>2. \A d \in Call : (\E j \in Calls \ {k} : d = call[j]) /\ CallSound(d) => CallSound(d)'
    BY <2>1
  <2> QED BY <1>3, <1>a, <2>2, OtherCalls, LocksKept
<1>11. TypeOK'
  BY <1>1, <1>3, <1>8, <1>10 DEF TypeOK
<1>12. RevisionsNumbered'
  BY <1>3, <1>9 DEF LifecycleInv, RevisionsNumbered
<1>13. Announced'
  <2>1. ASSUME NEW j \in DOMAIN msg PROVE Agrees(j)'
    <3>1. Agrees(j) /\ PressedOn(j)' = PressedOn(j)
      BY <1>3, AgreesNow DEF PressedOn
    <3> QED BY <1>3, <1>6, <1>9, <3>1 DEF Agrees
  <2> QED BY <1>3, <2>1, AnnouncedParts
<1>14. RevisionStep
  BY <1>3 DEF RevisionStep
<1> QED BY <1>10, <1>11, <1>12, <1>13, <1>14 DEF LifecycleInv

(* An edit commits only if its snapshot was the present state, as the      *)
(* unique version catches the others, and then its id is the highest of    *)
(* the message's edits; another edit's snapshot stays a former state.      *)
LEMMA EditCommitsStep ==
  ASSUME LifecycleInv, NEW k \in Calls, EditCommits(k)
  PROVE  LifecycleInv' /\ RevisionStep
<1> DEFINE c == call[k]
<1>1. /\ TypeOK /\ c \in Call /\ c.op = "edit" /\ c.st = "row" /\ CallSound(c)
      /\ c.body \in Bodies /\ c.xid \in 0..MaxTx
  BY DEF LifecycleInv, TypeOK, CallsSound, Call, EditCommits
<1>2. PICK i \in c.ids :
        /\ ~VersionTaken(k, i)
        /\ msg' = [msg EXCEPT ![i].body = c.body]
        /\ rev' = [rev EXCEPT ![i] = @ \union {<<NextVersion(c.revs), c.old>>}]
        /\ view' = [view EXCEPT ![i] = Edited(view[i], c)]
  BY DEF EditCommits
<1>3. Finish(k) /\ UNCHANGED <<react, pressed, dlg, xid>>
  BY DEF EditCommits
<1>4. i \in DOMAIN msg /\ Numbered(c.revs) /\ Numbered(rev[i]) /\ SnapshotOf(c, i)
  BY <1>1 DEF CallSound, LifecycleInv, RevisionsNumbered
<1>5. c.revs = rev[i] /\ c.old = msg[i].body /\ view[i].edited < c.xid
  <2>1. c.revs = rev[i]
    BY <1>2, <1>4, FreshSnapshot DEF VersionTaken, SnapshotOf
  <2> QED BY <1>1, <1>4, <2>1 DEF SnapshotOf
<1> DEFINE n == Cardinality(rev[i])
           grown == rev[i] \union {<<n + 1, msg[i].body>>}
           seen == [view[i] EXCEPT !.body = c.body, !.version = n + 2, !.edited = c.xid]
<1>6. n \in Nat /\ NextVersion(c.revs) = n + 1 /\ n <= view[i].edited
  BY <1>4, <1>5, LastIsCount DEF LifecycleInv, RevisionsNumbered
<1>7. Numbered(grown) /\ Cardinality(grown) = n + 1 /\ ~(grown \subseteq rev[i])
  BY <1>4, NextIsNumbered
<1>8. /\ i \in 1..Len(msg) /\ DOMAIN msg = 1..Len(msg) /\ Len(msg) \in Nat
      /\ msg[i] \in Message /\ msg[i].body \in Bodies /\ rev[i] \in Revs /\ view[i] \in View
  BY <1>1, <1>4, MessageParts
<1>9. /\ xid \in Nat /\ MaxTx \in Nat /\ c.xid \in Nat /\ c.xid <= MaxTx
      /\ view[i].edited \in Nat /\ n + 1 <= c.xid
  BY <1>1, <1>5, <1>6, <1>8, LifecycleConstants DEF TypeOK, View
<1>10. grown \in Revs /\ seen \in View
  <2>1. n + 1 \in 1..MaxTx /\ n + 2 \in 1..(MaxTx + 1)
    BY <1>6, <1>9
  <2>2. <<n + 1, msg[i].body>> \in (1..MaxTx) \X Bodies
    BY <1>8, <2>1
  <2> HIDE DEF n
  <2>3. grown \in Revs
    BY <1>8, <2>2 DEF Revs
  <2>4. seen \in View
    BY <1>1, <1>8, <2>1 DEF View
  <2> QED BY <2>3, <2>4
<1>11. /\ msg' = [msg EXCEPT ![i] = [msg[i] EXCEPT !.body = c.body]]
       /\ rev' = [rev EXCEPT ![i] = grown]
       /\ view' = [view EXCEPT ![i] = seen]
  BY <1>2, <1>5, <1>6 DEF Edited
<1>12. /\ seen.body = c.body /\ seen.version = n + 2 /\ seen.deleted = view[i].deleted
       /\ seen.reactions = view[i].reactions /\ seen.behind = view[i].behind
       /\ seen.pressed = view[i].pressed /\ seen.edited = c.xid
  BY <1>8 DEF View
<1>13. PICK e : e = [msg[i] EXCEPT !.body = c.body]
  OBVIOUS
<1>14. e \in Message /\ e.body = c.body /\ e.deleted = msg[i].deleted /\ e.in = msg[i].in
  BY <1>1, <1>8, <1>13 DEF Message
<1>15. msg' = [msg EXCEPT ![i] = e]
  BY <1>11, <1>13
<1> HIDE DEF grown, seen
<1>16. ASSUME NEW j \in DOMAIN msg
       PROVE  /\ msg'[j] = IF j = i THEN e ELSE msg[j]
              /\ rev'[j] = IF j = i THEN grown ELSE rev[j]
              /\ view'[j] = IF j = i THEN seen ELSE view[j]
  BY <1>1, <1>11, <1>15 DEF TypeOK
<1>17. /\ DOMAIN msg' = DOMAIN msg /\ msg' \in [1..Len(msg) -> Message]
       /\ rev' \in [DOMAIN msg -> Revs] /\ view' \in [DOMAIN msg -> View]
  <2>1. msg \in [1..Len(msg) -> Message]
    BY <1>1, <1>8 DEF TypeOK
  <2> QED BY <1>1, <1>8, <1>10, <1>11, <1>14, <1>15, <2>1 DEF TypeOK
<1>18. msg' \in Seq(Message) /\ Len(msg') = Len(msg)
  BY <1>8, <1>17, FunctionIsSeq
<1>19. rev[i] \subseteq grown
  BY DEF grown
<1>a. c.xid <= xid /\ xid' = xid /\ xid' \in Nat /\ xid <= xid'
  BY <1>3, <1>9 DEF LifecycleInv, IdsGiven
<1>20. CallsSound' /\ call' \in [Calls -> Call] /\ OneHolder' /\ IdsGiven'
  <2>1. ASSUME NEW d \in Call, CallSound(d) PROVE CallSound(d)'
    <3>1. d.ids \subseteq DOMAIN msg'
      BY <1>17, <2>1 DEF CallSound
    <3>2. ASSUME d.op = "edit", NEW j \in d.ids PROVE SnapshotOf(d, j)'
      <4>1. j \in DOMAIN msg /\ SnapshotOf(d, j)
        BY <2>1, <3>2 DEF CallSound
      <4>2. CASE j = i
        <5>1. d.revs \subseteq rev[i] /\ rev'[i] = grown
          BY <1>16, <4>1, <4>2 DEF SnapshotOf
        <5>2. d.revs # grown /\ d.revs \subseteq grown
          BY <1>7, <1>19, <5>1
        <5> QED BY <1>3, <4>1, <4>2, <5>1, <5>2 DEF SnapshotOf
      <4>3. CASE j # i
        BY <1>3, <1>16, <4>1, <4>3 DEF SnapshotOf
      <4> QED BY <4>2, <4>3
    <3>3. ASSUME d.op = "react" PROVE AggregateExact(d)'
      BY <1>3, <2>1, <3>3 DEF CallSound, AggregateExact, Aggregate
    <3> QED BY <2>1, <3>1, <3>2, <3>3 DEF CallSound
  <2>2. \A d \in Call : CallSound(d) => CallSound(d)'
    BY <2>1
  <2>3. \A j \in DOMAIN msg : msg'[j].in = msg[j].in
    BY <1>14, <1>16
  <2> HIDE DEF c
  <2> QED BY <1>3, <1>a, <2>2, <2>3, OtherCalls, LocksKept
<1>21. TypeOK'
  BY <1>1, <1>3, <1>9, <1>17, <1>18, <1>20 DEF TypeOK
<1>22. RevisionsNumbered'
  <2>1. ASSUME NEW j \in DOMAIN msg
        PROVE  Numbered(rev'[j]) /\ Cardinality(rev'[j]) <= view'[j].edited /\ view'[j].edited <= xid'
    <3>1. CASE j = i
      BY <1>3, <1>a, <1>7, <1>9, <1>12, <1>16, <3>1
    <3>2. CASE j # i
      BY <1>3, <1>16, <3>2 DEF LifecycleInv, RevisionsNumbered
    <3> QED BY <3>1, <3>2
  <2> QED BY <1>17, <2>1 DEF RevisionsNumbered
<1>23. Announced'
  <2>1. ASSUME NEW j \in DOMAIN msg PROVE Agrees(j)'
    <3>1. Agrees(j)
      BY AgreesNow
    <3>2. PressedOn(j)' = PressedOn(j)
      BY <1>3 DEF PressedOn
    <3>3. CASE j = i
      <4>1. Cardinality(rev'[j]) + 1 = n + 2
        BY <1>6, <1>7, <1>16, <3>3
      <4> QED BY <1>3, <1>12, <1>14, <1>16, <3>1, <3>2, <3>3, <4>1 DEF Agrees
    <3>4. CASE j # i
      BY <1>3, <1>16, <3>1, <3>2, <3>4 DEF Agrees
    <3> QED BY <3>3, <3>4
  <2> QED BY <1>17, <2>1, AnnouncedParts
<1>24. RevisionStep
  BY <1>16 DEF RevisionStep, grown
<1> QED BY <1>20, <1>21, <1>22, <1>23, <1>24 DEF LifecycleInv

LEMMA CallbackStep ==
  ASSUME LifecycleInv, NEW by \in Members, NEW i \in DOMAIN msg, NEW n \in Buttons,
         SendInteractiveCallback(by, i, n)
  PROVE  LifecycleInv' /\ RevisionStep
<1>1. /\ pressed' = pressed \union {<<i, n>>}
      /\ view' = [view EXCEPT ![i] = [view[i] EXCEPT !.pressed = @ \union {n}]]
      /\ TakeId /\ UNCHANGED <<msg, rev, react, dlg, call>>
  BY DEF SendInteractiveCallback
<1>2. TypeOK /\ view[i] \in View
  BY MessageParts DEF LifecycleInv
<1>3. xid' \in 0..MaxTx /\ xid' = xid + 1 /\ xid \in Nat
  BY <1>1, <1>2, TakeIdType
<1>4. view' \in [DOMAIN msg -> View]
  BY <1>1, <1>2 DEF TypeOK, View
<1>5. TypeOK'
  BY <1>1, <1>2, <1>3, <1>4 DEF TypeOK
<1>a. ASSUME NEW j \in DOMAIN msg
      PROVE  /\ view'[j].body = view[j].body /\ view'[j].version = view[j].version
             /\ view'[j].deleted = view[j].deleted /\ view'[j].reactions = view[j].reactions
             /\ view'[j].behind = view[j].behind /\ view'[j].edited = view[j].edited
             /\ view'[j].pressed = IF j = i THEN view[j].pressed \union {n} ELSE view[j].pressed
             /\ view[j].edited \in Nat
  <2>1. view[j] \in View
    BY <1>2 DEF TypeOK
  <2>2. view'[j] = IF j = i THEN [view[j] EXCEPT !.pressed = view[j].pressed \union {n}] ELSE view[j]
    BY <1>1, <1>2 DEF TypeOK
  <2>3. CASE j = i
    BY <2>1, <2>2, <2>3 DEF View
  <2>4. CASE j # i
    BY <2>1, <2>2, <2>4 DEF View
  <2> QED BY <2>3, <2>4
<1>b. xid' \in Nat /\ xid <= xid'
  BY <1>3
<1>6. CallsSound' /\ OneHolder' /\ IdsGiven'
  <2>1. \A c \in Call : CallSound(c) => CallSound(c)'
    BY <1>1, <1>a DEF CallSound, SnapshotOf, AggregateExact, Aggregate
  <2>2. ASSUME NEW j \in Calls PROVE CallSound(call[j])'
    <3>1. PICK c \in Call : c = call[j]
      BY <1>2 DEF TypeOK
    <3>2. CallSound(c)'
      BY <2>1, <3>1 DEF LifecycleInv, CallsSound
    <3>3. c = call'[j]
      BY <1>1, <3>1
    <3> QED BY <3>2, <3>3, SoundNext
  <2>3. OneHolder' /\ IdsGiven'
    BY <1>1, <1>b, LocksKept
  <2> QED BY <2>2, <2>3 DEF CallsSound
<1>7. RevisionsNumbered'
  <2> SUFFICES ASSUME NEW j \in DOMAIN msg
               PROVE  /\ Numbered(rev[j]) /\ Cardinality(rev[j]) <= view'[j].edited
                      /\ view'[j].edited <= xid'
    BY <1>1 DEF RevisionsNumbered
  <2>1. Numbered(rev[j]) /\ Cardinality(rev[j]) <= view[j].edited /\ view[j].edited <= xid
    BY DEF LifecycleInv, RevisionsNumbered
  <2>2. view'[j].edited = view[j].edited /\ view[j].edited \in Nat
    BY <1>a
  <2>3. view[j].edited <= xid'
    BY <1>3, <2>1, <2>2
  <2> QED BY <2>1, <2>2, <2>3
<1>8. Announced'
  <2>1. ASSUME NEW j \in DOMAIN msg PROVE Agrees(j)'
    <3>1. Agrees(j)
      BY AgreesNow
    <3>2. PressedOn(j)' = IF j = i THEN PressedOn(j) \union {n} ELSE PressedOn(j)
      BY <1>1 DEF PressedOn
    <3> QED BY <1>1, <1>a, <3>1, <3>2 DEF Agrees
  <2> QED BY <1>1, <2>1, AnnouncedParts
<1>9. RevisionStep
  BY <1>1 DEF RevisionStep
<1> QED BY <1>5, <1>6, <1>7, <1>8, <1>9 DEF LifecycleInv

(* New messages start without revisions, reactions or pressed buttons, and *)
(* the stored ones keep theirs.                                            *)
LEMMA InsertStep ==
  ASSUME LifecycleInv, NEW ms \in Seq(Message), Insert(ms),
         Len(msg) + Len(ms) <= MaxMsgs,
         \A j \in DOMAIN ms : ~ms[j].deleted,
         UNCHANGED <<pressed, dlg>>, call' \in [Calls -> Call],
         \A k \in Calls : call'[k] = NoCall \/ call'[k] = call[k],
         xid' \in 0..MaxTx, xid <= xid'
  PROVE  LifecycleInv' /\ RevisionStep
<1> DEFINE l == Len(msg)
           m == Len(ms)
           newRev == [j \in DOMAIN ms |-> {}]
           newReact == [j \in DOMAIN ms |-> NoMarks]
           newView == [j \in DOMAIN ms |-> Fresh(ms[j].body)]
<1>1. TypeOK /\ msg \in Seq(Message) /\ l \in Nat /\ m \in Nat /\ DOMAIN ms = 1..m /\ DOMAIN msg = 1..l
  BY DEF LifecycleInv, TypeOK
<1>2. NoMarks \in Marks /\ {} \in Revs
  BY DEF NoMarks, Marks, Revs
<1>3. \A j \in DOMAIN ms : Fresh(ms[j].body) \in View
  <2> SUFFICES ASSUME NEW j \in DOMAIN ms PROVE Fresh(ms[j].body) \in View
    OBVIOUS
  <2>0. ms[j] \in Message
    BY <1>1
  <2>1. ms[j].body \in Bodies
    BY <2>0 DEF Message
  <2>2. 1 \in 1..(MaxTx + 1) /\ 0 \in 0..MaxTx
    BY LifecycleConstants
  <2> QED BY <1>2, <2>1, <2>2 DEF Fresh, View
<1>4. /\ rev \in [1..l -> Revs] /\ react \in [1..l -> Marks] /\ view \in [1..l -> View]
      /\ newRev \in [1..m -> Revs] /\ newReact \in [1..m -> Marks] /\ newView \in [1..m -> View]
  BY <1>1, <1>2, <1>3 DEF TypeOK
<1> HIDE DEF newRev, newReact, newView, l, m
<1>5. /\ rev \in Seq(Revs) /\ Len(rev) = l /\ react \in Seq(Marks) /\ Len(react) = l
      /\ view \in Seq(View) /\ Len(view) = l
  BY <1>1, <1>4, FunctionIsSeq
<1>6. /\ newRev \in Seq(Revs) /\ Len(newRev) = m /\ newReact \in Seq(Marks) /\ Len(newReact) = m
      /\ newView \in Seq(View) /\ Len(newView) = m
  BY <1>1, <1>4, FunctionIsSeq
<1>7. /\ msg' = msg \o ms /\ rev' = rev \o newRev /\ react' = react \o newReact /\ view' = view \o newView
  BY DEF Insert, newRev, newReact, newView
<1>8. /\ msg' \in Seq(Message) /\ Len(msg') = l + m /\ DOMAIN msg' = 1..(l + m)
      /\ \A i \in 1..l : msg'[i] = msg[i]
      /\ \A j \in 1..m : msg'[l + j] = ms[j]
  BY <1>1, <1>7, ConcatShape DEF l, m
<1>9. /\ rev' \in Seq(Revs) /\ Len(rev') = l + m
      /\ \A i \in 1..l : rev'[i] = rev[i]
      /\ \A j \in 1..m : rev'[l + j] = newRev[j]
  <2>1. rev \in Seq(Revs) /\ newRev \in Seq(Revs) /\ Len(rev) = l /\ Len(newRev) = m /\ rev' = rev \o newRev
    BY <1>5, <1>6, <1>7
  <2>2. PICK f \in Seq(Revs), g \in Seq(Revs) : f = rev /\ g = newRev
    BY <2>1
  <2>3. /\ f \o g \in Seq(Revs) /\ Len(f \o g) = Len(f) + Len(g)
        /\ \A i \in 1..Len(f) : (f \o g)[i] = f[i]
        /\ \A j \in 1..Len(g) : (f \o g)[Len(f) + j] = g[j]
    BY ConcatShape
  <2> QED BY <2>1, <2>2, <2>3
<1>10. /\ react' \in Seq(Marks) /\ Len(react') = l + m
       /\ \A i \in 1..l : react'[i] = react[i]
       /\ \A j \in 1..m : react'[l + j] = newReact[j]
  <2>1. react \in Seq(Marks) /\ newReact \in Seq(Marks) /\ Len(react) = l /\ Len(newReact) = m /\ react' = react \o newReact
    BY <1>5, <1>6, <1>7
  <2>2. PICK f \in Seq(Marks), g \in Seq(Marks) : f = react /\ g = newReact
    BY <2>1
  <2>3. /\ f \o g \in Seq(Marks) /\ Len(f \o g) = Len(f) + Len(g)
        /\ \A i \in 1..Len(f) : (f \o g)[i] = f[i]
        /\ \A j \in 1..Len(g) : (f \o g)[Len(f) + j] = g[j]
    BY ConcatShape
  <2> QED BY <2>1, <2>2, <2>3
<1>11. /\ view' \in Seq(View) /\ Len(view') = l + m
       /\ \A i \in 1..l : view'[i] = view[i]
       /\ \A j \in 1..m : view'[l + j] = newView[j]
  <2>1. view \in Seq(View) /\ newView \in Seq(View) /\ Len(view) = l /\ Len(newView) = m /\ view' = view \o newView
    BY <1>5, <1>6, <1>7
  <2>2. PICK f \in Seq(View), g \in Seq(View) : f = view /\ g = newView
    BY <2>1
  <2>3. /\ f \o g \in Seq(View) /\ Len(f \o g) = Len(f) + Len(g)
        /\ \A i \in 1..Len(f) : (f \o g)[i] = f[i]
        /\ \A j \in 1..Len(g) : (f \o g)[Len(f) + j] = g[j]
    BY ConcatShape
  <2> QED BY <2>1, <2>2, <2>3
<1>12. \A i \in DOMAIN msg' : i \in DOMAIN msg \/ \E j \in 1..m : i = l + j
  <2> SUFFICES ASSUME NEW i \in 1..(l + m), i \notin 1..l PROVE \E j \in 1..m : i = l + j
    BY <1>1, <1>8
  <2>1. i - l \in 1..m /\ i = l + (i - l)
    BY <1>1
  <2> QED BY <2>1
<1>13. DOMAIN msg \subseteq DOMAIN msg'
  BY <1>1, <1>8
<1>14. /\ rev' \in [DOMAIN msg' -> Revs] /\ react' \in [DOMAIN msg' -> Marks] /\ view' \in [DOMAIN msg' -> View]
  BY <1>8, <1>9, <1>10, <1>11
<1>15. TypeOK'
  <2>1. Len(msg') <= MaxMsgs
    BY <1>8 DEF l, m
  <2>2. pressed' \subseteq (DOMAIN msg') \X Buttons
    BY <1>1, <1>13 DEF TypeOK
  <2> QED BY <1>1, <1>8, <1>14, <2>1, <2>2 DEF TypeOK
<1>16. RevisionsNumbered'
  <2>1. ASSUME NEW i \in DOMAIN msg'
        PROVE  Numbered(rev'[i]) /\ Cardinality(rev'[i]) <= view'[i].edited /\ view'[i].edited <= xid'
    <3>1. xid \in Nat /\ xid' \in Nat /\ xid <= xid'
      BY <1>1 DEF TypeOK
    <3>2. CASE i \in DOMAIN msg
      <4>1. /\ Numbered(rev[i]) /\ Cardinality(rev[i]) <= view[i].edited /\ view[i].edited <= xid
            /\ rev'[i] = rev[i] /\ view'[i] = view[i]
        BY <1>1, <1>9, <1>11, <3>2 DEF LifecycleInv, RevisionsNumbered
      <4>2. view[i].edited \in Nat
        BY <1>1, <3>2, MessageParts DEF View
      <4> QED BY <3>1, <4>1, <4>2
    <3>3. CASE \E j \in 1..m : i = l + j
      <4>0. PICK j \in 1..m : i = l + j
        BY <3>3
      <4>1. rev'[i] = {} /\ view'[i].edited = 0
        <5>1. rev'[i] = {} /\ view'[i] = Fresh(ms[j].body)
          BY <1>1, <1>9, <1>11, <4>0 DEF newRev, newView
        <5> QED BY <5>1 DEF Fresh
      <4>2. IsFiniteSet({}) /\ Cardinality({}) = 0
        BY FS_EmptySet
      <4> QED BY <3>1, <4>1, <4>2 DEF Numbered
    <3> QED BY <1>12, <3>2, <3>3
  <2> QED BY <2>1 DEF RevisionsNumbered
<1>17. CallsSound'
  <2>1. ASSUME NEW k \in Calls PROVE CallSound(call[k])'
    <3>1. CASE call'[k] = NoCall
      BY <3>1, NoCallType DEF CallSound
    <3>2. CASE call'[k] = call[k]
      <4>1. PICK c : c = call[k]
        OBVIOUS
      <4>2. CallSound(c)
        BY <4>1 DEF LifecycleInv, CallsSound
      <4>3. \A i \in DOMAIN msg : msg'[i] = msg[i] /\ rev'[i] = rev[i] /\ react'[i] = react[i] /\ view'[i] = view[i]
        BY <1>1, <1>8, <1>9, <1>10, <1>11
      <4>4. CallSound(c)'
        BY <1>13, <4>2, <4>3 DEF CallSound, SnapshotOf, AggregateExact, Aggregate
      <4>5. c = call'[k]
        BY <3>2, <4>1
      <4> QED BY <4>4, <4>5, SoundNext
    <3> QED BY <3>1, <3>2
  <2> QED BY <2>1 DEF CallsSound
<1>18. Announced'
  <2>1. ASSUME NEW i \in DOMAIN msg' PROVE Agrees(i)'
    <3>1. CASE i \in DOMAIN msg
      <4>1. Agrees(i) /\ PressedOn(i)' = PressedOn(i)
        BY <3>1, AgreesNow DEF PressedOn
      <4>2. msg'[i] = msg[i] /\ rev'[i] = rev[i] /\ react'[i] = react[i] /\ view'[i] = view[i]
        BY <1>1, <1>8, <1>9, <1>10, <1>11, <3>1
      <4> QED BY <4>1, <4>2 DEF Agrees
    <3>2. ASSUME NEW j \in 1..m, i = l + j PROVE Agrees(i)'
      <4>1. msg'[i] = ms[j] /\ rev'[i] = {} /\ react'[i] = NoMarks /\ view'[i] = Fresh(ms[j].body)
        BY <1>1, <1>8, <1>9, <1>10, <1>11, <3>2 DEF newRev, newReact, newView
      <4>2. PressedOn(i)' = {}
        BY <1>1, <3>2 DEF PressedOn, TypeOK
      <4>3. Cardinality({}) = 0
        BY FS_EmptySet
      <4>4. ms[j].deleted = FALSE
        <5>1. ms[j] \in Message /\ ~ms[j].deleted
          BY <1>1, <3>2
        <5> QED BY <5>1 DEF Message
      <4>5. /\ view'[i].body = ms[j].body /\ view'[i].version = 1 /\ view'[i].deleted = FALSE
            /\ view'[i].reactions = NoMarks /\ view'[i].pressed = {}
        BY <4>1 DEF Fresh
      <4>6. Cardinality(rev'[i]) + 1 = 1
        BY <4>1, <4>3
      <4>7. msg'[i].body = ms[j].body /\ msg'[i].deleted = FALSE
        BY <4>1, <4>4
      <4>8. view'[i].version = Cardinality(rev'[i]) + 1
        BY <4>5, <4>6
      <4>9. view'[i].reactions = react'[i] /\ view'[i].pressed = PressedOn(i)'
        BY <4>1, <4>2, <4>5
      <4> QED BY <4>5, <4>7, <4>8, <4>9 DEF Agrees
    <3> QED BY <1>12, <3>1, <3>2
  <2> QED BY <1>14, <2>1, AnnouncedParts
<1>19. RevisionStep
  BY <1>1, <1>8, <1>9 DEF RevisionStep
<1>20. OneHolder' /\ IdsGiven'
  <2>1. /\ \A k \in Calls : call'[k] \in {NoCall, call[k]}
        /\ \A i \in DOMAIN msg : msg'[i].in = msg[i].in
        /\ xid' \in Nat
    BY <1>1, <1>8 DEF TypeOK
  <2> QED BY <2>1, LocksKept
<1> QED BY <1>15, <1>16, <1>17, <1>18, <1>19, <1>20 DEF LifecycleInv

LEMMA SendStep ==
  ASSUME LifecycleInv, NEW t \in Threads, NEW by \in Members, NEW as \in Members,
         NEW b \in Bodies, NEW s \in BOOLEAN, Send(t, by, as, b, s)
  PROVE  LifecycleInv' /\ RevisionStep
<1> DEFINE e == [in |-> t, authors |-> {by, as}, body |-> b, system |-> s,
                 deleted |-> FALSE, src |-> 0]
<1>1. e \in Message /\ ~e.deleted
  <2>1. 0 \in 0..MaxMsgs
    BY LifecycleConstants
  <2>2. {by, as} \subseteq Members
    OBVIOUS
  <2> QED BY <2>1, <2>2 DEF Message
<1>2. Insert(<<e>>) /\ UNCHANGED <<pressed, dlg, call, xid>> /\ Len(msg) < MaxMsgs
  BY DEF Send
<1> HIDE DEF e
<1>3. <<e>> \in Seq(Message) /\ Len(<<e>>) = 1 /\ \A j \in DOMAIN <<e>> : ~(<<e>>)[j].deleted
  BY <1>1
<1>4. Len(msg) + Len(<<e>>) <= MaxMsgs
  BY <1>2, <1>3, LifecycleConstants DEF LifecycleInv, TypeOK
<1>5. call' \in [Calls -> Call] /\ xid' \in 0..MaxTx /\ xid <= xid'
  BY <1>2, LifecycleConstants DEF LifecycleInv, TypeOK
<1>6. \A k \in Calls : call'[k] = call[k]
  BY <1>2
<1> QED BY <1>2, <1>3, <1>4, <1>5, <1>6, InsertStep

LEMMA ForwardCommitsStep ==
  ASSUME LifecycleInv, NEW k \in Calls, ForwardCommits(k)
  PROVE  LifecycleInv' /\ RevisionStep
<1> DEFINE c == call[k]
           Copy(s) == [in |-> c.to, authors |-> {c.by, c.as}, body |-> s[2],
                       system |-> FALSE, deleted |-> FALSE, src |-> s[1]]
<1>1. /\ TypeOK /\ c \in Call /\ c.to \in Threads /\ {c.by, c.as} \subseteq Members
      /\ c.texts \subseteq Ids \X Bodies
  BY DEF LifecycleInv, TypeOK, Call
<1>2. PICK order \in Ordered(c.texts) : Insert([j \in DOMAIN order |-> Copy(order[j])])
  BY DEF ForwardCommits
<1>3. /\ Len(msg) + Cardinality(c.texts) <= MaxMsgs
      /\ TakeId /\ Finish(k) /\ UNCHANGED <<pressed, dlg>>
  BY DEF ForwardCommits
<1> DEFINE l == Cardinality(c.texts)
           ms == [j \in DOMAIN order |-> Copy(order[j])]
<1>4. l \in Nat
  <2>1. IsFiniteSet(c.texts)
    BY DEF LifecycleInv, CallsSound, CallSound
  <2> QED BY <2>1, FS_CardinalityType
<1>5. order \in [1..l -> c.texts]
  BY DEF Ordered
<1>6. ASSUME NEW s \in c.texts PROVE Copy(s) \in Message /\ ~Copy(s).deleted
  <2>1. s[1] \in 0..MaxMsgs /\ s[2] \in Bodies
    BY <1>1, <1>6, LifecycleConstants DEF Ids
  <2> QED BY <1>1, <2>1 DEF Message
<1> HIDE DEF l, Copy, c
<1>7. ms \in [1..l -> Message] /\ \A j \in 1..l : ~ms[j].deleted
  BY <1>5, <1>6
<1>8. Insert(ms)
  BY <1>2
<1> HIDE DEF ms
<1>9. ms \in Seq(Message) /\ Len(ms) = l /\ DOMAIN ms = 1..l
  BY <1>4, <1>7, FunctionIsSeq
<1>10. xid' \in 0..MaxTx /\ xid <= xid'
  BY <1>1, <1>3, TakeIdType
<1>11. call' \in [Calls -> Call] /\ \A j \in Calls : call'[j] = NoCall \/ call'[j] = call[j]
  BY <1>1, <1>3, NoCallType DEF Finish, TypeOK
<1>12. Len(msg) + Len(ms) <= MaxMsgs
  BY <1>3, <1>9 DEF l
<1> QED BY <1>3, <1>7, <1>8, <1>9, <1>10, <1>11, <1>12, InsertStep

LEMMA DialogStep ==
  ASSUME LifecycleInv, NEW t \in Threads, NEW m \in Members, DialogChanges(t, m)
  PROVE  LifecycleInv' /\ RevisionStep
<1>1. TypeOK /\ TakeId /\ UNCHANGED <<tables, call, view>>
  BY DEF LifecycleInv, DialogChanges
<1>2. PICK d \in Dialog : dlg' = [dlg EXCEPT ![t][m] = d]
  BY DEF DialogChanges
<1>3. dlg' \in [Threads -> [Members -> Dialog]]
  BY <1>1, <1>2 DEF TypeOK
<1>4. xid' \in 0..MaxTx /\ xid' = xid + 1 /\ xid \in Nat
  BY <1>1, TakeIdType
<1>5. TypeOK'
  BY <1>1, <1>3, <1>4 DEF TypeOK, tables
<1>6. Announced' /\ RevisionStep
  BY <1>1 DEF LifecycleInv, Announced, RevisionStep, tables
<1>7. RevisionsNumbered'
  <2> SUFFICES ASSUME NEW j \in DOMAIN msg
               PROVE  /\ Numbered(rev[j]) /\ Cardinality(rev[j]) <= view[j].edited
                      /\ view[j].edited <= xid'
    BY <1>1 DEF RevisionsNumbered, tables
  <2>1. Numbered(rev[j]) /\ Cardinality(rev[j]) <= view[j].edited /\ view[j].edited <= xid
    BY DEF LifecycleInv, RevisionsNumbered
  <2>2. view[j].edited \in Nat
    BY <1>1, MessageParts DEF View
  <2> QED BY <1>4, <2>1, <2>2
<1>8. CallsSound'
  <2>1. \A c : CallSound(c) => CallSound(c)'
    BY <1>1 DEF CallSound, SnapshotOf, AggregateExact, Aggregate, tables
  <2>2. ASSUME NEW j \in Calls PROVE CallSound(call[j])'
    <3>1. PICK c : c = call[j]
      OBVIOUS
    <3>2. CallSound(c)' /\ c = call'[j]
      BY <1>1, <2>1, <3>1 DEF LifecycleInv, CallsSound
    <3> QED BY <3>2, SoundNext
  <2> QED BY <2>2 DEF CallsSound
<1>9. OneHolder' /\ IdsGiven'
  <2>1. xid' \in Nat /\ xid <= xid' /\ UNCHANGED msg /\ UNCHANGED call
    BY <1>1, <1>4 DEF tables
  <2> QED BY <2>1, LocksKept
<1> QED BY <1>5, <1>6, <1>7, <1>8, <1>9 DEF LifecycleInv

-----------------------------------------------------------------------------
(* The theorems.                                                           *)

LEMMA LifecycleInit == Init => LifecycleInv
<1> SUFFICES ASSUME Init PROVE LifecycleInv
  OBVIOUS
<1>1. call \in [Calls -> Call] /\ \A k \in Calls : call[k] = NoCall
  BY NoCallType DEF Init
<1>2. msg \in Seq(Message) /\ Len(msg) = 0 /\ DOMAIN msg = {}
  BY DEF Init
<1>3. rev \in [DOMAIN msg -> Revs] /\ react \in [DOMAIN msg -> Marks] /\ view \in [DOMAIN msg -> View]
  BY <1>2 DEF Init
<1>4. dlg \in [Threads -> [Members -> Dialog]]
  BY DEF Init, Dialog
<1>5. 0 <= MaxMsgs /\ xid \in 0..MaxTx /\ pressed = {}
  BY LifecycleConstants DEF Init
<1>6. TypeOK
  BY <1>1, <1>2, <1>3, <1>4, <1>5 DEF TypeOK
<1>7. RevisionsNumbered /\ Announced
  BY <1>2 DEF RevisionsNumbered, Announced
<1>8. CallsSound
  BY <1>1, NoCallType DEF CallsSound, CallSound
<1>9. OneHolder /\ IdsGiven
  BY <1>1, <1>5, NoCallType DEF OneHolder, Holds, IdsGiven
<1> QED BY <1>6, <1>7, <1>8, <1>9 DEF LifecycleInv

LEMMA LifecycleStep ==
  ASSUME LifecycleInv, [Next]_vars
  PROVE  LifecycleInv' /\ (RevisionStep \/ UNCHANGED vars)
<1>1. ASSUME NEW k \in Calls, Step(k) PROVE LifecycleInv' /\ RevisionStep
  <2>1. CASE EditConflict(k) \/ CallFails(k)
    BY <2>1, FinishStep DEF EditConflict, CallFails
  <2> QED BY <1>1, <2>1, EditMessageStep, EditUpdatesStep, EditCommitsStep, DeleteMessagesStep,
             DeleteCommitsStep, SetReactionStep, WriteReactionStep, LockForUpdateStep, AggregateStep,
             ReactionCommitsStep, ForwardMessagesStep, ForwardCommitsStep DEF Step
<1>2. ASSUME NEW t \in Threads, NEW by \in Members, NEW as \in Members, NEW b \in Bodies,
             NEW s \in BOOLEAN, Send(t, by, as, b, s)
      PROVE  LifecycleInv' /\ RevisionStep
  BY <1>2, SendStep
<1>3. ASSUME NEW by \in Members, NEW i \in DOMAIN msg, NEW n \in Buttons, SendInteractiveCallback(by, i, n)
      PROVE  LifecycleInv' /\ RevisionStep
  BY <1>3, CallbackStep
<1>4. ASSUME NEW c \in Changing, DialogChanges(c[1], c[2])
      PROVE  LifecycleInv' /\ RevisionStep
  <2>1. c[1] \in Threads /\ c[2] \in Members
    BY LifecycleConstants
  <2> QED BY <1>4, <2>1, DialogStep
<1>5. CASE UNCHANGED vars
  <2>1. TypeOK' /\ RevisionsNumbered' /\ Announced' /\ OneHolder' /\ IdsGiven'
    BY <1>5 DEF LifecycleInv, TypeOK, RevisionsNumbered, Announced, OneHolder, Holds, IdsGiven, vars, tables
  <2>2. CallsSound'
    <3>1. \A c : CallSound(c) => CallSound(c)'
      BY <1>5 DEF CallSound, SnapshotOf, AggregateExact, Aggregate, vars, tables
    <3>2. ASSUME NEW j \in Calls PROVE CallSound(call[j])'
      <4>1. PICK c : c = call[j]
        OBVIOUS
      <4>2. CallSound(c)' /\ c = call'[j]
        BY <1>5, <3>1, <4>1 DEF LifecycleInv, CallsSound, vars
      <4> QED BY <4>2, SoundNext
    <3> QED BY <3>2 DEF CallsSound
  <2> QED BY <1>5, <2>1, <2>2 DEF LifecycleInv
<1> QED BY <1>1, <1>2, <1>3, <1>4, <1>5 DEF Next

\* The invariant holds in every reachable state: the revisions of a message are numbered
\* without a gap, and what an edit in progress read was once the state of its message.
THEOREM LifecycleInvariance == Spec => []LifecycleInv
BY LifecycleInit, LifecycleStep, PTL DEF Spec

\* The tables, the calls in progress and the client's view keep their types.
THEOREM Typing == Spec => []TypeOK
<1>1. LifecycleInv => TypeOK
  BY DEF LifecycleInv
<1> QED BY <1>1, LifecycleInvariance, PTL

\* A client that applies the events in the order of their transaction ids holds every
\* message as it is stored, however the calls overlap (EditMessage, DeleteMessages), and
\* its reactions unless the last one to commit had a lower id (SetReaction).
THEOREM ClientsAgree == Spec => []Announced
<1>1. LifecycleInv => Announced
  BY DEF LifecycleInv
<1> QED BY <1>1, LifecycleInvariance, PTL

\* An edit stores the text it replaces as the next revision, and nothing else changes a
\* text or its revisions (EditMessage and its unique version).
THEOREM RevisionsKept == Spec => RevisionsComplete
<1>1. LifecycleInv /\ [Next]_vars => [RevisionStep]_vars
  BY LifecycleStep
<1>2. [][RevisionStep]_vars <=> RevisionsComplete
  BY PTL DEF RevisionsComplete, RevisionStep
<1> QED BY <1>1, <1>2, LifecycleInvariance, PTL DEF Spec
=============================================================================
