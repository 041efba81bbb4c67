------------------------- MODULE ProviderGateProofs -------------------------
(***************************************************************************)
(* What holds for any gates, messages and reports: both keys of            *)
(* message_external_ids, that a mapping, once saved, is never moved or     *)
(* removed, and that replies, reactions and delivery states say the same   *)
(* on both sides.                                                          *)
(***************************************************************************)
EXTENDS ProviderGate, TLAPS

\* A row has the four columns; what they hold does not matter here.
IsRow(r) == r = [gate |-> r.gate, ext |-> r.ext, msg |-> r.msg, state |-> r.state]

RowsInv == (\A r \in ids : IsRow(r)) /\ KeysUnique

\* Row q is row r, perhaps with another state.
SameMapping(r, q) == q.gate = r.gate /\ q.ext = r.ext /\ q.msg = r.msg

-----------------------------------------------------------------------------
(* Saving adds at most one row, with keys no other row has (Save).         *)
LEMMA SaveKeeps ==
  ASSUME RowsInv, NEW m, NEW g, NEW e, ids' = Save(ids, m, g, e)
  PROVE  RowsInv' /\ ids \subseteq ids'
<1> DEFINE new == [gate |-> g, ext |-> e, msg |-> m, state |-> {}]
<1>1. CASE \E r \in ids : r.gate = g /\ (r.ext = e \/ r.msg = m)
  BY <1>1 DEF Save, RowsInv, KeysUnique
<1>2. CASE ~ \E r \in ids : r.gate = g /\ (r.ext = e \/ r.msg = m)
  <2>1. ids' = ids \cup {new}
    BY <1>2 DEF Save
  <2>2. IsRow(new)
    BY DEF IsRow
  <2>3. \A r \in ids' : IsRow(r)
    BY <2>1, <2>2 DEF RowsInv
  <2>4. ASSUME NEW r \in ids', NEW q \in ids', r.gate = q.gate, r.ext = q.ext \/ r.msg = q.msg
        PROVE  r = q
    <3>1. CASE r \in ids /\ q \in ids
      BY <2>4, <3>1 DEF RowsInv, KeysUnique
    <3>2. CASE r = new /\ q \in ids
      BY <1>2, <2>4, <3>2
    <3>3. CASE q = new /\ r \in ids
      BY <1>2, <2>4, <3>3
    <3> QED BY <2>1, <3>1, <3>2, <3>3
  <2> QED BY <2>1, <2>3, <2>4 DEF RowsInv, KeysUnique
<1> QED BY <1>1, <1>2

(* A report changes the states of one row and moves none                   *)
(* (UpdateMessageDelivery).                                                *)
LEMMA ReportKeeps ==
  ASSUME RowsInv, NEW g, NEW e, NEW s, UpdateMessageDelivery(g, e, s)
  PROVE  RowsInv' /\ \A r \in ids : \E q \in ids' : SameMapping(r, q)
<1> DEFINE Up(r) == IF r.gate = g /\ r.ext = e THEN [r EXCEPT !.state = @ \cup Recorded(s)] ELSE r
<1>1. ids' = {Up(r) : r \in ids}
  BY DEF UpdateMessageDelivery
<1>2. ASSUME NEW r \in ids
      PROVE  IsRow(Up(r)) /\ SameMapping(r, Up(r))
  <2>1. IsRow(r)
    BY DEF RowsInv
  <2> QED BY <2>1 DEF IsRow, SameMapping
<1> HIDE DEF Up
<1>3. \A r \in ids' : IsRow(r)
  BY <1>1, <1>2
<1>4. \A r \in ids : \E q \in ids' : SameMapping(r, q)
  BY <1>1, <1>2
<1>5. ASSUME NEW x \in ids', NEW y \in ids', x.gate = y.gate, x.ext = y.ext \/ x.msg = y.msg
      PROVE  x = y
  <2>1. PICK r \in ids : x = Up(r)
    BY <1>1
  <2>2. PICK q \in ids : y = Up(q)
    BY <1>1
  <2>3. r.gate = q.gate /\ (r.ext = q.ext \/ r.msg = q.msg)
    BY <1>2, <1>5, <2>1, <2>2 DEF SameMapping
  <2>4. r = q
    BY <2>3 DEF RowsInv, KeysUnique
  <2> QED BY <2>1, <2>2, <2>4
<1> QED BY <1>3, <1>4, <1>5 DEF RowsInv, KeysUnique

(* No action breaks a key or loses a mapping; all but two kinds leave the  *)
(* table alone.                                                            *)
LEMMA StepKeeps ==
  ASSUME RowsInv, [Next]_vars
  PROVE  RowsInv' /\ \A r \in ids : \E q \in ids' : SameMapping(r, q)
<1>0. ASSUME ids \subseteq ids'
      PROVE  \A r \in ids : \E q \in ids' : SameMapping(r, q)
  BY <1>0 DEF SameMapping
<1>1. ASSUME ids' = ids
      PROVE  RowsInv' /\ \A r \in ids : \E q \in ids' : SameMapping(r, q)
  BY <1>0, <1>1 DEF RowsInv, KeysUnique
<1>2. ASSUME NEW from, NEW r, Commit(from, r)
      PROVE  RowsInv' /\ \A x \in ids : \E q \in ids' : SameMapping(x, q)
  <2>1. CASE ids' = ids
    BY <1>1, <2>1
  <2>2. CASE ids' = Save(ids, Len(msg) + 1, from.gate, from.ext)
    BY <1>0, <2>2, SaveKeeps
  <2> QED BY <1>2, <2>1, <2>2 DEF Commit
<1>3. CASE UNCHANGED vars
  BY <1>1, <1>3 DEF vars
<1>4. ASSUME NEW r \in Messages \cup {None}, AgentSends(r)
      PROVE  RowsInv' /\ \A x \in ids : \E q \in ids' : SameMapping(x, q)
  BY <1>2, <1>4 DEF AgentSends
<1>5. ASSUME NEW m \in Messages, NEW x \in Emoji \cup {Cleared}, SetReaction(m, x)
      PROVE  ids' = ids
  BY <1>5 DEF SetReaction
<1>6. ASSUME NEW o \in out, Dispatch(o)
      PROVE  ids' = ids
  BY <1>6 DEF Dispatch
<1>7. ASSUME NEW o \in out, Persist(o)
      PROVE  RowsInv' /\ \A x \in ids : \E q \in ids' : SameMapping(x, q)
  <2>1. ids' = Save(ids, o.msg, o.gate, o.ext)
    BY <1>7 DEF Persist
  <2> QED BY <1>0, <2>1, SaveKeeps
<1>8. ASSUME NEW f \in forward, SendReaction(f)
      PROVE  ids' = ids
  BY <1>8 DEF SendReaction
<1>9. ASSUME NEW g \in Gates, NEW e \in DOMAIN platform[g] \cup {None}, CustomerWrites(g, e)
      PROVE  ids' = ids
  BY <1>9 DEF CustomerWrites
<1>10. ASSUME NEW g \in Gates, NEW e \in DOMAIN platform[g], Relay(g, e)
       PROVE  RowsInv' /\ \A x \in ids : \E q \in ids' : SameMapping(x, q)
  BY <1>2, <1>10 DEF Relay
<1>11. ASSUME NEW g \in Gates, NEW e \in DOMAIN platform[g], NEW s \in Reports, Progress(g, e, s)
       PROVE  ids' = ids
  BY <1>11 DEF Progress
<1>12. ASSUME NEW g \in Gates, NEW e \in DOMAIN platform[g], NEW s \in Reports,
              UpdateMessageDelivery(g, e, s)
       PROVE  RowsInv' /\ \A x \in ids : \E q \in ids' : SameMapping(x, q)
  BY <1>12, ReportKeeps
<1> HIDE DEF RowsInv
<1> QED BY <1>1, <1>3, <1>4, <1>5, <1>6, <1>7, <1>8, <1>9, <1>10, <1>11, <1>12 DEF Next

-----------------------------------------------------------------------------
(* Both keys of message_external_ids hold in every reachable state, so     *)
(* that the lookups of replies, reactions and reports have one answer      *)
(* (LookupMessageID, LookupExternalID).                                    *)
THEOREM MappingUnique == Spec => []KeysUnique
<1>1. Init => RowsInv
  BY DEF Init, RowsInv, KeysUnique
<1>2. RowsInv /\ [Next]_vars => RowsInv'
  BY StepKeeps
<1>3. RowsInv => KeysUnique
  BY DEF RowsInv
<1> QED BY <1>1, <1>2, <1>3, PTL DEF Spec

(* A mapping is never moved to another message or dropped, whatever is     *)
(* relayed again or reported late (Save, UpdateDelivery).                  *)
THEOREM MappingKept == Spec => MappingStable
<1>1. Init => RowsInv
  BY DEF Init, RowsInv, KeysUnique
<1>2. RowsInv /\ [Next]_vars => RowsInv'
  BY StepKeeps
<1>3. RowsInv /\ [Next]_vars =>
        [\A r \in ids : \E q \in ids' : q.gate = r.gate /\ q.ext = r.ext /\ q.msg = r.msg]_vars
  BY StepKeeps DEF SameMapping
<1> QED BY <1>1, <1>2, <1>3, PTL DEF Spec, MappingStable

-----------------------------------------------------------------------------
(* Replies, reactions and reports.  The invariant says of every element of *)
(* the state what ties it to the rest; messages and the messenger's copies *)
(* only grow (Grows), so that a step has to show it of new elements alone. *)

Author == {Agent} \cup [gate : Gates, ext : Nat \ {None}]
Post   == [from : Author, reply : Nat, reacts : Seq(Emoji \cup {Cleared})]
Copy   == [of : Nat, reply : Nat, reached : SUBSET Reports, shown : Emoji \cup {Cleared}]
Row    == [gate : Gates, ext : Nat, msg : Nat, state : SUBSET Reports]
Sent   == [msg : Nat, gate : Gates, ext : Nat]
Change == [msg : Nat, gate : Gates, emoji : Emoji \cup {Cleared}]

Shapes ==
  /\ msg \in Seq(Post) /\ ids \subseteq Row /\ out \subseteq Sent /\ forward \subseteq Change
  /\ platform \in [Gates -> Seq(Copy)]

\* What the author replied to is shown in the messenger the message came from.
PostOK(m) ==
  /\ msg[m].reply \in 0..(m - 1)
  /\ \A g \in Gates, e \in Nat \ {None} : msg[m].from = [gate |-> g, ext |-> e] =>
       /\ e \in DOMAIN platform[g]
       /\ msg[m].reply # None =>
            \E q \in DOMAIN platform[g] : platform[g][e].reply = q /\ msg[m].reply \in Copies(g, q)

\* A copy is one of a message that exists, under one of what that message replies to.
CopyOK(g, e) ==
  LET p == platform[g][e] IN
  /\ p.of # None => p.of \in Messages
  /\ p.reply # None => p.reply \in DOMAIN platform[g]
  /\ \A m \in Messages, q \in DOMAIN platform[g] :
       p.of = m /\ p.reply = q => msg[m].reply \in Copies(g, q)

Chosen(m, x) == \E i \in DOMAIN msg[m].reacts : msg[m].reacts[i] = x

\* In the allow-list, or there is none.
MaySee(x) == Allowed # {} => x \in Allowed

ShownOK(g, e) ==
  platform[g][e].shown # Cleared =>
    MaySee(platform[g][e].shown) /\ \E m \in Copies(g, e) : Chosen(m, platform[g][e].shown)

ReachedOK(g, e) == "read" \in platform[g][e].reached => "delivered" \in platform[g][e].reached

\* A mapping is true: the message is one the messenger's message is a copy of.
RowOK(r) ==
  /\ r.ext \in DOMAIN platform[r.gate] /\ r.msg \in Copies(r.gate, r.ext)
  /\ r.state \subseteq platform[r.gate][r.ext].reached
  /\ "read" \in r.state => "delivered" \in r.state

SentOK(o) ==
  /\ o.msg \in Messages
  /\ o.ext # None => o.ext \in DOMAIN platform[o.gate] /\ platform[o.gate][o.ext].of = o.msg

ChangeOK(f) ==
  /\ f.msg \in Messages
  /\ f.emoji # Cleared => MaySee(f.emoji) /\ Chosen(f.msg, f.emoji)

GateInv ==
  /\ Shapes
  /\ \A m \in Messages : PostOK(m)
  /\ \A g \in Gates : \A e \in DOMAIN platform[g] : CopyOK(g, e) /\ ShownOK(g, e) /\ ReachedOK(g, e)
  /\ \A r \in ids : RowOK(r)
  /\ \A o \in out : SentOK(o)
  /\ \A f \in forward : ChangeOK(f)

Grows ==
  /\ \A m \in Messages : /\ m \in Messages'
                         /\ msg'[m].from = msg[m].from /\ msg'[m].reply = msg[m].reply
                         /\ \A x : Chosen(m, x) => Chosen(m, x)'
  /\ \A g \in Gates : \A e \in DOMAIN platform[g] :
       /\ e \in DOMAIN platform'[g]
       /\ platform'[g][e].of = platform[g][e].of /\ platform'[g][e].reply = platform[g][e].reply
       /\ platform[g][e].reached \subseteq platform'[g][e].reached

LEMMA ShapeParts ==
  /\ Shapes => /\ \A m \in Messages : msg[m] \in Post
               /\ \A g \in Gates : platform[g] \in Seq(Copy) /\ \A e \in DOMAIN platform[g] : platform[g][e] \in Copy
               /\ Messages = 1..Len(msg) /\ Len(msg) \in Nat
               /\ \A g \in Gates : DOMAIN platform[g] = 1..Len(platform[g]) /\ Len(platform[g]) \in Nat
  /\ Shapes' => /\ \A m \in Messages' : msg'[m] \in Post
                /\ \A g \in Gates : platform'[g] \in Seq(Copy) /\ \A e \in DOMAIN platform'[g] : platform'[g][e] \in Copy
                /\ Messages' = 1..Len(msg') /\ Len(msg') \in Nat
                /\ \A g \in Gates : DOMAIN platform'[g] = 1..Len(platform'[g]) /\ Len(platform'[g]) \in Nat
<1>1. ASSUME NEW S, NEW s \in Seq(S)
      PROVE  DOMAIN s = 1..Len(s) /\ Len(s) \in Nat /\ \A i \in DOMAIN s : s[i] \in S
  OBVIOUS
<1>2. ASSUME Shapes
      PROVE  /\ \A m \in Messages : msg[m] \in Post
             /\ \A g \in Gates : platform[g] \in Seq(Copy) /\ \A e \in DOMAIN platform[g] : platform[g][e] \in Copy
             /\ Messages = 1..Len(msg) /\ Len(msg) \in Nat
             /\ \A g \in Gates : DOMAIN platform[g] = 1..Len(platform[g]) /\ Len(platform[g]) \in Nat
  <2>1. msg \in Seq(Post) /\ \A g \in Gates : platform[g] \in Seq(Copy)
    BY <1>2 DEF Shapes
  <2> QED BY <1>1, <2>1 DEF Messages
<1>3. ASSUME Shapes'
      PROVE  /\ \A m \in Messages' : msg'[m] \in Post
             /\ \A g \in Gates : platform'[g] \in Seq(Copy) /\ \A e \in DOMAIN platform'[g] : platform'[g][e] \in Copy
             /\ Messages' = 1..Len(msg') /\ Len(msg') \in Nat
             /\ \A g \in Gates : DOMAIN platform'[g] = 1..Len(platform'[g]) /\ Len(platform'[g]) \in Nat
  <2>1. msg' \in Seq(Post) /\ \A g \in Gates : platform'[g] \in Seq(Copy)
    BY <1>3 DEF Shapes
  <2> QED BY <1>1, <2>1 DEF Messages
<1> QED BY <1>2, <1>3

LEMMA AppendShape ==
  ASSUME NEW S, NEW s \in Seq(S), NEW x \in S
  PROVE  /\ Append(s, x) \in Seq(S) /\ Len(s) \in Nat /\ Len(Append(s, x)) = Len(s) + 1
         /\ DOMAIN s = 1..Len(s) /\ DOMAIN Append(s, x) = 1..(Len(s) + 1)
         /\ \A i \in 1..Len(s) : Append(s, x)[i] = s[i]
         /\ Append(s, x)[Len(s) + 1] = x
OBVIOUS

(* What holds of an element holds after a step that only adds.             *)
LEMMA CopiesGrow ==
  ASSUME Grows, NEW g \in Gates, NEW e \in DOMAIN platform[g]
  PROVE  Copies(g, e) \subseteq Copies(g, e)'
BY DEF Grows, Copies

LEMMA PostStays ==
  ASSUME Grows, NEW m \in Messages, PostOK(m)
  PROVE  PostOK(m)'
<1>1. msg'[m].from = msg[m].from /\ msg'[m].reply = msg[m].reply
  BY DEF Grows
<1>2. ASSUME NEW g \in Gates, NEW e \in Nat \ {None}, msg[m].from = [gate |-> g, ext |-> e]
      PROVE  /\ e \in DOMAIN platform'[g]
             /\ msg[m].reply # None =>
                  \E q \in DOMAIN platform'[g] : platform'[g][e].reply = q /\ msg[m].reply \in Copies(g, q)'
  <2>1. e \in DOMAIN platform[g]
    BY <1>2 DEF PostOK
  <2>2. e \in DOMAIN platform'[g] /\ platform'[g][e].reply = platform[g][e].reply
    BY <2>1 DEF Grows
  <2>3. ASSUME msg[m].reply # None
        PROVE  \E q \in DOMAIN platform'[g] : platform'[g][e].reply = q /\ msg[m].reply \in Copies(g, q)'
    <3>1. PICK q \in DOMAIN platform[g] : platform[g][e].reply = q /\ msg[m].reply \in Copies(g, q)
      BY <1>2, <2>3 DEF PostOK
    <3>2. q \in DOMAIN platform'[g] /\ Copies(g, q) \subseteq Copies(g, q)'
      BY CopiesGrow DEF Grows
    <3> QED BY <2>2, <3>1, <3>2
  <2> QED BY <2>2, <2>3
<1> QED BY <1>1, <1>2 DEF PostOK

LEMMA CopyStays ==
  ASSUME Shapes', Grows, NEW g \in Gates, NEW e \in DOMAIN platform[g], CopyOK(g, e)
  PROVE  CopyOK(g, e)'
<1>1. platform'[g][e].of = platform[g][e].of /\ platform'[g][e].reply = platform[g][e].reply
  BY DEF Grows
<1>2. Messages \subseteq Messages' /\ DOMAIN platform[g] \subseteq DOMAIN platform'[g]
  BY DEF Grows
<1>3. ASSUME NEW m \in Messages', NEW q \in DOMAIN platform'[g],
             platform[g][e].of = m, platform[g][e].reply = q, m # None, q # None
      PROVE  msg'[m].reply \in Copies(g, q)'
  <2>1. m \in Messages /\ q \in DOMAIN platform[g] /\ msg[m].reply \in Copies(g, q)
    BY <1>3 DEF CopyOK
  <2>2. msg'[m].reply = msg[m].reply
    BY <2>1 DEF Grows
  <2>3. Copies(g, q) \subseteq Copies(g, q)'
    BY <2>1, CopiesGrow
  <2> QED BY <2>1, <2>2, <2>3
<1>4. None \notin Messages' /\ None \notin DOMAIN platform'[g]
  BY ShapeParts DEF None
<1> QED BY <1>1, <1>2, <1>3, <1>4 DEF CopyOK

LEMMA RowStays ==
  ASSUME Grows, NEW r \in Row, RowOK(r)
  PROVE  RowOK(r)'
<1>1. r.gate \in Gates /\ r.ext \in DOMAIN platform[r.gate]
  BY DEF Row, RowOK
<1>2. r.ext \in DOMAIN platform'[r.gate] /\ platform[r.gate][r.ext].reached \subseteq platform'[r.gate][r.ext].reached
  BY <1>1 DEF Grows
<1>3. Copies(r.gate, r.ext) \subseteq Copies(r.gate, r.ext)'
  BY <1>1, CopiesGrow
<1> QED BY <1>2, <1>3 DEF RowOK

LEMMA SentStays ==
  ASSUME Grows, NEW o \in Sent, SentOK(o)
  PROVE  SentOK(o)'
BY DEF Grows, Sent, SentOK

LEMMA ChangeStays ==
  ASSUME Grows, NEW f \in Change, ChangeOK(f)
  PROVE  ChangeOK(f)'
BY DEF Grows, Change, ChangeOK

(* A reaction stays shown, or another is.                                  *)
LEMMA ShownStays ==
  ASSUME Grows, NEW g \in Gates, NEW e \in DOMAIN platform[g], ShownOK(g, e),
         platform'[g][e].shown = platform[g][e].shown
  PROVE  ShownOK(g, e)'
<1>1. Copies(g, e) \subseteq Copies(g, e)'
  BY CopiesGrow
<1>2. Copies(g, e) \subseteq Messages
  BY DEF Copies
<1> QED BY <1>1, <1>2 DEF Grows, ShownOK

LEMMA GateStep ==
  ASSUME GateInv, Shapes', Grows,
         \A m \in Messages' : m \in Messages \/ PostOK(m)',
         \A g \in Gates : \A e \in DOMAIN platform'[g] :
           /\ e \in DOMAIN platform[g] \/ CopyOK(g, e)'
           /\ (e \in DOMAIN platform[g] /\ platform'[g][e].shown = platform[g][e].shown) \/ ShownOK(g, e)'
           /\ (e \in DOMAIN platform[g] /\ platform'[g][e].reached = platform[g][e].reached) \/ ReachedOK(g, e)',
         \A r \in ids' : r \in ids \/ RowOK(r)',
         \A o \in out' : o \in out \/ SentOK(o)',
         \A f \in forward' : f \in forward \/ ChangeOK(f)'
  PROVE  GateInv'
<1>1. \A m \in Messages' : PostOK(m)'
  BY PostStays DEF GateInv
<1>2. ASSUME NEW g \in Gates, NEW e \in DOMAIN platform'[g]
      PROVE  CopyOK(g, e)' /\ ShownOK(g, e)' /\ ReachedOK(g, e)'
  <2>1. CopyOK(g, e)'
    BY CopyStays DEF GateInv
  <2>2. ShownOK(g, e)'
    BY ShownStays DEF GateInv
  <2>3. ReachedOK(g, e)'
    BY DEF GateInv, ReachedOK
  <2> QED BY <2>1, <2>2, <2>3
<1>3. \A r \in ids' : RowOK(r)'
  BY RowStays DEF GateInv, Shapes
<1>4. \A o \in out' : SentOK(o)'
  BY SentStays DEF GateInv, Shapes
<1>5. \A f \in forward' : ChangeOK(f)'
  BY ChangeStays DEF GateInv, Shapes
<1> QED BY <1>1, <1>2, <1>3, <1>4, <1>5 DEF GateInv

(* A step that leaves the messengers alone.                                *)
LEMMA LocalStep ==
  ASSUME GateInv, Shapes', platform' = platform,
         \A m \in Messages : /\ m \in Messages'
                             /\ msg'[m].from = msg[m].from /\ msg'[m].reply = msg[m].reply
                             /\ \A x : Chosen(m, x) => Chosen(m, x)',
         \A m \in Messages' : m \in Messages \/ PostOK(m)',
         \A r \in ids' : r \in ids \/ RowOK(r)',
         \A o \in out' : o \in out \/ SentOK(o)',
         \A f \in forward' : f \in forward \/ ChangeOK(f)'
  PROVE  GateInv'
<1>1. Grows
  BY DEF Grows
<1> QED BY <1>1, GateStep

(* A step that leaves the messages alone.                                  *)
LEMMA MessengerStep ==
  ASSUME GateInv, Shapes', msg' = msg,
         \A g \in Gates : \A e \in DOMAIN platform[g] :
           /\ e \in DOMAIN platform'[g]
           /\ platform'[g][e].of = platform[g][e].of /\ platform'[g][e].reply = platform[g][e].reply
           /\ platform[g][e].reached \subseteq platform'[g][e].reached,
         \A g \in Gates : \A e \in DOMAIN platform'[g] :
           /\ e \in DOMAIN platform[g] \/ CopyOK(g, e)'
           /\ (e \in DOMAIN platform[g] /\ platform'[g][e].shown = platform[g][e].shown) \/ ShownOK(g, e)'
           /\ (e \in DOMAIN platform[g] /\ platform'[g][e].reached = platform[g][e].reached) \/ ReachedOK(g, e)',
         \A r \in ids' : r \in ids \/ RowOK(r)',
         \A o \in out' : o \in out \/ SentOK(o)',
         \A f \in forward' : f \in forward \/ ChangeOK(f)'
  PROVE  GateInv'
<1>1. Grows
  BY DEF Grows, Messages, Chosen
<1>2. \A m \in Messages' : m \in Messages
  BY DEF Messages
<1> QED BY <1>1, <1>2, GateStep

LEMMA SaveRow ==
  ASSUME NEW rows, NEW m, NEW g, NEW e, NEW r \in Save(rows, m, g, e)
  PROVE  r \in rows \/ r = [gate |-> g, ext |-> e, msg |-> m, state |-> {}]
BY DEF Save

-----------------------------------------------------------------------------
(* One lemma per kind of step.                                             *)

LEMMA CommitStep ==
  ASSUME GateInv, NEW from \in Author, NEW rp \in 0..Len(msg), Commit(from, rp),
         \A g \in Gates, e \in Nat \ {None} : from = [gate |-> g, ext |-> e] =>
           /\ e \in DOMAIN platform[g]
           /\ rp # None => \E q \in DOMAIN platform[g] : platform[g][e].reply = q /\ rp \in Copies(g, q)
  PROVE  GateInv'
<1>0. PICK n \in Nat : n = Len(msg) + 1
  BY ShapeParts DEF GateInv
<1> DEFINE new == [from |-> from, reply |-> rp, reacts |-> <<>>]
<1>1. /\ Shapes /\ Messages = 1..Len(msg) /\ Len(msg) \in Nat
  BY ShapeParts DEF GateInv
<1>2. /\ msg' = Append(msg, new)
      /\ (ids' = ids \/ (from # Agent /\ ids' = Save(ids, n, from.gate, from.ext)))
      /\ out' = out \cup {[msg |-> n, gate |-> g, ext |-> None] : g \in Peers(from)}
      /\ forward' = forward /\ platform' = platform
  BY <1>0 DEF Commit
<1>3. new \in Post
  BY <1>1 DEF Post
<1>4. /\ msg' \in Seq(Post) /\ Messages' = 1..n
      /\ \A i \in Messages : msg'[i] = msg[i]
      /\ msg'[n] = new
  BY <1>0, <1>1, <1>2, <1>3, AppendShape DEF Shapes, Messages
<1>5. new.from = from /\ new.reply = rp /\ new.reacts = <<>>
  OBVIOUS
<1> HIDE DEF new
<1>6. n \in Messages' /\ Messages' = Messages \cup {n} /\ n # None
  BY <1>0, <1>1, <1>4 DEF None
<1>7. \A m \in Messages : /\ m \in Messages'
                          /\ msg'[m].from = msg[m].from /\ msg'[m].reply = msg[m].reply
                          /\ \A x : Chosen(m, x) => Chosen(m, x)'
  BY <1>4, <1>6 DEF Chosen
<1>8. PostOK(n)'
  <2>1. rp \in 0..(n - 1)
    BY <1>0, <1>1
  <2>2. \A g \in Gates : \A q \in DOMAIN platform[g] : Copies(g, q) \subseteq Copies(g, q)'
    BY <1>2, <1>7 DEF Copies
  <2>3. msg'[n].reply = rp /\ msg'[n].from = from
    BY <1>4, <1>5
  <2> QED BY <1>2, <2>1, <2>2, <2>3 DEF PostOK
<1>9. \A r \in ids' : r \in ids \/ (r \in Row /\ RowOK(r)')
  <2> SUFFICES ASSUME NEW r \in ids', r \notin ids PROVE r \in Row /\ RowOK(r)'
    OBVIOUS
  <2>1. from # Agent /\ r \in Save(ids, n, from.gate, from.ext)
    BY <1>2
  <2>2. r = [gate |-> from.gate, ext |-> from.ext, msg |-> n, state |-> {}]
    BY <2>1, SaveRow
  <2>3. PICK g \in Gates, e \in Nat \ {None} : from = [gate |-> g, ext |-> e]
    BY <2>1 DEF Author
  <2>4. e \in DOMAIN platform'[g] /\ r.gate = g /\ r.ext = e /\ r.msg = n /\ r.state = {}
    BY <1>2, <2>2, <2>3
  <2>5. n \in Copies(g, e)'
    BY <1>4, <1>5, <1>6, <2>3 DEF Copies
  <2>6. r \in Row
    BY <1>1, <2>2, <2>3 DEF Row
  <2> QED BY <2>4, <2>5, <2>6 DEF RowOK
<1>10. \A o \in out' : o \in out \/ (o \in Sent /\ SentOK(o)')
  <2> SUFFICES ASSUME NEW o \in out', o \notin out PROVE o \in Sent /\ SentOK(o)'
    OBVIOUS
  <2>1. PICK g \in Gates : o = [msg |-> n, gate |-> g, ext |-> None]
    BY <1>2 DEF Peers
  <2>2. o \in Sent /\ o.msg = n /\ o.ext = None
    BY <1>1, <2>1 DEF Sent, None
  <2> QED BY <1>6, <2>2 DEF SentOK
<1>11. Shapes'
  BY <1>1, <1>2, <1>4, <1>9, <1>10 DEF Shapes
<1> QED BY <1>2, <1>6, <1>7, <1>8, <1>9, <1>10, <1>11, LocalStep

LEMMA RelayStep ==
  ASSUME GateInv, NEW g \in Gates, NEW e \in DOMAIN platform[g], Relay(g, e)
  PROVE  GateInv'
<1> DEFINE from == [gate |-> g, ext |-> e]
<1>1. PICK rp \in MessageOf(g, platform[g][e].reply) \cup {None} : Commit(from, rp)
  BY DEF Relay
<1>2. e \in Nat \ {None} /\ Len(msg) \in Nat /\ Messages = 1..Len(msg)
  BY ShapeParts DEF GateInv, None
<1>3. from \in Author
  BY <1>2 DEF Author
<1>4. rp # None => /\ rp \in Messages
                   /\ \E q \in DOMAIN platform[g] : platform[g][e].reply = q /\ rp \in Copies(g, q)
  <2> SUFFICES ASSUME rp # None
               PROVE  /\ rp \in Messages
                      /\ \E q \in DOMAIN platform[g] : platform[g][e].reply = q /\ rp \in Copies(g, q)
    OBVIOUS
  <2>1. PICK r \in ids : r.gate = g /\ r.ext = platform[g][e].reply /\ r.msg = rp
    BY <1>1 DEF MessageOf
  <2>2. RowOK(r)
    BY DEF GateInv
  <2> QED BY <2>1, <2>2 DEF RowOK, Copies
<1>5. rp \in 0..Len(msg)
  BY <1>1, <1>2, <1>4 DEF None
<1>6. \A h \in Gates, d \in Nat \ {None} : from = [gate |-> h, ext |-> d] => h = g /\ d = e
  OBVIOUS
<1> HIDE DEF from
<1> QED BY <1>1, <1>3, <1>4, <1>5, <1>6, CommitStep

LEMMA AgentStep ==
  ASSUME GateInv, NEW rp \in Messages \cup {None}, AgentSends(rp)
  PROVE  GateInv'
<1>1. Agent \in Author /\ \A g \in Gates, e \in Nat \ {None} : Agent # [gate |-> g, ext |-> e]
  BY DEF Author, Agent, None
<1>2. rp \in 0..Len(msg)
  BY ShapeParts DEF GateInv, None
<1> QED BY <1>1, <1>2, CommitStep DEF AgentSends

LEMMA SetReactionStep ==
  ASSUME GateInv, NEW m \in Messages, NEW x \in Emoji \cup {Cleared}, SetReaction(m, x)
  PROVE  GateInv'
<1> DEFINE old == msg[m].reacts
           post == [msg[m] EXCEPT !.reacts = Append(old, x)]
<1>1. /\ Shapes /\ msg[m] \in Post /\ msg \in [1..Len(msg) -> Post] /\ Len(msg) \in Nat
      /\ Messages = 1..Len(msg) /\ old \in Seq(Emoji \cup {Cleared})
  <2>1. Shapes /\ msg[m] \in Post /\ Messages = 1..Len(msg) /\ Len(msg) \in Nat
    BY ShapeParts DEF GateInv
  <2>2. old \in Seq(Emoji \cup {Cleared})
    BY <2>1 DEF Post
  <2>3. msg \in [1..Len(msg) -> Post]
    BY <2>1 DEF Shapes
  <2> QED BY <2>1, <2>2, <2>3
<1>2. /\ msg' = [msg EXCEPT ![m] = post]
      /\ forward' = forward \cup {[msg |-> m, gate |-> g, emoji |-> x] : g \in {h \in Gates : Forwardable(x)}}
      /\ UNCHANGED <<ids, out, platform>>
  BY DEF SetReaction
<1>3. /\ Append(old, x) \in Seq(Emoji \cup {Cleared})
      /\ \A i \in DOMAIN old : i \in DOMAIN Append(old, x) /\ Append(old, x)[i] = old[i]
      /\ Len(old) + 1 \in DOMAIN Append(old, x) /\ Append(old, x)[Len(old) + 1] = x
  BY <1>1, AppendShape
<1>4. post \in Post /\ post.from = msg[m].from /\ post.reply = msg[m].reply /\ post.reacts = Append(old, x)
  BY <1>1, <1>3 DEF Post
<1> HIDE DEF post
<1>5. msg' \in [1..Len(msg) -> Post] /\ Messages' = Messages /\ \A i \in Messages : msg'[i] = IF i = m THEN post ELSE msg[i]
  BY <1>1, <1>2, <1>4 DEF Messages
<1>6. msg' \in Seq(Post)
  BY <1>1, <1>5
<1>7. \A i \in Messages : /\ i \in Messages'
                          /\ msg'[i].from = msg[i].from /\ msg'[i].reply = msg[i].reply
                          /\ \A y : Chosen(i, y) => Chosen(i, y)'
  BY <1>3, <1>4, <1>5 DEF Chosen
<1>8. Chosen(m, x)'
  BY <1>3, <1>4, <1>5 DEF Chosen
<1>9. \A f \in forward' : f \in forward \/ (f \in Change /\ ChangeOK(f)')
  <2> SUFFICES ASSUME NEW f \in forward', f \notin forward PROVE f \in Change /\ ChangeOK(f)'
    OBVIOUS
  <2>1. PICK g \in Gates : f = [msg |-> m, gate |-> g, emoji |-> x] /\ Forwardable(x)
    BY <1>2
  <2>2. f \in Change /\ f.msg = m /\ f.emoji = x
    BY <1>1, <2>1 DEF Change
  <2> QED BY <1>5, <1>8, <2>1, <2>2 DEF ChangeOK, Forwardable, MaySee
<1>10. Shapes'
  BY <1>1, <1>2, <1>6, <1>9 DEF Shapes
<1>11. \A i \in Messages' : i \in Messages
  BY <1>5
<1> QED BY <1>2, <1>7, <1>9, <1>10, <1>11, LocalStep

(* One more message in the messenger of gate g.                            *)
LEMMA PlatformAppend ==
  ASSUME GateInv, NEW g \in Gates, NEW p \in Copy, platform' = [platform EXCEPT ![g] = Append(platform[g], p)],
         NEW n \in Nat, n = Len(platform[g]) + 1
  PROVE  /\ platform' \in [Gates -> Seq(Copy)]
         /\ \A h \in Gates : \A e \in DOMAIN platform[h] : e \in DOMAIN platform'[h] /\ platform'[h][e] = platform[h][e]
         /\ \A h \in Gates : \A e \in DOMAIN platform'[h] : e \in DOMAIN platform[h] \/ (h = g /\ e = n)
         /\ n \in DOMAIN platform'[g] /\ platform'[g][n] = p /\ n # None
<1>1. platform \in [Gates -> Seq(Copy)] /\ platform[g] \in Seq(Copy)
  BY DEF GateInv, Shapes
<1>3. PICK s : s = Append(platform[g], p)
  OBVIOUS
<1>4. /\ s \in Seq(Copy) /\ DOMAIN platform[g] = 1..Len(platform[g]) /\ Len(platform[g]) \in Nat /\ DOMAIN s = 1..n
      /\ \A e \in DOMAIN platform[g] : s[e] = platform[g][e]
      /\ s[n] = p
  BY <1>1, <1>3, AppendShape
<1>5. \A h \in Gates : platform'[h] = IF h = g THEN s ELSE platform[h]
  BY <1>1, <1>3
<1>6. platform' \in [Gates -> Seq(Copy)]
  BY <1>1, <1>3, <1>4
<1>7. \A e \in 1..n : e \in 1..Len(platform[g]) \/ e = n
  BY <1>4
<1> QED BY <1>4, <1>5, <1>6, <1>7 DEF None

LEMMA DispatchStep ==
  ASSUME GateInv, NEW o \in out, Dispatch(o)
  PROVE  GateInv'
<1>1. Shapes /\ o \in Sent /\ o.gate \in Gates /\ SentOK(o) /\ o.msg \in Messages /\ o.msg \in Nat
  BY DEF GateInv, Shapes, Sent, SentOK
<1>2. PICK e \in ExternalOf(msg[o.msg].reply, o.gate) \cup {None} :
        platform' = [platform EXCEPT ![o.gate] =
                       Append(@, [of |-> o.msg, reply |-> e, reached |-> {}, shown |-> Cleared])]
  BY DEF Dispatch
<1>3. PICK n \in Nat : n = Len(platform[o.gate]) + 1
  BY <1>1, ShapeParts
<1>4. out' = (out \ {o}) \cup {[o EXCEPT !.ext = n]} /\ UNCHANGED <<msg, ids, forward>>
  BY <1>3 DEF Dispatch
<1> DEFINE p == [of |-> o.msg, reply |-> e, reached |-> {}, shown |-> Cleared]
<1>5. e # None => \E r \in ids : r.gate = o.gate /\ r.ext = e /\ r.msg = msg[o.msg].reply
  BY <1>2 DEF ExternalOf
<1>6. e # None => e \in DOMAIN platform[o.gate] /\ msg[o.msg].reply \in Copies(o.gate, e)
  BY <1>5 DEF GateInv, RowOK
<1>7. e \in Nat
  BY <1>1, <1>6, ShapeParts DEF None
<1>8. p \in Copy /\ p.of = o.msg /\ p.reply = e /\ p.reached = {} /\ p.shown = Cleared
  BY <1>1, <1>7 DEF Copy
<1> HIDE DEF p
<1>9. /\ platform' \in [Gates -> Seq(Copy)]
      /\ \A h \in Gates : \A d \in DOMAIN platform[h] : d \in DOMAIN platform'[h] /\ platform'[h][d] = platform[h][d]
      /\ \A h \in Gates : \A d \in DOMAIN platform'[h] : d \in DOMAIN platform[h] \/ (h = o.gate /\ d = n)
      /\ n \in DOMAIN platform'[o.gate] /\ platform'[o.gate][n] = p /\ n # None
  <2>1. platform' = [platform EXCEPT ![o.gate] = Append(platform[o.gate], p)]
    BY <1>2 DEF p
  <2>2. PICK g \in Gates, c \in Copy : g = o.gate /\ c = p
    BY <1>1, <1>8
  <2>3. platform' = [platform EXCEPT ![g] = Append(platform[g], c)] /\ n = Len(platform[g]) + 1
    BY <1>3, <2>1, <2>2
  <2> HIDE DEF p
  <2>4. /\ platform' \in [Gates -> Seq(Copy)]
        /\ \A h \in Gates : \A d \in DOMAIN platform[h] : d \in DOMAIN platform'[h] /\ platform'[h][d] = platform[h][d]
        /\ \A h \in Gates : \A d \in DOMAIN platform'[h] : d \in DOMAIN platform[h] \/ (h = g /\ d = n)
        /\ n \in DOMAIN platform'[g] /\ platform'[g][n] = c /\ n # None
    BY <2>3, PlatformAppend
  <2> QED BY <2>2, <2>4
<1>10. PICK q : q = [o EXCEPT !.ext = n]
  OBVIOUS
<1>11. q \in Sent /\ q.msg = o.msg /\ q.gate = o.gate /\ q.ext = n
  BY <1>1, <1>10 DEF Sent
<1>12. SentOK(q)'
  BY <1>1, <1>4, <1>8, <1>9, <1>11 DEF SentOK, Messages
<1>13. \A x \in out' : x \in out \/ (x \in Sent /\ SentOK(x)')
  BY <1>4, <1>10, <1>11, <1>12
<1>14. Shapes'
  BY <1>1, <1>4, <1>9, <1>13 DEF Shapes
<1>15. CopyOK(o.gate, n)'
  <2>1. p.reply # None => e \in DOMAIN platform'[o.gate] /\ msg'[o.msg].reply \in Copies(o.gate, e)'
    BY <1>1, <1>4, <1>6, <1>8, <1>9 DEF Copies, Messages
  <2>2. p.of \in Messages'
    BY <1>1, <1>4, <1>8 DEF Messages
  <2>3. None \notin DOMAIN platform'[o.gate]
    BY <1>1, <1>14, ShapeParts DEF None
  <2> QED BY <1>8, <1>9, <2>1, <2>2, <2>3 DEF CopyOK
<1>16. ShownOK(o.gate, n)' /\ ReachedOK(o.gate, n)'
  BY <1>8, <1>9 DEF ShownOK, ReachedOK
<1> QED BY <1>4, <1>9, <1>13, <1>14, <1>15, <1>16, MessengerStep

LEMMA PersistStep ==
  ASSUME GateInv, NEW o \in out, Persist(o)
  PROVE  GateInv'
<1>1. Shapes /\ o \in Sent /\ o.gate \in Gates /\ SentOK(o) /\ o.ext # None
  BY DEF GateInv, Shapes, Sent, Persist
<1>2. ids' = Save(ids, o.msg, o.gate, o.ext) /\ out' = out \ {o} /\ UNCHANGED <<msg, forward, platform>>
  BY DEF Persist
<1>3. ASSUME NEW r \in ids', r \notin ids PROVE r \in Row /\ RowOK(r)'
  <2>1. r = [gate |-> o.gate, ext |-> o.ext, msg |-> o.msg, state |-> {}]
    BY <1>2, <1>3, SaveRow
  <2>2. r \in Row /\ r.gate = o.gate /\ r.ext = o.ext /\ r.msg = o.msg /\ r.state = {}
    BY <1>1, <2>1 DEF Sent, Row
  <2> QED BY <1>1, <1>2, <2>2 DEF SentOK, RowOK, Copies, Messages
<1>4. Shapes'
  BY <1>1, <1>2, <1>3 DEF Shapes
<1>5. \A m \in Messages : /\ m \in Messages'
                          /\ msg'[m].from = msg[m].from /\ msg'[m].reply = msg[m].reply
                          /\ \A x : Chosen(m, x) => Chosen(m, x)'
  BY <1>2 DEF Messages, Chosen
<1>6. \A m \in Messages' : m \in Messages
  BY <1>2 DEF Messages
<1> QED BY <1>2, <1>3, <1>4, <1>5, <1>6, LocalStep

(* One message in the messenger of gate g changes.                         *)
LEMMA PlatformChange ==
  ASSUME GateInv, NEW g \in Gates, NEW e \in DOMAIN platform[g], NEW p \in Copy,
         platform' = [platform EXCEPT ![g] = [platform[g] EXCEPT ![e] = p]]
  PROVE  /\ platform' \in [Gates -> Seq(Copy)]
         /\ \A h \in Gates : DOMAIN platform'[h] = DOMAIN platform[h]
         /\ \A h \in Gates : \A d \in DOMAIN platform[h] :
              platform'[h][d] = IF h = g /\ d = e THEN p ELSE platform[h][d]
<1>1. platform \in [Gates -> Seq(Copy)] /\ platform[g] \in Seq(Copy)
  BY DEF GateInv, Shapes
<1>2. PICK s : s = [platform[g] EXCEPT ![e] = p]
  OBVIOUS
<1>3. s \in Seq(Copy) /\ DOMAIN s = DOMAIN platform[g]
      /\ \A d \in DOMAIN platform[g] : s[d] = IF d = e THEN p ELSE platform[g][d]
  BY <1>1, <1>2
<1>4. \A h \in Gates : platform'[h] = IF h = g THEN s ELSE platform[h]
  BY <1>1, <1>2
<1>5. platform' \in [Gates -> Seq(Copy)]
  BY <1>1, <1>2, <1>3
<1> QED BY <1>3, <1>4, <1>5

LEMMA SendReactionStep ==
  ASSUME GateInv, NEW f \in forward, SendReaction(f)
  PROVE  GateInv'
<1>1. Shapes /\ f \in Change /\ f.gate \in Gates /\ ChangeOK(f) /\ f.emoji \in Emoji \cup {Cleared}
  BY DEF GateInv, Shapes, Change
<1>2. PICK e \in ExternalOf(f.msg, f.gate) : platform' = [platform EXCEPT ![f.gate][e].shown = f.emoji]
  BY DEF SendReaction
<1>3. forward' = forward \ {f} /\ UNCHANGED <<msg, ids, out>>
  BY DEF SendReaction
<1>4. PICK g \in Gates : g = f.gate
  BY <1>1
<1>5. e \in DOMAIN platform[g] /\ f.msg \in Copies(g, e)
  <2>1. PICK r \in ids : r.msg = f.msg /\ r.gate = f.gate /\ r.ext = e
    BY <1>2 DEF ExternalOf
  <2> QED BY <1>4, <2>1 DEF GateInv, RowOK
<1>6. PICK p : p = [platform[g][e] EXCEPT !.shown = f.emoji]
  OBVIOUS
<1>7. /\ platform[g][e] \in Copy /\ p \in Copy /\ p.shown = f.emoji
      /\ p.of = platform[g][e].of /\ p.reply = platform[g][e].reply /\ p.reached = platform[g][e].reached
  <2>1. platform[g][e] \in Copy
    BY <1>1, <1>5, ShapeParts
  <2> QED BY <1>1, <1>6, <2>1 DEF Copy
<1>8. platform' = [platform EXCEPT ![g] = [platform[g] EXCEPT ![e] = p]]
  BY <1>2, <1>4, <1>6
<1>9. /\ platform' \in [Gates -> Seq(Copy)]
      /\ \A h \in Gates : DOMAIN platform'[h] = DOMAIN platform[h]
      /\ \A h \in Gates : \A d \in DOMAIN platform[h] :
           platform'[h][d] = IF h = g /\ d = e THEN p ELSE platform[h][d]
  BY <1>5, <1>7, <1>8, PlatformChange
<1>10. Shapes'
  BY <1>1, <1>3, <1>9 DEF Shapes
<1>11. ShownOK(g, e)'
  <2>1. f.msg \in Copies(g, e)'
    BY <1>3, <1>5, <1>7, <1>9 DEF Copies, Messages
  <2>2. f.emoji # Cleared => MaySee(f.emoji) /\ Chosen(f.msg, f.emoji)'
    BY <1>1, <1>3 DEF ChangeOK, Chosen
  <2> QED BY <1>5, <1>7, <1>9, <2>1, <2>2 DEF ShownOK
<1> QED BY <1>3, <1>5, <1>7, <1>9, <1>10, <1>11, MessengerStep

LEMMA CustomerWritesStep ==
  ASSUME GateInv, NEW g \in Gates, NEW e \in DOMAIN platform[g] \cup {None}, CustomerWrites(g, e)
  PROVE  GateInv'
<1>1. Shapes /\ UNCHANGED <<msg, ids, out, forward>>
  BY DEF GateInv, CustomerWrites
<1>2. PICK n \in Nat : n = Len(platform[g]) + 1
  BY <1>1, ShapeParts
<1>3. e \in Nat
  BY <1>1, ShapeParts DEF None
<1>4. PICK p \in Copy : p = [of |-> None, reply |-> e, reached |-> {}, shown |-> Cleared]
  BY <1>3 DEF Copy, None
<1>5. p.of = None /\ p.reply = e /\ p.reached = {} /\ p.shown = Cleared
  BY <1>4
<1>6. platform' = [platform EXCEPT ![g] = Append(platform[g], p)]
  BY <1>4 DEF CustomerWrites
<1>7. /\ platform' \in [Gates -> Seq(Copy)]
      /\ \A h \in Gates : \A d \in DOMAIN platform[h] : d \in DOMAIN platform'[h] /\ platform'[h][d] = platform[h][d]
      /\ \A h \in Gates : \A d \in DOMAIN platform'[h] : d \in DOMAIN platform[h] \/ (h = g /\ d = n)
      /\ n \in DOMAIN platform'[g] /\ platform'[g][n] = p /\ n # None
  <2>1. platform' = [platform EXCEPT ![g] = Append(platform[g], p)] /\ n = Len(platform[g]) + 1
    BY <1>2, <1>6
  <2> QED BY <2>1, PlatformAppend, ZenonT(60)
<1>8. Shapes'
  BY <1>1, <1>7 DEF Shapes
<1>9. CopyOK(g, n)'
  <2>1. None \notin Messages'
    BY <1>8, ShapeParts DEF None
  <2> QED BY <1>5, <1>7, <2>1 DEF CopyOK
<1>10. ShownOK(g, n)' /\ ReachedOK(g, n)'
  BY <1>5, <1>7 DEF ShownOK, ReachedOK
<1> QED BY <1>1, <1>7, <1>8, <1>9, <1>10, MessengerStep

LEMMA ProgressStep ==
  ASSUME GateInv, NEW g \in Gates, NEW e \in DOMAIN platform[g], NEW s \in Reports, Progress(g, e, s)
  PROVE  GateInv'
<1>1. Shapes /\ UNCHANGED <<msg, ids, out, forward>> /\ ReachedOK(g, e)
  BY DEF GateInv, Progress
<1>2. PICK p : p = [platform[g][e] EXCEPT !.reached = @ \cup {s}]
  OBVIOUS
<1>3. /\ p \in Copy /\ p.shown = platform[g][e].shown
      /\ p.of = platform[g][e].of /\ p.reply = platform[g][e].reply
      /\ p.reached = platform[g][e].reached \cup {s}
  <2>1. platform[g][e] \in Copy
    BY <1>1, ShapeParts
  <2> QED BY <1>2, <2>1 DEF Copy
<1>4. platform' = [platform EXCEPT ![g] = [platform[g] EXCEPT ![e] = p]]
  BY <1>2 DEF Progress
<1>5. /\ platform' \in [Gates -> Seq(Copy)]
      /\ \A h \in Gates : DOMAIN platform'[h] = DOMAIN platform[h]
      /\ \A h \in Gates : \A d \in DOMAIN platform[h] :
           platform'[h][d] = IF h = g /\ d = e THEN p ELSE platform[h][d]
  BY <1>3, <1>4, PlatformChange
<1>6. Shapes'
  BY <1>1, <1>5 DEF Shapes
<1>7. ReachedOK(g, e)'
  BY <1>1, <1>3, <1>5 DEF ReachedOK, Progress
<1> QED BY <1>1, <1>3, <1>5, <1>6, <1>7, MessengerStep

LEMMA ReportStep ==
  ASSUME GateInv, NEW g \in Gates, NEW e \in DOMAIN platform[g], NEW s \in Reports,
         UpdateMessageDelivery(g, e, s)
  PROVE  GateInv'
<1>1. /\ Shapes /\ UNCHANGED <<msg, out, forward, platform>>
      /\ s \in platform[g][e].reached /\ ReachedOK(g, e)
  BY DEF GateInv, UpdateMessageDelivery
<1>2. Recorded(s) \subseteq platform[g][e].reached \/ s = "delivered"
  BY <1>1 DEF Recorded, ReachedOK, Reports
<1>3. Recorded(s) \subseteq platform[g][e].reached /\ Recorded(s) \subseteq Reports
      /\ ("read" \in Recorded(s) => "delivered" \in Recorded(s))
  BY <1>1, <1>2 DEF Recorded, Reports
<1>4. ASSUME NEW q \in ids', q \notin ids PROVE q \in Row /\ RowOK(q)'
  <2>1. PICK r \in ids : r.gate = g /\ r.ext = e /\ q = [r EXCEPT !.state = @ \cup Recorded(s)]
    BY <1>4 DEF UpdateMessageDelivery
  <2>2. r \in Row /\ RowOK(r)
    BY <1>1 DEF Shapes, GateInv
  <2>3. q \in Row /\ q.gate = r.gate /\ q.ext = r.ext /\ q.msg = r.msg /\ q.state = r.state \cup Recorded(s)
    BY <1>3, <2>1, <2>2 DEF Row
  <2> QED BY <1>1, <1>3, <2>1, <2>2, <2>3 DEF RowOK, Copies, Messages
<1>5. Shapes'
  BY <1>1, <1>4 DEF Shapes
<1>6. \A m \in Messages : /\ m \in Messages'
                          /\ msg'[m].from = msg[m].from /\ msg'[m].reply = msg[m].reply
                          /\ \A x : Chosen(m, x) => Chosen(m, x)'
  BY <1>1 DEF Messages, Chosen
<1>7. \A m \in Messages' : m \in Messages
  BY <1>1 DEF Messages
<1> QED BY <1>1, <1>4, <1>5, <1>6, <1>7, LocalStep

-----------------------------------------------------------------------------
(* The theorems.                                                           *)

LEMMA GateInit == Init => GateInv
<1> SUFFICES ASSUME Init PROVE GateInv
  OBVIOUS
<1>1. Messages = {} /\ \A g \in Gates : DOMAIN platform[g] = {}
  BY DEF Init, Messages
<1>2. Shapes
  BY DEF Init, Shapes
<1> QED BY <1>1, <1>2 DEF GateInv, Init

LEMMA GateNext ==
  ASSUME GateInv, [Next]_vars
  PROVE  GateInv'
<1>1. CASE UNCHANGED vars
  <2>1. Shapes' /\ UNCHANGED <<msg, ids, out, forward, platform>>
    BY <1>1 DEF GateInv, Shapes, vars
  <2>2. \A m \in Messages : /\ m \in Messages'
                            /\ msg'[m].from = msg[m].from /\ msg'[m].reply = msg[m].reply
                            /\ \A x : Chosen(m, x) => Chosen(m, x)'
    BY <2>1 DEF Messages, Chosen
  <2>3. \A m \in Messages' : m \in Messages
    BY <2>1 DEF Messages
  <2> QED BY <2>1, <2>2, <2>3, LocalStep
<1> QED BY <1>1, AgentStep, SetReactionStep, DispatchStep, PersistStep, SendReactionStep,
           CustomerWritesStep, RelayStep, ProgressStep, ReportStep DEF Next

(* Every mapping, copy, reply and reaction is tied to the message it is    *)
(* of, whatever calls fail, arrive late or are repeated.                   *)
THEOREM GateInvariance == Spec => []GateInv
BY GateInit, GateNext, PTL DEF Spec

(* A mapping and a send in progress name a message and an id that exist,   *)
(* and both keys of the mapping hold (Save, persistExternalID).            *)
THEOREM Typing == Spec => []TypeOK
<1>1. GateInv /\ KeysUnique => TypeOK
  BY DEF GateInv, Shapes, PostOK, RowOK, SentOK, ChangeOK, Copies, Row, Sent, Change, TypeOK
<1> QED BY <1>1, GateInvariance, MappingUnique, PTL

(* A reply points at the same message on both sides (resolveExternalReply, *)
(* lookupReplyExternalID).                                                 *)
THEOREM RepliesAgree == Spec => []RepliesFaithful
<1>1. ASSUME GateInv PROVE RepliesFaithful
  <2>1. ASSUME NEW m \in Messages, msg[m].from # Agent, msg[m].reply # None
        PROVE  LET g == msg[m].from.gate  p == platform[g][msg[m].from.ext] IN
               p.reply # None /\ msg[m].reply \in Copies(g, p.reply)
    <3>1. msg[m] \in Post /\ PostOK(m)
      BY <1>1, ShapeParts DEF GateInv
    <3>2. PICK g \in Gates, e \in Nat \ {None} : msg[m].from = [gate |-> g, ext |-> e]
      BY <2>1, <3>1 DEF Post, Author
    <3>3. PICK q \in DOMAIN platform[g] : platform[g][e].reply = q /\ msg[m].reply \in Copies(g, q)
      BY <2>1, <3>1, <3>2 DEF PostOK
    <3>4. q # None
      BY <1>1, ShapeParts DEF GateInv, None
    <3> QED BY <3>2, <3>3, <3>4
  <2>2. ASSUME NEW g \in Gates, NEW e \in DOMAIN platform[g],
               platform[g][e].of # None, platform[g][e].reply # None
        PROVE  msg[platform[g][e].of].reply \in Copies(g, platform[g][e].reply)
    BY <1>1, <2>2 DEF GateInv, CopyOK
  <2> QED BY <2>1, <2>2 DEF RepliesFaithful
<1> QED BY <1>1, GateInvariance, PTL

(* A reaction seen in a messenger was chosen for the message it is seen    *)
(* on, and is in the allow-list if there is one (SendReaction); for every  *)
(* allow-list, the empty one too.                                          *)
THEOREM ReactionsAgree == Spec => []ReactionsFaithful
<1>1. GateInv => ReactionsFaithful
  BY DEF GateInv, ShownOK, MaySee, Chosen, ReactionsFaithful
<1> QED BY <1>1, GateInvariance, PTL

(* A recorded delivery state happened, and a read message is recorded as   *)
(* delivered, in whatever order the reports came (UpdateDelivery).         *)
THEOREM ReportsTrue == Spec => []StatusTruthful
<1>1. GateInv => StatusTruthful
  BY DEF GateInv, RowOK, StatusTruthful
<1> QED BY <1>1, GateInvariance, PTL
=============================================================================
