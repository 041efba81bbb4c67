-------------------------- MODULE BotControlProofs --------------------------
(***************************************************************************)
(* Proofs about bot control, for any memberships, joiners and calls: the   *)
(* types of the rows and of the calls, and that no completion takes the    *)
(* owner off the stack.  For calls that do not overlap also that control   *)
(* is where the stack says and that a grant is announced only with it.     *)
(***************************************************************************)
EXTENDS BotControl, FiniteSetTheorems, WellFoundedInduction, TLAPS

-----------------------------------------------------------------------------
(* The inductive invariant *)

Thread == [st : [Dialogs -> {"none", "live", "left"}], mem : [Dialogs -> Member],
           stack : Seq(Dialogs), controller : MaybeDialog, owner : MaybeDialog]

Call == [op : Ops, phase : Phases, d : MaybeDialog, mem : Member,
         active : BOOLEAN, isTop : BOOLEAN, popped : BOOLEAN,
         top : MaybeDialog, owner : MaybeDialog, prev : MaybeDialog]

\* The membership rows that do not exist yet.
Nones(t) == {d \in Dialogs : t.st[d] = "none"}

\* A bot on the stack is or was a member.
Stacked(t) == \A e \in OnStack(t) : t.st[e] # "none" /\ t.mem[e].bot

\* A thread that ever had a bot has an owner.
Owned(t) == \A d \in Dialogs : t.mem[d].bot => t.owner # Nil

\* What a call carries from one statement to the next stays true: its member exists,
\* a completing bot is not the owner, the bot of a message is a bot.
CallOK(c, t) ==
  /\ c.d # Nil => t.st[c.d] # "none"
  /\ c.op \in {"transfer", "remove", "complete", "ensure"} => c.d # Nil
  /\ c.phase \in {"pop", "delete", "top"} => c.d # Nil /\ c.op \in {"complete", "release"}
  /\ c.phase = "clear" => c.d = Nil /\ c.op \in {"release", "takeover"}
  /\ c.op = "release" /\ c.phase = "begun" => c.d = Nil
  /\ c.op = "transfer" => c.phase = "begun"
  /\ c.popped => c.d # Nil
  /\ c.op = "complete" => t.owner # Nil /\ c.d # t.owner
  /\ c.op = "ensure" => t.mem[c.d].bot

Transfers == {k \in Calls : call[k].op = "transfer"}

\* There is a row left for every transfer in progress.
RoomInv == Cardinality(Nones(th)) >= Cardinality(Transfers)

\* Nothing happens before the thread exists.
FreshInv ==
  ~Exists => /\ Nones(th) = Dialogs /\ th.stack = <<>> /\ th.controller = Nil
             /\ \A k \in Calls : call[k] = NoCall

BotInv ==
  /\ TypeOK
  /\ Stacked(th) /\ Owned(th)
  /\ \A k \in Calls : CallOK(call[k], th)
  /\ RoomInv
  /\ FreshInv

-----------------------------------------------------------------------------
(* Rows and stacks *)

LEMMA Consts ==
  /\ Dialogs \subseteq Nat /\ Nil \notin Dialogs /\ Nil \notin Nat
  /\ 1 \in Dialogs /\ 2 \in Dialogs /\ IsFiniteSet(Dialogs)
<1>1. MaxDialogs \in Nat /\ MaxDialogs >= 2 /\ Nil \notin Nat
  BY BotConstants
<1>2. IsFiniteSet(1..MaxDialogs)
  BY <1>1, FS_Interval
<1> QED
  BY <1>1, <1>2 DEF Dialogs

LEMMA SmallestExists ==
  ASSUME NEW S \in SUBSET Nat, S # {}
  PROVE  \E x \in S : \A y \in S : x <= y
<1> DEFINE R == OpToRel(<, Nat)
<1>1. IsWellFoundedOn(R, Nat)
  BY NatLessThanWellFounded
<1> HIDE DEF R
<1>2. PICK x \in S : \A y \in S : ~ (<<y, x>> \in R)
  BY <1>1, WFMin
<1>3. ASSUME NEW y \in S, y < x PROVE <<y, x>> \in R
  BY <1>3 DEF R, OpToRel
<1>4. ASSUME NEW y \in S PROVE x <= y
  <2>1. x \in Nat /\ y \in Nat
    OBVIOUS
  <2>2. ~ (y < x)
    BY <1>2, <1>3
  <2> QED
    BY <2>1, <2>2
<1> QED
  BY <1>4

LEMMA EarliestIs ==
  ASSUME NEW S \in SUBSET Dialogs
  PROVE  /\ S = {} => Earliest(S) = Nil
         /\ S # {} => Earliest(S) \in S /\ Earliest(S) # Nil /\ \A e \in S : Earliest(S) <= e
         /\ Earliest(S) \in MaybeDialog
<1>1. S \in SUBSET Nat /\ Nil \notin S
  BY Consts
<1>2. S # {} => Earliest(S) \in S /\ \A e \in S : Earliest(S) <= e
  BY <1>1, SmallestExists DEF Earliest
<1>3. S = {} => Earliest(S) = Nil
  BY DEF Earliest
<1> QED
  BY <1>1, <1>2, <1>3 DEF MaybeDialog

Entries(s) == {s[i] : i \in 1..Len(s)}

LEMMA TopIs ==
  ASSUME NEW s \in Seq(Dialogs)
  PROVE  /\ s = <<>> => Top(s) = Nil
         /\ s # <<>> => Top(s) \in Entries(s) /\ Top(s) \in Dialogs /\ Top(s) # Nil
         /\ Top(s) \in MaybeDialog
         /\ Entries(s) \subseteq Dialogs
<1>1. s # <<>> => Len(s) \in 1..Len(s) /\ s[Len(s)] \in Dialogs
  OBVIOUS
<1>2. s # <<>> => Top(s) \in Entries(s) /\ Top(s) \in Dialogs
  BY <1>1 DEF Top, Entries
<1>3. Entries(s) \subseteq Dialogs
  BY DEF Entries
<1> QED
  BY <1>2, <1>3, Consts DEF Top, MaybeDialog

LEMMA AppendIs ==
  ASSUME NEW s \in Seq(Dialogs), NEW d \in Dialogs
  PROVE  /\ Append(s, d) \in Seq(Dialogs) /\ Append(s, d) # <<>>
         /\ Top(Append(s, d)) = d
         /\ Entries(Append(s, d)) = Entries(s) \cup {d}
<1>1. /\ Append(s, d) \in Seq(Dialogs) /\ Len(Append(s, d)) = Len(s) + 1 /\ Len(s) \in Nat
      /\ Append(s, d)[Len(s) + 1] = d /\ \A i \in 1..Len(s) : Append(s, d)[i] = s[i]
  OBVIOUS
<1>2. Append(s, d) # <<>>
  BY <1>1
<1>3. 1..Len(Append(s, d)) = (1..Len(s)) \cup {Len(s) + 1}
  BY <1>1
<1>4. Entries(Append(s, d)) = Entries(s) \cup {d}
  BY <1>1, <1>3 DEF Entries
<1>5. Top(Append(s, d)) = d
  BY <1>1, <1>2 DEF Top
<1> QED
  BY <1>1, <1>2, <1>4, <1>5

\* What deleting one entry of d leaves.
LEMMA WithoutIs ==
  ASSUME NEW s \in Seq(Dialogs), NEW d
  PROVE  /\ Without(s, d) \in Seq(Dialogs)
         /\ Entries(Without(s, d)) \subseteq Entries(s)
         /\ \A e \in Entries(s) : e # d => e \in Entries(Without(s, d))
         /\ d \in Entries(s) /\ Without(s, d) = <<>> => Top(s) = d
<1>1. CASE ~ \E i \in 1..Len(s) : s[i] = d
  <2>1. Without(s, d) = s /\ d \notin Entries(s)
    BY <1>1 DEF Without, Entries
  <2> QED
    BY <2>1
<1>2. CASE \E i \in 1..Len(s) : s[i] = d
  <2> DEFINE n == CHOOSE i \in 1..Len(s) : s[i] = d
  <2>1. n \in 1..Len(s) /\ s[n] = d
    BY <1>2
  <2>2. Without(s, d) = SubSeq(s, 1, n - 1) \o SubSeq(s, n + 1, Len(s))
    BY <1>2 DEF Without
  <2> HIDE DEF n
  <2>3. Len(s) \in Nat /\ n \in Nat /\ n >= 1 /\ n <= Len(s) /\ n - 1 \in Nat
    BY <2>1
  <2>4. PICK a : a = SubSeq(s, 1, n - 1)
    OBVIOUS
  <2>5. PICK b : b = SubSeq(s, n + 1, Len(s))
    OBVIOUS
  <2>6. a \in Seq(Dialogs) /\ Len(a) = n - 1 /\ \A i \in 1..(n - 1) : a[i] = s[i]
    BY <2>3, <2>4
  <2>7. b \in Seq(Dialogs) /\ Len(b) = Len(s) - n /\ \A i \in 1..(Len(s) - n) : b[i] = s[n + i]
    BY <2>3, <2>5
  <2>8. PICK w : w = Without(s, d)
    OBVIOUS
  <2>9. w = a \o b
    BY <2>2, <2>4, <2>5, <2>8
  <2>10. /\ w \in Seq(Dialogs) /\ Len(w) = Len(s) - 1
         /\ \A i \in 1..Len(w) : w[i] = IF i < n THEN s[i] ELSE s[i + 1]
    <3>1. w \in Seq(Dialogs) /\ Len(w) = Len(a) + Len(b)
      BY <2>6, <2>7, <2>9
    <3>2. \A i \in 1..Len(a) : w[i] = a[i]
      BY <2>6, <2>7, <2>9
    <3>3. \A i \in 1..Len(w) : i > Len(a) => w[i] = b[i - Len(a)]
      BY <2>6, <2>7, <2>9, <3>1
    <3>4. Len(w) = Len(s) - 1
      BY <2>3, <2>6, <2>7, <3>1
    <3>5. ASSUME NEW i \in 1..Len(w) PROVE w[i] = IF i < n THEN s[i] ELSE s[i + 1]
      <4>1. CASE i < n
        <5>1. i \in 1..(n - 1)
          BY <2>3, <3>4, <4>1
        <5> QED
          BY <2>6, <3>2, <4>1, <5>1
      <4>2. CASE ~(i < n)
        <5>1. i > Len(a) /\ i - (n - 1) \in 1..(Len(s) - n) /\ n + (i - (n - 1)) = i + 1
          BY <2>3, <2>6, <3>4, <4>2
        <5>2. w[i] = b[i - (n - 1)]
          BY <2>6, <3>3, <5>1
        <5> QED
          BY <2>7, <4>2, <5>1, <5>2
      <4> QED
        BY <4>1, <4>2
    <3> QED
      BY <3>1, <3>4, <3>5
  <2>11. ASSUME NEW e \in Entries(w) PROVE e \in Entries(s)
    <3>1. PICK i \in 1..Len(w) : e = w[i]
      BY DEF Entries
    <3>2. i \in 1..Len(s) /\ i + 1 \in 1..Len(s)
      BY <2>3, <2>10
    <3> QED
      BY <2>10, <3>1, <3>2 DEF Entries
  <2>12. ASSUME NEW e \in Entries(s), e # d PROVE e \in Entries(w)
    <3>1. PICK i \in 1..Len(s) : e = s[i]
      BY DEF Entries
    <3>2. i # n
      BY <2>1, <2>12, <3>1
    <3>3. CASE i < n
      <4>1. i \in 1..Len(w) /\ w[i] = s[i]
        BY <2>3, <2>10, <3>3
      <4> QED
        BY <3>1, <4>1 DEF Entries
    <3>4. CASE i > n
      <4>1. i - 1 \in 1..Len(w) /\ ~(i - 1 < n) /\ (i - 1) + 1 = i
        BY <2>3, <2>10, <3>4
      <4>2. w[i - 1] = s[i]
        BY <2>10, <4>1
      <4> QED
        BY <3>1, <4>1, <4>2 DEF Entries
    <3> QED
      BY <2>3, <3>2, <3>3, <3>4
  <2>13. ASSUME w = <<>> PROVE Top(s) = d
    <3>1. Len(w) = 0
      BY <2>13
    <3>2. Len(w) = Len(s) - 1
      BY <2>10
    <3>3. Len(s) = 1 /\ n = 1
      <4>1. PICK l \in Nat, m \in Nat : l = Len(s) /\ m = n /\ 1 <= m /\ m <= l
        BY <2>3
      <4>2. l - 1 = 0
        BY <3>1, <3>2, <4>1
      <4>3. l = 1 /\ m = 1
        BY <4>1, <4>2
      <4> QED
        BY <4>1, <4>3
    <3>4. s # <<>>
      <4>1. ASSUME s = <<>> PROVE FALSE
        <5>1. Len(s) = 0
          BY <4>1
        <5> QED
          BY <3>3, <5>1
      <4> QED
        BY <4>1
    <3>5. Top(s) = s[1]
      BY <3>3, <3>4 DEF Top
    <3> QED
      BY <2>1, <3>3, <3>5
  <2> QED
    BY <2>8, <2>10, <2>11, <2>12, <2>13
<1> QED
  BY <1>1, <1>2

-----------------------------------------------------------------------------
(* The operations on the rows, field by field *)

LEMMA Fields ==
  ASSUME NEW t \in Thread
  PROVE  /\ t.st \in [Dialogs -> {"none", "live", "left"}] /\ t.mem \in [Dialogs -> Member]
         /\ t.stack \in Seq(Dialogs) /\ t.controller \in MaybeDialog /\ t.owner \in MaybeDialog
         /\ OnStack(t) = Entries(t.stack) /\ OnStack(t) \subseteq Dialogs
<1>1. /\ t.st \in [Dialogs -> {"none", "live", "left"}] /\ t.mem \in [Dialogs -> Member]
      /\ t.stack \in Seq(Dialogs) /\ t.controller \in MaybeDialog /\ t.owner \in MaybeDialog
  BY DEF Thread
<1>2. OnStack(t) = Entries(t.stack)
  BY DEF OnStack, Entries
<1> QED
  BY <1>1, <1>2, TopIs

Pushed(t, u, d) ==
  /\ u \in Thread /\ u.st = t.st /\ u.mem = t.mem
  /\ u.stack = Append(t.stack, d) /\ u.controller = d
  /\ t.owner # Nil => u.owner = t.owner
  /\ Bots(t) \ OnStack(t) # {} => u.owner # Nil

LEMMA PushIs ==
  ASSUME NEW t \in Thread, NEW d \in Dialogs
  PROVE  Pushed(t, Push(t, d), d)
<1>1. PICK o : o = Coalesce(t.owner, Earliest(Bots(t) \ OnStack(t)))
  OBVIOUS
<1>2. Bots(t) \ OnStack(t) \in SUBSET Dialogs
  BY DEF Bots, Live
<1>3. /\ Bots(t) \ OnStack(t) # {} => Earliest(Bots(t) \ OnStack(t)) # Nil
      /\ Earliest(Bots(t) \ OnStack(t)) \in MaybeDialog
  <2>1. PICK S \in SUBSET Dialogs : S = Bots(t) \ OnStack(t)
    BY <1>2
  <2>2. (S # {} => Earliest(S) # Nil) /\ Earliest(S) \in MaybeDialog
    BY EarliestIs
  <2> QED
    BY <2>1, <2>2
<1>4. t.owner \in MaybeDialog /\ t.stack \in Seq(Dialogs)
  BY Fields
<1>5. /\ o \in MaybeDialog /\ (t.owner # Nil => o = t.owner)
      /\ (Bots(t) \ OnStack(t) # {} => o # Nil)
  BY <1>1, <1>3, <1>4 DEF Coalesce
<1>6. PICK s \in Seq(Dialogs) : s = Append(t.stack, d)
  BY <1>4, AppendIs
<1>7. Push(t, d) = [t EXCEPT !.stack = s, !.controller = d, !.owner = o]
  BY <1>1, <1>6 DEF Push
<1>8. d \in MaybeDialog
  BY DEF MaybeDialog
<1>9. PICK u : u = [t EXCEPT !.stack = s, !.controller = d, !.owner = o]
  OBVIOUS
<1>10. u \in Thread /\ u.st = t.st /\ u.mem = t.mem /\ u.stack = s /\ u.controller = d /\ u.owner = o
  BY <1>5, <1>8, <1>9 DEF Thread
<1>11. Pushed(t, u, d)
  BY <1>5, <1>6, <1>10 DEF Pushed
<1> QED
  BY <1>7, <1>9, <1>11

Created(t, u, n, m) ==
  /\ n \in Dialogs /\ t.st[n] = "none" /\ u \in Thread
  /\ u.st = [t.st EXCEPT ![n] = "live"] /\ u.mem = [t.mem EXCEPT ![n] = m]
  /\ u.stack = t.stack /\ u.controller = t.controller /\ u.owner = t.owner

LEMMA CreateIs ==
  ASSUME NEW t \in Thread, NEW m \in Member, Nones(t) # {}
  PROVE  /\ Created(t, Create(t, m), NextDialog(t), m)
         /\ \A d \in Nones(t) : NextDialog(t) <= d
<1>1. NextDialog(t) = Earliest(Nones(t)) /\ Nones(t) \in SUBSET Dialogs
  BY DEF NextDialog, Nones
<1>2. PICK S \in SUBSET Dialogs : S = Nones(t)
  BY <1>1
<1>3. PICK n : n = NextDialog(t)
  OBVIOUS
<1>4. n \in S /\ \A d \in S : n <= d
  BY <1>1, <1>2, <1>3, EarliestIs
<1>5. n \in Dialogs /\ t.st[n] = "none"
  BY <1>2, <1>4 DEF Nones
<1>6. PICK u : u = [t EXCEPT !.st[n] = "live", !.mem[n] = m]
  OBVIOUS
<1>7. Create(t, m) = u
  BY <1>3, <1>6 DEF Create
<1>8. /\ [t.st EXCEPT ![n] = "live"] \in [Dialogs -> {"none", "live", "left"}]
      /\ [t.mem EXCEPT ![n] = m] \in [Dialogs -> Member]
  BY <1>5, Fields
<1>9. /\ u.st = [t.st EXCEPT ![n] = "live"] /\ u.mem = [t.mem EXCEPT ![n] = m]
      /\ u.stack = t.stack /\ u.controller = t.controller /\ u.owner = t.owner
  BY <1>6 DEF Thread
<1>10. u \in Thread
  BY <1>6, <1>8 DEF Thread
<1>11. Created(t, u, n, m)
  BY <1>5, <1>9, <1>10 DEF Created
<1> QED
  BY <1>2, <1>3, <1>4, <1>7, <1>11

\* Pop and PopEntry.
Dropped(t, u, d) ==
  /\ u \in Thread /\ u.mem = t.mem /\ u.stack = Without(t.stack, d) /\ u.owner = t.owner
  /\ \A e \in Dialogs : u.st[e] = t.st[e] \/ (e = d /\ u.st[e] = "left")

LEMMA PopEntryIs ==
  ASSUME NEW t \in Thread, NEW d \in Dialogs
  PROVE  Dropped(t, PopEntry(t, d), d) /\ PopEntry(t, d).controller = t.controller
<1>1. PICK s \in Seq(Dialogs) : s = Without(t.stack, d)
  BY Fields, WithoutIs
<1>2. PICK x : x = [t.st EXCEPT ![d] = IF t.mem[d].auto THEN "left" ELSE @]
  OBVIOUS
<1>3. /\ x \in [Dialogs -> {"none", "live", "left"}]
      /\ \A e \in Dialogs : x[e] = t.st[e] \/ (e = d /\ x[e] = "left")
  BY <1>2, Fields
<1>4. PICK u : u = [t EXCEPT !.stack = s, !.st = x]
  OBVIOUS
<1>5. PopEntry(t, d) = u
  BY <1>1, <1>2, <1>4 DEF PopEntry, Thread
<1>6. /\ u \in Thread /\ u.mem = t.mem /\ u.stack = s /\ u.owner = t.owner /\ u.st = x
      /\ u.controller = t.controller
  BY <1>3, <1>4 DEF Thread
<1>7. Dropped(t, u, d)
  BY <1>1, <1>3, <1>6 DEF Dropped
<1> QED
  BY <1>5, <1>6, <1>7

LEMMA ControllerIs ==
  ASSUME NEW t \in Thread, NEW top \in MaybeDialog, NEW isTop \in BOOLEAN, NEW reason
  PROVE  /\ Controller(t, top, isTop, reason) \in MaybeDialog
         /\ Popped(t, top, isTop, reason) \in MaybeDialog
<1>1. t.owner \in MaybeDialog /\ t.controller \in MaybeDialog /\ Nil \in MaybeDialog
  BY Fields DEF MaybeDialog
<1>2. Controller(t, top, isTop, reason) \in {Nil, top, t.owner, t.controller}
  BY DEF Controller, Coalesce
<1>3. Popped(t, top, isTop, reason) \in {Nil, top, t.owner}
  BY DEF Popped
<1> QED
  BY <1>1, <1>2, <1>3

LEMMA SetController ==
  ASSUME NEW t \in Thread, NEW c \in MaybeDialog
  PROVE  LET u == [t EXCEPT !.controller = c]
         IN  /\ u \in Thread /\ u.st = t.st /\ u.mem = t.mem /\ u.stack = t.stack
             /\ u.owner = t.owner /\ u.controller = c
  BY DEF Thread

LEMMA PopIs ==
  ASSUME NEW t \in Thread, NEW d \in Dialogs, NEW reason
  PROVE  /\ Dropped(t, Pop(t, d, reason), d)
         /\ Pop(t, d, reason).controller =
              Controller(PopEntry(t, d), Top(Without(t.stack, d)), Top(t.stack) = d, reason)
<1>1. PICK u : u = PopEntry(t, d)
  OBVIOUS
<1>2. Dropped(t, u, d)
  BY <1>1, PopEntryIs
<1>3. u \in Thread /\ u.stack = Without(t.stack, d) /\ u.stack \in Seq(Dialogs)
  BY <1>2, Fields DEF Dropped
<1>4. PICK b \in BOOLEAN : b = (Top(t.stack) = d)
  OBVIOUS
<1>5. PICK top \in MaybeDialog : top = Top(u.stack)
  BY <1>3, TopIs
<1>6. PICK c \in MaybeDialog : c = Controller(u, top, b, reason)
  BY <1>3, ControllerIs
<1>7. Pop(t, d, reason) = [u EXCEPT !.controller = c]
  BY <1>1, <1>4, <1>5, <1>6 DEF Pop
<1>8. PICK v : v = [u EXCEPT !.controller = c]
  OBVIOUS
<1>9. /\ v \in Thread /\ v.st = u.st /\ v.mem = u.mem /\ v.stack = u.stack
      /\ v.owner = u.owner /\ v.controller = c
  BY <1>3, <1>8, SetController
<1>10. Dropped(t, v, d)
  BY <1>2, <1>9 DEF Dropped
<1> QED
  BY <1>1, <1>3, <1>4, <1>5, <1>6, <1>7, <1>8, <1>9, <1>10

Event == [granted : MaybeDialog, released : MaybeDialog]

Adopted(t, a, new) ==
  /\ a \in Thread /\ a.st = t.st /\ a.mem[new] = t.mem[new]
  /\ \A d \in Dialogs : t.mem[d].bot => a.mem[d].bot
  /\ Stacked(t) => Stacked(a)
  /\ new \notin OnStack(t) => new \notin OnStack(a)
  /\ t.owner # Nil => a.owner = t.owner

LEMMA AdoptIs ==
  ASSUME NEW t \in Thread, NEW new \in Dialogs
  PROVE  Adopted(t, AdoptUntrackedBot(t, new), new)
<1>1. PICK S : S = {e \in Live(t) \ {new} : ~t.mem[e].bot /\ t.mem[e].contactBot}
  OBVIOUS
<1>2. S \in SUBSET Dialogs
  BY <1>1 DEF Live
<1>3. PICK d : d = Earliest(S)
  OBVIOUS
<1>4. CASE t.stack # <<>> \/ d = Nil
  <2>1. AdoptUntrackedBot(t, new) = t
    BY <1>1, <1>3, <1>4 DEF AdoptUntrackedBot
  <2>2. Adopted(t, t, new)
    BY DEF Adopted
  <2> QED
    BY <2>1, <2>2
<1>5. CASE t.stack = <<>> /\ d # Nil
  <2>1. d \in S
    BY <1>2, <1>3, <1>5, EarliestIs
  <2>2. d \in Dialogs /\ t.st[d] = "live" /\ d # new
    BY <1>1, <2>1 DEF Live
  <2>3. PICK x : x = [t.mem EXCEPT ![d].bot = TRUE]
    OBVIOUS
  <2>4. /\ x \in [Dialogs -> Member] /\ x[new] = t.mem[new] /\ x[d].bot
        /\ \A e \in Dialogs : t.mem[e].bot => x[e].bot
    <3>1. t.mem \in [Dialogs -> Member] /\ t.mem[d] \in Member
      BY <2>2, Fields
    <3>2. [t.mem[d] EXCEPT !.bot = TRUE] \in Member /\ [t.mem[d] EXCEPT !.bot = TRUE].bot
      BY <3>1 DEF Member
    <3> QED
      BY <2>2, <2>3, <3>1, <3>2
  <2>5. PICK u : u = [t EXCEPT !.mem = x]
    OBVIOUS
  <2>6. /\ u \in Thread /\ u.st = t.st /\ u.mem = x /\ u.stack = t.stack /\ u.owner = t.owner
    BY <2>4, <2>5 DEF Thread
  <2>7. AdoptUntrackedBot(t, new) = Push(u, d)
    BY <1>1, <1>3, <1>5, <2>3, <2>5 DEF AdoptUntrackedBot, Thread
  <2>8. PICK a : a = Push(u, d)
    OBVIOUS
  <2>9. Pushed(u, a, d)
    BY <2>2, <2>6, <2>8, PushIs
  <2>10. a \in Thread /\ a.st = t.st /\ a.mem = x /\ a.stack = Append(t.stack, d)
         /\ (t.owner # Nil => a.owner = t.owner)
    BY <2>6, <2>9 DEF Pushed
  <2>11. OnStack(a) = OnStack(t) \cup {d}
    <3>1. OnStack(a) = Entries(Append(t.stack, d)) /\ OnStack(t) = Entries(t.stack)
          /\ t.stack \in Seq(Dialogs)
      BY <2>10, Fields
    <3> QED
      BY <2>2, <3>1, AppendIs
  <2>12. Stacked(t) => Stacked(a)
    <3> SUFFICES ASSUME Stacked(t), NEW e \in OnStack(a) PROVE a.st[e] # "none" /\ a.mem[e].bot
      BY DEF Stacked
    <3>1. CASE e = d
      BY <2>2, <2>4, <2>10, <3>1
    <3>2. CASE e \in OnStack(t)
      <4>1. e \in Dialogs
        BY <3>2, Fields
      <4> QED
        BY <2>4, <2>10, <3>2, <4>1 DEF Stacked
    <3> QED
      BY <2>11, <3>1, <3>2
  <2>13. Adopted(t, a, new)
    BY <2>2, <2>4, <2>10, <2>11, <2>12 DEF Adopted
  <2> QED
    BY <2>7, <2>8, <2>13
<1> QED
  BY <1>4, <1>5

Joined(t, j, new) ==
  /\ j \in Thread /\ j.st = t.st /\ Stacked(j)
  /\ \A d \in Dialogs : t.mem[d].bot => j.mem[d].bot
  /\ j.owner # Nil /\ (t.owner # Nil => j.owner = t.owner)
  /\ j.controller = new /\ Top(j.stack) = new /\ new \in OnStack(j)

LEMMA JoinIs ==
  ASSUME NEW t \in Thread, Stacked(t), NEW new \in Dialogs, t.st[new] = "live",
         t.mem[new].bot, new \notin OnStack(t)
  PROVE  /\ Joined(t, JoinBot(t, new), new)
         /\ JoinEvent(t, new) \in Event /\ JoinEvent(t, new).granted = new
<1>1. PICK a : a = AdoptUntrackedBot(t, new)
  OBVIOUS
<1>2. Adopted(t, a, new)
  BY <1>1, AdoptIs
<1>3. /\ a \in Thread /\ a.st = t.st /\ a.mem[new].bot /\ Stacked(a) /\ new \notin OnStack(a)
      /\ (t.owner # Nil => a.owner = t.owner) /\ \A d \in Dialogs : t.mem[d].bot => a.mem[d].bot
  BY <1>2 DEF Adopted
<1>4. PICK j : j = Push(a, new)
  OBVIOUS
<1>5. Pushed(a, j, new)
  BY <1>3, <1>4, PushIs
<1>6. new \in Bots(a) \ OnStack(a)
  BY <1>3 DEF Bots, Live
<1>7. /\ j \in Thread /\ j.st = a.st /\ j.mem = a.mem /\ j.stack = Append(a.stack, new)
      /\ j.controller = new /\ (a.owner # Nil => j.owner = a.owner) /\ j.owner # Nil
  BY <1>5, <1>6 DEF Pushed
<1>8. a.stack \in Seq(Dialogs) /\ OnStack(a) = Entries(a.stack) /\ OnStack(j) = Entries(j.stack)
  BY <1>3, <1>7, Fields
<1>9. Top(j.stack) = new /\ OnStack(j) = OnStack(a) \cup {new}
  BY <1>7, <1>8, AppendIs
<1>10. Stacked(j)
  BY <1>3, <1>7, <1>9 DEF Stacked
<1>11. Joined(t, j, new)
  BY <1>3, <1>7, <1>9, <1>10 DEF Joined
<1>12. JoinBot(t, new) = j
  BY <1>1, <1>4 DEF JoinBot
<1>13. JoinEvent(t, new) = [granted |-> new, released |-> Top(a.stack)]
  BY <1>1 DEF JoinEvent
<1>14. new \in MaybeDialog /\ Top(a.stack) \in MaybeDialog
  BY <1>8, TopIs DEF MaybeDialog
<1> QED
  BY <1>11, <1>12, <1>13, <1>14 DEF Event

LEMMA DeleteIs ==
  ASSUME NEW t \in Thread, NEW d \in Dialogs
  PROVE  LET u == Delete(t, d)
         IN  /\ u \in Thread /\ u.mem = t.mem /\ u.stack = t.stack /\ u.owner = t.owner
             /\ u.controller = t.controller /\ u.st = [t.st EXCEPT ![d] = "left"]
<1>1. [t.st EXCEPT ![d] = "left"] \in [Dialogs -> {"none", "live", "left"}]
  BY Fields
<1>2. PICK x \in [Dialogs -> {"none", "live", "left"}] : x = [t.st EXCEPT ![d] = "left"]
  BY <1>1
<1>3. Delete(t, d) = [t EXCEPT !.st = x]
  BY <1>2 DEF Delete, Thread
<1> QED
  BY <1>2, <1>3 DEF Thread

-----------------------------------------------------------------------------
(* What every commit keeps of the rows, and of what the calls rely on *)

\* Rows are never undone, bots stay bots, the first owner stays.
Kept(t, u) ==
  /\ u \in Thread /\ Stacked(u) /\ Owned(u)
  /\ t.owner # Nil => u.owner = t.owner
  /\ \A d \in Dialogs : t.st[d] # "none" => u.st[d] # "none"
  /\ \A d \in Dialogs : t.st[d] # "none" /\ t.mem[d].bot => u.mem[d].bot

LEMMA CallKept ==
  ASSUME NEW t \in Thread, NEW u, Kept(t, u), NEW c \in Call, CallOK(c, t)
  PROVE  CallOK(c, u)
<1>1. c.d # Nil => c.d \in Dialogs
  BY DEF Call, MaybeDialog
<1> QED
  BY <1>1 DEF CallOK, Kept

LEMMA KeptSame ==
  ASSUME NEW t \in Thread, Stacked(t), Owned(t), NEW u \in Thread,
         u.st = t.st, u.mem = t.mem, u.stack = t.stack, u.owner = t.owner
  PROVE  Kept(t, u) /\ Nones(u) = Nones(t)
<1>1. OnStack(u) = OnStack(t)
  BY DEF OnStack
<1> QED
  BY <1>1 DEF Kept, Stacked, Owned, Nones

LEMMA KeptDropped ==
  ASSUME NEW t \in Thread, Stacked(t), Owned(t), NEW d \in Dialogs, t.st[d] # "none", NEW u,
         Dropped(t, u, d)
  PROVE  Kept(t, u) /\ Nones(u) = Nones(t)
<1>1. /\ u \in Thread /\ u.mem = t.mem /\ u.stack = Without(t.stack, d) /\ u.owner = t.owner
      /\ \A e \in Dialogs : u.st[e] = t.st[e] \/ (e = d /\ u.st[e] = "left")
  BY DEF Dropped
<1>2. OnStack(u) \subseteq OnStack(t)
  <2>1. OnStack(u) = Entries(u.stack) /\ OnStack(t) = Entries(t.stack) /\ t.stack \in Seq(Dialogs)
    BY <1>1, Fields
  <2> QED
    BY <1>1, <2>1, WithoutIs
<1>3. \A e \in Dialogs : u.st[e] = "none" <=> t.st[e] = "none"
  BY <1>1
<1>4. OnStack(t) \subseteq Dialogs
  BY Fields
<1>5. Stacked(u)
  BY <1>1, <1>2, <1>3, <1>4 DEF Stacked
<1> QED
  BY <1>1, <1>3, <1>5 DEF Kept, Owned, Nones

LEMMA KeptDeleted ==
  ASSUME NEW t \in Thread, Stacked(t), NEW d \in Dialogs, t.st[d] # "none"
  PROVE  /\ Stacked(Delete(t, d)) /\ Nones(Delete(t, d)) = Nones(t)
         /\ Owned(t) => Kept(t, Delete(t, d))
<1>1. PICK u : u = Delete(t, d)
  OBVIOUS
<1>2. /\ u \in Thread /\ u.mem = t.mem /\ u.stack = t.stack /\ u.owner = t.owner
      /\ u.st = [t.st EXCEPT ![d] = "left"]
  BY <1>1, DeleteIs
<1>3. \A e \in Dialogs : u.st[e] = "none" <=> t.st[e] = "none"
  BY <1>2, Fields
<1>4. OnStack(u) = OnStack(t) /\ OnStack(t) \subseteq Dialogs
  BY <1>2, Fields DEF OnStack
<1>5. Stacked(u)
  BY <1>2, <1>3, <1>4 DEF Stacked
<1>6. Nones(u) = Nones(t)
  BY <1>3 DEF Nones
<1>7. Owned(t) => Kept(t, u)
  BY <1>2, <1>3, <1>5 DEF Kept, Owned
<1> QED
  BY <1>1, <1>5, <1>6, <1>7

-----------------------------------------------------------------------------
(* The kinds of steps *)

LEMMA Types ==
  TypeOK <=> /\ th \in Thread /\ event \in Event /\ call \in [Calls -> Call]
             /\ fails \in 0..MaxFails
  BY DEF TypeOK, Thread, Event, Call

LEMMA CountNones ==
  ASSUME NEW t
  PROVE  IsFiniteSet(Nones(t)) /\ Cardinality(Nones(t)) \in Nat
<1>1. Nones(t) \in SUBSET Dialogs
  BY DEF Nones
<1>2. IsFiniteSet(Nones(t))
  BY <1>1, Consts, FS_Subset
<1> QED
  BY <1>2, FS_CardinalityType

LEMMA CountCalls ==
  ASSUME NEW S \in SUBSET Calls
  PROVE  IsFiniteSet(S) /\ Cardinality(S) \in Nat
<1>1. IsFiniteSet(S)
  BY BotConstants, FS_Subset
<1> QED
  BY <1>1, FS_CardinalityType

\* Every NoCall satisfies what is asked of a call.
LEMMA NoCallOK == NoCall \in Call /\ \A t : CallOK(NoCall, t)
<1>1. Client \in Member
  BY DEF Client, Member
<1>2. NoCall \in Call
  BY <1>1 DEF NoCall, Call, Ops, Phases, MaybeDialog
<1>3. /\ NoCall.d = Nil /\ NoCall.op = "none" /\ NoCall.phase = "idle" /\ NoCall.popped = FALSE
  BY DEF NoCall
<1> QED
  BY <1>2, <1>3 DEF CallOK

\* A call is set to c and the rows to u; a transfer that is new had room, one that ends
\* may have taken a row.
LEMMA StepOK ==
  ASSUME BotInv, Exists, NEW k \in Calls, NEW c \in Call, NEW u, Kept(th, u), CallOK(c, u),
         call' = [call EXCEPT ![k] = c], th' = u, event' \in Event, fails' \in 0..MaxFails,
         \/ c.op # "transfer" /\ Nones(u) = Nones(th)
         \/ c.op # "transfer" /\ call[k].op = "transfer"
              /\ \E n \in Nones(th) : Nones(u) = Nones(th) \ {n}
         \/ Room /\ Nones(u) = Nones(th)
  PROVE  BotInv'
<1>1. th \in Thread /\ call \in [Calls -> Call]
  BY Types DEF BotInv
<1>2. u \in Thread /\ Stacked(u) /\ Owned(u)
  BY DEF Kept
<1>3. call' \in [Calls -> Call] /\ call'[k] = c /\ \A j \in Calls : j # k => call'[j] = call[j]
  BY <1>1
<1>4. TypeOK'
  BY <1>2, <1>3 DEF TypeOK, Thread, Event, Call
<1>5. \A j \in Calls : CallOK(call'[j], th')
  <2> SUFFICES ASSUME NEW j \in Calls PROVE CallOK(call'[j], u)
    OBVIOUS
  <2>1. CASE j = k
    BY <1>3, <2>1
  <2>2. CASE j # k
    <3>1. call[j] \in Call /\ CallOK(call[j], th)
      BY <1>1 DEF BotInv
    <3>2. CallOK(call[j], u)
      BY <1>1, <3>1, CallKept
    <3> QED
      BY <1>3, <2>2, <3>2
  <2> QED
    BY <2>1, <2>2
<1>6. Exists'
  BY Consts DEF Exists, Kept
<1>7. RoomInv'
  <2>1. PICK T \in SUBSET Calls : T = Transfers
    BY DEF Transfers
  <2>2. PICK T1 \in SUBSET Calls : T1 = {j \in Calls : call'[j].op = "transfer"}
    OBVIOUS
  <2>3. /\ T1 \subseteq T \cup {k} /\ (c.op # "transfer" => T1 \subseteq T \ {k})
        /\ (call[k].op = "transfer" => k \in T)
    BY <1>3, <2>1, <2>2 DEF Transfers
  <2>4. PICK N : N = Nones(th)
    OBVIOUS
  <2>5. PICK M : M = Nones(u)
    OBVIOUS
  <2>6. IsFiniteSet(N) /\ Cardinality(N) \in Nat /\ IsFiniteSet(M) /\ Cardinality(M) \in Nat
    BY <2>4, <2>5, CountNones
  <2>7. IsFiniteSet(T) /\ Cardinality(T) \in Nat /\ IsFiniteSet(T1) /\ Cardinality(T1) \in Nat
    BY CountCalls
  <2>8. Cardinality(N) >= Cardinality(T)
    BY <2>1, <2>4 DEF BotInv, RoomInv
  <2>9. Cardinality(M) >= Cardinality(T1)
    <3>1. CASE c.op # "transfer" /\ M = N
      <4>1. T1 \in SUBSET T
        BY <2>3, <3>1
      <4>2. Cardinality(T1) <= Cardinality(T)
        BY <2>7, <4>1, FS_Subset
      <4> QED
        BY <2>6, <2>7, <2>8, <3>1, <4>2
    <3>2. CASE c.op # "transfer" /\ call[k].op = "transfer" /\ \E n \in N : M = N \ {n}
      <4>1. PICK n \in N : M = N \ {n}
        BY <3>2
      <4>2. Cardinality(M) = Cardinality(N) - 1
        BY <2>6, <4>1, FS_RemoveElement
      <4>3. k \in T /\ T1 \in SUBSET (T \ {k})
        BY <2>3, <3>2
      <4>4. IsFiniteSet(T \ {k}) /\ Cardinality(T \ {k}) = Cardinality(T) - 1
        BY <2>7, <4>3, FS_RemoveElement
      <4>5. Cardinality(T1) <= Cardinality(T \ {k})
        BY <4>3, <4>4, FS_Subset
      <4> QED
        BY <2>6, <2>7, <2>8, <4>2, <4>4, <4>5
    <3>3. CASE Room /\ M = N
      <4>1. Cardinality(N) > Cardinality(T)
        BY <2>1, <2>4, <3>3 DEF Room, Transfers, Nones
      <4>2. IsFiniteSet(T \cup {k}) /\ Cardinality(T \cup {k}) <= Cardinality(T) + 1
        <5>1. IsFiniteSet(T \cup {k})
              /\ Cardinality(T \cup {k}) = IF k \in T THEN Cardinality(T) ELSE Cardinality(T) + 1
          BY <2>7, FS_AddElement
        <5> QED
          BY <2>7, <5>1
      <4>3. Cardinality(T1) <= Cardinality(T \cup {k}) /\ Cardinality(T \cup {k}) \in Nat
        <5>1. T1 \in SUBSET (T \cup {k})
          BY <2>3
        <5> QED
          BY <4>2, <5>1, FS_Subset, FS_CardinalityType
      <4> QED
        BY <2>6, <2>7, <3>3, <4>1, <4>2, <4>3
    <3> QED
      BY <2>4, <2>5, <3>1, <3>2, <3>3
  <2> QED
    BY <2>2, <2>5, <2>9 DEF RoomInv, Transfers
<1> QED
  BY <1>2, <1>4, <1>5, <1>6, <1>7 DEF BotInv, FreshInv

\* A call that has begun runs on a thread that exists.
LEMMA Begun ==
  ASSUME BotInv, NEW k \in Calls, call[k] # NoCall
  PROVE  Exists
  BY DEF BotInv, FreshInv

LEMMA Facts ==
  ASSUME BotInv
  PROVE  /\ th \in Thread /\ Stacked(th) /\ Owned(th) /\ call \in [Calls -> Call]
         /\ event \in Event /\ fails \in 0..MaxFails /\ \A k \in Calls : CallOK(call[k], th)
  BY Types DEF BotInv

LEMMA NoEventIs == NoEvent \in Event /\ NoEvent.granted = Nil
  BY DEF NoEvent, Event, MaybeDialog

LEMMA BeginOK ==
  ASSUME BotInv, Exists, NEW k \in Calls, NEW c \in Call, CallOK(c, th),
         c.op = "transfer" => Room, Begin(k, c)
  PROVE  BotInv'
<1>1. call' = [call EXCEPT ![k] = c] /\ th' = th /\ event' = NoEvent /\ fails' = fails
  BY DEF Begin
<1>2. PICK t : t = th
  OBVIOUS
<1>3. Kept(th, t)
  BY <1>2, Facts, KeptSame
<1> QED
  BY <1>1, <1>2, <1>3, Facts, NoEventIs, StepOK

LEMMA ContinueOK ==
  ASSUME BotInv, NEW k \in Calls, call[k] # NoCall, NEW c \in Call, CallOK(c, th),
         c.op # "transfer", Continue(k, c)
  PROVE  BotInv'
<1>1. call' = [call EXCEPT ![k] = c] /\ th' = th /\ event' = NoEvent /\ fails' = fails
  BY DEF Continue
<1>2. PICK t : t = th
  OBVIOUS
<1>3. Kept(th, t)
  BY <1>2, Facts, KeptSame
<1> QED
  BY <1>1, <1>2, <1>3, Facts, NoEventIs, Begun, StepOK

LEMMA ReturnOK ==
  ASSUME BotInv, NEW k \in Calls, call[k] # NoCall, Return(k)
  PROVE  BotInv'
<1>1. NoCall.op # "transfer" /\ CallOK(NoCall, th) /\ NoCall \in Call
  BY NoCallOK DEF NoCall
<1> QED
  BY <1>1, ContinueOK DEF Return

LEMMA CommitOK ==
  ASSUME BotInv, NEW k \in Calls, call[k] # NoCall, NEW u, NEW e \in Event, Kept(th, u),
         \/ Nones(u) = Nones(th)
         \/ call[k].op = "transfer" /\ \E n \in Nones(th) : Nones(u) = Nones(th) \ {n},
         Commit(k, u, e)
  PROVE  BotInv'
<1>1. call' = [call EXCEPT ![k] = NoCall] /\ th' = u /\ event' = e /\ fails' = fails
  BY DEF Commit
<1>2. NoCall.op # "transfer" /\ CallOK(NoCall, u) /\ NoCall \in Call
  BY NoCallOK DEF NoCall
<1> QED
  BY <1>1, <1>2, Facts, Begun, StepOK

LEMMA FailsOK ==
  ASSUME BotInv, NEW k \in Calls, CallFails(k)
  PROVE  BotInv'
<1>1. /\ call' = [call EXCEPT ![k] = NoCall] /\ th' = th /\ event' = NoEvent
      /\ call[k] # NoCall /\ fails < MaxFails /\ fails' = fails + 1
  BY DEF CallFails
<1>2. NoCall.op # "transfer" /\ CallOK(NoCall, th) /\ NoCall \in Call
  BY NoCallOK DEF NoCall
<1>3. fails' \in 0..MaxFails
  BY <1>1, Facts, BotConstants
<1>4. PICK t : t = th
  OBVIOUS
<1>5. Kept(th, t)
  BY <1>4, Facts, KeptSame
<1> QED
  BY <1>1, <1>2, <1>3, <1>4, <1>5, Facts, NoEventIs, Begun, StepOK

-----------------------------------------------------------------------------
(* Members come and go *)

LEMMA KeptTrans ==
  ASSUME NEW t, NEW u, NEW v, Kept(t, u), Kept(u, v)
  PROVE  Kept(t, v)
  BY DEF Kept

LEMMA CreatedFacts ==
  ASSUME NEW t \in Thread, Stacked(t), NEW u, NEW n, NEW m \in Member, Created(t, u, n, m)
  PROVE  /\ u \in Thread /\ Stacked(u) /\ n \in Dialogs /\ n \notin OnStack(u)
         /\ n \in Nones(t) /\ Nones(u) = Nones(t) \ {n}
         /\ u.st[n] = "live" /\ u.mem[n] = m
         /\ \A d \in Dialogs : d # n => u.st[d] = t.st[d] /\ u.mem[d] = t.mem[d]
         /\ u.stack = t.stack /\ u.owner = t.owner /\ u.controller = t.controller
<1>1. /\ n \in Dialogs /\ t.st[n] = "none" /\ u \in Thread
      /\ u.st = [t.st EXCEPT ![n] = "live"] /\ u.mem = [t.mem EXCEPT ![n] = m]
      /\ u.stack = t.stack /\ u.controller = t.controller /\ u.owner = t.owner
  BY DEF Created
<1>2. /\ u.st[n] = "live" /\ u.mem[n] = m
      /\ \A d \in Dialogs : d # n => u.st[d] = t.st[d] /\ u.mem[d] = t.mem[d]
  BY <1>1, Fields
<1>3. OnStack(u) = OnStack(t) /\ OnStack(t) \subseteq Dialogs
  BY <1>1, Fields DEF OnStack
<1>4. n \notin OnStack(u)
  BY <1>1, <1>3 DEF Stacked
<1>5. Stacked(u)
  BY <1>2, <1>3, <1>4 DEF Stacked
<1>6. n \in Nones(t) /\ Nones(u) = Nones(t) \ {n}
  BY <1>1, <1>2 DEF Nones
<1> QED
  BY <1>1, <1>2, <1>4, <1>5, <1>6

LEMMA KeptCreated ==
  ASSUME NEW t \in Thread, Stacked(t), Owned(t), NEW u, NEW n, NEW m \in Member, ~m.bot,
         Created(t, u, n, m)
  PROVE  Kept(t, u)
<1>1. /\ u \in Thread /\ Stacked(u) /\ n \in Nones(t) /\ u.mem[n] = m /\ u.st[n] = "live"
      /\ \A d \in Dialogs : d # n => u.st[d] = t.st[d] /\ u.mem[d] = t.mem[d]
      /\ u.owner = t.owner
  BY CreatedFacts
<1>2. t.st[n] = "none"
  BY <1>1 DEF Nones
<1>3. Owned(u)
  BY <1>1 DEF Owned
<1> QED
  BY <1>1, <1>2, <1>3 DEF Kept

\* A bot that was just created joins; another member may have left first.
LEMMA KeptJoined ==
  ASSUME NEW t \in Thread, Stacked(t), NEW u, NEW n, NEW m \in Member, m.bot,
         Created(t, u, n, m), NEW v \in Thread, Stacked(v), v.mem = u.mem, v.stack = u.stack,
         v.owner = u.owner, v.st[n] = "live", Nones(v) = Nones(u)
  PROVE  /\ Kept(t, JoinBot(v, n)) /\ Nones(JoinBot(v, n)) = Nones(t) \ {n}
         /\ Joined(v, JoinBot(v, n), n) /\ Owned(JoinBot(v, n))
         /\ JoinEvent(v, n) \in Event /\ JoinEvent(v, n).granted = n
<1>1. /\ n \in Dialogs /\ n \notin OnStack(u) /\ n \in Nones(t) /\ Nones(u) = Nones(t) \ {n}
      /\ u.mem[n] = m /\ u.owner = t.owner
      /\ \A d \in Dialogs : d # n => u.mem[d] = t.mem[d]
  BY CreatedFacts
<1>2. n \notin OnStack(v)
  BY <1>1 DEF OnStack
<1>3. PICK j : j = JoinBot(v, n)
  OBVIOUS
<1>4. Joined(v, j, n) /\ JoinEvent(v, n) \in Event /\ JoinEvent(v, n).granted = n
  BY <1>1, <1>2, <1>3, JoinIs
<1>5. /\ j \in Thread /\ j.st = v.st /\ Stacked(j) /\ j.owner # Nil
      /\ (v.owner # Nil => j.owner = v.owner) /\ \A d \in Dialogs : v.mem[d].bot => j.mem[d].bot
  BY <1>4 DEF Joined
<1>6. Owned(j)
  BY <1>5 DEF Owned
<1>7. Nones(j) = Nones(t) \ {n}
  BY <1>1, <1>5 DEF Nones
<1>8. ASSUME NEW d \in Dialogs, t.st[d] # "none"
      PROVE  j.st[d] # "none" /\ (t.mem[d].bot => j.mem[d].bot)
  <2>1. d # n /\ d \notin Nones(t)
    BY <1>1, <1>8 DEF Nones
  <2>2. d \notin Nones(j)
    BY <1>7, <2>1
  <2> QED
    BY <1>1, <1>5, <2>1, <2>2 DEF Nones
<1>9. Kept(t, j)
  BY <1>1, <1>5, <1>6, <1>8 DEF Kept
<1> QED
  BY <1>3, <1>4, <1>6, <1>7, <1>9

LEMMA ReleaseIs ==
  ASSUME NEW t \in Thread, Stacked(t), Owned(t)
  PROVE  /\ Kept(t, ReleaseToAgent(t)) /\ Nones(ReleaseToAgent(t)) = Nones(t)
         /\ ReleaseToAgent(t).controller = Nil
         /\ ReleaseToAgentEvent(t) \in Event /\ ReleaseToAgentEvent(t).granted = Nil
<1>1. Nil \in MaybeDialog
  BY DEF MaybeDialog
<1>2. PICK u : u = ReleaseToAgent(t)
  OBVIOUS
<1>3. /\ u \in Thread /\ u.st = t.st /\ u.mem = t.mem /\ u.stack = t.stack
      /\ u.owner = t.owner /\ u.controller = Nil
  BY <1>1, <1>2, SetController DEF ReleaseToAgent
<1>4. Kept(t, u) /\ Nones(u) = Nones(t)
  BY <1>3, KeptSame
<1>5. ReleaseToAgentEvent(t) \in Event /\ ReleaseToAgentEvent(t).granted = Nil
  BY <1>1, Fields DEF ReleaseToAgentEvent, Event
<1> QED
  BY <1>2, <1>3, <1>4, <1>5

LEMMA CandidateIs ==
  ASSUME NEW t \in Thread
  PROVE  Candidate(t) \in MaybeDialog
  BY Fields, TopIs DEF Candidate, Coalesce

LEMMA RestoreIs ==
  ASSUME NEW t \in Thread, Stacked(t), Owned(t)
  PROVE  /\ Kept(t, RestoreAfterAgent(t)) /\ Nones(RestoreAfterAgent(t)) = Nones(t)
         /\ RestoreAfterAgentEvent(t) \in Event
<1>1. Nil \in MaybeDialog /\ Candidate(t) \in MaybeDialog /\ t.controller \in MaybeDialog
  BY CandidateIs, Fields DEF MaybeDialog
<1>2. PICK c \in MaybeDialog : c = Coalesce(t.controller, Candidate(t))
  BY <1>1 DEF Coalesce
<1>3. PICK u : u = [t EXCEPT !.controller = c]
  OBVIOUS
<1>4. /\ u \in Thread /\ u.st = t.st /\ u.mem = t.mem /\ u.stack = t.stack /\ u.owner = t.owner
  BY <1>3, SetController
<1>5. Kept(t, u) /\ Nones(u) = Nones(t)
  BY <1>4, KeptSame
<1>6. Kept(t, t)
  BY KeptSame
<1>7. RestoreAfterAgent(t) = u \/ RestoreAfterAgent(t) = t
  BY <1>2, <1>3 DEF RestoreAfterAgent
<1>8. RestoreAfterAgentEvent(t) \in Event
  BY <1>1 DEF RestoreAfterAgentEvent, Event
<1> QED
  BY <1>5, <1>6, <1>7, <1>8

LEMMA JoinerIs ==
  ASSUME NEW m \in Joiners
  PROVE  m \in Member
  BY BotConstants

LEMMA RoomLeft ==
  ASSUME BotInv, Room \/ \E k \in Calls : call[k].op = "transfer"
  PROVE  Nones(th) # {}
<1>1. PICK T \in SUBSET Calls : T = Transfers
  BY DEF Transfers
<1>2. IsFiniteSet(T) /\ Cardinality(T) \in Nat /\ Cardinality({}) = 0
  BY CountCalls, FS_EmptySet
<1>3. Cardinality(Nones(th)) >= Cardinality(T) /\ Cardinality(Nones(th)) \in Nat
  BY <1>1, CountNones DEF BotInv, RoomInv
<1>4. CASE Room
  <2>1. Cardinality(Nones(th)) > Cardinality(T)
    BY <1>1, <1>4 DEF Room, Transfers, Nones
  <2>2. Cardinality(Nones(th)) # 0
    BY <1>2, <1>3, <2>1
  <2> QED
    BY <1>2, <2>2
<1>5. CASE \E k \in Calls : call[k].op = "transfer"
  <2>1. T # {}
    BY <1>1, <1>5 DEF Transfers
  <2>2. Cardinality(T) # 0
    BY <1>2, <2>1, FS_EmptySet
  <2>3. Cardinality(Nones(th)) # 0
    BY <1>2, <1>3, <2>2
  <2> QED
    BY <1>2, <2>3
<1> QED
  BY <1>4, <1>5

\* Under the thread lock, with no call of its own in progress.
LEMMA AddMemberKeeps ==
  ASSUME BotInv, NEW k \in Calls, NEW m \in Joiners, AddMember(k, m)
  PROVE  /\ Kept(th, th') /\ event' \in Event /\ call' = call /\ fails' = fails
         /\ \E n \in Nones(th) : Nones(th') = Nones(th) \ {n}
         /\ Exists /\ Room
<1>1. PICK t : t = th
  OBVIOUS
<1>2. PICK n : n = NextDialog(th)
  OBVIOUS
<1>3. PICK u : u = Create(th, m)
  OBVIOUS
<1>4. Exists /\ Room /\ call' = call /\ fails' = fails
  BY DEF AddMember
<1>5. t \in Thread /\ Stacked(t) /\ Owned(t) /\ m \in Member /\ Nones(t) # {}
  BY <1>1, <1>4, Facts, JoinerIs, RoomLeft
<1>6. Created(t, u, n, m)
  BY <1>1, <1>2, <1>3, <1>5, CreateIs
<1>7. /\ u \in Thread /\ Stacked(u) /\ u.st[n] = "live" /\ n \in Nones(t)
      /\ Nones(u) = Nones(t) \ {n}
  BY <1>5, <1>6, CreatedFacts
<1>8. CASE m.bot
  <2>1. th' = JoinBot(u, n) /\ event' = JoinEvent(u, n)
    BY <1>2, <1>3, <1>8 DEF AddMember
  <2>2. /\ Kept(t, JoinBot(u, n)) /\ Nones(JoinBot(u, n)) = Nones(t) \ {n}
        /\ JoinEvent(u, n) \in Event
    BY <1>5, <1>6, <1>7, <1>8, KeptJoined
  <2> QED
    BY <1>1, <1>4, <1>7, <2>1, <2>2
<1>9. CASE ~m.bot /\ m.op
  <2>1. th' = ReleaseToAgent(u) /\ event' = ReleaseToAgentEvent(u)
    BY <1>2, <1>3, <1>9 DEF AddMember
  <2>2. Kept(t, u)
    BY <1>5, <1>6, <1>9, KeptCreated
  <2>3. Owned(u)
    BY <2>2 DEF Kept
  <2>4. /\ Kept(u, ReleaseToAgent(u)) /\ Nones(ReleaseToAgent(u)) = Nones(u)
        /\ ReleaseToAgentEvent(u) \in Event
    BY <1>7, <2>3, ReleaseIs
  <2>5. Kept(t, ReleaseToAgent(u))
    BY <2>2, <2>4, KeptTrans
  <2> QED
    BY <1>1, <1>4, <1>7, <2>1, <2>4, <2>5
<1>10. CASE ~m.bot /\ ~m.op
  <2>1. th' = u /\ event' = NoEvent
    BY <1>2, <1>3, <1>10 DEF AddMember
  <2>2. Kept(t, u)
    BY <1>5, <1>6, <1>10, KeptCreated
  <2> QED
    BY <1>1, <1>4, <1>7, <2>1, <2>2, NoEventIs
<1> QED
  BY <1>8, <1>9, <1>10

LEMMA AddMemberOK ==
  ASSUME BotInv, NEW k \in Calls, NEW m \in Joiners, AddMember(k, m)
  PROVE  BotInv'
<1>1. PICK u : u = th'
  OBVIOUS
<1>2. /\ Kept(th, u) /\ event' \in Event /\ call' = call /\ fails' = fails
      /\ \E n \in Nones(th) : Nones(u) = Nones(th) \ {n}
      /\ Exists /\ Room
  BY <1>1, AddMemberKeeps
<1>3. th \in Thread /\ call \in [Calls -> Call] /\ fails \in 0..MaxFails
      /\ \A j \in Calls : CallOK(call[j], th)
  BY Facts
<1>4. u \in Thread /\ Stacked(u) /\ Owned(u)
  BY <1>2 DEF Kept
<1>5. TypeOK'
  BY <1>1, <1>2, <1>3, <1>4 DEF TypeOK, Thread, Event, Call
<1>6. \A j \in Calls : CallOK(call[j], u)
  BY <1>2, <1>3, CallKept
<1>7. Exists'
  BY <1>1, <1>2, Consts DEF Exists, Kept
<1>8. RoomInv'
  <2>1. PICK N : N = Nones(th)
    OBVIOUS
  <2>2. PICK n \in N : Nones(u) = N \ {n}
    BY <1>2, <2>1
  <2>3. IsFiniteSet(N) /\ Cardinality(N) \in Nat
    BY <2>1, CountNones
  <2>4. Cardinality(Nones(u)) = Cardinality(N) - 1
    BY <2>2, <2>3, FS_RemoveElement
  <2>5. PICK T \in SUBSET Calls : T = Transfers
    BY DEF Transfers
  <2>6. Cardinality(T) \in Nat /\ Cardinality(N) > Cardinality(T)
    BY <1>2, <2>1, <2>5, CountCalls DEF Room, Transfers, Nones
  <2>7. Cardinality(Nones(u)) >= Cardinality(T)
    BY <2>3, <2>4, <2>6
  <2>8. Transfers' = T
    BY <1>2, <2>5 DEF Transfers
  <2> QED
    BY <1>1, <2>7, <2>8 DEF RoomInv
<1> QED
  BY <1>1, <1>2, <1>4, <1>5, <1>6, <1>7, <1>8 DEF BotInv, FreshInv

\* The thread after the initiator of a transfer has left and the target was created.
LEMMA TransferRows ==
  ASSUME BotInv, NEW k \in Calls, call[k].op = "transfer", NEW i, i = call[k].d,
         NEW m, m = call[k].mem, NEW n, n = NextDialog(th), NEW u, u = Create(th, m),
         NEW v, v = Delete(u, i)
  PROVE  /\ Created(th, u, n, m) /\ m \in Member /\ i \in Dialogs /\ i # n /\ n \in Nones(th)
         /\ v \in Thread /\ Stacked(v) /\ v.mem = u.mem /\ v.stack = u.stack /\ v.owner = u.owner
         /\ v.controller = u.controller /\ v.stack = th.stack /\ v.owner = th.owner
         /\ v.st[n] = "live" /\ v.st[i] = "left" /\ Nones(v) = Nones(u)
         /\ Nones(u) = Nones(th) \ {n}
         /\ ~m.bot => Kept(th, v)
<1>1. PICK t : t = th
  OBVIOUS
<1>2. t \in Thread /\ Stacked(t) /\ Owned(t) /\ Nones(t) # {}
  BY <1>1, Facts, RoomLeft
<1>3. call[k] \in Call /\ CallOK(call[k], t)
  BY <1>1, Facts
<1>4. m \in Member /\ i \in Dialogs /\ t.st[i] # "none"
  BY <1>3 DEF Call, CallOK, MaybeDialog
<1>5. Created(t, u, n, m)
  BY <1>1, <1>2, <1>4, CreateIs
<1>6. /\ u \in Thread /\ Stacked(u) /\ n \in Nones(t) /\ n \in Dialogs /\ u.st[n] = "live"
      /\ Nones(u) = Nones(t) \ {n} /\ u.stack = t.stack /\ u.owner = t.owner
      /\ \A d \in Dialogs : d # n => u.st[d] = t.st[d]
  BY <1>2, <1>4, <1>5, CreatedFacts
<1>7. i # n /\ u.st[i] # "none"
  BY <1>4, <1>6 DEF Nones
<1>8. /\ v \in Thread /\ v.mem = u.mem /\ v.stack = u.stack /\ v.owner = u.owner
      /\ v.controller = u.controller /\ v.st = [u.st EXCEPT ![i] = "left"]
  BY <1>4, <1>6, DeleteIs
<1>9. Stacked(v) /\ Nones(v) = Nones(u) /\ (Owned(u) => Kept(u, v))
  BY <1>4, <1>6, <1>7, KeptDeleted
<1>10. v.st[n] = "live" /\ v.st[i] = "left"
  BY <1>4, <1>6, <1>7, <1>8, Fields
<1>11. ASSUME ~m.bot PROVE Kept(t, v)
  <2>1. Kept(t, u)
    BY <1>2, <1>4, <1>5, <1>11, KeptCreated
  <2>2. Owned(u)
    BY <2>1 DEF Kept
  <2> QED
    BY <1>9, <2>1, <2>2, KeptTrans
<1> QED
  BY <1>1, <1>4, <1>5, <1>6, <1>7, <1>8, <1>9, <1>10, <1>11

LEMMA TransferCommitOK ==
  ASSUME BotInv, NEW k \in Calls, TransferCommit(k)
  PROVE  BotInv'
<1>1. PICK i : i = call[k].d
  OBVIOUS
<1>2. PICK m : m = call[k].mem
  OBVIOUS
<1>3. PICK n : n = NextDialog(th)
  OBVIOUS
<1>4. PICK u : u = Create(th, m)
  OBVIOUS
<1>5. PICK v : v = Delete(u, i)
  OBVIOUS
<1>6. call[k].op = "transfer" /\ call[k] # NoCall
  BY DEF TransferCommit, At, NoCall
<1>7. /\ Created(th, u, n, m) /\ m \in Member /\ i \in Dialogs /\ i # n /\ n \in Nones(th)
      /\ v \in Thread /\ Stacked(v) /\ v.mem = u.mem /\ v.stack = u.stack /\ v.owner = u.owner
      /\ v.st[n] = "live" /\ v.st[i] = "left" /\ Nones(v) = Nones(u)
      /\ Nones(u) = Nones(th) \ {n}
      /\ ~m.bot => Kept(th, v)
  BY <1>1, <1>2, <1>3, <1>4, <1>5, <1>6, TransferRows
<1>8. CASE m.bot
  <2>1. PICK j : j = JoinBot(v, n)
    OBVIOUS
  <2>2. PICK w : w = IF call[k].active /\ i \in OnStack(j) THEN Pop(j, i, "transfer") ELSE j
    OBVIOUS
  <2>3. PICK e : e = JoinEvent(v, n)
    OBVIOUS
  <2>4. Commit(k, w, e)
    BY <1>1, <1>2, <1>3, <1>4, <1>5, <1>8, <2>1, <2>2, <2>3 DEF TransferCommit
  <2>5. th \in Thread /\ Stacked(th)
    BY Facts
  <2>6. /\ Kept(th, j) /\ Nones(j) = Nones(th) \ {n} /\ Joined(v, j, n) /\ Owned(j) /\ e \in Event
    <3>1. PICK t : t = th
      OBVIOUS
    <3>2. Created(t, u, n, m) /\ t \in Thread /\ Stacked(t)
      BY <1>7, <2>5, <3>1
    <3>3. /\ Kept(t, JoinBot(v, n)) /\ Nones(JoinBot(v, n)) = Nones(t) \ {n}
          /\ Joined(v, JoinBot(v, n), n) /\ Owned(JoinBot(v, n)) /\ JoinEvent(v, n) \in Event
      <4>1. /\ v \in Thread /\ Stacked(v) /\ v.mem = u.mem /\ v.stack = u.stack
            /\ v.owner = u.owner /\ v.st[n] = "live" /\ Nones(v) = Nones(u) /\ m \in Member
        BY <1>7
      <4> QED
        BY <1>8, <3>2, <4>1, KeptJoined
    <3> QED
      BY <2>1, <2>3, <3>1, <3>3
  <2>7. j \in Thread /\ Stacked(j) /\ j.st = v.st
    BY <2>6 DEF Joined
  <2>8. Kept(th, w) /\ Nones(w) = Nones(j)
    <3>1. CASE w = j
      BY <2>6, <3>1
    <3>2. CASE w = Pop(j, i, "transfer")
      <4>1. Dropped(j, w, i)
        BY <1>7, <2>7, <3>2, PopIs
      <4>2. j.st[i] # "none"
        BY <1>7, <2>7
      <4>3. Kept(j, w) /\ Nones(w) = Nones(j)
        BY <1>7, <2>6, <2>7, <4>1, <4>2, KeptDropped
      <4>4. PICK t : t = th
        OBVIOUS
      <4>5. Kept(t, w)
        BY <2>6, <4>3, <4>4, KeptTrans
      <4> QED
        BY <4>3, <4>4, <4>5
    <3> QED
      BY <2>2, <3>1, <3>2
  <2> QED
    BY <1>6, <1>7, <2>4, <2>6, <2>8, CommitOK
<1>9. CASE ~m.bot /\ call[k].active /\ i \in OnStack(v)
  <2>1. PICK w : w = Pop(v, i, "handoff")
    OBVIOUS
  <2>2. Commit(k, w, NoEvent)
    BY <1>1, <1>2, <1>3, <1>4, <1>5, <1>9, <2>1 DEF TransferCommit
  <2>3. Dropped(v, w, i)
    BY <1>7, <2>1, PopIs
  <2>4. Kept(th, v) /\ Owned(v)
    BY <1>7, <1>9 DEF Kept
  <2>5. Kept(v, w) /\ Nones(w) = Nones(v)
    BY <1>7, <2>3, <2>4, KeptDropped
  <2>6. PICK t : t = th
    OBVIOUS
  <2>7. Kept(t, w)
    BY <2>4, <2>5, <2>6, KeptTrans
  <2>8. Kept(th, w) /\ Nones(w) = Nones(th) \ {n}
    BY <1>7, <2>5, <2>6, <2>7
  <2> QED
    BY <1>6, <1>7, <2>2, <2>8, NoEventIs, CommitOK
<1>10. CASE ~m.bot /\ call[k].active /\ i \notin OnStack(v)
  <2>1. Return(k)
    BY <1>1, <1>2, <1>3, <1>4, <1>5, <1>10 DEF TransferCommit
  <2> QED
    BY <1>6, <2>1, ReturnOK
<1>11. CASE ~m.bot /\ ~call[k].active /\ m.op
  <2>1. PICK w : w = ReleaseToAgent(v)
    OBVIOUS
  <2>2. PICK e : e = ReleaseToAgentEvent(v)
    OBVIOUS
  <2>3. Commit(k, w, e)
    BY <1>1, <1>2, <1>3, <1>4, <1>5, <1>11, <2>1, <2>2 DEF TransferCommit
  <2>4. Kept(th, v) /\ Owned(v)
    BY <1>7, <1>11 DEF Kept
  <2>5. Kept(v, w) /\ Nones(w) = Nones(v) /\ e \in Event
    BY <1>7, <2>1, <2>2, <2>4, ReleaseIs
  <2>6. PICK t : t = th
    OBVIOUS
  <2>7. Kept(t, w)
    BY <2>4, <2>5, <2>6, KeptTrans
  <2>8. Kept(th, w) /\ Nones(w) = Nones(th) \ {n}
    BY <1>7, <2>5, <2>6, <2>7
  <2> QED
    BY <1>6, <1>7, <2>3, <2>5, <2>8, CommitOK
<1>12. CASE ~m.bot /\ ~call[k].active /\ ~m.op
  <2>1. Commit(k, v, NoEvent)
    BY <1>1, <1>2, <1>3, <1>4, <1>5, <1>12 DEF TransferCommit
  <2>2. Kept(th, v) /\ Nones(v) = Nones(th) \ {n}
    BY <1>7, <1>12
  <2> QED
    BY <1>6, <1>7, <2>1, <2>2, NoEventIs, CommitOK
<1> QED
  BY <1>8, <1>9, <1>10, <1>11, <1>12

LEMMA RemoveCommitOK ==
  ASSUME BotInv, NEW k \in Calls, RemoveCommit(k)
  PROVE  BotInv'
<1>1. PICK d : d = call[k].d
  OBVIOUS
<1>2. PICK v : v = Delete(th, d)
  OBVIOUS
<1>3. call[k].op = "remove" /\ call[k] # NoCall
  BY DEF RemoveCommit, At, NoCall
<1>4. call[k] \in Call /\ CallOK(call[k], th)
  BY Facts
<1>5. d \in Dialogs /\ th.st[d] # "none"
  BY <1>1, <1>3, <1>4 DEF Call, CallOK, MaybeDialog
<1>6. PICK t : t = th
  OBVIOUS
<1>7. t \in Thread /\ Stacked(t) /\ Owned(t) /\ t.st[d] # "none" /\ v = Delete(t, d)
  BY <1>2, <1>5, <1>6, Facts
<1>8. Kept(t, v) /\ Nones(v) = Nones(t)
  BY <1>5, <1>7, KeptDeleted
<1>9. v \in Thread /\ Stacked(v) /\ Owned(v)
  BY <1>8 DEF Kept
<1>10. PICK w : w = RestoreAfterAgent(v)
  OBVIOUS
<1>11. PICK e : e = RestoreAfterAgentEvent(v)
  OBVIOUS
<1>12. Kept(v, w) /\ Nones(w) = Nones(v) /\ e \in Event
  BY <1>9, <1>10, <1>11, RestoreIs
<1>13. Kept(t, w)
  BY <1>8, <1>12, KeptTrans
<1>14. CASE Commit(k, w, e)
  BY <1>3, <1>6, <1>8, <1>12, <1>13, <1>14, CommitOK
<1>15. CASE Commit(k, v, NoEvent)
  BY <1>3, <1>6, <1>8, <1>15, NoEventIs, CommitOK
<1> QED
  BY <1>1, <1>2, <1>10, <1>11, <1>14, <1>15 DEF RemoveCommit

\* The calls begin on a thread that exists, about a member of it.
LEMMA BeginsOK ==
  ASSUME BotInv, NEW k \in Calls,
         \/ \E d \in Dialogs, m \in Joiners : Transfer(k, d, m)
         \/ \E d \in Dialogs : RemoveMember(k, d)
         \/ \E d \in Dialogs : CompleteBotControl(k, d)
         \/ ReleaseBotControl(k)
         \/ HandBackToBot(k)
         \/ TakeOverFromBot(k)
         \/ Message(k)
  PROVE  BotInv'
<1>1. /\ th \in Thread /\ Stacked(th) /\ Owned(th)
      /\ ~Exists => Nones(th) = Dialogs /\ th.stack = <<>> /\ th.controller = Nil
  BY Facts DEF BotInv, FreshInv
<1>2. OnStack(th) \subseteq Dialogs /\ (th.stack = <<>> => OnStack(th) = {})
  <2>1. th.stack = <<>> => 1..Len(th.stack) = {}
    OBVIOUS
  <2>2. th.stack = <<>> => OnStack(th) = {}
    BY <2>1 DEF OnStack
  <2> QED
    BY <1>1, <2>2, Fields
<1>3. Live(th) # {} => Exists
  BY <1>1 DEF Live, Nones
<1>4. Client \in Member /\ NoCall \in Call
  BY NoCallOK DEF Client, Member
<1>5. ASSUME NEW d \in Dialogs, NEW m \in Joiners, Transfer(k, d, m) PROVE BotInv'
  <2>1. PICK c : c = [NoCall EXCEPT !.op = "transfer", !.phase = "begun", !.d = d, !.mem = m,
                                    !.active = th.mem[d].bot]
    OBVIOUS
  <2>2. Begin(k, c) /\ d \in Live(th) /\ Room
    BY <1>5, <2>1 DEF Transfer
  <2>3. d \in MaybeDialog /\ m \in Member /\ th.mem[d].bot \in BOOLEAN
    <3>1. th.mem[d] \in Member
      BY <1>1, Fields
    <3> QED
      BY <3>1, JoinerIs DEF MaybeDialog, Member
  <2>4. c \in Call /\ c.op = "transfer" /\ c.phase = "begun" /\ c.d = d /\ c.popped = FALSE
    BY <2>1, <2>3 DEF Call, NoCall, Ops, Phases, MaybeDialog
  <2>5. CallOK(c, th)
    BY <2>2, <2>4, Consts DEF CallOK, Live
  <2> QED
    BY <1>3, <2>2, <2>4, <2>5, BeginOK
<1>6. ASSUME NEW d \in Dialogs, RemoveMember(k, d) PROVE BotInv'
  <2>1. PICK c : c = [NoCall EXCEPT !.op = "remove", !.phase = "begun", !.d = d]
    OBVIOUS
  <2>2. Begin(k, c) /\ d \in Live(th)
    BY <1>6, <2>1 DEF RemoveMember
  <2>3. c \in Call /\ c.op = "remove" /\ c.phase = "begun" /\ c.d = d /\ c.popped = FALSE
    BY <1>4, <2>1 DEF Call, NoCall, Ops, Phases, MaybeDialog
  <2>4. CallOK(c, th)
    BY <2>2, <2>3, Consts DEF CallOK, Live
  <2> QED
    BY <1>3, <2>2, <2>3, <2>4, BeginOK
<1>7. ASSUME NEW d \in Dialogs, CompleteBotControl(k, d) PROVE BotInv'
  <2>1. PICK b \in BOOLEAN : b = (Top(th.stack) = d)
    OBVIOUS
  <2>2. PICK o \in MaybeDialog : o = th.owner
    BY <1>1, Fields
  <2>3. PICK c : c = [NoCall EXCEPT !.op = "complete", !.phase = "pop", !.d = d,
                                    !.active = b, !.owner = o]
    OBVIOUS
  <2>4. Begin(k, c) /\ d \in OnStack(th) /\ d # th.owner
    BY <1>7, <2>1, <2>2, <2>3 DEF CompleteBotControl
  <2>5. c \in Call /\ c.op = "complete" /\ c.phase = "pop" /\ c.d = d /\ c.popped = FALSE
    BY <1>4, <2>2, <2>3 DEF Call, NoCall, Ops, Phases, MaybeDialog
  <2>6. th.st[d] # "none" /\ th.mem[d].bot /\ th.owner # Nil /\ d # Nil
    BY <1>1, <2>4, Consts DEF Stacked, Owned
  <2>7. CallOK(c, th)
    BY <2>4, <2>5, <2>6 DEF CallOK
  <2> QED
    BY <1>1, <1>2, <2>4, <2>5, <2>7, BeginOK
<1>8. ASSUME ReleaseBotControl(k) PROVE BotInv'
  <2>1. PICK c : c = [NoCall EXCEPT !.op = "release", !.phase = "begun"]
    OBVIOUS
  <2>2. Begin(k, c) /\ th.controller # Nil
    BY <1>8, <2>1 DEF ReleaseBotControl
  <2>3. c \in Call /\ c.op = "release" /\ c.phase = "begun" /\ c.d = Nil /\ c.popped = FALSE
    BY <1>4, <2>1 DEF Call, NoCall, Ops, Phases, MaybeDialog
  <2>4. CallOK(c, th)
    BY <2>3 DEF CallOK
  <2> QED
    BY <1>1, <2>2, <2>3, <2>4, BeginOK
<1>9. ASSUME HandBackToBot(k) PROVE BotInv'
  <2>1. PICK c : c = [NoCall EXCEPT !.op = "handback", !.phase = "begun"]
    OBVIOUS
  <2>2. Begin(k, c) /\ Operators(th) # {}
    BY <1>9, <2>1 DEF HandBackToBot
  <2>3. c \in Call /\ c.op = "handback" /\ c.phase = "begun" /\ c.d = Nil /\ c.popped = FALSE
    BY <1>4, <2>1 DEF Call, NoCall, Ops, Phases, MaybeDialog
  <2>4. CallOK(c, th) /\ Live(th) # {}
    BY <2>2, <2>3 DEF CallOK, Operators
  <2> QED
    BY <1>3, <2>2, <2>3, <2>4, BeginOK
<1>10. ASSUME TakeOverFromBot(k) PROVE BotInv'
  <2>1. PICK c : c = [NoCall EXCEPT !.op = "takeover", !.phase = "clear"]
    OBVIOUS
  <2>2. Begin(k, c) /\ Operators(th) # {}
    BY <1>10, <2>1 DEF TakeOverFromBot
  <2>3. c \in Call /\ c.op = "takeover" /\ c.phase = "clear" /\ c.d = Nil /\ c.popped = FALSE
    BY <1>4, <2>1 DEF Call, NoCall, Ops, Phases, MaybeDialog
  <2>4. CallOK(c, th) /\ Live(th) # {}
    BY <2>2, <2>3 DEF CallOK, Operators
  <2> QED
    BY <1>3, <2>2, <2>3, <2>4, BeginOK
<1>11. ASSUME NEW to \in Dialogs, NEW d \in Dialogs, EnsureBotControl(k, to, d) PROVE BotInv'
  <2>1. PICK c : c = [NoCall EXCEPT !.op = "ensure", !.phase = "begun", !.d = d]
    OBVIOUS
  <2>2. Begin(k, c) /\ d \in Bots(th)
    BY <1>11, <2>1 DEF EnsureBotControl
  <2>3. c \in Call /\ c.op = "ensure" /\ c.phase = "begun" /\ c.d = d /\ c.popped = FALSE
    BY <1>4, <2>1 DEF Call, NoCall, Ops, Phases, MaybeDialog
  <2>4. CallOK(c, th) /\ Live(th) # {}
    BY <2>2, <2>3, Consts DEF CallOK, Bots, Live
  <2> QED
    BY <1>3, <2>2, <2>3, <2>4, BeginOK
<1> QED
  BY <1>5, <1>6, <1>7, <1>8, <1>9, <1>10, <1>11 DEF Message

-----------------------------------------------------------------------------
(* The statements without the thread lock *)

LEMMA ReleaseReadOK ==
  ASSUME BotInv, NEW k \in Calls, ReleaseRead(k)
  PROVE  BotInv'
<1>1. call[k] # NoCall /\ call[k].op = "release" /\ call[k].phase = "begun"
  BY DEF ReleaseRead, At, NoCall
<1>2. call[k] \in Call /\ CallOK(call[k], th) /\ th \in Thread /\ Stacked(th)
  BY Facts
<1>3. CASE th.stack = <<>>
  <2>1. PICK c : c = [call[k] EXCEPT !.phase = "clear"]
    OBVIOUS
  <2>2. /\ c \in Call /\ c.op = "release" /\ c.phase = "clear" /\ c.d = call[k].d
        /\ c.popped = call[k].popped
    BY <1>1, <1>2, <2>1 DEF Call, Phases
  <2>3. CallOK(c, th)
    BY <1>1, <1>2, <2>2 DEF CallOK
  <2>4. Continue(k, c)
    BY <1>3, <2>1 DEF ReleaseRead
  <2> QED
    BY <1>1, <2>2, <2>3, <2>4, ContinueOK
<1>4. CASE th.stack # <<>>
  <2>1. PICK d : d = Top(th.stack)
    OBVIOUS
  <2>2. d \in OnStack(th) /\ d \in Dialogs /\ d # Nil
    BY <1>2, <1>4, <2>1, Fields, TopIs
  <2>3. PICK c : c = [call[k] EXCEPT !.phase = "pop", !.d = d]
    OBVIOUS
  <2>4. /\ c \in Call /\ c.op = "release" /\ c.phase = "pop" /\ c.d = d
        /\ c.popped = call[k].popped
    BY <1>1, <1>2, <2>2, <2>3 DEF Call, Phases, MaybeDialog
  <2>5. th.st[d] # "none"
    BY <1>2, <2>2 DEF Stacked
  <2>6. CallOK(c, th)
    BY <2>2, <2>4, <2>5 DEF CallOK
  <2>7. Continue(k, c)
    BY <1>4, <2>1, <2>3 DEF ReleaseRead
  <2> QED
    BY <1>1, <2>4, <2>6, <2>7, ContinueOK
<1> QED
  BY <1>3, <1>4

\* A statement of a call that remembers more of what it read.
LEMMA ReadMore ==
  ASSUME BotInv, NEW k \in Calls, call[k] # NoCall, NEW c \in Call, Continue(k, c),
         c.op = call[k].op, c.op # "transfer", c.d = call[k].d,
         c.phase \in {"delete", "top"} => c.d # Nil /\ c.op \in {"complete", "release"},
         c.phase \notin {"pop", "clear", "begun"},
         c.popped => c.d # Nil
  PROVE  BotInv'
<1>1. CallOK(call[k], th)
  BY Facts
<1>2. CallOK(c, th)
  BY <1>1 DEF CallOK
<1> QED
  BY <1>2, ContinueOK

LEMMA PopSnapshotOK ==
  ASSUME BotInv, NEW k \in Calls, PopSnapshot(k)
  PROVE  BotInv'
<1>1. call[k] \in Call /\ CallOK(call[k], th) /\ call[k].phase = "pop" /\ call[k] # NoCall
  BY Facts DEF PopSnapshot, NoCall
<1>2. call[k].d # Nil /\ call[k].op \in {"complete", "release"}
  BY <1>1 DEF CallOK
<1>3. PICK b \in BOOLEAN : b = (Top(th.stack) = call[k].d)
  OBVIOUS
<1>4. PICK c : c = [call[k] EXCEPT !.phase = "delete", !.isTop = b]
  OBVIOUS
<1>5. /\ c \in Call /\ c.op = call[k].op /\ c.d = call[k].d /\ c.phase = "delete"
      /\ c.popped = call[k].popped
  BY <1>1, <1>4 DEF Call, Phases
<1>6. Continue(k, c) \/ Return(k)
  BY <1>3, <1>4 DEF PopSnapshot
<1>7. CASE Continue(k, c)
  BY <1>1, <1>2, <1>5, <1>7, ReadMore
<1>8. CASE Return(k)
  BY <1>1, <1>8, ReturnOK
<1> QED
  BY <1>6, <1>7, <1>8

LEMMA PopDeleteOK ==
  ASSUME BotInv, NEW k \in Calls, PopDelete(k)
  PROVE  BotInv'
<1>1. call[k] \in Call /\ CallOK(call[k], th) /\ call[k].phase = "delete" /\ call[k] # NoCall
  BY Facts DEF PopDelete, NoCall
<1>2. call[k].d # Nil /\ call[k].op \in {"complete", "release"}
  BY <1>1 DEF CallOK
<1>3. PICK b \in BOOLEAN : b = (call[k].d \in OnStack(th))
  BY (call[k].d \in OnStack(th)) \in BOOLEAN
<1>4. PICK c : c = [call[k] EXCEPT !.phase = "top", !.popped = b]
  OBVIOUS
<1>5. /\ c \in Call /\ c.op = call[k].op /\ c.d = call[k].d /\ c.phase = "top"
  BY <1>1, <1>4 DEF Call, Phases
<1>6. Continue(k, c)
  BY <1>3, <1>4 DEF PopDelete
<1> QED
  BY <1>1, <1>2, <1>5, <1>6, ReadMore

LEMMA PopTopOK ==
  ASSUME BotInv, NEW k \in Calls, PopTop(k)
  PROVE  BotInv'
<1>1. call[k] \in Call /\ CallOK(call[k], th) /\ call[k].phase = "top" /\ call[k] # NoCall
      /\ th \in Thread
  BY Facts DEF PopTop, NoCall
<1>2. call[k].d # Nil /\ call[k].op \in {"complete", "release"}
  BY <1>1 DEF CallOK
<1>3. PICK top \in MaybeDialog : top = Top(Without(th.stack, call[k].d))
  <2>1. Without(th.stack, call[k].d) \in Seq(Dialogs)
    BY <1>1, Fields, WithoutIs
  <2> QED
    BY <2>1, TopIs
<1>4. PICK c : c = [call[k] EXCEPT !.phase = "update", !.top = top]
  OBVIOUS
<1>5. /\ c \in Call /\ c.op = call[k].op /\ c.d = call[k].d /\ c.phase = "update"
  BY <1>1, <1>4 DEF Call, Phases
<1>6. Continue(k, c)
  BY <1>3, <1>4 DEF PopTop
<1> QED
  BY <1>1, <1>2, <1>5, <1>6, ReadMore

\* The rows when a completion or a release commits, before the controller is set.
LEMMA EntryIs ==
  ASSUME BotInv, NEW k \in Calls, call[k] # NoCall
  PROVE  /\ Kept(th, Entry(k)) /\ Nones(Entry(k)) = Nones(th)
         /\ Entry(k).owner = th.owner /\ Entry(k).controller = th.controller
         /\ call[k].popped => Entry(k).stack = Without(th.stack, call[k].d)
         /\ ~call[k].popped => Entry(k).stack = th.stack
<1>1. PICK t : t = th
  OBVIOUS
<1>2. PICK d : d = call[k].d
  OBVIOUS
<1>3. t \in Thread /\ Stacked(t) /\ Owned(t) /\ call[k] \in Call /\ CallOK(call[k], t)
  BY <1>1, Facts
<1>4. CASE ~call[k].popped
  <2>1. Entry(k) = t
    BY <1>1, <1>4 DEF Entry
  <2>2. Kept(t, t)
    BY <1>3, KeptSame
  <2> QED
    BY <1>1, <1>4, <2>1, <2>2
<1>5. CASE call[k].popped
  <2>1. d \in Dialogs /\ t.st[d] # "none"
    BY <1>2, <1>3, <1>5 DEF CallOK, Call, MaybeDialog
  <2>2. PICK u : u = PopEntry(t, d)
    OBVIOUS
  <2>3. Entry(k) = u
    BY <1>1, <1>2, <1>5, <2>2 DEF Entry
  <2>4. Dropped(t, u, d) /\ u.controller = t.controller
    BY <1>3, <2>1, <2>2, PopEntryIs
  <2>5. Kept(t, u) /\ Nones(u) = Nones(t)
    BY <1>3, <2>1, <2>4, KeptDropped
  <2>6. u.owner = t.owner /\ u.stack = Without(t.stack, d)
    BY <2>4 DEF Dropped
  <2> QED
    BY <1>1, <1>2, <1>5, <2>3, <2>4, <2>5, <2>6
<1> QED
  BY <1>4, <1>5

\* The update of the controller, in the same transaction.
LEMMA ControllerCommit ==
  ASSUME BotInv, NEW k \in Calls, call[k] # NoCall, NEW u, Kept(th, u), Nones(u) = Nones(th),
         NEW c \in MaybeDialog, NEW e \in Event, Commit(k, [u EXCEPT !.controller = c], e)
  PROVE  BotInv'
<1>1. PICK v : v = [u EXCEPT !.controller = c]
  OBVIOUS
<1>2. u \in Thread /\ Stacked(u) /\ Owned(u)
  BY DEF Kept
<1>3. v \in Thread /\ v.st = u.st /\ v.mem = u.mem /\ v.stack = u.stack /\ v.owner = u.owner
  BY <1>1, <1>2, SetController
<1>4. Kept(u, v) /\ Nones(v) = Nones(u)
  BY <1>2, <1>3, KeptSame
<1>5. PICK t : t = th
  OBVIOUS
<1>6. Kept(t, v)
  BY <1>4, <1>5, KeptTrans
<1>7. Commit(k, v, e)
  BY <1>1
<1> QED
  BY <1>4, <1>5, <1>6, <1>7, CommitOK

LEMMA CompleteCommitOK ==
  ASSUME BotInv, NEW k \in Calls, CompleteCommit(k)
  PROVE  BotInv'
<1>1. PICK c : c = call[k]
  OBVIOUS
<1>2. PICK t : t = Entry(k)
  OBVIOUS
<1>3. call[k] # NoCall /\ c \in Call
  BY <1>1, Facts DEF CompleteCommit, At, NoCall
<1>4. c.top \in MaybeDialog /\ c.isTop \in BOOLEAN /\ c.d \in MaybeDialog
  BY <1>3 DEF Call
<1>5. Kept(th, t) /\ Nones(t) = Nones(th)
  BY <1>2, <1>3, EntryIs
<1>6. t \in Thread
  BY <1>5 DEF Kept
<1>7. PICK x \in MaybeDialog : x = Controller(t, c.top, c.isTop, "completed")
  BY <1>4, <1>6, ControllerIs
<1>8. PICK y \in MaybeDialog : y = Popped(t, c.top, c.isTop, "completed")
  BY <1>4, <1>6, ControllerIs
<1>9. PICK e : e = IF c.active /\ y # Nil /\ y # c.owner
                   THEN [granted |-> y, released |-> c.d] ELSE NoEvent
  OBVIOUS
<1>10. e \in Event
  BY <1>4, <1>9, NoEventIs DEF Event
<1>11. Commit(k, [t EXCEPT !.controller = x], e)
  BY <1>1, <1>2, <1>7, <1>8, <1>9 DEF CompleteCommit
<1> QED
  BY <1>3, <1>5, <1>10, <1>11, ControllerCommit

LEMMA ReleaseCommitOK ==
  ASSUME BotInv, NEW k \in Calls, ReleaseCommit(k)
  PROVE  BotInv'
<1>1. PICK c : c = call[k]
  OBVIOUS
<1>2. PICK t : t = Entry(k)
  OBVIOUS
<1>3. call[k] # NoCall /\ c \in Call
  BY <1>1, Facts DEF ReleaseCommit, At, NoCall
<1>4. c.top \in MaybeDialog /\ c.isTop \in BOOLEAN /\ c.d \in MaybeDialog
  BY <1>3 DEF Call
<1>5. Kept(th, t) /\ Nones(t) = Nones(th)
  BY <1>2, <1>3, EntryIs
<1>6. t \in Thread
  BY <1>5 DEF Kept
<1>7. PICK x \in MaybeDialog : x = Controller(t, c.top, c.isTop, "client_leave")
  BY <1>4, <1>6, ControllerIs
<1>8. PICK y \in MaybeDialog : y = Popped(t, c.top, c.isTop, "client_leave")
  BY <1>4, <1>6, ControllerIs
<1>9. [granted |-> y, released |-> c.d] \in Event
  BY <1>4 DEF Event
<1>10. Commit(k, [t EXCEPT !.controller = x], [granted |-> y, released |-> c.d])
  BY <1>1, <1>2, <1>7, <1>8 DEF ReleaseCommit
<1> QED
  BY <1>3, <1>5, <1>9, <1>10, ControllerCommit

LEMMA HandBackReadOK ==
  ASSUME BotInv, NEW k \in Calls, HandBackRead(k)
  PROVE  BotInv'
<1>1. call[k] # NoCall /\ call[k] \in Call /\ call[k].op = "handback" /\ th \in Thread
      /\ CallOK(call[k], th)
  BY Facts DEF HandBackRead, At, NoCall
<1>2. PICK p \in MaybeDialog, x \in MaybeDialog : p = th.controller /\ x = Candidate(th)
  BY <1>1, Fields, CandidateIs
<1>3. PICK c : c = [call[k] EXCEPT !.phase = "update", !.prev = p, !.top = x]
  OBVIOUS
<1>4. /\ c \in Call /\ c.op = "handback" /\ c.d = call[k].d /\ c.phase = "update"
      /\ c.popped = call[k].popped
  BY <1>1, <1>3 DEF Call, Phases
<1>5. Continue(k, c) \/ Return(k)
  BY <1>2, <1>3 DEF HandBackRead
<1>6. c.popped => c.d # Nil
  BY <1>1, <1>4 DEF CallOK
<1>7. CASE Continue(k, c)
  BY <1>1, <1>4, <1>6, <1>7, ReadMore
<1>8. CASE Return(k)
  BY <1>1, <1>8, ReturnOK
<1> QED
  BY <1>5, <1>7, <1>8

LEMMA HandBackCommitOK ==
  ASSUME BotInv, NEW k \in Calls, HandBackCommit(k)
  PROVE  BotInv'
<1>1. PICK c : c = call[k]
  OBVIOUS
<1>2. PICK t : t = th
  OBVIOUS
<1>3. call[k] # NoCall /\ c \in Call /\ t \in Thread /\ Stacked(t) /\ Owned(t)
  BY <1>1, <1>2, Facts DEF HandBackCommit, At, NoCall
<1>4. c.top \in MaybeDialog /\ c.prev \in MaybeDialog /\ t.controller \in MaybeDialog
      /\ Nil \in MaybeDialog
  BY <1>3, Fields DEF Call, MaybeDialog
<1>5. PICK x \in MaybeDialog : x = Coalesce(t.controller, c.top)
  BY <1>4 DEF Coalesce
<1>6. PICK e : e = [granted |-> Coalesce(c.prev, c.top), released |-> Nil]
  OBVIOUS
<1>7. e \in Event
  BY <1>4, <1>6 DEF Event, Coalesce
<1>8. Kept(t, t)
  BY <1>3, KeptSame
<1>9. CASE c.prev = Nil
  <2>1. Commit(k, [t EXCEPT !.controller = x], e)
    BY <1>1, <1>2, <1>5, <1>6, <1>9 DEF HandBackCommit
  <2> QED
    BY <1>2, <1>3, <1>7, <1>8, <2>1, ControllerCommit
<1>10. CASE c.prev # Nil
  <2>1. Commit(k, t, e)
    BY <1>1, <1>2, <1>6, <1>10 DEF HandBackCommit
  <2> QED
    BY <1>2, <1>3, <1>7, <1>8, <2>1, CommitOK
<1> QED
  BY <1>9, <1>10

LEMMA ClearReadOK ==
  ASSUME BotInv, NEW k \in Calls, ClearRead(k)
  PROVE  BotInv'
<1>1. call[k] # NoCall /\ call[k] \in Call /\ call[k].phase = "clear" /\ th \in Thread
      /\ CallOK(call[k], th)
  BY Facts DEF ClearRead, NoCall
<1>2. PICK p \in MaybeDialog : p = th.controller
  BY <1>1, Fields
<1>3. PICK c : c = [call[k] EXCEPT !.phase = "update", !.prev = p]
  OBVIOUS
<1>4. /\ c \in Call /\ c.op = call[k].op /\ c.d = call[k].d /\ c.phase = "update"
      /\ c.popped = call[k].popped
  BY <1>1, <1>3 DEF Call, Phases
<1>5. Continue(k, c) \/ Return(k)
  BY <1>2, <1>3 DEF ClearRead
<1>6. (c.popped => c.d # Nil) /\ c.op # "transfer"
  BY <1>1, <1>4 DEF CallOK
<1>7. CASE Continue(k, c)
  BY <1>1, <1>4, <1>6, <1>7, ReadMore
<1>8. CASE Return(k)
  BY <1>1, <1>8, ReturnOK
<1> QED
  BY <1>5, <1>7, <1>8

LEMMA ClearCommitOK ==
  ASSUME BotInv, NEW k \in Calls, ClearCommit(k)
  PROVE  BotInv'
<1>1. PICK t : t = th
  OBVIOUS
<1>2. call[k] # NoCall /\ call[k] \in Call /\ t \in Thread /\ Stacked(t) /\ Owned(t)
  BY <1>1, Facts DEF ClearCommit, At, NoCall
<1>3. PICK e : e = [granted |-> Nil, released |-> call[k].prev]
  OBVIOUS
<1>4. e \in Event /\ Nil \in MaybeDialog
  BY <1>2, <1>3 DEF Event, Call, MaybeDialog
<1>5. Kept(t, t)
  BY <1>2, KeptSame
<1>6. Commit(k, [t EXCEPT !.controller = Nil], e)
  BY <1>1, <1>3 DEF ClearCommit
<1> QED
  BY <1>1, <1>2, <1>4, <1>5, <1>6, ControllerCommit

LEMMA EnsureReadOK ==
  ASSUME BotInv, NEW k \in Calls, EnsureRead(k)
  PROVE  BotInv'
<1>1. call[k] # NoCall /\ call[k] \in Call /\ call[k].op = "ensure" /\ th \in Thread
      /\ CallOK(call[k], th)
  BY Facts DEF EnsureRead, At, NoCall
<1>2. PICK x \in MaybeDialog : x = Top(th.stack)
  BY <1>1, Fields, TopIs
<1>3. PICK c : c = [call[k] EXCEPT !.phase = "update", !.top = x]
  OBVIOUS
<1>4. /\ c \in Call /\ c.op = "ensure" /\ c.d = call[k].d /\ c.phase = "update"
      /\ c.popped = call[k].popped
  BY <1>1, <1>3 DEF Call, Phases
<1>5. Continue(k, c)
  BY <1>2, <1>3 DEF EnsureRead
<1>6. c.popped => c.d # Nil
  BY <1>1, <1>4 DEF CallOK
<1> QED
  BY <1>1, <1>4, <1>5, <1>6, ReadMore

\* A bot that has been a member before goes on the stack again.
LEMMA KeptPushed ==
  ASSUME NEW t \in Thread, Stacked(t), Owned(t), NEW d \in Dialogs, t.st[d] # "none",
         t.mem[d].bot
  PROVE  Kept(t, Push(t, d)) /\ Nones(Push(t, d)) = Nones(t)
<1>1. PICK u : u = Push(t, d)
  OBVIOUS
<1>2. Pushed(t, u, d)
  BY <1>1, PushIs
<1>3. u \in Thread /\ u.st = t.st /\ u.mem = t.mem /\ u.stack = Append(t.stack, d)
      /\ (t.owner # Nil => u.owner = t.owner)
  BY <1>2 DEF Pushed
<1>4. OnStack(u) = OnStack(t) \cup {d}
  <2>1. OnStack(u) = Entries(u.stack) /\ OnStack(t) = Entries(t.stack) /\ t.stack \in Seq(Dialogs)
    BY <1>3, Fields
  <2> QED
    BY <1>3, <2>1, AppendIs
<1>5. Stacked(u)
  BY <1>3, <1>4 DEF Stacked
<1>6. t.owner # Nil
  BY DEF Owned
<1>7. Owned(u)
  BY <1>3, <1>6 DEF Owned
<1>8. Kept(t, u) /\ Nones(u) = Nones(t)
  BY <1>3, <1>5, <1>7 DEF Kept, Nones
<1> QED
  BY <1>1, <1>8

LEMMA EnsureCommitOK ==
  ASSUME BotInv, NEW k \in Calls, EnsureCommit(k)
  PROVE  BotInv'
<1>1. PICK c : c = call[k]
  OBVIOUS
<1>2. PICK t : t = th
  OBVIOUS
<1>3. /\ call[k] # NoCall /\ c \in Call /\ t \in Thread /\ Stacked(t) /\ Owned(t)
      /\ CallOK(c, t) /\ c.op = "ensure"
  BY <1>1, <1>2, Facts DEF EnsureCommit, At, NoCall
<1>4. c.d \in Dialogs /\ t.st[c.d] # "none" /\ t.mem[c.d].bot /\ c.top \in MaybeDialog
  BY <1>3 DEF CallOK, Call, MaybeDialog
<1>5. PICK e : e = [granted |-> c.d, released |-> Nil]
  OBVIOUS
<1>6. e \in Event
  BY <1>4, <1>5 DEF Event, MaybeDialog
<1>7. Kept(t, t)
  BY <1>3, KeptSame
<1>8. CASE Commit(k, [t EXCEPT !.controller = c.top], e)
  BY <1>2, <1>3, <1>4, <1>6, <1>7, <1>8, ControllerCommit
<1>9. CASE Commit(k, Push(t, c.d), e)
  <2>1. Kept(t, Push(t, c.d)) /\ Nones(Push(t, c.d)) = Nones(t)
    BY <1>3, <1>4, KeptPushed
  <2>2. PICK u : u = Push(t, c.d)
    OBVIOUS
  <2>3. Kept(th, u) /\ Nones(u) = Nones(th) /\ Commit(k, u, e)
    BY <1>2, <1>9, <2>1, <2>2
  <2> QED
    BY <1>3, <1>6, <2>3, CommitOK
<1>10. CASE Return(k)
  BY <1>3, <1>10, ReturnOK
<1>11. \/ Commit(k, [t EXCEPT !.controller = c.top], e) \/ Commit(k, Push(t, c.d), e) \/ Return(k)
  BY <1>1, <1>2, <1>5 DEF EnsureCommit
<1> QED
  BY <1>8, <1>9, <1>10, <1>11

-----------------------------------------------------------------------------
(* The first message creates the thread *)

\* What is known of the thread it creates.
Founded(u, e) ==
  /\ u \in Thread /\ Stacked(u) /\ Owned(u) /\ u.st[1] # "none" /\ e \in Event
  /\ u.controller # Nil => u.stack # <<>> /\ u.controller = Top(u.stack)
  /\ e.granted # Nil => u.controller # Nil

LEMMA CreateDirectRows ==
  ASSUME BotInv, NEW k \in Calls, NEW isBot \in BOOLEAN, CreateDirectThread(k, isBot)
  PROVE  Founded(th', event') /\ call' = call /\ fails' = fails /\ ~Exists
<1>1. PICK t : t = th
  OBVIOUS
<1>2. ~Exists /\ call' = call /\ fails' = fails
  BY DEF CreateDirectThread
<1>3. /\ t \in Thread /\ Stacked(t) /\ Owned(t) /\ Nones(t) = Dialogs /\ t.controller = Nil
      /\ t.stack = <<>>
  BY <1>1, <1>2, Facts DEF BotInv, FreshInv
<1>4. 1 \in Dialogs /\ 2 \in Dialogs /\ Dialogs \subseteq Nat /\ \A d \in Dialogs : d >= 1
  BY Consts, BotConstants DEF Dialogs
<1>5. PICK p : p = [Client EXCEPT !.bot = isBot, !.contactBot = TRUE]
  OBVIOUS
<1>6. Client \in Member /\ ~Client.bot /\ p \in Member /\ p.bot = isBot
  BY <1>5 DEF Client, Member
<1>7. PICK a : a = NextDialog(t)
  OBVIOUS
<1>8. PICK u : u = Create(t, Client)
  OBVIOUS
<1>9. Created(t, u, a, Client) /\ \A d \in Nones(t) : a <= d
  BY <1>3, <1>4, <1>6, <1>7, <1>8, CreateIs
<1>10. a \in Dialogs
  BY <1>9 DEF Created
<1>11. a = 1
  <2>1. a \in Nat /\ a <= 1 /\ a >= 1
    BY <1>3, <1>4, <1>9, <1>10
  <2> QED
    BY <2>1
<1>12. /\ u \in Thread /\ Stacked(u) /\ Nones(u) = Nones(t) \ {a} /\ u.st[a] = "live"
       /\ u.stack = t.stack /\ u.controller = t.controller /\ Kept(t, u)
  BY <1>3, <1>6, <1>9, CreatedFacts, KeptCreated
<1>13. Owned(u)
  BY <1>12 DEF Kept
<1>14. PICK b : b = NextDialog(u)
  OBVIOUS
<1>15. PICK v : v = Create(u, p)
  OBVIOUS
<1>16. 2 \in Nones(u)
  BY <1>3, <1>4, <1>11, <1>12
<1>17. Created(u, v, b, p) /\ \A d \in Nones(u) : b <= d
  BY <1>6, <1>12, <1>14, <1>15, <1>16, CreateIs
<1>18. /\ v \in Thread /\ Stacked(v) /\ b \in Nones(u) /\ b \in Dialogs /\ v.st[b] = "live"
       /\ v.mem[b] = p /\ v.stack = u.stack /\ v.controller = u.controller /\ b \notin OnStack(v)
       /\ \A d \in Dialogs : d # b => v.st[d] = u.st[d]
  BY <1>6, <1>12, <1>17, CreatedFacts
<1>19. b = 2
  <2>1. b \in Nat /\ b <= 2 /\ b >= 1 /\ b # 1
    BY <1>4, <1>11, <1>12, <1>16, <1>17, <1>18
  <2> QED
    BY <2>1
<1>20. v.st[1] # "none"
  BY <1>4, <1>11, <1>12, <1>18, <1>19
<1>21. CASE ~isBot
  <2>1. th' = v /\ event' = NoEvent
    BY <1>1, <1>5, <1>8, <1>15, <1>21 DEF CreateDirectThread
  <2>2. ~p.bot
    BY <1>6, <1>21
  <2>3. Kept(u, v)
    BY <1>6, <1>12, <1>13, <1>17, <2>2, KeptCreated
  <2>4. Owned(v) /\ v.controller = Nil
    BY <1>3, <1>12, <1>18, <2>3 DEF Kept
  <2>5. Founded(v, NoEvent)
    BY <1>18, <1>20, <2>4, NoEventIs DEF Founded
  <2> QED
    BY <1>2, <2>1, <2>5
<1>22. CASE isBot
  <2>1. PICK w : w = Push(v, b)
    OBVIOUS
  <2>2. PICK e : e = [granted |-> b, released |-> Nil]
    OBVIOUS
  <2>3. th' = w /\ event' = e
    BY <1>1, <1>5, <1>8, <1>15, <1>19, <1>22, <2>1, <2>2 DEF CreateDirectThread
  <2>4. Pushed(v, w, b)
    BY <1>18, <2>1, PushIs
  <2>5. b \in Bots(v) \ OnStack(v)
    BY <1>6, <1>18, <1>22 DEF Bots, Live
  <2>6. /\ w \in Thread /\ w.st = v.st /\ w.mem = v.mem /\ w.stack = Append(v.stack, b)
        /\ w.controller = b /\ w.owner # Nil
    BY <2>4, <2>5 DEF Pushed
  <2>7. v.stack \in Seq(Dialogs) /\ OnStack(v) = Entries(v.stack) /\ OnStack(w) = Entries(w.stack)
    BY <1>18, <2>6, Fields
  <2>8. w.stack # <<>> /\ Top(w.stack) = b /\ OnStack(w) = OnStack(v) \cup {b}
    BY <1>18, <2>6, <2>7, AppendIs
  <2>9. Stacked(w)
    BY <1>6, <1>18, <1>22, <2>6, <2>8 DEF Stacked
  <2>10. Owned(w)
    BY <2>6 DEF Owned
  <2>11. e \in Event /\ b # Nil /\ e.granted = b
    BY <1>18, <2>2, Consts DEF Event, MaybeDialog
  <2>12. Founded(w, e)
    BY <1>20, <2>6, <2>8, <2>9, <2>10, <2>11 DEF Founded
  <2> QED
    BY <1>2, <2>3, <2>12
<1> QED
  BY <1>21, <1>22

LEMMA CreateDirectOK ==
  ASSUME BotInv, NEW k \in Calls, NEW isBot \in BOOLEAN, CreateDirectThread(k, isBot)
  PROVE  BotInv'
<1>1. PICK u : u = th'
  OBVIOUS
<1>2. /\ u \in Thread /\ Stacked(u) /\ Owned(u) /\ u.st[1] # "none" /\ event' \in Event
      /\ call' = call /\ fails' = fails /\ ~Exists
  BY <1>1, CreateDirectRows DEF Founded
<1>3. \A j \in Calls : call[j] = NoCall
  BY <1>2 DEF BotInv, FreshInv
<1>4. call \in [Calls -> Call] /\ fails \in 0..MaxFails
  BY Facts
<1>5. TypeOK'
  BY <1>1, <1>2, <1>4 DEF TypeOK, Thread, Event, Call
<1>6. \A j \in Calls : CallOK(call[j], u)
  BY <1>3, NoCallOK
<1>7. RoomInv'
  <2>1. NoCall.op # "transfer"
    BY DEF NoCall
  <2>2. Transfers' = {}
    BY <1>2, <1>3, <2>1 DEF Transfers
  <2>3. Cardinality({}) = 0 /\ Cardinality(Nones(u)) \in Nat
    BY FS_EmptySet, CountNones
  <2> QED
    BY <1>1, <2>2, <2>3 DEF RoomInv
<1> QED
  BY <1>1, <1>2, <1>5, <1>6, <1>7 DEF BotInv, FreshInv, Exists

LEMMA InitOK == Init => BotInv
<1> SUFFICES ASSUME Init PROVE BotInv
  OBVIOUS
<1>1. PICK t : t = th
  OBVIOUS
<1>2. /\ t = [st |-> [d \in Dialogs |-> "none"], mem |-> [d \in Dialogs |-> Client],
              stack |-> <<>>, controller |-> Nil, owner |-> Nil]
      /\ event = NoEvent /\ call = [k \in Calls |-> NoCall] /\ fails = 0
  BY <1>1 DEF Init
<1>3. Client \in Member /\ ~Client.bot /\ Nil \in MaybeDialog /\ <<>> \in Seq(Dialogs)
  BY DEF Client, Member, MaybeDialog
<1>4. /\ t.st = [d \in Dialogs |-> "none"] /\ t.mem = [d \in Dialogs |-> Client]
      /\ t.stack = <<>> /\ t.controller = Nil /\ t.owner = Nil
  BY <1>2
<1>5. t \in Thread
  BY <1>2, <1>3 DEF Thread
<1>6. \A k \in Calls : call[k] = NoCall
  BY <1>2
<1>7. TypeOK
  <2>1. call \in [Calls -> Call]
    BY <1>2, NoCallOK
  <2>2. fails \in 0..MaxFails
    BY <1>2, BotConstants
  <2> QED
    BY <1>1, <1>2, <1>5, <2>1, <2>2, NoEventIs, Types
<1>8. Nones(t) = Dialogs /\ Owned(t)
  BY <1>3, <1>4 DEF Nones, Owned
<1>9. OnStack(t) = {}
  <2>1. 1..Len(t.stack) = {}
    BY <1>4
  <2> QED
    BY <2>1 DEF OnStack
<1>10. Stacked(t)
  BY <1>9 DEF Stacked
<1>11. RoomInv
  <2>1. NoCall.op # "transfer"
    BY DEF NoCall
  <2>2. Transfers = {}
    BY <1>6, <2>1 DEF Transfers
  <2>3. Cardinality({}) = 0 /\ Cardinality(Nones(t)) \in Nat
    BY FS_EmptySet, CountNones
  <2> QED
    BY <1>1, <2>2, <2>3 DEF RoomInv
<1> QED
  BY <1>1, <1>4, <1>6, <1>7, <1>8, <1>10, <1>11, NoCallOK DEF BotInv, FreshInv

-----------------------------------------------------------------------------
(* Theorems, for any number of concurrent calls *)

LEMMA NextOK ==
  ASSUME BotInv, [Next]_vars
  PROVE  BotInv'
<1>1. CASE UNCHANGED vars
  BY <1>1 DEF vars, BotInv, TypeOK, RoomInv, Transfers, FreshInv, Exists
<1>2. CASE Next
  <2>1. PICK k \in Calls :
         \/ \E b \in BOOLEAN : CreateDirectThread(k, b)
         \/ \E m \in Joiners : AddMember(k, m)
         \/ \E d \in Dialogs, m \in Joiners : Transfer(k, d, m)
         \/ \E d \in Dialogs : RemoveMember(k, d)
         \/ \E d \in Dialogs : CompleteBotControl(k, d)
         \/ ReleaseBotControl(k)
         \/ HandBackToBot(k)
         \/ TakeOverFromBot(k)
         \/ Message(k)
         \/ Step(k)
         \/ CallFails(k)
    BY <1>2 DEF Next
  <2>2. CASE \E b \in BOOLEAN : CreateDirectThread(k, b)
    BY <2>2, CreateDirectOK
  <2>3. CASE \E m \in Joiners : AddMember(k, m)
    BY <2>3, AddMemberOK
  <2>4. CASE \/ \E d \in Dialogs, m \in Joiners : Transfer(k, d, m)
             \/ \E d \in Dialogs : RemoveMember(k, d)
             \/ \E d \in Dialogs : CompleteBotControl(k, d)
             \/ ReleaseBotControl(k) \/ HandBackToBot(k) \/ TakeOverFromBot(k) \/ Message(k)
    BY <2>4, BeginsOK
  <2>5. CASE Step(k)
    BY <2>5, TransferCommitOK, RemoveCommitOK, ReleaseReadOK, PopSnapshotOK, PopDeleteOK,
       PopTopOK, CompleteCommitOK, ReleaseCommitOK, HandBackReadOK, HandBackCommitOK,
       ClearReadOK, ClearCommitOK, EnsureReadOK, EnsureCommitOK DEF Step
  <2>6. CASE CallFails(k)
    BY <2>6, FailsOK
  <2> QED
    BY <2>1, <2>2, <2>3, <2>4, <2>5, <2>6
<1> QED
  BY <1>1, <1>2

(* Every step keeps the invariant: stack entries are or were bots of the   *)
(* thread, a thread that ever had a bot has an owner, and what the calls   *)
(* in progress rely on stays true.                                         *)
THEOREM ControlInvariance == Spec => []BotInv
<1>1. BotInv /\ [Next]_vars => BotInv'
  BY NextOK
<1> QED
  BY <1>1, InitOK, PTL DEF Spec

(* The rows, the last event and the calls in progress keep their types,    *)
(* whatever calls overlap: no NULL gets on the stack, and a transfer in    *)
(* progress always finds a row.                                            *)
THEOREM Typing == Spec => []TypeOK
<1>1. BotInv => TypeOK
  BY DEF BotInv
<1> QED
  BY <1>1, ControlInvariance, PTL

(* No completion takes the owner off the stack or replaces it, whatever    *)
(* ran between its check and its commit (CompleteBotControl).              *)
THEOREM OwnersStay == Spec => OwnerKept
<1>1. ASSUME BotInv, [Next]_vars, NEW k \in Calls, At(k, "complete", "update"),
             call'[k] = NoCall, th.owner \in OnStack(th)
      PROVE  th'.owner = th.owner /\ th.owner \in OnStack(th')
  <2>1. call[k] # NoCall /\ call[k] \in Call /\ CallOK(call[k], th) /\ th \in Thread
        /\ call \in [Calls -> Call] /\ call[k].op = "complete" /\ call[k].phase = "update"
    BY <1>1, Facts DEF At, NoCall
  <2>2. th.owner # Nil /\ call[k].d # th.owner
    BY <2>1 DEF CallOK
  <2>3. CASE th' = th
    BY <1>1, <2>3
  <2>4. CASE CompleteCommit(k)
    <3>1. PICK t : t = Entry(k)
      OBVIOUS
    <3>2. /\ t \in Thread /\ t.owner = th.owner
          /\ call[k].popped => t.stack = Without(th.stack, call[k].d)
          /\ ~call[k].popped => t.stack = th.stack
      BY <1>1, <2>1, <3>1, EntryIs DEF Kept
    <3>3. call[k].top \in MaybeDialog /\ call[k].isTop \in BOOLEAN
      BY <2>1 DEF Call
    <3>4. PICK x \in MaybeDialog : x = Controller(t, call[k].top, call[k].isTop, "completed")
      BY <3>2, <3>3, ControllerIs
    <3>5. th' = [t EXCEPT !.controller = x]
      BY <2>4, <3>1, <3>4 DEF CompleteCommit, Commit
    <3>6. PICK u : u = th'
      OBVIOUS
    <3>7. u \in Thread /\ u.owner = t.owner /\ u.stack = t.stack
      BY <3>2, <3>5, <3>6, SetController
    <3>8. OnStack(u) = Entries(t.stack) /\ OnStack(th) = Entries(th.stack)
          /\ th.stack \in Seq(Dialogs)
      BY <2>1, <3>7, Fields
    <3>9. th.owner \in Entries(t.stack)
      BY <1>1, <2>2, <3>2, <3>8, WithoutIs
    <3> QED
      BY <3>2, <3>6, <3>7, <3>8, <3>9
  <2>5. th' = th \/ CompleteCommit(k)
    <3>1. CASE UNCHANGED vars
      BY <3>1 DEF vars
    <3>2. CASE Next
      <4>1. PICK j \in Calls :
             \/ \E b \in BOOLEAN : CreateDirectThread(j, b)
             \/ \E m \in Joiners : AddMember(j, m)
             \/ \E d \in Dialogs, m \in Joiners : Transfer(j, d, m)
             \/ \E d \in Dialogs : RemoveMember(j, d)
             \/ \E d \in Dialogs : CompleteBotControl(j, d)
             \/ ReleaseBotControl(j)
             \/ HandBackToBot(j)
             \/ TakeOverFromBot(j)
             \/ Message(j)
             \/ Step(j)
             \/ CallFails(j)
        BY <3>2 DEF Next
      <4>2. CASE j # k
        <5>1. call' = call \/ \E c : call' = [call EXCEPT ![j] = c]
          BY <4>1 DEF CreateDirectThread, AddMember, Transfer, RemoveMember, CompleteBotControl,
             ReleaseBotControl, HandBackToBot, TakeOverFromBot, Message, EnsureBotControl, Begin,
             Step, TransferCommit, RemoveCommit, ReleaseRead, PopSnapshot, PopDelete, PopTop,
             CompleteCommit, ReleaseCommit, HandBackRead, HandBackCommit, ClearRead, ClearCommit,
             EnsureRead, EnsureCommit, Continue, Return, Commit, CallFails
        <5>2. call'[k] = call[k]
          BY <2>1, <4>2, <5>1
        <5> QED
          BY <1>1, <2>1, <5>2
      <4>3. CASE j = k
        <5>1. CASE \E b \in BOOLEAN : CreateDirectThread(k, b)
          BY <1>1, <2>1, <5>1 DEF CreateDirectThread
        <5>2. CASE \E m \in Joiners : AddMember(k, m)
          BY <2>1, <5>2 DEF AddMember
        <5>3. CASE \/ \E d \in Dialogs, m \in Joiners : Transfer(k, d, m)
                   \/ \E d \in Dialogs : RemoveMember(k, d)
                   \/ \E d \in Dialogs : CompleteBotControl(k, d)
                   \/ ReleaseBotControl(k) \/ HandBackToBot(k) \/ TakeOverFromBot(k)
                   \/ Message(k)
          BY <5>3 DEF Transfer, RemoveMember, CompleteBotControl, ReleaseBotControl,
             HandBackToBot, TakeOverFromBot, Message, EnsureBotControl, Begin
        <5>4. CASE Step(k)
          BY <2>1, <5>4 DEF Step, TransferCommit, RemoveCommit, ReleaseRead, PopSnapshot,
             PopDelete, PopTop, ReleaseCommit, HandBackRead, HandBackCommit, ClearRead,
             ClearCommit, EnsureRead, EnsureCommit, At, Continue
        <5>5. CASE CallFails(k)
          BY <5>5 DEF CallFails
        <5> QED
          BY <4>1, <4>3, <5>1, <5>2, <5>3, <5>4, <5>5
      <4> QED
        BY <4>2, <4>3
    <3> QED
      BY <1>1, <3>1, <3>2
  <2> QED
    BY <2>3, <2>4, <2>5
<1>2. BotInv /\ [Next]_vars =>
        [\A k \in Calls :
          At(k, "complete", "update") /\ call'[k] = NoCall /\ th.owner \in OnStack(th)
            => th'.owner = th.owner /\ th.owner \in OnStack(th')]_vars
  BY <1>1
<1> QED
  BY <1>2, ControlInvariance, PTL DEF Spec, OwnerKept

-----------------------------------------------------------------------------
(* Commits from reads that are still true *)

OnTop(t) ==
  t.controller # Nil => t.controller = IF t.stack = <<>> THEN t.owner ELSE Top(t.stack)

\* What the two properties ask of a step from t to u that publishes e.
Right(t, u, e) == /\ OnTop(t) => OnTop(u)
                  /\ e.granted # Nil => u.controller # Nil

LEMMA ReadRight ==
  ASSUME th' = th, event' = NoEvent
  PROVE  Right(th, th', event')
  BY NoEventIs DEF Right

LEMMA CommitRight ==
  ASSUME NEW k \in Calls, NEW u, NEW e, Right(th, u, e), Commit(k, u, e)
  PROVE  Right(th, th', event')
  BY DEF Commit

LEMMA ReturnRight ==
  ASSUME NEW k \in Calls, Return(k)
  PROVE  Right(th, th', event')
  BY ReadRight DEF Return, Continue

LEMMA CreateDirectRight ==
  ASSUME BotInv, NEW k \in Calls, NEW isBot \in BOOLEAN, CreateDirectThread(k, isBot)
  PROVE  Right(th, th', event')
<1>1. PICK u : u = th'
  OBVIOUS
<1>2. PICK e : e = event'
  OBVIOUS
<1>3. Founded(u, e)
  BY <1>1, <1>2, CreateDirectRows
<1> QED
  BY <1>1, <1>2, <1>3 DEF Founded, Right, OnTop

\* A bot that joins, is on top and told so.
LEMMA JoinedRight ==
  ASSUME NEW v, NEW j, NEW n \in Dialogs, Joined(v, j, n), NEW t, NEW e
  PROVE  Right(t, j, e) /\ j.controller = n /\ n # Nil
<1>1. /\ j \in Thread /\ j.controller = n /\ Top(j.stack) = n /\ n # Nil
  BY Consts DEF Joined
<1>2. j.stack # <<>>
  BY <1>1, Fields, TopIs
<1> QED
  BY <1>1, <1>2 DEF Right, OnTop

LEMMA AddMemberRight ==
  ASSUME BotInv, NEW k \in Calls, NEW m \in Joiners, AddMember(k, m)
  PROVE  Right(th, th', event')
<1>1. PICK t : t = th
  OBVIOUS
<1>2. PICK n : n = NextDialog(th)
  OBVIOUS
<1>3. PICK u : u = Create(th, m)
  OBVIOUS
<1>4. Exists /\ Room /\ call' = call /\ call[k] = NoCall
  BY DEF AddMember
<1>5. t \in Thread /\ Stacked(t) /\ Owned(t) /\ m \in Member /\ Nones(t) # {}
  BY <1>1, <1>4, Facts, JoinerIs, RoomLeft
<1>6. Created(t, u, n, m)
  BY <1>1, <1>2, <1>3, <1>5, CreateIs
<1>7. /\ u \in Thread /\ Stacked(u) /\ u.st[n] = "live" /\ n \in Dialogs
      /\ u.stack = t.stack /\ u.owner = t.owner /\ u.controller = t.controller
  BY <1>5, <1>6, CreatedFacts
<1>9. CASE m.bot
  <2>1. PICK j : j = JoinBot(u, n)
    OBVIOUS
  <2>2. PICK e : e = JoinEvent(u, n)
    OBVIOUS
  <2>3. th' = j /\ event' = e
    BY <1>2, <1>3, <1>9, <2>1, <2>2 DEF AddMember
  <2>4. Joined(u, j, n)
    BY <1>5, <1>6, <1>7, <1>9, <2>1, KeptJoined
  <2>5. Right(t, j, e)
    BY <1>7, <2>4, JoinedRight
  <2> QED
    BY <1>1, <2>3, <2>5
<1>10. CASE ~m.bot /\ m.op
  <2>1. PICK w : w = ReleaseToAgent(u)
    OBVIOUS
  <2>2. PICK e : e = ReleaseToAgentEvent(u)
    OBVIOUS
  <2>3. th' = w /\ event' = e
    BY <1>2, <1>3, <1>10, <2>1, <2>2 DEF AddMember
  <2>4. Kept(t, u)
    BY <1>5, <1>6, <1>10, KeptCreated
  <2>5. Owned(u)
    BY <2>4 DEF Kept
  <2>6. w.controller = Nil /\ e.granted = Nil
    BY <1>7, <2>1, <2>2, <2>5, ReleaseIs
  <2>7. Right(t, w, e)
    BY <2>6 DEF Right, OnTop
  <2> QED
    BY <1>1, <2>3, <2>7
<1>11. CASE ~m.bot /\ ~m.op
  <2>1. th' = u /\ event' = NoEvent
    BY <1>2, <1>3, <1>11 DEF AddMember
  <2>2. Right(t, u, NoEvent)
    BY <1>5, <1>7, NoEventIs DEF Right, OnTop
  <2> QED
    BY <1>1, <2>1, <2>2
<1> QED
  BY <1>9, <1>10, <1>11

\* Pop of d from the stack s leaves t, and u once the controller is set.
PopLeaves(s, d, t, top, isTop, reason, u) ==
  /\ s \in Seq(Dialogs) /\ d \in Entries(s) /\ t \in Thread /\ t.stack = Without(s, d)
  /\ top = Top(t.stack) /\ isTop \in BOOLEAN /\ (isTop <=> Top(s) = d)
  /\ u.controller = Controller(t, top, isTop, reason)
  /\ u.stack = t.stack /\ u.owner = t.owner

\* With no stack left d was the top, so control goes where the stack says.
LEMMA PopRight ==
  ASSUME NEW s, NEW d, NEW t, NEW top, NEW isTop, NEW reason, NEW u,
         PopLeaves(s, d, t, top, isTop, reason, u)
  PROVE  /\ OnTop(u)
         /\ Popped(t, top, isTop, reason) # Nil => u.controller # Nil
<1> DEFINE x == u.controller
<1>0. /\ s \in Seq(Dialogs) /\ d \in Entries(s) /\ t \in Thread /\ t.stack = Without(s, d)
      /\ top = Top(t.stack) /\ isTop \in BOOLEAN /\ (isTop <=> Top(s) = d)
      /\ x = Controller(t, top, isTop, reason) /\ u.stack = t.stack /\ u.owner = t.owner
  BY DEF PopLeaves
<1>1. t.stack \in Seq(Dialogs)
  BY <1>0, Fields
<1>2. t.stack # <<>> => top # Nil
  BY <1>0, <1>1, TopIs
<1>3. t.stack = <<>> => top = Nil /\ isTop
  BY <1>0, <1>1, TopIs, WithoutIs
<1>4. CASE reason = "handoff"
  BY <1>0, <1>4 DEF Controller, Popped, OnTop
<1>5. CASE reason # "handoff" /\ t.stack # <<>>
  <2>1. x = top
    BY <1>0, <1>2, <1>5 DEF Controller, Coalesce
  <2> QED
    BY <1>0, <1>2, <1>5, <2>1 DEF OnTop
<1>6. CASE reason # "handoff" /\ t.stack = <<>>
  <2>1. x = IF reason = "client_leave" THEN Nil ELSE t.owner
    BY <1>0, <1>3, <1>6 DEF Controller, Coalesce
  <2>2. Popped(t, top, isTop, reason) # Nil => reason = "completed" /\ t.owner # Nil
    BY <1>0, <1>3, <1>6 DEF Popped
  <2> QED
    BY <1>0, <1>6, <2>1, <2>2 DEF OnTop
<1> QED
  BY <1>4, <1>5, <1>6

LEMMA TransferCommitRight ==
  ASSUME BotInv, NEW k \in Calls, TransferCommit(k)
  PROVE  Right(th, th', event')
<1>1. PICK i : i = call[k].d
  OBVIOUS
<1>2. PICK m : m = call[k].mem
  OBVIOUS
<1>3. PICK n : n = NextDialog(th)
  OBVIOUS
<1>4. PICK u : u = Create(th, m)
  OBVIOUS
<1>5. PICK v : v = Delete(u, i)
  OBVIOUS
<1>6. PICK t : t = th
  OBVIOUS
<1>7. call[k].op = "transfer" /\ t \in Thread /\ Stacked(t)
  BY <1>6, Facts DEF TransferCommit, At
<1>8. /\ Created(t, u, n, m) /\ m \in Member /\ i \in Dialogs /\ i # n /\ n \in Nones(t)
      /\ v \in Thread /\ Stacked(v) /\ v.mem = u.mem /\ v.stack = u.stack /\ v.owner = u.owner
      /\ v.controller = u.controller /\ v.stack = t.stack /\ v.owner = t.owner
      /\ v.st[n] = "live" /\ Nones(v) = Nones(u)
      /\ ~m.bot => Kept(t, v)
  BY <1>1, <1>2, <1>3, <1>4, <1>5, <1>6, <1>7, TransferRows
<1>9. n \in Dialogs /\ u.controller = t.controller
  BY <1>7, <1>8, CreatedFacts
<1>10. CASE m.bot
  <2>1. PICK j : j = JoinBot(v, n)
    OBVIOUS
  <2>2. PICK w : w = IF call[k].active /\ i \in OnStack(j) THEN Pop(j, i, "transfer") ELSE j
    OBVIOUS
  <2>3. PICK e : e = JoinEvent(v, n)
    OBVIOUS
  <2>4. Commit(k, w, e)
    BY <1>1, <1>2, <1>3, <1>4, <1>5, <1>10, <2>1, <2>2, <2>3 DEF TransferCommit
  <2>5. Joined(v, j, n)
    BY <1>7, <1>8, <1>10, <2>1, KeptJoined
  <2>6. j \in Thread /\ n \in OnStack(j)
    BY <2>5 DEF Joined
  <2>7. j.stack \in Seq(Dialogs) /\ OnStack(j) = Entries(j.stack)
    BY <2>6, Fields
  <2>8. CASE w = j
    BY <1>6, <1>9, <2>4, <2>5, <2>8, JoinedRight, CommitRight
  <2>9. CASE w = Pop(j, i, "transfer") /\ i \in OnStack(j)
    <3>1. PICK p : p = PopEntry(j, i)
      OBVIOUS
    <3>2. Dropped(j, p, i)
      BY <1>8, <2>6, <3>1, PopEntryIs
    <3>3. p \in Thread /\ p.stack = Without(j.stack, i) /\ p.owner = j.owner
      BY <3>2 DEF Dropped
    <3>4. Dropped(j, w, i) /\
          w.controller = Controller(p, Top(Without(j.stack, i)), Top(j.stack) = i, "transfer")
      BY <1>8, <2>6, <2>9, <3>1, PopIs
    <3>5. w.stack = p.stack /\ w.owner = p.owner
      BY <3>3, <3>4 DEF Dropped
    <3>6. n \in Entries(p.stack)
      BY <1>8, <2>6, <2>7, <3>3, WithoutIs
    <3>7. p.stack # <<>> /\ p.stack \in Seq(Dialogs)
      <4>1. Entries(<<>>) = {}
        BY DEF Entries
      <4> QED
        BY <3>3, <3>6, <4>1, Fields
    <3>8. Top(p.stack) # Nil
      BY <3>7, TopIs
    <3>9. w.controller = Top(p.stack)
      BY <3>3, <3>4, <3>8 DEF Controller, Coalesce
    <3>10. Right(t, w, e)
      BY <3>5, <3>7, <3>8, <3>9 DEF Right, OnTop
    <3> QED
      BY <1>6, <2>4, <3>10, CommitRight
  <2> QED
    BY <2>2, <2>8, <2>9
<1>11. CASE ~m.bot /\ call[k].active /\ i \in OnStack(v)
  <2>1. PICK w : w = Pop(v, i, "handoff")
    OBVIOUS
  <2>2. Commit(k, w, NoEvent)
    BY <1>1, <1>2, <1>3, <1>4, <1>5, <1>11, <2>1 DEF TransferCommit
  <2>3. w.controller = Controller(PopEntry(v, i), Top(Without(v.stack, i)), Top(v.stack) = i, "handoff")
    BY <1>8, <2>1, PopIs
  <2>4. w.controller = Nil
    BY <2>3 DEF Controller
  <2>5. Right(t, w, NoEvent)
    BY <2>4, NoEventIs DEF Right, OnTop
  <2> QED
    BY <1>6, <2>2, <2>5, CommitRight
<1>12. CASE ~m.bot /\ call[k].active /\ i \notin OnStack(v)
  <2>1. Return(k)
    BY <1>1, <1>2, <1>3, <1>4, <1>5, <1>12 DEF TransferCommit
  <2> QED
    BY <2>1, ReturnRight
<1>13. CASE ~m.bot /\ ~call[k].active /\ m.op
  <2>1. PICK w : w = ReleaseToAgent(v)
    OBVIOUS
  <2>2. PICK e : e = ReleaseToAgentEvent(v)
    OBVIOUS
  <2>3. Commit(k, w, e)
    BY <1>1, <1>2, <1>3, <1>4, <1>5, <1>13, <2>1, <2>2 DEF TransferCommit
  <2>4. Owned(v)
    BY <1>8, <1>13 DEF Kept
  <2>5. w.controller = Nil /\ e.granted = Nil
    BY <1>8, <2>1, <2>2, <2>4, ReleaseIs
  <2>6. Right(t, w, e)
    BY <2>5 DEF Right, OnTop
  <2> QED
    BY <1>6, <2>3, <2>6, CommitRight
<1>14. CASE ~m.bot /\ ~call[k].active /\ ~m.op
  <2>1. Commit(k, v, NoEvent)
    BY <1>1, <1>2, <1>3, <1>4, <1>5, <1>14 DEF TransferCommit
  <2>2. Right(t, v, NoEvent)
    BY <1>7, <1>8, <1>9, NoEventIs DEF Right, OnTop
  <2> QED
    BY <1>6, <2>1, <2>2, CommitRight
<1> QED
  BY <1>10, <1>11, <1>12, <1>13, <1>14

\* Giving control to the candidate.
LEMMA RestoreRight ==
  ASSUME NEW t \in Thread, OnTop(t), NEW x, x = Coalesce(t.controller, Candidate(t)),
         NEW u, u.stack = t.stack, u.owner = t.owner, u.controller = x
  PROVE  OnTop(u)
<1>1. t.stack \in Seq(Dialogs)
  BY Fields
<1>2. /\ t.stack # <<>> => Top(t.stack) # Nil
      /\ t.stack = <<>> => Top(t.stack) = Nil
  BY <1>1, TopIs
<1>3. Candidate(t) = IF t.stack = <<>> THEN t.owner ELSE Top(t.stack)
  BY <1>2 DEF Candidate, Coalesce
<1> QED
  BY <1>3 DEF OnTop, Coalesce

LEMMA RemoveCommitRight ==
  ASSUME BotInv, NEW k \in Calls, RemoveCommit(k)
  PROVE  Right(th, th', event')
<1>1. PICK d : d = call[k].d
  OBVIOUS
<1>2. PICK t : t = th
  OBVIOUS
<1>3. PICK v : v = Delete(t, d)
  OBVIOUS
<1>4. call[k].op = "remove" /\ call[k] \in Call /\ CallOK(call[k], t) /\ t \in Thread
  BY <1>2, Facts DEF RemoveCommit, At
<1>5. d \in Dialogs
  BY <1>1, <1>4 DEF Call, CallOK, MaybeDialog
<1>6. v \in Thread /\ v.stack = t.stack /\ v.owner = t.owner /\ v.controller = t.controller
  BY <1>3, <1>4, <1>5, DeleteIs
<1>7. OnTop(t) => OnTop(v)
  BY <1>6 DEF OnTop
<1>8. CASE Commit(k, v, NoEvent)
  <2>1. Right(t, v, NoEvent)
    BY <1>7, NoEventIs DEF Right
  <2> QED
    BY <1>2, <1>8, <2>1, CommitRight
<1>9. CASE Commit(k, RestoreAfterAgent(v), RestoreAfterAgentEvent(v))
  <2>1. PICK e : e = RestoreAfterAgentEvent(v)
    OBVIOUS
  <2>2. e.granted = IF Operators(v) = {} /\ v.controller = Nil THEN Candidate(v) ELSE Nil
    BY <2>1 DEF RestoreAfterAgentEvent
  <2>3. CASE Operators(v) # {}
    <3>1. RestoreAfterAgent(v) = v
      BY <2>3 DEF RestoreAfterAgent
    <3>2. Right(t, v, e)
      BY <1>7, <2>2, <2>3 DEF Right
    <3> QED
      BY <1>2, <1>9, <2>1, <3>1, <3>2, CommitRight
  <2>4. CASE Operators(v) = {}
    <3>1. v.controller \in MaybeDialog /\ Candidate(v) \in MaybeDialog
      BY <1>6, Fields, CandidateIs
    <3>2. PICK x \in MaybeDialog : x = Coalesce(v.controller, Candidate(v))
      BY <3>1 DEF Coalesce
    <3>3. PICK w : w = [v EXCEPT !.controller = x]
      OBVIOUS
    <3>4. w.stack = v.stack /\ w.owner = v.owner /\ w.controller = x
      BY <1>6, <3>3, SetController
    <3>5. OnTop(v) => OnTop(w)
      BY <1>6, <3>2, <3>4, RestoreRight
    <3>6. Right(t, w, e)
      BY <1>7, <2>2, <3>2, <3>4, <3>5 DEF Right, Coalesce
    <3>7. RestoreAfterAgent(v) = w
      BY <2>4, <3>2, <3>3 DEF RestoreAfterAgent
    <3> QED
      BY <1>2, <1>9, <2>1, <3>6, <3>7, CommitRight
  <2> QED
    BY <2>3, <2>4
<1> QED
  BY <1>1, <1>2, <1>3, <1>8, <1>9 DEF RemoveCommit

\* The commit of a completion or of /close: Pop's entry was there and was the top just as
\* it read.
LEMMA PopCommitRight ==
  ASSUME BotInv, NEW k \in Calls, UpToDate(k), NEW c, c = call[k],
         c.op \in {"complete", "release"}, c.phase = "update", c.d # Nil, NEW reason,
         NEW t, t = Entry(k), NEW y, y = Popped(t, c.top, c.isTop, reason),
         NEW e, e.granted # Nil => e.granted = y,
         Commit(k, [t EXCEPT !.controller = Controller(t, c.top, c.isTop, reason)], e)
  PROVE  Right(th, th', event')
<1>1. c \in Call /\ th \in Thread /\ c # NoCall
  BY Facts DEF NoCall
<1>2. PICK s : s = th.stack
  OBVIOUS
<1>3. s \in Seq(Dialogs) /\ OnStack(th) = Entries(s)
  BY <1>1, <1>2, Fields
<1>4. c.d \in Entries(s) /\ (c.isTop <=> Top(s) = c.d) /\ c.popped /\ c.top = Top(Without(s, c.d))
  BY <1>2, <1>3 DEF UpToDate
<1>5. t.stack = Without(s, c.d) /\ t \in Thread
  BY <1>1, <1>2, <1>4, EntryIs DEF Kept
<1>6. c.top \in MaybeDialog /\ c.isTop \in BOOLEAN
  BY <1>1 DEF Call
<1>7. PICK x \in MaybeDialog : x = Controller(t, c.top, c.isTop, reason)
  BY <1>5, <1>6, ControllerIs
<1>8. PICK u : u = [t EXCEPT !.controller = x]
  OBVIOUS
<1>9. u.controller = x /\ u.stack = t.stack /\ u.owner = t.owner
  BY <1>5, <1>8, SetController
<1>10. OnTop(u) /\ (y # Nil => u.controller # Nil)
  <2>1. PICK d \in Entries(s) : d = c.d
    BY <1>4
  <2>2. PICK top : top = Top(t.stack) /\ top = c.top
    BY <1>4, <1>5
  <2>3. PICK isTop \in BOOLEAN : (isTop <=> Top(s) = d) /\ isTop = c.isTop
    BY <1>4, <1>6, <2>1
  <2>4. /\ t.stack = Without(s, d) /\ x = Controller(t, top, isTop, reason)
        /\ y = Popped(t, top, isTop, reason)
    BY <1>5, <1>7, <2>1, <2>2, <2>3
  <2> QED
    <3>1. PopLeaves(s, d, t, top, isTop, reason, u)
      BY <1>3, <1>5, <1>9, <2>2, <2>3, <2>4 DEF PopLeaves
    <3> QED
      BY <2>4, <3>1, PopRight
<1>11. Right(th, u, e)
  BY <1>10 DEF Right
<1>12. Commit(k, u, e)
  BY <1>7, <1>8
<1> QED
  BY <1>11, <1>12, CommitRight

LEMMA CommitsRight ==
  ASSUME BotInv, NEW k \in Calls, UpToDate(k),
         \/ CompleteCommit(k) \/ ReleaseCommit(k) \/ HandBackCommit(k) \/ ClearCommit(k)
         \/ EnsureCommit(k)
  PROVE  Right(th, th', event')
<1>1. PICK c : c = call[k]
  OBVIOUS
<1>2. PICK t : t = th
  OBVIOUS
<1>3. c \in Call /\ CallOK(c, t) /\ t \in Thread
  BY <1>1, <1>2, Facts
<1>4. CASE CompleteCommit(k)
  <2>1. c.op = "complete" /\ c.phase = "update"
    BY <1>1, <1>4 DEF CompleteCommit, At
  <2>2. c.d # Nil
    BY <1>3, <2>1 DEF CallOK
  <2>3. PICK u : u = Entry(k)
    OBVIOUS
  <2>4. PICK y : y = Popped(u, c.top, c.isTop, "completed")
    OBVIOUS
  <2>5. PICK e : e = IF c.active /\ y # Nil /\ y # c.owner
                     THEN [granted |-> y, released |-> c.d] ELSE NoEvent
    OBVIOUS
  <2>6. e.granted # Nil => e.granted = y
    BY <2>5, NoEventIs
  <2>7. Commit(k, [u EXCEPT !.controller = Controller(u, c.top, c.isTop, "completed")], e)
    BY <1>1, <1>4, <2>3, <2>4, <2>5 DEF CompleteCommit
  <2> QED
    BY <1>1, <2>1, <2>2, <2>3, <2>4, <2>6, <2>7, PopCommitRight
<1>5. CASE ReleaseCommit(k)
  <2>1. c.op = "release" /\ c.phase = "update" /\ c.d # Nil
    BY <1>1, <1>5 DEF ReleaseCommit, At
  <2>2. PICK u : u = Entry(k)
    OBVIOUS
  <2>3. PICK y : y = Popped(u, c.top, c.isTop, "client_leave")
    OBVIOUS
  <2>4. PICK e : e = [granted |-> y, released |-> c.d]
    OBVIOUS
  <2>5. e.granted = y
    BY <2>4
  <2>6. Commit(k, [u EXCEPT !.controller = Controller(u, c.top, c.isTop, "client_leave")], e)
    BY <1>1, <1>5, <2>2, <2>3, <2>4 DEF ReleaseCommit
  <2> QED
    BY <1>1, <2>1, <2>2, <2>3, <2>5, <2>6, PopCommitRight
<1>6. CASE HandBackCommit(k)
  <2>1. c.op = "handback" /\ c.phase = "update"
    BY <1>1, <1>6 DEF HandBackCommit, At
  <2>2. c.prev = t.controller /\ c.top = Candidate(t)
    BY <1>1, <1>2, <2>1 DEF UpToDate
  <2>3. PICK e : e = [granted |-> Coalesce(c.prev, c.top), released |-> Nil]
    OBVIOUS
  <2>4. e.granted = Coalesce(t.controller, Candidate(t))
    BY <2>2, <2>3
  <2>5. PICK x \in MaybeDialog : x = Coalesce(t.controller, Candidate(t))
    BY <1>3, Fields, CandidateIs DEF Coalesce
  <2>6. CASE c.prev = Nil
    <3>1. PICK u : u = [t EXCEPT !.controller = x]
      OBVIOUS
    <3>2. Commit(k, u, e)
      BY <1>1, <1>2, <1>6, <2>2, <2>3, <2>5, <2>6, <3>1 DEF HandBackCommit
    <3>3. u.stack = t.stack /\ u.owner = t.owner /\ u.controller = x
      BY <1>3, <3>1, SetController
    <3>4. Right(t, u, e)
      BY <1>3, <2>4, <2>5, <3>3, RestoreRight DEF Right
    <3> QED
      BY <1>2, <3>2, <3>4, CommitRight
  <2>7. CASE c.prev # Nil
    <3>1. Commit(k, t, e)
      BY <1>1, <1>2, <1>6, <2>3, <2>7 DEF HandBackCommit
    <3>2. Right(t, t, e)
      BY <1>3, <2>2, <2>7 DEF Right
    <3> QED
      BY <1>2, <3>1, <3>2, CommitRight
  <2> QED
    BY <2>6, <2>7
<1>7. CASE ClearCommit(k)
  <2>1. PICK e : e = [granted |-> Nil, released |-> call[k].prev]
    OBVIOUS
  <2>2. PICK u : u = [t EXCEPT !.controller = Nil]
    OBVIOUS
  <2>3. Commit(k, u, e)
    BY <1>2, <1>7, <2>1, <2>2 DEF ClearCommit
  <2>4. u.controller = Nil /\ e.granted = Nil
    BY <1>3, <2>1, <2>2 DEF Thread
  <2>5. Right(t, u, e)
    BY <2>4 DEF Right, OnTop
  <2> QED
    BY <1>2, <2>3, <2>5, CommitRight
<1>8. CASE EnsureCommit(k)
  <2>1. c.op = "ensure" /\ c.phase = "update"
    BY <1>1, <1>8 DEF EnsureCommit, At
  <2>2. c.d \in Dialogs /\ c.top = Top(t.stack) /\ t.stack \in Seq(Dialogs) /\ c.top \in MaybeDialog
    BY <1>1, <1>2, <1>3, <2>1, Fields DEF CallOK, UpToDate, Call, MaybeDialog
  <2>3. PICK e : e = [granted |-> c.d, released |-> Nil]
    OBVIOUS
  <2>4. CASE c.top # Nil /\ Commit(k, [t EXCEPT !.controller = c.top], e)
    <3>1. PICK u : u = [t EXCEPT !.controller = c.top]
      OBVIOUS
    <3>2. u.stack = t.stack /\ u.controller = c.top
      BY <1>3, <2>2, <3>1, SetController
    <3>3. t.stack # <<>>
      BY <2>2, <2>4, TopIs
    <3>4. Right(t, u, e)
      BY <2>2, <2>4, <3>2, <3>3 DEF Right, OnTop
    <3> QED
      BY <1>2, <2>4, <3>1, <3>4, CommitRight
  <2>5. CASE Commit(k, Push(t, c.d), e)
    <3>1. PICK u : u = Push(t, c.d)
      OBVIOUS
    <3>2. Pushed(t, u, c.d)
      BY <1>3, <2>2, <3>1, PushIs
    <3>3. u.stack = Append(t.stack, c.d) /\ u.controller = c.d
      BY <3>2 DEF Pushed
    <3>4. u.stack # <<>> /\ Top(u.stack) = c.d /\ c.d # Nil
      BY <2>2, <3>3, AppendIs, Consts
    <3>5. Right(t, u, e)
      BY <3>3, <3>4 DEF Right, OnTop
    <3> QED
      BY <1>2, <2>5, <3>1, <3>5, CommitRight
  <2>6. CASE Return(k)
    BY <2>6, ReturnRight
  <2>7. \/ c.top # Nil /\ Commit(k, [t EXCEPT !.controller = c.top], e)
        \/ Commit(k, Push(t, c.d), e) \/ Return(k)
    BY <1>1, <1>2, <1>8, <2>3 DEF EnsureCommit
  <2> QED
    BY <2>4, <2>5, <2>6, <2>7
<1> QED
  BY <1>4, <1>5, <1>6, <1>7, <1>8

\* Every step that does not write from a stale read.
LEMMA StepRight ==
  ASSUME BotInv, Next, NoStaleWrite
  PROVE  Right(th, th', event')
<1>1. PICK k \in Calls :
         \/ \E b \in BOOLEAN : CreateDirectThread(k, b)
         \/ \E m \in Joiners : AddMember(k, m)
         \/ \E d \in Dialogs, m \in Joiners : Transfer(k, d, m)
         \/ \E d \in Dialogs : RemoveMember(k, d)
         \/ \E d \in Dialogs : CompleteBotControl(k, d)
         \/ ReleaseBotControl(k)
         \/ HandBackToBot(k)
         \/ TakeOverFromBot(k)
         \/ Message(k)
         \/ Step(k)
         \/ CallFails(k)
  BY DEF Next
<1>2. CASE \E b \in BOOLEAN : CreateDirectThread(k, b)
  BY <1>2, CreateDirectRight
<1>3. CASE \E m \in Joiners : AddMember(k, m)
  BY <1>3, AddMemberRight
<1>4. CASE \/ \E d \in Dialogs, m \in Joiners : Transfer(k, d, m)
           \/ \E d \in Dialogs : RemoveMember(k, d)
           \/ \E d \in Dialogs : CompleteBotControl(k, d)
           \/ ReleaseBotControl(k) \/ HandBackToBot(k) \/ TakeOverFromBot(k) \/ Message(k)
  <2>1. th' = th /\ event' = NoEvent
    BY <1>4 DEF Transfer, RemoveMember, CompleteBotControl, ReleaseBotControl, HandBackToBot,
       TakeOverFromBot, Message, EnsureBotControl, Begin
  <2> QED
    BY <2>1, ReadRight
<1>5. CASE \/ ReleaseRead(k) \/ PopSnapshot(k) \/ PopDelete(k) \/ PopTop(k)
           \/ HandBackRead(k) \/ ClearRead(k) \/ EnsureRead(k)
  <2>1. th' = th /\ event' = NoEvent
    BY <1>5 DEF ReleaseRead, PopSnapshot, PopDelete, PopTop, HandBackRead, ClearRead,
       EnsureRead, Continue, Return
  <2> QED
    BY <2>1, ReadRight
<1>6. CASE \/ CompleteCommit(k) \/ ReleaseCommit(k) \/ HandBackCommit(k) \/ ClearCommit(k)
           \/ EnsureCommit(k)
  <2>1. call[k].phase = "update" /\ call \in [Calls -> Call]
    BY <1>6, Facts DEF CompleteCommit, ReleaseCommit, HandBackCommit, ClearCommit, EnsureCommit, At
  <2>2. call' = [call EXCEPT ![k] = NoCall]
    BY <1>6 DEF CompleteCommit, ReleaseCommit, HandBackCommit, ClearCommit, EnsureCommit, Commit,
       Return, Continue
  <2>3. call'[k] # call[k]
    BY <2>1, <2>2 DEF NoCall
  <2>4. UpToDate(k)
    BY <2>3 DEF NoStaleWrite
  <2> QED
    BY <1>6, <2>4, CommitsRight
<1>7. CASE CallFails(k)
  BY <1>7, ReadRight DEF CallFails
<1> QED
  BY <1>1, <1>2, <1>3, <1>4, <1>5, <1>6, <1>7, TransferCommitRight, RemoveCommitRight DEF Step

(* However many calls overlap, the bot in control is the top of the stack  *)
(* or, with no stack, the owner, until a call writes from a read that is   *)
(* no longer true.                                                         *)
THEOREM ControlStaysOnTop == Spec => ControlFollowsStack
<1>1. BotInv /\ [Next]_vars => [ControllerOnTop /\ NoStaleWrite => ControllerOnTop']_vars
  <2> SUFFICES ASSUME BotInv, Next, ControllerOnTop, NoStaleWrite PROVE ControllerOnTop'
    OBVIOUS
  <2>1. Right(th, th', event')
    BY StepRight
  <2> QED
    BY <2>1 DEF Right, OnTop, ControllerOnTop
<1> QED
  BY <1>1, ControlInvariance, PTL DEF Spec, ControlFollowsStack

(* However many calls overlap, a bot is told that it has control only by a *)
(* transaction that leaves the thread to a bot, or that wrote from a read  *)
(* no longer true.                                                         *)
THEOREM GrantsAreReal == Spec => GrantsReal
<1>1. BotInv /\ [Next]_vars => [event'.granted # Nil /\ NoStaleWrite => th'.controller # Nil]_vars
  <2> SUFFICES ASSUME BotInv, Next, event'.granted # Nil, NoStaleWrite PROVE th'.controller # Nil
    OBVIOUS
  <2>1. Right(th, th', event')
    BY StepRight
  <2> QED
    BY <2>1 DEF Right
<1> QED
  BY <1>1, ControlInvariance, PTL DEF Spec, GrantsReal

=============================================================================
