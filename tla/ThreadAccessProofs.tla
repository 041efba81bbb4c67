------------------------- MODULE ThreadAccessProofs -------------------------
(***************************************************************************)
(* For any contacts, tags, keys, calls and bounds: tags go with their      *)
(* member, a closed preview stays closed, variables keep their setter, the *)
(* partial unique indexes hold, and a preview is upgraded once.            *)
(***************************************************************************)
EXTENDS ThreadAccess, FiniteSetTheorems, TLAPS

-----------------------------------------------------------------------------
(* The inductive invariant.                                                *)

CallRecord ==
  {Idle}
  \cup [op : {"add"}, contact : Contacts]
  \cup [op : {"remove"}, dialog : Nat]
  \cup [op : {"transfer"}, dialog : Nat, contact : Contacts]
  \cup [op : {"give", "unpreview", "upgrade"}, contact : Contacts, at : Nat]
  \cup [op : {"tag"}, contact : Contacts, tag : Tags]

RowTypes ==
  /\ dlg \in Seq(Dialogs)
  /\ pv \in Seq(Previews)
  /\ tags \subseteq Contacts \X Tags
  /\ now \in Nat

\* What a call read before its transaction is still a row: rows are never
\* removed, and a dialog's contact never changes.
CallTypes ==
  /\ call \in [Calls -> CallRecord]
  /\ \A k \in Calls : call[k].op \in {"remove", "transfer"} => call[k].dialog \in DOMAIN dlg

VarTypes == vars \in [Keys -> Contacts \cup {NoOne}]

AccessInv == RowTypes /\ CallTypes /\ VarTypes /\ TagsOfMembers

-----------------------------------------------------------------------------
(* Facts about the operators.                                              *)

LEMMA CallFields ==
  ASSUME NEW a \in CallRecord
  PROVE  /\ a.op \in {"add", "transfer", "give", "unpreview", "upgrade", "tag"} => a.contact \in Contacts
         /\ a.op \in {"give", "unpreview", "upgrade"} => a.at \in Nat
         /\ a.op = "tag" => a.tag \in Tags
BY DEF CallRecord, Idle

LEMMA AppendDialog ==
  ASSUME dlg \in Seq(Dialogs), NEW c \in Contacts, NEW u \in BOOLEAN,
         dlg' = Append(dlg, NewDialog(c, u))
  PROVE  /\ dlg' \in Seq(Dialogs)
         /\ DOMAIN dlg \subseteq DOMAIN dlg'
         /\ \A x : Live(x) => Live(x)'
<1>1. NewDialog(c, u) \in Dialogs
  BY DEF NewDialog, Dialogs
<1>2. dlg' \in Seq(Dialogs) /\ DOMAIN dlg \subseteq DOMAIN dlg' /\ \A d \in DOMAIN dlg : dlg'[d] = dlg[d]
  BY <1>1
<1> QED BY <1>2 DEF Live, LiveDialogs

LEMMA DeleteDialog ==
  ASSUME dlg \in Seq(Dialogs), NEW d \in DOMAIN dlg
  PROVE  /\ Deleted(dlg, d) \in Seq(Dialogs)
         /\ DOMAIN Deleted(dlg, d) = DOMAIN dlg
         /\ Len(Deleted(dlg, d)) = Len(dlg)
         /\ \A e \in DOMAIN dlg : e # d => Deleted(dlg, d)[e] = dlg[e]
         /\ dlg[d].contact \in Contacts
<1>1. dlg[d] \in Dialogs
  OBVIOUS
<1>2. [dlg[d] EXCEPT !.live = FALSE] \in Dialogs
  BY <1>1 DEF Dialogs
<1>3. Deleted(dlg, d) = [dlg EXCEPT ![d] = [dlg[d] EXCEPT !.live = FALSE]]
  BY DEF Deleted
<1> QED BY <1>1, <1>2, <1>3 DEF Dialogs

(* Clearing the snoozed tag only removes tags (RemoveForContacts).         *)
LEMMA ClearShrinks ==
  ASSUME NEW ts, NEW R
  PROVE  /\ Cleared(ts, R) \subseteq ts
         /\ \A t \in SystemMessage(ts, R) : t \subseteq ts
BY DEF Cleared, SystemMessage

(* After OnMemberLeft the contact has no tag.                              *)
LEMMA LeftWithoutTags ==
  ASSUME NEW ts \in SUBSET (Contacts \X Tags), NEW c
  PROVE  /\ OnMemberLeft(ts, c) \subseteq ts
         /\ \A x \in OnMemberLeft(ts, c) : x[1] # c
BY DEF OnMemberLeft

LEMMA BeginTypes ==
  ASSUME CallTypes, NEW k \in Calls, NEW r \in CallRecord, Begin(k, r), dlg' = dlg,
         r.op \in {"remove", "transfer"} => r.dialog \in DOMAIN dlg
  PROVE  CallTypes'
BY DEF CallTypes, Begin

LEMMA ReturnTypes ==
  ASSUME CallTypes, NEW k \in Calls, Return(k), DOMAIN dlg \subseteq DOMAIN dlg'
  PROVE  CallTypes'
<1>1. Idle \in CallRecord /\ Idle.op = "idle"
  BY DEF CallRecord, Idle
<1> QED BY <1>1 DEF CallTypes, Return

LEMMA SequenceShape ==
  ASSUME NEW S, NEW s \in Seq(S), NEW f \in [DOMAIN s -> S]
  PROVE  f \in Seq(S)
<1>1. Len(s) \in Nat /\ DOMAIN s = 1..Len(s)
  OBVIOUS
<1> QED BY <1>1

LEMMA AppendShape ==
  ASSUME NEW S, NEW s \in Seq(S), NEW x \in S
  PROVE  /\ Append(s, x) \in Seq(S)
         /\ DOMAIN s \subseteq DOMAIN Append(s, x)
         /\ \A p \in DOMAIN s : Append(s, x)[p] = s[p]
OBVIOUS

LEMMA PreviewRow ==
  ASSUME NEW r \in Previews, NEW e \in Nat, NEW w \in Ends
  PROVE  [r EXCEPT !.end = w] \in Previews /\ [r EXCEPT !.exp = e] \in Previews
BY DEF Previews

LEMMA NewPreview ==
  ASSUME NEW c \in Contacts, NEW t \in Nat
  PROVE  /\ t + TTL \in Nat
         /\ [contact |-> c, made |-> t, exp |-> t + TTL, end |-> ""] \in Previews
<1>1. t + TTL \in Nat
  BY AccessAssumption
<1>2. "" \in Ends
  BY DEF Ends
<1> QED BY <1>1, <1>2 DEF Previews

(* The statements on previews keep the rows, and the closed ones as they   *)
(* are (Upsert, Revoke).                                                   *)
LEMMA ExpireKeeps ==
  ASSUME NEW ps \in Seq(Previews), NEW c \in Contacts, NEW t \in Nat
  PROVE  /\ Expired(ps, c, t) \in Seq(Previews)
         /\ DOMAIN Expired(ps, c, t) = DOMAIN ps
         /\ \A p \in DOMAIN ps : ps[p].end # "" => Expired(ps, c, t)[p] = ps[p]
<1>1. "expired" \in Ends /\ 0 \in Nat
  BY DEF Ends
<1>2. \A p \in DOMAIN ps : ps[p] \in Previews
  OBVIOUS
<1>3. \A p \in DOMAIN ps : [ps[p] EXCEPT !.end = "expired"] \in Previews
  BY <1>1, <1>2, PreviewRow
<1>4. Expired(ps, c, t) \in [DOMAIN ps -> Previews]
  BY <1>2, <1>3 DEF Expired
<1>5. Expired(ps, c, t) \in Seq(Previews)
  BY <1>4, SequenceShape
<1>6. \A p \in DOMAIN ps : ps[p].end # "" => Expired(ps, c, t)[p] = ps[p]
  BY DEF Expired
<1> QED BY <1>4, <1>5, <1>6

LEMMA RevokeKeeps ==
  ASSUME NEW c, NEW t, NEW why \in Ends, pv \in Seq(Previews)
  PROVE  /\ Revoked(pv, Active(c, t), why) \in Seq(Previews)
         /\ \A p \in DOMAIN pv : pv[p].end # "" => Revoked(pv, Active(c, t), why)[p] = pv[p]
<1> DEFINE P == Active(c, t)
<1>1. 0 \in Nat
  OBVIOUS
<1>2. \A p \in DOMAIN pv : pv[p] \in Previews
  OBVIOUS
<1>3. \A p \in DOMAIN pv : [pv[p] EXCEPT !.end = why] \in Previews
  BY <1>1, <1>2, PreviewRow
<1>4. \A p \in P : pv[p].end = ""
  BY DEF Active
<1> HIDE DEF P
<1>5. Revoked(pv, P, why) \in [DOMAIN pv -> Previews]
  BY <1>2, <1>3 DEF Revoked
<1>6. Revoked(pv, P, why) \in Seq(Previews)
  BY <1>5, SequenceShape
<1>7. \A p \in DOMAIN pv : pv[p].end # "" => Revoked(pv, P, why)[p] = pv[p]
  BY <1>4 DEF Revoked
<1> QED BY <1>6, <1>7 DEF P

LEMMA UpsertKeeps ==
  ASSUME NEW ps \in Seq(Previews), NEW c \in Contacts, NEW t \in Nat
  PROVE  /\ Upserted(ps, c, t) \in Seq(Previews)
         /\ DOMAIN ps \subseteq DOMAIN Upserted(ps, c, t)
         /\ \A p \in DOMAIN ps : ps[p].end # "" => Upserted(ps, c, t)[p] = ps[p]
<1> DEFINE open == {p \in DOMAIN ps : ps[p].contact = c /\ ps[p].end = ""}
           ext  == [p \in DOMAIN ps |-> IF p \in open THEN [ps[p] EXCEPT !.exp = t + TTL] ELSE ps[p]]
           new  == [contact |-> c, made |-> t, exp |-> t + TTL, end |-> ""]
<1>1. t + TTL \in Nat /\ new \in Previews
  BY NewPreview
<1>2. "" \in Ends
  BY DEF Ends
<1>3. \A p \in DOMAIN ps : ps[p] \in Previews
  OBVIOUS
<1>4. \A p \in DOMAIN ps : [ps[p] EXCEPT !.exp = t + TTL] \in Previews
  BY <1>1, <1>2, <1>3, PreviewRow
<1>5. CASE open # {}
  <2>1. Upserted(ps, c, t) = ext
    BY <1>5 DEF Upserted
  <2>2. ext \in [DOMAIN ps -> Previews]
    BY <1>3, <1>4
  <2>3. ext \in Seq(Previews)
    BY <2>2, SequenceShape
  <2>4. \A p \in DOMAIN ps : ps[p].end # "" => ext[p] = ps[p]
    OBVIOUS
  <2>5. DOMAIN ext = DOMAIN ps
    OBVIOUS
  <2> QED BY <2>1, <2>3, <2>4, <2>5
<1>6. CASE open = {}
  <2>1. Upserted(ps, c, t) = Append(ps, new)
    BY <1>6 DEF Upserted
  <2>2. /\ Append(ps, new) \in Seq(Previews)
        /\ DOMAIN ps \subseteq DOMAIN Append(ps, new)
        /\ \A p \in DOMAIN ps : Append(ps, new)[p] = ps[p]
    <3> HIDE DEF new
    <3> QED BY <1>1, AppendShape
  <2> HIDE DEF new
  <2> QED BY <2>1, <2>2
<1> QED BY <1>5, <1>6

-----------------------------------------------------------------------------
(* The steps.                                                              *)

ClosedKept == \A p \in DOMAIN pv : pv[p].end # "" => pv'[p] = pv[p]

SettersKept ==
  \A x \in Keys : vars[x] # NoOne /\ vars'[x] # vars[x] => vars'[x] = NoOne /\ Live(vars[x])

\* What every step has to show.
StepOK == AccessInv' /\ ClosedKept /\ SettersKept

(* Tags that are only removed, while nobody who keeps one leaves.          *)
LEMMA TagsKept ==
  ASSUME TagsOfMembers, tags' \subseteq tags, late' = late,
         \A x \in tags' : Live(x[1]) => Live(x[1])'
  PROVE  TagsOfMembers'
BY DEF TagsOfMembers

(* The first half of every call only reads.                                *)
LEMMA BeginStep ==
  ASSUME AccessInv, NEW k \in Calls, NEW r \in CallRecord, Begin(k, r),
         UNCHANGED <<dlg, pv, tags, vars, now, late>>,
         r.op \in {"remove", "transfer"} => r.dialog \in DOMAIN dlg
  PROVE  StepOK
<1>1. CallTypes'
  BY BeginTypes DEF AccessInv
<1>2. RowTypes' /\ VarTypes'
  BY DEF AccessInv, RowTypes, VarTypes
<1>3. TagsOfMembers'
  BY DEF AccessInv, TagsOfMembers, Live, LiveDialogs
<1>4. ClosedKept /\ SettersKept
  BY DEF ClosedKept, SettersKept
<1> QED BY <1>1, <1>2, <1>3, <1>4 DEF StepOK, AccessInv

(* Calls that change members and tags, and previews at most as allowed.    *)
LEMMA CommitStep ==
  ASSUME AccessInv, NEW k \in Calls, Return(k), UNCHANGED <<vars, now>>,
         dlg' \in Seq(Dialogs), DOMAIN dlg \subseteq DOMAIN dlg',
         pv' \in Seq(Previews), ClosedKept, tags' \subseteq Contacts \X Tags, TagsOfMembers'
  PROVE  StepOK
<1>1. CallTypes'
  BY ReturnTypes DEF AccessInv
<1>2. RowTypes' /\ VarTypes'
  BY DEF AccessInv, RowTypes, VarTypes
<1>3. SettersKept
  BY DEF SettersKept
<1> QED BY <1>1, <1>2, <1>3 DEF StepOK, AccessInv

LEMMA SamePreviews ==
  ASSUME pv' = pv
  PROVE  ClosedKept
BY DEF ClosedKept

LEMMA SameDialogs ==
  ASSUME dlg' = dlg
  PROVE  \A x : Live(x)' = Live(x)
BY DEF Live, LiveDialogs

(* addMemberToChat *)
LEMMA AddStep ==
  ASSUME AccessInv, NEW k \in Calls, AddCommits(k)
  PROVE  StepOK
<1> DEFINE c == call[k].contact
<1>0. c \in Contacts /\ dlg \in Seq(Dialogs) /\ pv \in Seq(Previews) /\ tags \subseteq Contacts \X Tags
  BY CallFields DEF AccessInv, CallTypes, RowTypes, AddCommits
<1>1. Return(k) /\ UNCHANGED <<pv, vars, now, late>>
  BY DEF AddCommits
<1>2. CASE dlg' = dlg /\ tags' = tags
  <2>1. TagsOfMembers'
    BY <1>1, <1>2, SameDialogs, TagsKept DEF AccessInv
  <2> QED BY <1>0, <1>1, <1>2, <2>1, SamePreviews, CommitStep
<1>3. CASE dlg' = Append(dlg, NewDialog(c, FALSE)) /\ tags' \in SystemMessage(tags, Members \cup {c})
  <2>1. tags' \subseteq tags
    BY <1>3, ClearShrinks
  <2>2. dlg' \in Seq(Dialogs) /\ DOMAIN dlg \subseteq DOMAIN dlg' /\ \A x : Live(x) => Live(x)'
    BY <1>0, <1>3, AppendDialog
  <2>3. TagsOfMembers'
    BY <1>1, <2>1, <2>2, TagsKept DEF AccessInv
  <2>4. tags' \subseteq Contacts \X Tags
    BY <1>0, <2>1
  <2> QED BY <1>0, <1>1, <2>2, <2>3, <2>4, SamePreviews, CommitStep
<1> QED BY <1>2, <1>3 DEF AddCommits

(* RemoveMember: the tags of the one contact that leaves go first.         *)
LEMMA RemoveStep ==
  ASSUME AccessInv, NEW k \in Calls, RemoveCommits(k)
  PROVE  StepOK
<1> DEFINE d == call[k].dialog
           c == dlg[d].contact
<1>0. d \in DOMAIN dlg /\ dlg \in Seq(Dialogs) /\ pv \in Seq(Previews) /\ tags \subseteq Contacts \X Tags
  BY DEF AccessInv, CallTypes, RowTypes, RemoveCommits
<1>1. Return(k) /\ UNCHANGED <<pv, vars, now, late>> /\ dlg' = Deleted(dlg, d)
      /\ tags' \in SystemMessage(OnMemberLeft(tags, c), Members)
  BY DEF RemoveCommits
<1>2. dlg' \in Seq(Dialogs) /\ DOMAIN dlg' = DOMAIN dlg /\ \A e \in DOMAIN dlg : e # d => dlg'[e] = dlg[e]
  BY <1>0, <1>1, DeleteDialog
<1>3. \A x : x # c /\ Live(x) => Live(x)'
  BY <1>2 DEF Live, LiveDialogs
<1>4. tags' \subseteq OnMemberLeft(tags, c)
  BY <1>1, ClearShrinks
<1>5. tags' \subseteq tags /\ \A x \in tags' : x[1] # c
  BY <1>0, <1>4, LeftWithoutTags
<1>6. TagsOfMembers'
  BY <1>1, <1>3, <1>5, TagsKept DEF AccessInv
<1>7. tags' \subseteq Contacts \X Tags
  BY <1>0, <1>5
<1> QED BY <1>0, <1>1, <1>2, <1>6, <1>7, SamePreviews, CommitStep

(* Transfer: the initiator leaves and the target joins in one transaction. *)
LEMMA TransferStep ==
  ASSUME AccessInv, NEW k \in Calls, TransferCommits(k)
  PROVE  StepOK
<1> DEFINE d == call[k].dialog
           c == call[k].contact
           i == dlg[d].contact
<1>0. /\ d \in DOMAIN dlg /\ c \in Contacts
      /\ dlg \in Seq(Dialogs) /\ pv \in Seq(Previews) /\ tags \subseteq Contacts \X Tags
  BY CallFields DEF AccessInv, CallTypes, RowTypes, TransferCommits
<1>1. Return(k) /\ UNCHANGED <<pv, vars, now, late>>
  BY DEF TransferCommits
<1>2. CASE dlg' = dlg /\ tags' = tags
  <2>1. TagsOfMembers'
    BY <1>1, <1>2, SameDialogs, TagsKept DEF AccessInv
  <2> QED BY <1>0, <1>1, <1>2, <2>1, SamePreviews, CommitStep
<1>3. CASE /\ dlg' = Append(Deleted(dlg, d), NewDialog(c, FALSE))
           /\ tags' = Cleared(OnMemberLeft(tags, i), (Members \cup {c}) \ {i})
  <2>1. /\ Deleted(dlg, d) \in Seq(Dialogs) /\ DOMAIN Deleted(dlg, d) = DOMAIN dlg
        /\ \A e \in DOMAIN dlg : e # d => Deleted(dlg, d)[e] = dlg[e]
    BY <1>0, DeleteDialog
  <2>2. NewDialog(c, FALSE) \in Dialogs
    BY <1>0 DEF NewDialog, Dialogs
  <2>3. /\ dlg' \in Seq(Dialogs) /\ DOMAIN dlg \subseteq DOMAIN dlg'
        /\ \A e \in DOMAIN dlg : dlg'[e] = Deleted(dlg, d)[e]
    <3> DEFINE ds == Deleted(dlg, d)
               n  == NewDialog(c, FALSE)
    <3>1. ds \in Seq(Dialogs) /\ DOMAIN ds = DOMAIN dlg /\ n \in Dialogs /\ dlg' = Append(ds, n)
      BY <1>3, <2>1, <2>2
    <3> HIDE DEF ds, n
    <3>2. /\ Append(ds, n) \in Seq(Dialogs) /\ DOMAIN ds \subseteq DOMAIN Append(ds, n)
          /\ \A e \in DOMAIN ds : Append(ds, n)[e] = ds[e]
      BY <3>1, AppendShape
    <3>3. /\ dlg' \in Seq(Dialogs) /\ DOMAIN dlg \subseteq DOMAIN dlg'
          /\ \A e \in DOMAIN dlg : dlg'[e] = ds[e]
      BY <3>1, <3>2
    <3> QED BY <3>3 DEF ds
  <2>4. \A x : x # i /\ Live(x) => Live(x)'
    BY <2>1, <2>3 DEF Live, LiveDialogs
  <2>5. tags' \subseteq tags /\ \A x \in tags' : x[1] # i
    BY <1>0, <1>3, ClearShrinks, LeftWithoutTags
  <2>6. TagsOfMembers'
    BY <1>1, <2>4, <2>5, TagsKept DEF AccessInv
  <2>7. tags' \subseteq Contacts \X Tags
    BY <1>0, <2>5
  <2> QED BY <1>0, <1>1, <2>3, <2>6, <2>7, SamePreviews, CommitStep
<1> QED BY <1>2, <1>3 DEF TransferCommits

(* GivePreview *)
LEMMA GiveStep ==
  ASSUME AccessInv, NEW k \in Calls, GiveCommits(k)
  PROVE  StepOK
<1> DEFINE c  == call[k].contact
           at == call[k].at
           es == Expired(pv, c, at)
<1>0. /\ c \in Contacts /\ at \in Nat
      /\ dlg \in Seq(Dialogs) /\ pv \in Seq(Previews) /\ tags \subseteq Contacts \X Tags
  BY CallFields DEF AccessInv, CallTypes, RowTypes, GiveCommits
<1>1. Return(k) /\ UNCHANGED <<dlg, tags, vars, now, late>>
  BY DEF GiveCommits
<1>2. TagsOfMembers'
  BY <1>1, SameDialogs, TagsKept DEF AccessInv
<1>3. CASE pv' = pv
  BY <1>0, <1>1, <1>2, <1>3, SamePreviews, CommitStep
<1>4. CASE pv' = Upserted(es, c, at)
  <2> HIDE DEF c, at
  <2>1. /\ es \in Seq(Previews) /\ DOMAIN es = DOMAIN pv
        /\ \A p \in DOMAIN pv : pv[p].end # "" => es[p] = pv[p]
    <3>1. pv \in Seq(Previews) /\ c \in Contacts /\ at \in Nat
      BY <1>0
    <3>2. /\ Expired(pv, c, at) \in Seq(Previews) /\ DOMAIN Expired(pv, c, at) = DOMAIN pv
          /\ \A p \in DOMAIN pv : pv[p].end # "" => Expired(pv, c, at)[p] = pv[p]
      BY <3>1, ExpireKeeps
    <3> QED BY <3>2, Zenon
  <2> HIDE DEF es
  <2>2. /\ pv' \in Seq(Previews)
        /\ \A p \in DOMAIN es : es[p].end # "" => pv'[p] = es[p]
    <3>1. /\ Upserted(es, c, at) \in Seq(Previews)
          /\ \A p \in DOMAIN es : es[p].end # "" => Upserted(es, c, at)[p] = es[p]
      BY <1>0, <2>1, UpsertKeeps
    <3> QED BY <1>4, <3>1
  <2>3. ClosedKept
    BY <2>1, <2>2 DEF ClosedKept
  <2> QED BY <1>0, <1>1, <1>2, <2>2, <2>3, CommitStep
<1> QED BY <1>3, <1>4 DEF GiveCommits

(* RemoveFromPreview *)
LEMMA UnpreviewStep ==
  ASSUME AccessInv, NEW k \in Calls, UnpreviewCommits(k)
  PROVE  StepOK
<1>0. dlg \in Seq(Dialogs) /\ pv \in Seq(Previews) /\ tags \subseteq Contacts \X Tags
  BY DEF AccessInv, RowTypes
<1>1. Return(k) /\ UNCHANGED <<dlg, tags, vars, now, late>>
      /\ pv' = Revoked(pv, Active(call[k].contact, call[k].at), "remove")
  BY DEF UnpreviewCommits
<1>2. TagsOfMembers'
  BY <1>1, SameDialogs, TagsKept DEF AccessInv
<1>3. "remove" \in Ends
  BY DEF Ends
<1>4. pv' \in Seq(Previews) /\ ClosedKept
  <2> DEFINE c  == call[k].contact
             at == call[k].at
             ps == Revoked(pv, Active(c, at), "remove")
  <2>1. ps \in Seq(Previews) /\ \A p \in DOMAIN pv : pv[p].end # "" => ps[p] = pv[p]
    <3> HIDE DEF c, at
    <3> QED BY <1>0, <1>3, RevokeKeeps
  <2>2. pv' = ps
    BY <1>1
  <2> HIDE DEF ps
  <2> QED BY <2>1, <2>2 DEF ClosedKept
<1> QED BY <1>0, <1>1, <1>2, <1>4, CommitStep

(* UpgradePreviewToFullMember *)
LEMMA UpgradeStep ==
  ASSUME AccessInv, NEW k \in Calls, UpgradeCommits(k)
  PROVE  StepOK
<1> DEFINE c  == call[k].contact
           at == call[k].at
           created == Active(c, at) # {} /\ CanCreate(dlg, c)
<1>0. /\ c \in Contacts
      /\ dlg \in Seq(Dialogs) /\ pv \in Seq(Previews) /\ tags \subseteq Contacts \X Tags
  BY CallFields DEF AccessInv, CallTypes, RowTypes, UpgradeCommits
<1>1. Return(k) /\ UNCHANGED <<vars, now, late>>
  BY DEF UpgradeCommits
<1>2. CASE ~created
  <2>1. dlg' = dlg /\ tags' = tags /\ pv' = pv
    BY <1>2 DEF UpgradeCommits, Consumed
  <2>2. TagsOfMembers'
    BY <1>1, <2>1, SameDialogs, TagsKept DEF AccessInv
  <2> QED BY <1>0, <1>1, <2>1, <2>2, SamePreviews, CommitStep
<1>3. CASE created
  <2>1. /\ dlg' = Append(dlg, NewDialog(c, TRUE)) /\ tags' \in SystemMessage(tags, Members \cup {c})
        /\ pv' = Revoked(pv, Active(c, at), "upgrade")
    BY <1>3 DEF UpgradeCommits, Consumed
  <2>2. tags' \subseteq tags
    BY <2>1, ClearShrinks
  <2>3. dlg' \in Seq(Dialogs) /\ DOMAIN dlg \subseteq DOMAIN dlg' /\ \A x : Live(x) => Live(x)'
    BY <1>0, <2>1, AppendDialog
  <2>4. TagsOfMembers'
    BY <1>1, <2>2, <2>3, TagsKept DEF AccessInv
  <2>5. "upgrade" \in Ends
    BY DEF Ends
  <2>6. pv' \in Seq(Previews) /\ ClosedKept
    <3> DEFINE ps == Revoked(pv, Active(c, at), "upgrade")
    <3>1. ps \in Seq(Previews) /\ \A p \in DOMAIN pv : pv[p].end # "" => ps[p] = pv[p]
      <4> HIDE DEF c, at
      <4> QED BY <1>0, <2>5, RevokeKeeps
    <3>2. pv' = ps
      BY <2>1
    <3> HIDE DEF ps
    <3> QED BY <3>1, <3>2 DEF ClosedKept
  <2>7. tags' \subseteq Contacts \X Tags
    BY <1>0, <2>2
  <2> QED BY <1>0, <1>1, <2>3, <2>4, <2>6, <2>7, CommitStep
<1> QED BY <1>2, <1>3

(* AddTag: the one way to tag a contact that has left.                     *)
LEMMA TagStep ==
  ASSUME AccessInv, NEW k \in Calls, TagCommits(k)
  PROVE  StepOK
<1> DEFINE c == call[k].contact
<1>0. /\ c \in Contacts /\ call[k].tag \in Tags
      /\ dlg \in Seq(Dialogs) /\ pv \in Seq(Previews) /\ tags \subseteq Contacts \X Tags
  BY CallFields DEF AccessInv, CallTypes, RowTypes, TagCommits
<1>1. /\ Return(k) /\ UNCHANGED <<dlg, pv, vars, now>>
      /\ tags' = tags \cup {<<c, call[k].tag>>}
      /\ late' = IF Live(c) THEN late ELSE late \cup {c}
  BY DEF TagCommits
<1>2. \A x \in tags : Live(x[1]) \/ x[1] \in late
  BY DEF AccessInv, TagsOfMembers
<1>3. \A x \in tags' : Live(x[1]) \/ x[1] \in late'
  BY <1>1, <1>2
<1>4. TagsOfMembers'
  BY <1>1, <1>3, SameDialogs DEF TagsOfMembers
<1>5. tags' \subseteq Contacts \X Tags
  BY <1>0, <1>1
<1> QED BY <1>0, <1>1, <1>4, <1>5, SamePreviews, CommitStep

(* Statements that are a call of their own.                                *)
LEMMA SingleStep ==
  ASSUME AccessInv,
         \/ \E x \in tags : RemoveTag(x)
         \/ \E recipients \in SUBSET Guests : Send(recipients)
         \/ Tick
         \/ UNCHANGED state
  PROVE  StepOK
<1>1. UNCHANGED <<dlg, pv, vars, call, late>> /\ tags' \subseteq tags /\ now' \in Nat
  BY ClearShrinks DEF RemoveTag, Send, Tick, state, AccessInv, RowTypes
<1>2. TagsOfMembers'
  BY <1>1, SameDialogs, TagsKept DEF AccessInv
<1>3. RowTypes' /\ CallTypes' /\ VarTypes'
  BY <1>1 DEF AccessInv, RowTypes, CallTypes, VarTypes
<1>4. ClosedKept /\ SettersKept
  BY <1>1 DEF ClosedKept, SettersKept
<1> QED BY <1>2, <1>3, <1>4 DEF StepOK, AccessInv

(* Set and Flush: a key changes hands only through nobody.                 *)
LEMMA VariableStep ==
  ASSUME AccessInv, NEW c \in Contacts, NEW K \in SUBSET Keys, SetVariables(c, K) \/ FlushVariables(c, K)
  PROVE  StepOK
<1>1. UNCHANGED <<dlg, pv, tags, now, call, late>>
  BY DEF SetVariables, FlushVariables
<1>2. TagsOfMembers'
  BY <1>1, SameDialogs, TagsKept DEF AccessInv
<1>3. RowTypes' /\ CallTypes' /\ ClosedKept
  BY <1>1 DEF AccessInv, RowTypes, CallTypes, ClosedKept
<1>4. CASE SetVariables(c, K)
  <2>1. MaySet(c, K) /\ vars' = [x \in Keys |-> IF x \in K THEN c ELSE vars[x]]
    BY <1>4 DEF SetVariables
  <2>2. VarTypes'
    BY <2>1 DEF AccessInv, VarTypes
  <2>3. SettersKept
    BY <2>1 DEF SettersKept, MaySet
  <2> QED BY <1>2, <1>3, <2>2, <2>3 DEF StepOK, AccessInv
<1>5. CASE FlushVariables(c, K)
  <2>1. Live(c) /\ vars' = [x \in Keys |-> IF x \in K /\ vars[x] = c THEN NoOne ELSE vars[x]]
    BY <1>5 DEF FlushVariables
  <2>2. VarTypes'
    BY <2>1 DEF AccessInv, VarTypes
  <2>3. SettersKept
    BY <2>1 DEF SettersKept
  <2> QED BY <1>2, <1>3, <2>2, <2>3 DEF StepOK, AccessInv
<1> QED BY <1>4, <1>5

(* Every call's first half.                                                *)
LEMMA BeginSteps ==
  ASSUME AccessInv, NEW k \in Calls,
         \/ \E c \in Contacts : AddMember(k, c)
         \/ \E d \in DOMAIN dlg : RemoveMember(k, d)
         \/ \E d \in DOMAIN dlg, c \in Contacts : Transfer(k, d, c)
         \/ \E c \in Guests : \/ GivePreview(k, c) \/ RemoveFromPreview(k, c)
                              \/ UpgradePreviewToFullMember(k, c)
         \/ \E c \in Guests, t \in Tags : AddTag(k, c, t)
  PROVE  StepOK
<1>0. now \in Nat /\ Guests \subseteq Contacts /\ DOMAIN dlg \subseteq Nat
  BY AccessAssumption DEF AccessInv, RowTypes
<1>1. ASSUME NEW c \in Contacts, AddMember(k, c)
      PROVE  StepOK
  <2>1. [op |-> "add", contact |-> c] \in CallRecord
    BY DEF CallRecord
  <2> QED BY <1>1, <2>1, BeginStep DEF AddMember
<1>2. ASSUME NEW d \in DOMAIN dlg, RemoveMember(k, d)
      PROVE  StepOK
  <2>1. [op |-> "remove", dialog |-> d] \in CallRecord
    BY <1>0 DEF CallRecord
  <2> QED BY <1>2, <2>1, BeginStep DEF RemoveMember
<1>3. ASSUME NEW d \in DOMAIN dlg, NEW c \in Contacts, Transfer(k, d, c)
      PROVE  StepOK
  <2>1. [op |-> "transfer", dialog |-> d, contact |-> c] \in CallRecord
    BY <1>0 DEF CallRecord
  <2> QED BY <1>3, <2>1, BeginStep DEF Transfer
<1>4. ASSUME NEW c \in Guests, NEW o \in {"give", "unpreview", "upgrade"},
             Begin(k, [op |-> o, contact |-> c, at |-> now]),
             UNCHANGED <<dlg, pv, tags, vars, now, late>>
      PROVE  StepOK
  <2>1. [op |-> o, contact |-> c, at |-> now] \in CallRecord
    BY <1>0 DEF CallRecord
  <2> QED BY <1>4, <2>1, BeginStep
<1>5. ASSUME NEW c \in Guests, NEW t \in Tags, AddTag(k, c, t)
      PROVE  StepOK
  <2>1. [op |-> "tag", contact |-> c, tag |-> t] \in CallRecord
    BY <1>0 DEF CallRecord
  <2> QED BY <1>5, <2>1, BeginStep DEF AddTag
<1> QED
  BY <1>1, <1>2, <1>3, <1>4, <1>5 DEF GivePreview, RemoveFromPreview, UpgradePreviewToFullMember

LEMMA StepLemma ==
  ASSUME AccessInv, [Next]_state
  PROVE  StepOK
<1>1. ASSUME NEW k \in Calls, Member(k) \/ Preview(k) \/ Tag(k)
      PROVE  StepOK
  BY <1>1, BeginSteps, AddStep, RemoveStep, TransferStep, GiveStep, UnpreviewStep, UpgradeStep, TagStep
     DEF Member, Preview, Tag
<1>2. ASSUME NEW c \in Contacts, NEW K \in SUBSET Keys \ {{}}, SetVariables(c, K) \/ FlushVariables(c, K)
      PROVE  StepOK
  BY <1>2, VariableStep
<1> QED BY <1>1, <1>2, SingleStep DEF Next

LEMMA InitLemma == Init => AccessInv
<1> SUFFICES ASSUME Init PROVE AccessInv
  OBVIOUS
<1>1. NewDialog(Creator, FALSE) \in Dialogs
  BY AccessAssumption DEF NewDialog, Dialogs
<1>2. RowTypes
  <2> DEFINE n == NewDialog(Creator, FALSE)
  <2>1. dlg = <<n>> /\ n \in Dialogs
    BY <1>1 DEF Init
  <2> HIDE DEF n
  <2>2. dlg \in Seq(Dialogs)
    BY <2>1
  <2>3. pv \in Seq(Previews)
    BY DEF Init
  <2> QED BY <2>2, <2>3 DEF Init, RowTypes
<1>3. Idle \in CallRecord /\ Idle.op = "idle"
  BY DEF CallRecord, Idle
<1>4. CallTypes
  BY <1>3 DEF Init, CallTypes
<1>5. VarTypes /\ TagsOfMembers
  BY DEF Init, VarTypes, TagsOfMembers
<1> QED BY <1>2, <1>4, <1>5 DEF AccessInv

-----------------------------------------------------------------------------
(* The inductive invariant holds in every reachable state: types, calls    *)
(* that name existing dialogs, and the tags of members.                    *)
THEOREM AccessInvariance == Spec => []AccessInv
<1>1. AccessInv /\ [Next]_state => AccessInv'
  BY StepLemma DEF StepOK
<1> QED BY <1>1, InitLemma, PTL DEF Spec

(* A contact that is no member has a tag only if its own AddTag wrote      *)
(* after it had left, for any number of concurrent calls (OnMemberLeft).   *)
THEOREM TagsGoWithMembers == Spec => []TagsOfMembers
<1>1. AccessInv => TagsOfMembers
  BY DEF AccessInv
<1> QED BY <1>1, AccessInvariance, PTL

(* No call, however late, reopens, extends or re-labels a closed preview   *)
(* (Upsert, Revoke).                                                       *)
THEOREM ClosedPreviewsFinal == Spec => ClosedStaysClosed
<1>1. AccessInv /\ [Next]_state => [\A p \in DOMAIN pv : pv[p].end # "" => pv'[p] = pv[p]]_state
  BY StepLemma DEF StepOK, ClosedKept
<1> QED BY <1>1, AccessInvariance, PTL DEF Spec, ClosedStaysClosed

(* A variable passes to another member only after its setter gave it up    *)
(* while a member (prepareThreadVariablesSetQuery and FlushQuery).         *)
THEOREM VariablesKept == Spec => KeysKept
<1>1. AccessInv /\ [Next]_state =>
        [\A x \in Keys :
           vars[x] # NoOne /\ vars'[x] # vars[x] => vars'[x] = NoOne /\ Live(vars[x])]_state
  BY StepLemma DEF StepOK, SettersKept
<1> QED BY <1>1, AccessInvariance, PTL DEF Spec, KeysKept

-----------------------------------------------------------------------------
(* The unique indexes and the upgrades.                                    *)

OneLive(ds) ==
  \A d, e \in DOMAIN ds : ds[d].contact = ds[e].contact /\ ds[d].live /\ ds[e].live => d = e

OneOpen(ps) ==
  \A p, q \in DOMAIN ps : ps[p].contact = ps[q].contact /\ ps[p].end = "" /\ ps[q].end = "" => p = q

UpDialogs(ds, c) == {d \in DOMAIN ds : ds[d].contact = c /\ ds[d].up}

UpPreviews(ps, c) == {p \in DOMAIN ps : ps[p].contact = c /\ ps[p].end = "upgrade"}

UpgradesMatch(ds, ps) ==
  \A c \in Contacts : Cardinality(UpDialogs(ds, c)) = Cardinality(UpPreviews(ps, c))

Bounds == Len(dlg) <= MaxDialogs /\ Len(pv) <= MaxPreviews /\ now <= MaxTime /\ late \subseteq Contacts

UniqueInv == OneLive(dlg) /\ OneOpen(pv) /\ UpgradesMatch(dlg, pv) /\ Bounds

LEMMA SeqFacts ==
  ASSUME NEW S, NEW s \in Seq(S)
  PROVE  Len(s) \in Nat /\ DOMAIN s = 1..Len(s) /\ \A i \in DOMAIN s : s[i] \in S
OBVIOUS

LEMMA SameLength ==
  ASSUME NEW S, NEW s \in Seq(S), NEW f \in [DOMAIN s -> S]
  PROVE  f \in Seq(S) /\ Len(f) = Len(s)
<1>1. Len(s) \in Nat /\ DOMAIN s = 1..Len(s)
  OBVIOUS
<1> QED BY <1>1

LEMMA AppendFacts ==
  ASSUME NEW S, NEW s \in Seq(S), NEW x \in S, NEW n, n = Len(s) + 1
  PROVE  /\ DOMAIN Append(s, x) = DOMAIN s \cup {n} /\ n \notin DOMAIN s
         /\ Append(s, x)[n] = x /\ \A i \in DOMAIN s : Append(s, x)[i] = s[i]
OBVIOUS

(* The partial unique index on live dialogs (Create).                      *)
\* r is ds with the new row w.
Created(ds, w, r) ==
  /\ OneLive(r) /\ Len(r) <= MaxDialogs
  /\ \A x : ~w.up \/ x # w.contact => UpDialogs(r, x) = UpDialogs(ds, x)
  /\ w.up => UpDialogs(r, w.contact) = UpDialogs(ds, w.contact) \cup {Len(ds) + 1}

LEMMA CreateDialog ==
  ASSUME NEW ds \in Seq(Dialogs), NEW w \in Dialogs, w.live, OneLive(ds), CanCreate(ds, w.contact)
  PROVE  Created(ds, w, Append(ds, w))
<1> DEFINE r == Append(ds, w)
           n == Len(ds) + 1
<1>1. /\ Len(ds) \in Nat /\ DOMAIN ds = 1..Len(ds) /\ DOMAIN r = 1..n /\ Len(r) = n
      /\ \A d \in 1..Len(ds) : r[d] = ds[d]
      /\ r[n] = w
  OBVIOUS
<1> HIDE DEF r
<1>2. n \notin DOMAIN ds /\ DOMAIN r = DOMAIN ds \cup {n}
  BY <1>1
<1>3. OneLive(r)
  BY <1>1, <1>2 DEF OneLive, CanCreate
<1>4. Len(r) <= MaxDialogs
  BY <1>1, AccessAssumption DEF CanCreate
<1>5. \A x : ~w.up \/ x # w.contact => UpDialogs(r, x) = UpDialogs(ds, x)
  BY <1>1, <1>2 DEF UpDialogs
<1>6. w.up => UpDialogs(r, w.contact) = UpDialogs(ds, w.contact) \cup {n}
  BY <1>1, <1>2 DEF UpDialogs
<1> QED BY <1>3, <1>4, <1>5, <1>6 DEF Created, r

LEMMA NewRow ==
  ASSUME NEW c \in Contacts
  PROVE  /\ \E w \in Dialogs : w = NewDialog(c, FALSE) /\ w.contact = c /\ w.live /\ ~w.up
         /\ \E w \in Dialogs : w = NewDialog(c, TRUE) /\ w.contact = c /\ w.live /\ w.up
<1>1. NewDialog(c, FALSE) \in Dialogs /\ NewDialog(c, FALSE).contact = c
      /\ NewDialog(c, FALSE).live /\ ~NewDialog(c, FALSE).up
  BY DEF NewDialog, Dialogs
<1>2. NewDialog(c, TRUE) \in Dialogs /\ NewDialog(c, TRUE).contact = c
      /\ NewDialog(c, TRUE).live /\ NewDialog(c, TRUE).up
  BY DEF NewDialog, Dialogs
<1> QED BY <1>1, <1>2

LEMMA DropDialog ==
  ASSUME NEW ds \in Seq(Dialogs), NEW d \in DOMAIN ds, OneLive(ds), NEW r, r = Deleted(ds, d)
  PROVE  /\ r \in Seq(Dialogs) /\ Len(r) = Len(ds) /\ OneLive(r)
         /\ \A x : UpDialogs(r, x) = UpDialogs(ds, x)
         /\ \A x : CanCreate(ds, x) => CanCreate(r, x)
<1>1. ds[d] \in Dialogs
  OBVIOUS
<1>2. PICK n : n = [ds[d] EXCEPT !.live = FALSE]
  OBVIOUS
<1>3. n \in Dialogs /\ n.contact = ds[d].contact /\ n.up = ds[d].up /\ n.live = FALSE
  BY <1>1, <1>2 DEF Dialogs
<1>4. r = [ds EXCEPT ![d] = n]
  BY <1>2 DEF Deleted
<1>5. r \in Seq(Dialogs) /\ DOMAIN r = DOMAIN ds /\ Len(r) = Len(ds)
      /\ \A e \in DOMAIN ds : r[e] = IF e = d THEN n ELSE ds[e]
  BY <1>3, <1>4
<1>6. OneLive(r)
  BY <1>3, <1>5 DEF OneLive
<1>7. \A x : UpDialogs(r, x) = UpDialogs(ds, x)
  BY <1>3, <1>5 DEF UpDialogs
<1>8. \A x : CanCreate(ds, x) => CanCreate(r, x)
  BY <1>3, <1>5 DEF CanCreate
<1> QED BY <1>5, <1>6, <1>7, <1>8

(* Previews that were open are closed; nothing else changes.               *)
\* r is ps with the rows P closed for this reason.
Closed(ps, P, why, r) ==
  /\ r \in Seq(Previews) /\ DOMAIN r = DOMAIN ps /\ Len(r) = Len(ps) /\ OneOpen(r)
  /\ \A p \in DOMAIN ps : r[p].contact = ps[p].contact /\ r[p].end = IF p \in P THEN why ELSE ps[p].end

LEMMA ClosePreviews ==
  ASSUME NEW ps \in Seq(Previews), NEW P, NEW why \in Ends, why # "", OneOpen(ps)
  PROVE  Closed(ps, P, why, Revoked(ps, P, why))
<1> DEFINE r == Revoked(ps, P, why)
<1>0. 0 \in Nat
  OBVIOUS
<1>1. \A p \in DOMAIN ps : ps[p] \in Previews
  BY SeqFacts
<1>2. \A p \in DOMAIN ps : [ps[p] EXCEPT !.end = why] \in Previews
  BY <1>0, <1>1, PreviewRow
<1>3. \A p \in DOMAIN ps : [ps[p] EXCEPT !.end = why].contact = ps[p].contact /\ [ps[p] EXCEPT !.end = why].end = why
  BY <1>1 DEF Previews
<1>4. r \in [DOMAIN ps -> Previews] /\ \A p \in DOMAIN ps : r[p] = IF p \in P THEN [ps[p] EXCEPT !.end = why] ELSE ps[p]
  BY <1>1, <1>2 DEF Revoked
<1> HIDE DEF r
<1>5. r \in Seq(Previews) /\ Len(r) = Len(ps)
  BY <1>4, SameLength
<1>6. \A p \in DOMAIN ps : r[p].contact = ps[p].contact /\ r[p].end = IF p \in P THEN why ELSE ps[p].end
  BY <1>3, <1>4
<1>7. DOMAIN r = DOMAIN ps
  BY <1>4
<1>8. OneOpen(r)
  BY <1>6, <1>7 DEF OneOpen
<1> QED BY <1>5, <1>6, <1>7, <1>8 DEF Closed, r

(* The two statements of Upsert leave one open preview at most.            *)
LEMMA RenewPreviews ==
  ASSUME NEW ps \in Seq(Previews), NEW c \in Contacts, NEW t \in Nat, OneOpen(ps)
  PROVE  LET r == Upserted(Expired(ps, c, t), c, t) IN
         OneOpen(r) /\ \A x : UpPreviews(r, x) = UpPreviews(ps, x)
<1>1. PICK qs : qs = Expired(ps, c, t)
  OBVIOUS
<1>2. qs \in Seq(Previews) /\ DOMAIN qs = DOMAIN ps
  BY <1>1, ExpireKeeps
<1>3. \A p \in DOMAIN ps : /\ qs[p].contact = ps[p].contact
                           /\ qs[p].end = ps[p].end \/ (ps[p].end = "" /\ qs[p].end = "expired")
  <2>1. \A p \in DOMAIN ps : ps[p] \in Previews
    OBVIOUS
  <2>2. \A p \in DOMAIN ps : [ps[p] EXCEPT !.end = "expired"].contact = ps[p].contact
                             /\ [ps[p] EXCEPT !.end = "expired"].end = "expired"
    BY <2>1 DEF Previews
  <2> QED BY <1>1, <2>2 DEF Expired
<1>4. OneOpen(qs) /\ \A x : UpPreviews(qs, x) = UpPreviews(ps, x)
  <2>1. \A p \in DOMAIN ps : /\ qs[p].end = "" => ps[p].end = ""
                             /\ qs[p].end = "upgrade" <=> ps[p].end = "upgrade"
    BY <1>3
  <2>2. OneOpen(qs)
    <3> SUFFICES ASSUME NEW p \in DOMAIN ps, NEW q \in DOMAIN ps,
                        qs[p].contact = qs[q].contact, qs[p].end = "", qs[q].end = ""
                 PROVE  p = q
      BY <1>2 DEF OneOpen
    <3>1. ps[p].contact = ps[q].contact /\ ps[p].end = "" /\ ps[q].end = ""
      BY <1>3, <2>1
    <3> QED BY <3>1 DEF OneOpen
  <2>3. \A x : UpPreviews(qs, x) = UpPreviews(ps, x)
    <3> SUFFICES ASSUME NEW x PROVE UpPreviews(qs, x) = UpPreviews(ps, x)
      OBVIOUS
    <3>1. \A p \in DOMAIN ps : qs[p].contact = ps[p].contact
      BY <1>3
    <3> QED BY <1>2, <2>1, <3>1 DEF UpPreviews
  <2> QED BY <2>2, <2>3
<1> DEFINE open == {p \in DOMAIN qs : qs[p].contact = c /\ qs[p].end = ""}
           new  == [contact |-> c, made |-> t, exp |-> t + TTL, end |-> ""]
           ext  == [p \in DOMAIN qs |-> IF p \in open THEN [qs[p] EXCEPT !.exp = t + TTL] ELSE qs[p]]
<1>5. CASE open # {}
  <2>1. Upserted(qs, c, t) = ext
    BY <1>5 DEF Upserted
  <2>2. \A p \in DOMAIN qs : qs[p] \in Previews
    BY <1>2
  <2>3. \A p \in DOMAIN qs : [qs[p] EXCEPT !.exp = t + TTL].contact = qs[p].contact
                             /\ [qs[p] EXCEPT !.exp = t + TTL].end = qs[p].end
    BY <2>2 DEF Previews
  <2>4. DOMAIN ext = DOMAIN qs /\ \A p \in DOMAIN qs : ext[p].contact = qs[p].contact /\ ext[p].end = qs[p].end
    BY <2>3
  <2> HIDE DEF ext, open
  <2>5. OneOpen(ext)
    BY <1>4, <2>4 DEF OneOpen
  <2>6. \A x : UpPreviews(ext, x) = UpPreviews(qs, x)
    BY <2>4 DEF UpPreviews
  <2> QED BY <1>1, <1>4, <2>1, <2>5, <2>6
<1>6. CASE open = {}
  <2>1. Upserted(qs, c, t) = Append(qs, new)
    BY <1>6 DEF Upserted
  <2>2. new.contact = c /\ new.end = "" /\ new \in Previews
    BY NewPreview
  <2>3. \A p \in DOMAIN qs : ~(qs[p].contact = c /\ qs[p].end = "")
    BY <1>6
  <2>4. PICK r : r = Append(qs, new)
    OBVIOUS
  <2> HIDE DEF new, open, ext
  <2>5. PICK n \in Nat : n = Len(qs) + 1
    BY <1>2
  <2>6. DOMAIN r = DOMAIN qs \cup {n} /\ n \notin DOMAIN qs /\ r[n] = new /\ \A p \in DOMAIN qs : r[p] = qs[p]
    <3>1. PICK w \in Previews, us \in Seq(Previews) : w = new /\ us = qs
      BY <1>2, <2>2
    <3>2. /\ DOMAIN Append(us, w) = DOMAIN us \cup {n} /\ n \notin DOMAIN us
          /\ Append(us, w)[n] = w /\ \A i \in DOMAIN us : Append(us, w)[i] = us[i]
      BY <2>5, <3>1, AppendFacts
    <3> QED BY <2>4, <3>1, <3>2
  <2>7. OneOpen(r)
    BY <1>4, <2>2, <2>3, <2>6 DEF OneOpen
  <2>8. \A x : UpPreviews(r, x) = UpPreviews(qs, x)
    BY <2>2, <2>6 DEF UpPreviews
  <2> QED BY <1>1, <1>4, <2>1, <2>4, <2>7, <2>8
<1> QED BY <1>5, <1>6

LEMMA QuietUnique ==
  ASSUME UniqueInv, UNCHANGED <<dlg, pv>>, now' <= MaxTime, late' \subseteq Contacts
  PROVE  UniqueInv'
BY DEF UniqueInv, Bounds

(* Changes that no upgrade makes.                                          *)
LEMMA PlainUnique ==
  ASSUME UniqueInv, UNCHANGED <<now, late>>,
         OneLive(dlg'), Len(dlg') <= MaxDialogs, \A x : UpDialogs(dlg', x) = UpDialogs(dlg, x),
         OneOpen(pv'), Len(pv') <= MaxPreviews, \A x : UpPreviews(pv', x) = UpPreviews(pv, x)
  PROVE  UniqueInv'
<1>1. UpgradesMatch(dlg', pv')
  BY DEF UniqueInv, UpgradesMatch
<1> QED BY <1>1 DEF UniqueInv, Bounds

LEMMA AddUnique ==
  ASSUME AccessInv, UniqueInv, NEW k \in Calls, AddCommits(k)
  PROVE  UniqueInv'
<1>1. PICK c \in Contacts : c = call[k].contact
  BY CallFields DEF AccessInv, CallTypes, AddCommits
<1>2. UNCHANGED <<pv, now, late>> /\ dlg \in Seq(Dialogs)
  BY DEF AddCommits, AccessInv, RowTypes
<1>3. CASE CanCreate(dlg, c)
  <2>1. dlg' = Append(dlg, NewDialog(c, FALSE))
    BY <1>1, <1>3 DEF AddCommits
  <2>2. OneLive(dlg') /\ Len(dlg') <= MaxDialogs /\ \A x : UpDialogs(dlg', x) = UpDialogs(dlg, x)
    <3>1. PICK w \in Dialogs : w = NewDialog(c, FALSE) /\ w.contact = c /\ w.live /\ ~w.up
      BY NewRow
    <3>2. CanCreate(dlg, w.contact) /\ dlg' = Append(dlg, w) /\ OneLive(dlg)
      BY <1>3, <2>1, <3>1 DEF UniqueInv
    <3>3. Created(dlg, w, Append(dlg, w))
      BY <1>2, <3>1, <3>2, CreateDialog
    <3> QED BY <1>2, <3>1, <3>2, <3>3 DEF Created
  <2> QED BY <1>2, <2>2, PlainUnique DEF UniqueInv, Bounds
<1>4. CASE ~CanCreate(dlg, c)
  BY <1>1, <1>2, <1>4, QuietUnique DEF AddCommits, UniqueInv, Bounds
<1> QED BY <1>3, <1>4

LEMMA RemoveUnique ==
  ASSUME AccessInv, UniqueInv, NEW k \in Calls, RemoveCommits(k)
  PROVE  UniqueInv'
<1>1. PICK d \in DOMAIN dlg : d = call[k].dialog
  BY DEF AccessInv, CallTypes, RemoveCommits
<1>2. UNCHANGED <<pv, now, late>> /\ dlg \in Seq(Dialogs) /\ dlg' = Deleted(dlg, d)
  BY <1>1 DEF RemoveCommits, AccessInv, RowTypes
<1>3. OneLive(dlg') /\ Len(dlg') = Len(dlg) /\ \A x : UpDialogs(dlg', x) = UpDialogs(dlg, x)
  BY <1>2, DropDialog DEF UniqueInv
<1> QED BY <1>2, <1>3, PlainUnique DEF UniqueInv, Bounds

LEMMA TransferUnique ==
  ASSUME AccessInv, UniqueInv, NEW k \in Calls, TransferCommits(k)
  PROVE  UniqueInv'
<1>1. PICK d \in DOMAIN dlg, c \in Contacts : d = call[k].dialog /\ c = call[k].contact
  BY CallFields DEF AccessInv, CallTypes, TransferCommits
<1>2. UNCHANGED <<pv, now, late>> /\ dlg \in Seq(Dialogs)
  BY DEF TransferCommits, AccessInv, RowTypes
<1>3. CASE CanCreate(dlg, c)
  <2>1. PICK r : r = Deleted(dlg, d)
    OBVIOUS
  <2>2. r \in Seq(Dialogs) /\ OneLive(r) /\ CanCreate(r, c) /\ \A x : UpDialogs(r, x) = UpDialogs(dlg, x)
    BY <1>2, <1>3, <2>1, DropDialog DEF UniqueInv
  <2>3. dlg' = Append(r, NewDialog(c, FALSE))
    BY <1>1, <1>3, <2>1 DEF TransferCommits
  <2>4. OneLive(dlg') /\ Len(dlg') <= MaxDialogs /\ \A x : UpDialogs(dlg', x) = UpDialogs(r, x)
    <3>1. PICK w \in Dialogs : w = NewDialog(c, FALSE) /\ w.contact = c /\ w.live /\ ~w.up
      BY NewRow
    <3>2. CanCreate(r, w.contact) /\ dlg' = Append(r, w)
      BY <2>2, <2>3, <3>1
    <3>3. Created(r, w, Append(r, w))
      BY <2>2, <3>1, <3>2, CreateDialog
    <3> QED BY <2>2, <3>1, <3>2, <3>3 DEF Created
  <2> QED BY <1>2, <2>2, <2>4, PlainUnique DEF UniqueInv, Bounds
<1>4. CASE ~CanCreate(dlg, c)
  BY <1>1, <1>2, <1>4, QuietUnique DEF TransferCommits, UniqueInv, Bounds
<1> QED BY <1>3, <1>4

LEMMA GiveUnique ==
  ASSUME AccessInv, UniqueInv, NEW k \in Calls, GiveCommits(k)
  PROVE  UniqueInv'
<1>1. PICK c \in Contacts, t \in Nat : c = call[k].contact /\ t = call[k].at
  BY CallFields DEF AccessInv, CallTypes, GiveCommits
<1>2. PICK ps : ps = Upserted(Expired(pv, c, t), c, t)
  OBVIOUS
<1>3. UNCHANGED <<dlg, now, late>> /\ pv \in Seq(Previews) /\ Len(ps) <= MaxPreviews /\ (pv' = pv \/ pv' = ps)
  BY <1>1, <1>2 DEF GiveCommits, AccessInv, RowTypes
<1>4. CASE pv' = pv
  BY <1>3, <1>4, QuietUnique DEF UniqueInv, Bounds
<1>5. CASE pv' = ps
  <2>1. OneOpen(ps) /\ \A x : UpPreviews(ps, x) = UpPreviews(pv, x)
    BY <1>2, <1>3, RenewPreviews DEF UniqueInv
  <2> QED BY <1>3, <1>5, <2>1, PlainUnique DEF UniqueInv, Bounds
<1> QED BY <1>3, <1>4, <1>5

LEMMA UnpreviewUnique ==
  ASSUME AccessInv, UniqueInv, NEW k \in Calls, UnpreviewCommits(k)
  PROVE  UniqueInv'
<1>1. PICK P : P = Active(call[k].contact, call[k].at)
  OBVIOUS
<1>2. UNCHANGED <<dlg, now, late>> /\ pv \in Seq(Previews) /\ pv' = Revoked(pv, P, "remove")
  BY <1>1 DEF UnpreviewCommits, AccessInv, RowTypes
<1>3. "remove" \in Ends /\ \A p \in P : p \in DOMAIN pv /\ pv[p].end = ""
  BY <1>1 DEF Ends, Active
<1>4. /\ DOMAIN pv' = DOMAIN pv /\ Len(pv') = Len(pv) /\ OneOpen(pv')
      /\ \A p \in DOMAIN pv : pv'[p].contact = pv[p].contact /\ pv'[p].end = IF p \in P THEN "remove" ELSE pv[p].end
  <2>1. Closed(pv, P, "remove", Revoked(pv, P, "remove"))
    BY <1>2, <1>3, ClosePreviews DEF UniqueInv
  <2> QED BY <1>2, <2>1 DEF Closed
<1>5. \A x : UpPreviews(pv', x) = UpPreviews(pv, x)
  BY <1>3, <1>4 DEF UpPreviews
<1> QED BY <1>2, <1>4, <1>5, PlainUnique DEF UniqueInv, Bounds

(* An upgrade consumes the one open preview and creates one dialog, or     *)
(* neither.                                                                *)
LEMMA UpgradeUnique ==
  ASSUME AccessInv, UniqueInv, NEW k \in Calls, UpgradeCommits(k)
  PROVE  UniqueInv'
<1>1. PICK c \in Contacts, t \in Nat : c = call[k].contact /\ t = call[k].at
  BY CallFields DEF AccessInv, CallTypes, UpgradeCommits
<1>2. UNCHANGED <<now, late>> /\ dlg \in Seq(Dialogs) /\ pv \in Seq(Previews)
  BY DEF UpgradeCommits, AccessInv, RowTypes
<1>3. CASE Active(c, t) # {} /\ CanCreate(dlg, c)
  <2>1. dlg' = Append(dlg, NewDialog(c, TRUE)) /\ pv' = Revoked(pv, Active(c, t), "upgrade")
    BY <1>1, <1>3 DEF UpgradeCommits, Consumed
  <2>2. PICK n \in Nat : n = Len(dlg) + 1
    BY <1>2
  <2>3. /\ OneLive(dlg') /\ Len(dlg') <= MaxDialogs
        /\ \A x : x # c => UpDialogs(dlg', x) = UpDialogs(dlg, x)
        /\ UpDialogs(dlg', c) = UpDialogs(dlg, c) \cup {n}
    <3>1. PICK w \in Dialogs : w = NewDialog(c, TRUE) /\ w.contact = c /\ w.live /\ w.up
      BY NewRow
    <3>2. CanCreate(dlg, w.contact) /\ dlg' = Append(dlg, w) /\ OneLive(dlg)
      BY <1>3, <2>1, <3>1 DEF UniqueInv
    <3>3. Created(dlg, w, Append(dlg, w))
      BY <1>2, <2>2, <3>1, <3>2, CreateDialog
    <3> QED BY <1>2, <2>2, <3>1, <3>2, <3>3 DEF Created
  <2>4. PICK q \in Active(c, t) : TRUE
    BY <1>3
  <2>5. Active(c, t) = {q} /\ q \in DOMAIN pv /\ pv[q].contact = c /\ pv[q].end = ""
    BY <2>4 DEF Active, UniqueInv, OneOpen
  <2>6. /\ DOMAIN pv' = DOMAIN pv /\ Len(pv') = Len(pv) /\ OneOpen(pv')
        /\ \A p \in DOMAIN pv : pv'[p].contact = pv[p].contact /\ pv'[p].end = IF p \in {q} THEN "upgrade" ELSE pv[p].end
    <3>1. "upgrade" \in Ends /\ pv' = Revoked(pv, {q}, "upgrade")
      BY <2>1, <2>5 DEF Ends
    <3>2. Closed(pv, {q}, "upgrade", Revoked(pv, {q}, "upgrade"))
      BY <1>2, <3>1, ClosePreviews DEF UniqueInv
    <3> QED BY <3>1, <3>2 DEF Closed
  <2>7. /\ \A x : x # c => UpPreviews(pv', x) = UpPreviews(pv, x)
        /\ UpPreviews(pv', c) = UpPreviews(pv, c) \cup {q}
    BY <2>5, <2>6 DEF UpPreviews
  <2>8. n \notin UpDialogs(dlg, c) /\ q \notin UpPreviews(pv, c)
    <3>1. n \notin DOMAIN dlg
      BY <1>2, <2>2, SeqFacts
    <3> QED BY <2>5, <3>1 DEF UpDialogs, UpPreviews
  <2>9. IsFiniteSet(UpDialogs(dlg, c)) /\ IsFiniteSet(UpPreviews(pv, c))
    <3>1. UpDialogs(dlg, c) \subseteq 1..Len(dlg) /\ UpPreviews(pv, c) \subseteq 1..Len(pv) /\ Len(dlg) \in Nat /\ Len(pv) \in Nat
      BY <1>2 DEF UpDialogs, UpPreviews
    <3>2. IsFiniteSet(1..Len(dlg)) /\ IsFiniteSet(1..Len(pv))
      BY <3>1, FS_Interval
    <3> QED BY <3>1, <3>2, FS_Subset
  <2>10. Cardinality(UpDialogs(dlg, c)) = Cardinality(UpPreviews(pv, c))
    BY DEF UniqueInv, UpgradesMatch
  <2>11. Cardinality(UpDialogs(dlg', c)) = Cardinality(UpPreviews(pv', c))
    <3>1. PICK U, V : U = UpDialogs(dlg, c) /\ V = UpPreviews(pv, c)
      OBVIOUS
    <3>2. IsFiniteSet(U) /\ IsFiniteSet(V) /\ n \notin U /\ q \notin V /\ Cardinality(U) = Cardinality(V)
      BY <2>8, <2>9, <2>10, <3>1
    <3>3. Cardinality(U \cup {n}) = Cardinality(U) + 1 /\ Cardinality(V \cup {q}) = Cardinality(V) + 1
      BY <3>2, FS_AddElement
    <3> QED BY <2>3, <2>7, <3>1, <3>2, <3>3
  <2>12. UpgradesMatch(dlg', pv')
    BY <2>3, <2>7, <2>11 DEF UniqueInv, UpgradesMatch
  <2> QED BY <1>2, <2>3, <2>6, <2>12 DEF UniqueInv, Bounds
<1>4. CASE ~(Active(c, t) # {} /\ CanCreate(dlg, c))
  <2>1. UNCHANGED <<dlg, pv>>
    BY <1>1, <1>4 DEF UpgradeCommits, Consumed
  <2> QED BY <1>2, <2>1, QuietUnique DEF UniqueInv, Bounds
<1> QED BY <1>3, <1>4

LEMMA UniqueStep ==
  ASSUME AccessInv, UniqueInv, [Next]_state
  PROVE  UniqueInv'
<1>0. now <= MaxTime /\ late \subseteq Contacts /\ now \in Nat /\ MaxTime \in Nat
  BY AccessAssumption DEF UniqueInv, Bounds, AccessInv, RowTypes
<1>1. ASSUME UNCHANGED <<dlg, pv, now, late>> PROVE UniqueInv'
  BY <1>0, <1>1, QuietUnique
<1>2. ASSUME NEW k \in Calls, Member(k) PROVE UniqueInv'
  BY <1>1, <1>2, AddUnique, RemoveUnique, TransferUnique DEF Member, AddMember, RemoveMember, Transfer
<1>3. ASSUME NEW k \in Calls, Preview(k) PROVE UniqueInv'
  BY <1>1, <1>3, GiveUnique, UnpreviewUnique, UpgradeUnique
     DEF Preview, GivePreview, RemoveFromPreview, UpgradePreviewToFullMember
<1>4. ASSUME NEW k \in Calls, Tag(k) PROVE UniqueInv'
  <2>1. CASE TagCommits(k)
    <3>1. call[k].contact \in Contacts
      BY <2>1, CallFields DEF AccessInv, CallTypes, TagCommits
    <3>2. late' \subseteq Contacts /\ UNCHANGED <<dlg, pv, now>>
      BY <1>0, <2>1, <3>1 DEF TagCommits
    <3> QED BY <1>0, <3>2, QuietUnique
  <2> QED BY <1>1, <1>4, <2>1 DEF Tag, AddTag
<1>5. CASE Tick
  <2>1. now' <= MaxTime /\ UNCHANGED <<dlg, pv, late>>
    BY <1>0, <1>5 DEF Tick
  <2> QED BY <1>0, <2>1, QuietUnique
<1>6. ASSUME NEW x \in tags, RemoveTag(x) PROVE UniqueInv'
  BY <1>1, <1>6 DEF RemoveTag
<1>7. ASSUME NEW R \in SUBSET Guests, Send(R) PROVE UniqueInv'
  BY <1>1, <1>7 DEF Send
<1>8. ASSUME NEW c \in Contacts, NEW K \in SUBSET Keys \ {{}}, SetVariables(c, K) \/ FlushVariables(c, K)
      PROVE  UniqueInv'
  BY <1>1, <1>8 DEF SetVariables, FlushVariables
<1>9. CASE UNCHANGED state
  BY <1>1, <1>9 DEF state
<1> QED BY <1>2, <1>3, <1>4, <1>5, <1>6, <1>7, <1>8, <1>9 DEF Next

LEMMA UniqueInit == Init => UniqueInv
<1> SUFFICES ASSUME Init PROVE UniqueInv
  OBVIOUS
<1>1. PICK n : n = NewDialog(Creator, FALSE)
  OBVIOUS
<1>2. n.up = FALSE /\ dlg = <<n>> /\ DOMAIN dlg = {1} /\ dlg[1] = n /\ Len(dlg) = 1
  BY <1>1 DEF Init, NewDialog
<1>3. pv = <<>> /\ DOMAIN pv = {} /\ Len(pv) = 0
  BY DEF Init
<1>4. OneLive(dlg) /\ OneOpen(pv)
  BY <1>2, <1>3 DEF OneLive, OneOpen
<1>5. \A c \in Contacts : UpDialogs(dlg, c) = {} /\ UpPreviews(pv, c) = {}
  BY <1>2, <1>3 DEF UpDialogs, UpPreviews
<1>6. UpgradesMatch(dlg, pv)
  BY <1>5 DEF UpgradesMatch
<1>7. Bounds
  BY <1>2, <1>3, AccessAssumption DEF Bounds, Init
<1> QED BY <1>4, <1>6, <1>7 DEF UniqueInv

(* One live dialog and one open preview per contact, and as many upgraded  *)
(* dialogs as consumed previews, in every reachable state.                 *)
THEOREM UniqueInvariance == Spec => []UniqueInv
<1>1. AccessInv /\ UniqueInv /\ [Next]_state => UniqueInv'
  BY UniqueStep
<1> QED BY <1>1, UniqueInit, AccessInvariance, PTL DEF Spec

(* The rows keep their types, and both partial unique indexes hold: one    *)
(* live dialog and one open preview per contact (Create, Upsert).          *)
THEOREM Typing == Spec => []TypeOK
<1>1. ASSUME AccessInv, UniqueInv PROVE TypeOK
  <2>1. ASSUME NEW c \in Contacts PROVE Cardinality(LiveDialogs(c)) <= 1
    <3>1. CASE LiveDialogs(c) = {}
      BY <3>1, FS_EmptySet
    <3>2. CASE LiveDialogs(c) # {}
      <4>1. PICK d \in LiveDialogs(c) : TRUE
        BY <3>2
      <4>2. LiveDialogs(c) = {d}
        BY <1>1, <4>1 DEF LiveDialogs, UniqueInv, OneLive
      <4> QED BY <4>2, FS_Singleton
    <3> QED BY <3>1, <3>2
  <2>2. now \in 0..MaxTime
    BY <1>1, AccessAssumption DEF AccessInv, RowTypes, UniqueInv, Bounds
  <2> QED BY <1>1, <2>1, <2>2 DEF AccessInv, RowTypes, VarTypes, UniqueInv, Bounds, OneOpen, TypeOK
<1> QED BY <1>1, AccessInvariance, UniqueInvariance, PTL

(* A preview becomes a membership exactly once, whatever removals,         *)
(* renewals and other additions run at the same time                       *)
(* (UpgradePreviewToFullMember).                                           *)
THEOREM UpgradesCounted == Spec => []UpgradeConsumes
<1>1. UniqueInv => UpgradeConsumes
  BY DEF UniqueInv, UpgradesMatch, UpDialogs, UpPreviews, UpgradeConsumes
<1> QED BY <1>1, UniqueInvariance, PTL
=============================================================================
