---------------------------- MODULE ThreadAccess ----------------------------
(***************************************************************************)
(* Who may see and mark one thread: its members, the previews that let a   *)
(* contact read it for a while without joining, the private tags of the    *)
(* members and the variables members set on the thread.                    *)
(*                                                                         *)
(* A call is two steps.  The first is everything it reads and verifies     *)
(* before its transaction writes (the actors of AddMember, Transfer and    *)
(* RemoveMember and the recipients of a message are read outside the       *)
(* transaction; AddTag's membership check is inside it but takes no lock), *)
(* and the start of the transaction, whose time is what SQL's now()        *)
(* returns until it commits.  The second is the rest, one atomic step: the *)
(* member calls, GivePreview and the upgrade hold the lock of the thread   *)
(* row to the end, and the remaining statements touch one row.             *)
(*                                                                         *)
(* Members are people here; bots and who controls the thread are the       *)
(* subject of BotControl.  Roles and permissions are left out: a system    *)
(* call skips their checks and has every other effect of a user's call, so *)
(* they restrict no state the thread can reach.                            *)
(***************************************************************************)
EXTENDS Integers, Sequences, FiniteSets

CONSTANTS
  Contacts,      \* the contacts that may take part in the thread
  Creator,       \* the contact the thread starts with
  Guests,        \* bound: the contacts that are given previews and use tags
  Tags,          \* tag names
  Snoozed,       \* the tag an incoming message clears
  Keys,          \* names of thread variables
  Calls,         \* concurrent calls
  NoOne,         \* no contact: the setter of an unset variable
  TTL,           \* the duration of every preview
  MaxDialogs,    \* bound: dialogs ever created
  MaxPreviews,   \* bound: previews ever created
  MaxTime        \* bound: the clock

ASSUME AccessAssumption ==
  /\ Creator \in Contacts /\ Guests \subseteq Contacts /\ NoOne \notin Contacts /\ Snoozed \in Tags
  /\ TTL \in Nat \ {0} /\ MaxTime \in Nat
  /\ MaxDialogs \in Nat \ {0} /\ MaxPreviews \in Nat

VARIABLES
  dlg,     \* rows of thread_dialog, in the order of their ids
  pv,      \* rows of thread_preview
  tags,    \* rows of thread_tag: <<contact, tag>>
  vars,    \* thread_variables: who set each key
  now,     \* the clock of the database
  call,    \* what each call has read
  late     \* contacts whose AddTag wrote after they had left

state == <<dlg, pv, tags, vars, now, call, late>>

-----------------------------------------------------------------------------
(* Rows.  up marks a dialog the upgrade of a preview created.              *)

Dialogs == [contact : Contacts, live : BOOLEAN, up : BOOLEAN]

Ends == {"", "remove", "upgrade", "expired"}

Previews == [contact : Contacts, made : Nat, exp : Nat, end : Ends]

Idle == [op |-> "idle"]

LiveDialogs(c) == {d \in DOMAIN dlg : dlg[d].contact = c /\ dlg[d].live}

Live(c) == LiveDialogs(c) # {}

Members == {c \in Contacts : Live(c)}

ActiveMutant(c, t) == {p \in DOMAIN pv : pv[p].contact = c /\ pv[p].exp > t}

\* GetActiveForUpdate in a transaction that began at t.
Active(c, t) ==
  {p \in DOMAIN pv : pv[p].contact = c /\ pv[p].end = "" /\ pv[p].exp > t}

Begin(k, r) == call[k] = Idle /\ call' = [call EXCEPT ![k] = r]

Return(k) == call' = [call EXCEPT ![k] = Idle]

CanCreateMutant(ds, c) == Len(ds) < MaxDialogs

\* Create: the partial unique index refuses a second live dialog.
CanCreate(ds, c) ==
  /\ Len(ds) < MaxDialogs
  /\ ~\E d \in DOMAIN ds : ds[d].contact = c /\ ds[d].live

NewDialog(c, up) == [contact |-> c, live |-> TRUE, up |-> up]

\* Delete: no condition on deleted_at.
Deleted(ds, d) == [ds EXCEPT ![d].live = FALSE]

\* OnMessage: the snoozed tag of every recipient is removed.
Cleared(ts, recipients) == ts \ (recipients \X {Snoozed})

-----------------------------------------------------------------------------
(* Membership.                                                             *)

\* The sender of a system message is the initiator of the call: a member, or
\* in a system call anyone or no one.  All other receivers are its recipients.
SystemMessage(ts, receivers) ==
  {Cleared(ts, receivers \ {from}) : from \in Contacts \cup {NoOne}}

\* findAddMemberActors and verifyAddMember.
AddMember(k, c) ==
  /\ ~Live(c)
  /\ Begin(k, [op |-> "add", contact |-> c])
  /\ UNCHANGED <<dlg, pv, tags, vars, now, late>>

\* The transaction of addMemberToChat; the new member is among the receivers.
AddCommits(k) ==
  LET a == call[k] IN
  /\ a.op = "add"
  /\ IF CanCreate(dlg, a.contact)
       THEN /\ dlg' = Append(dlg, NewDialog(a.contact, FALSE))
            /\ tags' \in SystemMessage(tags, Members \cup {a.contact})
       ELSE UNCHANGED <<dlg, tags>>
  /\ Return(k)
  /\ UNCHANGED <<pv, vars, now, late>>

\* FindActorsPair and verifyRemoveMember: the target is a live dialog.
RemoveMember(k, d) ==
  /\ dlg[d].live
  /\ Begin(k, [op |-> "remove", dialog |-> d])
  /\ UNCHANGED <<dlg, pv, tags, vars, now, late>>

OnMemberLeftMutant(ts, c) == ts \ {<<c, Snoozed>>}

\* OnMemberLeft: every tag of the contact in this thread.
OnMemberLeft(ts, c) == ts \ ({c} \X Tags)

\* The receivers of the system message are read before the deletion.
RemoveCommits(k) ==
  LET a == call[k]
      c == dlg[a.dialog].contact IN
  /\ a.op = "remove"
  /\ dlg' = Deleted(dlg, a.dialog)
  /\ tags' \in SystemMessage(OnMemberLeft(tags, c), Members)
  /\ Return(k)
  /\ UNCHANGED <<pv, vars, now, late>>

\* Transfer: the initiator hands its place to a contact that is no member.
Transfer(k, d, c) ==
  /\ dlg[d].live /\ ~Live(c)
  /\ Begin(k, [op |-> "transfer", dialog |-> d, contact |-> c])
  /\ UNCHANGED <<dlg, pv, tags, vars, now, late>>

TransferCommits(k) ==
  LET a == call[k]
      i == dlg[a.dialog].contact IN
  /\ a.op = "transfer"
  /\ IF CanCreate(dlg, a.contact)
       THEN /\ dlg' = Append(Deleted(dlg, a.dialog), NewDialog(a.contact, FALSE))
            /\ tags' = Cleared(OnMemberLeft(tags, i),
                               (Members \cup {a.contact}) \ {i})
       ELSE UNCHANGED <<dlg, tags>>
  /\ Return(k)
  /\ UNCHANGED <<pv, vars, now, late>>

-----------------------------------------------------------------------------
(* Previews.                                                               *)

GivePreview(k, c) ==
  /\ Begin(k, [op |-> "give", contact |-> c, at |-> now])
  /\ UNCHANGED <<dlg, pv, tags, vars, now, late>>

\* The first statement of Upsert closes what has lapsed.
Expired(ps, c, t) ==
  [p \in DOMAIN ps |-> IF ps[p].contact = c /\ ps[p].end = "" /\ ps[p].exp <= t
                         THEN [ps[p] EXCEPT !.end = "expired"] ELSE ps[p]]

\* The second one extends the open row or inserts one.
Upserted(ps, c, t) ==
  LET open == {p \in DOMAIN ps : ps[p].contact = c /\ ps[p].end = ""} IN
  IF open # {}
    THEN [p \in DOMAIN ps |->
            IF p \in open THEN [ps[p] EXCEPT !.exp = t + TTL] ELSE ps[p]]
    ELSE Append(ps, [contact |-> c, made |-> t, exp |-> t + TTL, end |-> ""])

\* A member needs no preview; the check constraint of the table refuses an
\* expiry that is not after the row's creation.
GiveCommits(k) ==
  LET a  == call[k]
      ps == Upserted(Expired(pv, a.contact, a.at), a.contact, a.at) IN
  /\ a.op = "give"
  /\ Len(ps) <= MaxPreviews
  /\ IF Live(a.contact) \/ \E p \in DOMAIN ps : ps[p].exp <= ps[p].made
       THEN UNCHANGED pv
       ELSE pv' = ps
  /\ Return(k)
  /\ UNCHANGED <<dlg, tags, vars, now, late>>

RemoveFromPreview(k, c) ==
  /\ Begin(k, [op |-> "unpreview", contact |-> c, at |-> now])
  /\ UNCHANGED <<dlg, pv, tags, vars, now, late>>

Revoked(ps, P, why) ==
  [p \in DOMAIN ps |-> IF p \in P THEN [ps[p] EXCEPT !.end = why] ELSE ps[p]]

\* Nothing to revoke is success.
UnpreviewCommits(k) ==
  LET a == call[k] IN
  /\ a.op = "unpreview"
  /\ pv' = Revoked(pv, Active(a.contact, a.at), "remove")
  /\ Return(k)
  /\ UNCHANGED <<dlg, tags, vars, now, late>>

\* addMemberToChat as a system call whose beforeCreate consumes the preview.
UpgradePreviewToFullMember(k, c) ==
  /\ ~Live(c)
  /\ Begin(k, [op |-> "upgrade", contact |-> c, at |-> now])
  /\ UNCHANGED <<dlg, pv, tags, vars, now, late>>

ConsumedMutant(c, t, created) == Revoked(pv, Active(c, t), "upgrade")

\* The revocation stands only if the dialog is created as well.
Consumed(c, t, created) ==
  IF created THEN Revoked(pv, Active(c, t), "upgrade") ELSE pv

UpgradeCommits(k) ==
  LET a       == call[k]
      created == Active(a.contact, a.at) # {} /\ CanCreate(dlg, a.contact) IN
  /\ a.op = "upgrade"
  /\ pv' = Consumed(a.contact, a.at, created)
  /\ IF created
       THEN /\ dlg' = Append(dlg, NewDialog(a.contact, TRUE))
            /\ tags' \in SystemMessage(tags, Members \cup {a.contact})
       ELSE UNCHANGED <<dlg, tags>>
  /\ Return(k)
  /\ UNCHANGED <<vars, now, late>>

-----------------------------------------------------------------------------
(* Tags.  Snooze and Unsnooze are AddTag and RemoveTagByName.              *)

AddTag(k, c, t) ==
  /\ Live(c)
  /\ Begin(k, [op |-> "tag", contact |-> c, tag |-> t])
  /\ UNCHANGED <<dlg, pv, tags, vars, now, late>>

TagCommits(k) ==
  LET a == call[k] IN
  /\ a.op = "tag"
  /\ tags' = tags \cup {<<a.contact, a.tag>>}
  /\ late' = IF Live(a.contact) THEN late ELSE late \cup {a.contact}
  /\ Return(k)
  /\ UNCHANGED <<dlg, pv, vars, now>>

\* RemoveTag and RemoveTagByName: not only members may remove.
RemoveTag(x) ==
  /\ x \in tags
  /\ tags' = tags \ {x}
  /\ UNCHANGED <<dlg, pv, vars, now, call, late>>

\* A message: its recipients were read before its transaction, so they may
\* be any set of contacts by now.
Send(recipients) ==
  /\ tags' = Cleared(tags, recipients)
  /\ UNCHANGED <<dlg, pv, vars, now, call, late>>

-----------------------------------------------------------------------------
(* Variables: one statement per call, which locks the row it changes.      *)

MaySetMutant(c, K) ==
  Live(c) /\ \A x \in K : vars[x] \in {NoOne, c} \/ ~Live(vars[x])

\* A set is refused as a whole when any of its keys is another's.
MaySet(c, K) == Live(c) /\ \A x \in K : vars[x] \in {NoOne, c}

SetVariables(c, K) ==
  /\ MaySet(c, K)
  /\ vars' = [x \in Keys |-> IF x \in K THEN c ELSE vars[x]]
  /\ UNCHANGED <<dlg, pv, tags, now, call, late>>

\* A flush removes the caller's own keys among those named.
FlushVariables(c, K) ==
  /\ Live(c)
  /\ vars' = [x \in Keys |-> IF x \in K /\ vars[x] = c THEN NoOne ELSE vars[x]]
  /\ UNCHANGED <<dlg, pv, tags, now, call, late>>

-----------------------------------------------------------------------------
Tick ==
  /\ now < MaxTime
  /\ now' = now + 1
  /\ UNCHANGED <<dlg, pv, tags, vars, call, late>>

Init ==
  /\ dlg = <<NewDialog(Creator, FALSE)>>
  /\ pv = <<>>
  /\ tags = {}
  /\ vars = [x \in Keys |-> NoOne]
  /\ now = 0
  /\ call = [k \in Calls |-> Idle]
  /\ late = {}

Member(k) ==
  \/ \E c \in Contacts : AddMember(k, c)
  \/ AddCommits(k)
  \/ \E d \in DOMAIN dlg : RemoveMember(k, d)
  \/ RemoveCommits(k)
  \/ \E d \in DOMAIN dlg, c \in Contacts : Transfer(k, d, c)
  \/ TransferCommits(k)

Preview(k) ==
  \/ \E c \in Guests : GivePreview(k, c)
  \/ GiveCommits(k)
  \/ \E c \in Guests : RemoveFromPreview(k, c)
  \/ UnpreviewCommits(k)
  \/ \E c \in Guests : UpgradePreviewToFullMember(k, c)
  \/ UpgradeCommits(k)

Tag(k) ==
  \/ \E c \in Guests, t \in Tags : AddTag(k, c, t)
  \/ TagCommits(k)

Next ==
  \/ \E k \in Calls : Member(k) \/ Preview(k) \/ Tag(k)
  \/ \E x \in tags : RemoveTag(x)
  \/ \E recipients \in SUBSET Guests : Send(recipients)
  \/ \E c \in Contacts, K \in SUBSET Keys \ {{}} :
       SetVariables(c, K) \/ FlushVariables(c, K)
  \/ Tick

Spec == Init /\ [][Next]_state

-----------------------------------------------------------------------------
(* Types: what each row and each call holds.                               *)
TypeOK ==
  /\ dlg \in Seq(Dialogs) /\ Len(dlg) <= MaxDialogs
  /\ pv \in Seq(Previews) /\ Len(pv) <= MaxPreviews
  /\ tags \subseteq Contacts \X Tags
  /\ vars \in [Keys -> Contacts \cup {NoOne}]
  /\ now \in 0..MaxTime
  /\ late \subseteq Contacts
  /\ \A c \in Contacts : Cardinality(LiveDialogs(c)) <= 1
  /\ \A p, q \in DOMAIN pv :
       pv[p].contact = pv[q].contact /\ pv[p].end = "" /\ pv[q].end = "" => p = q

(* A preview becomes a membership exactly once: the memberships that came  *)
(* from an upgrade are as many as the previews an upgrade closed, whatever *)
(* removals, renewals, other additions of the same contact and retries run *)
(* at the same time (UpgradePreviewToFullMember, addMemberToChat).         *)
UpgradeConsumes ==
  \A c \in Contacts :
    Cardinality({d \in DOMAIN dlg : dlg[d].contact = c /\ dlg[d].up})
      = Cardinality({p \in DOMAIN pv : pv[p].contact = c /\ pv[p].end = "upgrade"})

(* A closed preview stays as it was closed: none is reopened, extended or  *)
(* given another reason by a call that began while it was open             *)
(* (Upsert, Revoke).                                                       *)
ClosedStaysClosed ==
  [][\A p \in DOMAIN pv : pv[p].end # "" => pv'[p] = pv[p]]_state

(* A contact that is no member has tags only if one of its AddTag calls    *)
(* checked its membership before it left and wrote after (OnMemberLeft,    *)
(* activeMember).                                                          *)
TagsOfMembers == \A x \in tags : Live(x[1]) \/ x[1] \in late

(* A variable passes from one member to another only after its setter gave *)
(* it up while a member (prepareThreadVariablesSetQuery and FlushQuery).   *)
KeysKept ==
  [][\A x \in Keys :
       vars[x] # NoOne /\ vars'[x] # vars[x] => vars'[x] = NoOne /\ Live(vars[x])]_state

=============================================================================
