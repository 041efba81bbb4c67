---------------------------- MODULE ProviderGate ----------------------------
(***************************************************************************)
(* A thread between an agent and the customers behind messenger gates: one *)
(* customer per gate.  A message is committed first; after the commit it   *)
(* is sent once to every gate but its author's, and the id the messenger   *)
(* gave it is stored.  That mapping is what replies, reactions and         *)
(* delivery reports are resolved with, in both directions.  A send that    *)
(* fails, is answered without an id, or is cut off by a crash is never     *)
(* repeated: here it stays where it stopped, since no step is fair.        *)
(*                                                                         *)
(* The messenger is external: it numbers the messages of a gate, and the   *)
(* numbers of two gates overlap.                                           *)
(***************************************************************************)
EXTENDS Integers, Sequences, FiniteSets

CONSTANTS
  Gates,      \* the gates with a customer in the thread
  Emoji,      \* reactions an agent may choose
  Allowed,    \* the allow-list (reactions.allowed_emoji); empty: every emoji
  MaxMsgs,    \* bound: messages committed
  MaxWrites,  \* bound: messages customers write
  MaxChanges  \* bound: reaction changes and delivery states reached

ASSUME GateAssumption ==
  /\ Allowed \subseteq Emoji
  /\ {MaxMsgs, MaxWrites, MaxChanges} \subseteq Nat

VARIABLES
  msg,       \* the messages by id
  ids,       \* message_external_ids
  out,       \* sends to a gate that have not ended
  forward,   \* reaction changes that were committed and not forwarded
  platform   \* per gate, what the messenger holds, by external id

vars == <<msg, ids, out, forward, platform>>

None == 0

Cleared == "cleared"

Reports == {"delivered", "read", "failed"}

Agent == [gate |-> "agent", ext |-> None]

Messages == DOMAIN msg

Held == UNION {{g} \X DOMAIN platform[g] : g \in Gates}

Changes ==
  Cardinality(UNION {{m} \X DOMAIN msg[m].reacts : m \in Messages})
  + Cardinality(UNION {{h} \X platform[h[1]][h[2]].reached : h \in Held})

-----------------------------------------------------------------------------
(* message_external_ids.                                                   *)

SaveMutant(rows, m, g, e) ==
  {r \in rows : ~(r.gate = g /\ r.ext = e)} \cup {[gate |-> g, ext |-> e, msg |-> m, state |-> {}]}

SaveAlwaysMutant(rows, m, g, e) == rows \cup {[gate |-> g, ext |-> e, msg |-> m, state |-> {}]}

\* insert ... on conflict do nothing: (gate, external id) is the key and
\* (message, gate) is unique.
Save(rows, m, g, e) ==
  IF \E r \in rows : r.gate = g /\ (r.ext = e \/ r.msg = m)
    THEN rows
    ELSE rows \cup {[gate |-> g, ext |-> e, msg |-> m, state |-> {}]}

\* LookupMessageID
MessageOf(g, e) == {r.msg : r \in {x \in ids : x.gate = g /\ x.ext = e}}

ExternalOfMutant(m, g) == {r.ext : r \in {x \in ids : x.msg = m}}

\* LookupExternalID
ExternalOf(m, g) == {r.ext : r \in {x \in ids : x.msg = m /\ x.gate = g}}

-----------------------------------------------------------------------------
(* Sending into the thread.                                                *)

\* ExtractExternalPeers without the author.
Peers(from) == Gates \ {from.gate}

\* The transaction: SaveMessage and recordInboundExternalID, which saves nothing
\* when the request names no external id or no gate.  The message then goes to
\* the external peers.  A call that fails leaves nothing.
Commit(from, r) ==
  LET m == Len(msg) + 1 IN
  /\ m <= MaxMsgs
  /\ msg' = Append(msg, [from |-> from, reply |-> r, reacts |-> <<>>])
  /\ \/ ids' = ids
     \/ from # Agent /\ ids' = Save(ids, m, from.gate, from.ext)
  /\ out' = out \cup {[msg |-> m, gate |-> g, ext |-> None] : g \in Peers(from)}
  /\ UNCHANGED <<forward, platform>>

\* The agent names the message it replies to, if any.
AgentSends(r) == Commit(Agent, r)

\* The provider service relays what a customer wrote, possibly more than
\* once.  resolveExternalReply, before the transaction: no link when the
\* lookup fails, finds nothing yet, or the target was deleted.
Relay(g, e) ==
  /\ platform[g][e].of = None
  /\ \E r \in MessageOf(g, platform[g][e].reply) \cup {None} :
       Commit([gate |-> g, ext |-> e], r)

-----------------------------------------------------------------------------
(* SendMessage of the providers adapter, one goroutine per external peer.  *)

\* lookupReplyExternalID and the call, which the messenger takes.  A lookup
\* that fails, or ran before the target's id was saved, gives no reply.
Dispatch(o) ==
  /\ o.ext = None
  /\ \E e \in ExternalOf(msg[o.msg].reply, o.gate) \cup {None} :
       platform' = [platform EXCEPT ![o.gate] =
                      Append(@, [of |-> o.msg, reply |-> e, reached |-> {}, shown |-> Cleared])]
  /\ out' = (out \ {o}) \cup {[o EXCEPT !.ext = Len(platform[o.gate]) + 1]}
  /\ UNCHANGED <<msg, ids, forward>>

\* persistExternalID
Persist(o) ==
  /\ o.ext # None
  /\ ids' = Save(ids, o.msg, o.gate, o.ext)
  /\ out' = out \ {o}
  /\ UNCHANGED <<msg, forward, platform>>

-----------------------------------------------------------------------------
(* Reactions and reports.                                                  *)

Current(m) == IF msg[m].reacts = <<>> THEN Cleared ELSE msg[m].reacts[Len(msg[m].reacts)]

ForwardableMutant(x) == TRUE

\* A set must be in the allow-list, unless it is empty; a removal is always
\* forwarded.
Forwardable(x) == Allowed = {} \/ x \in Allowed \cup {Cleared}

\* SetReaction by the agent; only a change is forwarded.
SetReaction(m, x) ==
  /\ x # Current(m)
  /\ Changes < MaxChanges
  /\ msg' = [msg EXCEPT ![m].reacts = Append(@, x)]
  /\ forward' = forward \cup {[msg |-> m, gate |-> g, emoji |-> x]
                               : g \in {h \in Gates : Forwardable(x)}}
  /\ UNCHANGED <<ids, out, platform>>

\* SendReaction: a gate without an id for the message is skipped; the calls
\* of several changes arrive in any order.
SendReaction(f) ==
  /\ \E e \in ExternalOf(f.msg, f.gate) :
       platform' = [platform EXCEPT ![f.gate][e].shown = f.emoji]
  /\ forward' = forward \ {f}
  /\ UNCHANGED <<msg, ids, out>>

RecordedMutant(s) == IF s = "failed" THEN {"failed", "delivered"} ELSE {"delivered", s}

\* What a report sets: a read message was delivered, a failed one not.
Recorded(s) == IF s = "failed" THEN {s} ELSE {"delivered", s}

\* UpdateMessageDelivery: reports come late, repeatedly and in any order;
\* one that finds no row is ignored and lost.
UpdateMessageDelivery(g, e, s) ==
  /\ s \in platform[g][e].reached
  /\ ids' = {IF r.gate = g /\ r.ext = e THEN [r EXCEPT !.state = @ \cup Recorded(s)] ELSE r
              : r \in ids}
  /\ UNCHANGED <<msg, out, forward, platform>>

-----------------------------------------------------------------------------
(* The messenger.                                                          *)

Written == {h \in Held : platform[h[1]][h[2]].of = None}

\* A customer writes, perhaps as a reply to a message of the gate.
CustomerWrites(g, e) ==
  /\ Cardinality(Written) < MaxWrites
  /\ platform' = [platform EXCEPT ![g] =
                    Append(@, [of |-> None, reply |-> e, reached |-> {}, shown |-> Cleared])]
  /\ UNCHANGED <<msg, ids, out, forward>>

\* A message the customer was sent is delivered, read, or fails.
Progress(g, e, s) ==
  LET p == platform[g] IN
  /\ p[e].of # None /\ s \notin p[e].reached
  /\ s = "read" => "delivered" \in p[e].reached
  /\ s = "failed" => p[e].reached = {}
  /\ "failed" \notin p[e].reached
  /\ Changes < MaxChanges
  /\ platform' = [platform EXCEPT ![g][e].reached = @ \cup {s}]
  /\ UNCHANGED <<msg, ids, out, forward>>

-----------------------------------------------------------------------------
Init ==
  /\ msg = <<>> /\ ids = {} /\ out = {} /\ forward = {}
  /\ platform = [g \in Gates |-> <<>>]

Next ==
  \/ \E r \in Messages \cup {None} : AgentSends(r)
  \/ \E m \in Messages : \E x \in Emoji \cup {Cleared} : SetReaction(m, x)
  \/ \E o \in out : Dispatch(o) \/ Persist(o)
  \/ \E f \in forward : SendReaction(f)
  \/ \E g \in Gates : \/ \E e \in DOMAIN platform[g] \cup {None} : CustomerWrites(g, e)
                      \/ \E e \in DOMAIN platform[g] :
                           \/ Relay(g, e)
                           \/ \E s \in Reports : \/ Progress(g, e, s)
                                                 \/ UpdateMessageDelivery(g, e, s)

Spec == Init /\ [][Next]_vars

-----------------------------------------------------------------------------
\* The messages that the messenger's message e of gate g is a copy of; a
\* customer's message relayed twice was stored twice.
Copies(g, e) ==
  {m \in Messages : platform[g][e].of = m \/ msg[m].from = [gate |-> g, ext |-> e]}

(* An id of a gate belongs to one message, and a message has one id per    *)
(* gate (the keys of message_external_ids, which Save must not run into).  *)
KeysUnique ==
  \A r, q \in ids : r.gate = q.gate /\ (r.ext = q.ext \/ r.msg = q.msg) => r = q

(* Types: a mapping, and a send that awaits its save, name a message and   *)
(* an id that exist, and both keys of the mapping hold.                    *)
TypeOK ==
  /\ \A m \in Messages : msg[m].reply \in 0..(m - 1)
  /\ \A r \in ids : /\ r.msg \in Messages /\ r.ext \in DOMAIN platform[r.gate]
                    /\ r.state \subseteq Reports
  /\ KeysUnique
  /\ \A o \in out : o.msg \in Messages /\ o.gate \in Gates
  /\ \A f \in forward : f.msg \in Messages /\ f.gate \in Gates

(* A reply points at the same message on both sides: a customer's reply    *)
(* that got a link is linked to what the customer replied to, and a native *)
(* reply in a messenger is shown under a copy of the message the author    *)
(* replied to (resolveExternalReply, lookupReplyExternalID).               *)
RepliesFaithful ==
  /\ \A m \in Messages : msg[m].from # Agent /\ msg[m].reply # None =>
       LET g == msg[m].from.gate  p == platform[g][msg[m].from.ext] IN
       p.reply # None /\ msg[m].reply \in Copies(g, p.reply)
  /\ \A g \in Gates : \A e \in DOMAIN platform[g] :
       LET p == platform[g][e] IN
       p.of # None /\ p.reply # None => msg[p.of].reply \in Copies(g, p.reply)

(* A reaction seen in a messenger is one the agent chose for the message   *)
(* it is seen on, and is in the allow-list if there is one (SendReaction,  *)
(* ReactionCapabilities).                                                  *)
ReactionsFaithful ==
  \A g \in Gates : \A e \in DOMAIN platform[g] :
    LET x == platform[g][e].shown IN
    x # Cleared =>
      /\ Allowed # {} => x \in Allowed
      /\ \E m \in Copies(g, e) : \E i \in DOMAIN msg[m].reacts : msg[m].reacts[i] = x

(* A recorded delivery state happened to the copy it is recorded for, and  *)
(* a read message is recorded as delivered, in whatever order the reports  *)
(* came (UpdateDelivery).                                                  *)
StatusTruthful ==
  \A r \in ids : /\ r.state \subseteq platform[r.gate][r.ext].reached
                 /\ "read" \in r.state => "delivered" \in r.state

(* An id once mapped to a message stays mapped to it, also when its        *)
(* message is relayed again (Save).                                        *)
MappingStable ==
  [][\A r \in ids : \E q \in ids' : q.gate = r.gate /\ q.ext = r.ext /\ q.msg = r.msg]_vars

=============================================================================
