----------------------------- MODULE BotControl -----------------------------
(***************************************************************************)
(* Who answers the customer: the bot control stack of one thread.          *)
(*                                                                         *)
(* thread.bot_controller_id names the bot that answers (Nil: a human       *)
(* does), bot_control_stack the bots that wait below it, thread.owner_bot_id*)
(* the bot control falls back to.  AddMember, Transfer and RemoveMember    *)
(* lock the thread row for their whole transaction, after reading their    *)
(* actors outside it.  CompleteBotControl, ReleaseBotControl,              *)
(* HandBackToBot, TakeOverFromBot and ensureBotControl take no lock: each  *)
(* is a sequence of statements with snapshots of their own, and only the   *)
(* final update of the thread row serialises it with the others.           *)
(*                                                                         *)
(* Sources: service/thread_manager.go, service/command_close.go and        *)
(* store/postgres/{bot_control_store,thread_dialog_store}.go.              *)
(***************************************************************************)
EXTENDS Naturals, Sequences, FiniteSets

CONSTANTS
    Nil,            \* a NULL column
    MaxDialogs,     \* bound: memberships (thread_dialog rows) of the thread
    MaxFails,       \* bound: calls that end in an error
    Calls,          \* calls that may be in progress at the same time
    Joiners         \* the members that may be added

Dialogs == 1..MaxDialogs

\* bot: is_bot; contactBot: the contact is a bot whatever is_bot says; op: the
\* role is not Owner; auto: auto_leave.
Member == [bot : BOOLEAN, contactBot : BOOLEAN, op : BOOLEAN, auto : BOOLEAN]

ASSUME BotConstants ==
    /\ Nil \notin Nat
    /\ MaxDialogs \in Nat /\ MaxDialogs >= 2
    /\ MaxFails \in Nat
    /\ IsFiniteSet(Calls)
    /\ Joiners \subseteq {m \in Member : (m.bot => m.contactBot) /\ (m.auto => m.bot)}

VARIABLES
    th,     \* the thread's committed rows
    event,  \* the bot-control events the last step published
    call,   \* call[k]: the call in progress
    fails   \* calls that ended in an error so far

vars == <<th, event, call, fails>>

Client == [bot |-> FALSE, contactBot |-> FALSE, op |-> FALSE, auto |-> FALSE]
NoEvent == [granted |-> Nil, released |-> Nil]
MaybeDialog == Dialogs \union {Nil}

\* d, mem: the member the call is about and the one it adds; active: d was a bot
\* (Transfer) or the top of the stack (CompleteBotControl) when the call read it;
\* isTop, top, owner, prev: what its later statements read; popped: it deleted
\* d's stack row (uncommitted).
NoCall == [op |-> "none", phase |-> "idle", d |-> Nil, mem |-> Client,
           active |-> FALSE, isTop |-> FALSE, popped |-> FALSE,
           top |-> Nil, owner |-> Nil, prev |-> Nil]

Ops    == {"none", "transfer", "remove", "complete", "release", "handback", "takeover", "ensure"}
Phases == {"idle", "begun", "pop", "delete", "top", "clear", "update"}

TypeOK ==
    /\ th \in [st : [Dialogs -> {"none", "live", "left"}], mem : [Dialogs -> Member],
               stack : Seq(Dialogs), controller : MaybeDialog, owner : MaybeDialog]
    /\ event \in [granted : MaybeDialog, released : MaybeDialog]
    /\ call \in [Calls -> [op : Ops, phase : Phases, d : MaybeDialog, mem : Member,
                           active : BOOLEAN, isTop : BOOLEAN, popped : BOOLEAN,
                           top : MaybeDialog, owner : MaybeDialog, prev : MaybeDialog]]
    /\ fails \in 0..MaxFails

-----------------------------------------------------------------------------
(* The thread's rows *)

Live(t)      == {d \in Dialogs : t.st[d] = "live"}
Bots(t)      == {d \in Live(t) : t.mem[d].bot}
Operators(t) == {d \in Live(t) : ~t.mem[d].bot /\ t.mem[d].op}

OnStack(t)     == {t.stack[i] : i \in 1..Len(t.stack)}
Top(s)         == IF s = <<>> THEN Nil ELSE s[Len(s)]
Earliest(S)    == IF S = {} THEN Nil ELSE CHOOSE d \in S : \A e \in S : d <= e
Coalesce(a, b) == IF a # Nil THEN a ELSE b

\* Pop deletes one entry of the member.
Without(s, d) ==
    IF \E i \in 1..Len(s) : s[i] = d
    THEN LET i == CHOOSE i \in 1..Len(s) : s[i] = d
         IN  SubSeq(s, 1, i - 1) \o SubSeq(s, i + 1, Len(s))
    ELSE s

\* Create: the next membership row.
NextDialog(t) == Earliest({d \in Dialogs : t.st[d] = "none"})
Create(t, m)  == [t EXCEPT !.st[NextDialog(t)] = "live", !.mem[NextDialog(t)] = m]

\* Delete: a soft delete, of a row already deleted too.
Delete(t, d) == [t EXCEPT !.st[d] = "left"]

\* Mutant: the new top takes control only of a thread without a controller.
PushMutant(t, d) ==
    [t EXCEPT !.stack = Append(@, d),
              !.controller = Coalesce(@, d),
              !.owner = Coalesce(@, Earliest(Bots(t) \ OnStack(t)))]

\* Push: the new top becomes the controller; the first push also names the
\* owner, the earliest bot not on the stack before it.
Push(t, d) ==
    [t EXCEPT !.stack = Append(@, d),
              !.controller = d,
              !.owner = Coalesce(@, Earliest(Bots(t) \ OnStack(t)))]

\* Pop, first statement: drop the entry, and the membership if it is auto_leave.
PopEntry(t, d) ==
    [t EXCEPT !.stack = Without(@, d),
              !.st[d] = IF t.mem[d].auto THEN "left" ELSE @]

\* Pop, second statement: the controller it sets, given the new top it read.
Controller(t, top, isTop, reason) ==
    IF reason = "handoff" THEN Nil
    ELSE Coalesce(top, CASE reason = "client_leave" -> Nil
                         [] reason # "client_leave" /\ isTop -> t.owner
                         [] OTHER -> t.controller)

\* Mutant: the owner is announced as the fallback whatever the reason.
PoppedMutant(t, top, isTop, reason) ==
    IF reason # "handoff" /\ isTop THEN Coalesce(top, t.owner) ELSE Nil

\* Pop's result: the new controller to announce, if any.
Popped(t, top, isTop, reason) ==
    CASE reason = "handoff" -> Nil
      [] reason # "handoff" /\ top # Nil -> top
      [] reason = "completed" /\ top = Nil /\ isTop -> t.owner
      [] OTHER -> Nil

\* Both statements under the thread lock.
Pop(t, d, reason) ==
    LET u == PopEntry(t, d)
    IN  [u EXCEPT !.controller = Controller(u, Top(u.stack), Top(t.stack) = d, reason)]

\* RestoreController: whom it would give control to.
Candidate(t) == Coalesce(Top(t.stack), t.owner)

\* Mutant: what the query returns is pushed even when it found no such member.
AdoptUntrackedBotMutant(t, new) ==
    LET d == Earliest({e \in Live(t) \ {new} : ~t.mem[e].bot /\ t.mem[e].contactBot})
    IN  IF t.stack # <<>> THEN t
        ELSE Push(IF d = Nil THEN t ELSE [t EXCEPT !.mem[d].bot = TRUE], d)

\* AdoptUntrackedBot: with no stack yet, a bot contact stored as a regular
\* member becomes a bot and goes below the new one.
AdoptUntrackedBot(t, new) ==
    LET d == Earliest({e \in Live(t) \ {new} : ~t.mem[e].bot /\ t.mem[e].contactBot})
    IN  IF t.stack # <<>> \/ d = Nil THEN t
        ELSE Push([t EXCEPT !.mem[d].bot = TRUE], d)

\* A bot that joins: adopt, push, and tell the bot below that it lost control.
JoinBot(t, new)   == Push(AdoptUntrackedBot(t, new), new)
JoinEvent(t, new) == [granted |-> new, released |-> Top(AdoptUntrackedBot(t, new).stack)]

\* releaseControlToAgent
ReleaseToAgent(t)      == [t EXCEPT !.controller = Nil]
ReleaseToAgentEvent(t) == [granted |-> Nil, released |-> t.controller]

\* restoreControlAfterAgent
RestoreAfterAgent(t) ==
    IF Operators(t) = {} THEN [t EXCEPT !.controller = Coalesce(@, Candidate(t))] ELSE t
RestoreAfterAgentEvent(t) ==
    [granted |-> IF Operators(t) = {} /\ t.controller = Nil THEN Candidate(t) ELSE Nil,
     released |-> Nil]

-----------------------------------------------------------------------------
(* Calls *)

Begin(k, c) ==
    /\ call[k] = NoCall
    /\ call' = [call EXCEPT ![k] = c]
    /\ event' = NoEvent
    /\ UNCHANGED <<th, fails>>

Continue(k, c) ==
    /\ call' = [call EXCEPT ![k] = c]
    /\ event' = NoEvent
    /\ UNCHANGED <<th, fails>>

Return(k) == Continue(k, NoCall)

Commit(k, t, e) ==
    /\ th' = t
    /\ event' = e
    /\ call' = [call EXCEPT ![k] = NoCall]
    /\ UNCHANGED fails

At(k, op, phase) == call[k].op = op /\ call[k].phase = phase

\* Any statement may fail, or lose a deadlock: the transaction rolls back.
CallFails(k) ==
    /\ call[k] # NoCall
    /\ fails < MaxFails
    /\ fails' = fails + 1
    /\ call' = [call EXCEPT ![k] = NoCall]
    /\ event' = NoEvent
    /\ UNCHANGED th

\* Another call's Pop has deleted d's entry and holds its row locks.
Locked(k, d) == \E j \in Calls \ {k} : /\ call[j].op \in {"complete", "release"}
                                       /\ call[j].phase \in {"top", "update"}
                                       /\ call[j].d = d

Exists == th.st[1] # "none"

\* The bound on memberships leaves room for the transfers in progress.
Room == Cardinality({d \in Dialogs : th.st[d] = "none"})
          > Cardinality({k \in Calls : call[k].op = "transfer"})

-----------------------------------------------------------------------------
(* Thread creation and membership *)

\* orchestrateDirectThreadCreation: the customer, and the peer they wrote to.
\* A peer whose contact lookup fails is stored as a regular member.
CreateDirectThread(k, isBot) ==
    LET t == Create(Create(th, Client), [Client EXCEPT !.bot = isBot, !.contactBot = TRUE])
    IN  /\ ~Exists
        /\ th' = IF isBot THEN Push(t, 2) ELSE t
        /\ event' = IF isBot THEN [granted |-> 2, released |-> Nil] ELSE NoEvent
        /\ UNCHANGED <<call, fails>>

AddMember(k, m) ==
    LET new == NextDialog(th)
        t   == Create(th, m)
    IN  /\ call[k] = NoCall
        /\ Exists
        /\ Room
        /\ \/ /\ m.bot
              /\ th' = JoinBot(t, new)
              /\ event' = JoinEvent(t, new)
           \/ /\ ~m.bot /\ m.op
              /\ th' = ReleaseToAgent(t)
              /\ event' = ReleaseToAgentEvent(t)
           \/ /\ ~m.bot /\ ~m.op
              /\ th' = t
              /\ event' = NoEvent
        /\ UNCHANGED <<call, fails>>

\* Transfer reads the initiator, who must be a member with a role at least the
\* new member's, before its transaction.
Transfer(k, i, m) ==
    /\ i \in Live(th)
    /\ th.mem[i].op => m.op
    /\ Room
    /\ Begin(k, [NoCall EXCEPT !.op = "transfer", !.phase = "begun", !.d = i, !.mem = m,
                               !.active = th.mem[i].bot])

\* To a bot: push it, then drop the initiator's own entry if it is a bot's.
\* A bot that hands off to a human must be on the stack.
TransferCommit(k) ==
    LET i   == call[k].d
        m   == call[k].mem
        new == NextDialog(th)
        t   == Delete(Create(th, m), i)
    IN  /\ At(k, "transfer", "begun")
        /\ ~Locked(k, i)
        /\ \/ /\ m.bot
              /\ LET j == JoinBot(t, new)
                 IN  Commit(k, IF call[k].active /\ i \in OnStack(j) THEN Pop(j, i, "transfer") ELSE j,
                            JoinEvent(t, new))
           \/ /\ ~m.bot /\ call[k].active /\ i \in OnStack(t)
              /\ Commit(k, Pop(t, i, "handoff"), NoEvent)
           \/ /\ ~m.bot /\ call[k].active /\ i \notin OnStack(t)
              /\ Return(k)
           \/ /\ ~m.bot /\ ~call[k].active /\ m.op
              /\ Commit(k, ReleaseToAgent(t), ReleaseToAgentEvent(t))
           \/ /\ ~m.bot /\ ~call[k].active /\ ~m.op
              /\ Commit(k, t, NoEvent)

\* RemoveMember reads its target first.  FindActorsPair does not read is_bot, so
\* every target takes the path of a human.
RemoveMember(k, d) ==
    /\ d \in Live(th)
    /\ Begin(k, [NoCall EXCEPT !.op = "remove", !.phase = "begun", !.d = d])

RemoveCommit(k) ==
    LET d == call[k].d
        t == Delete(th, d)
    IN  /\ At(k, "remove", "begun")
        /\ ~Locked(k, d)
        /\ IF th.mem[d].op
           THEN Commit(k, RestoreAfterAgent(t), RestoreAfterAgentEvent(t))
           ELSE Commit(k, t, NoEvent)

-----------------------------------------------------------------------------
(* Completion and /close *)

\* Mutant: the owner completes like any other bot.
CompleteBotControlMutant(k, d) ==
    /\ d \in OnStack(th)
    /\ Begin(k, [NoCall EXCEPT !.op = "complete", !.phase = "pop", !.d = d,
                               !.active = Top(th.stack) = d, !.owner = th.owner])

\* CompleteBotControl, for any bot, late or twice: nothing to do for one that is
\* not on the stack, or for the owner.
CompleteBotControl(k, d) ==
    /\ d \in OnStack(th)
    /\ d # th.owner
    /\ Begin(k, [NoCall EXCEPT !.op = "complete", !.phase = "pop", !.d = d,
                               !.active = Top(th.stack) = d, !.owner = th.owner])

\* /close, for a thread it read with a controller.
ReleaseBotControl(k) ==
    /\ th.controller # Nil
    /\ Begin(k, [NoCall EXCEPT !.op = "release", !.phase = "begun"])

\* ReleaseBotControl pops the top; with no stack it clears the controller.
ReleaseRead(k) ==
    /\ At(k, "release", "begun")
    /\ IF th.stack = <<>>
       THEN Continue(k, [call[k] EXCEPT !.phase = "clear"])
       ELSE Continue(k, [call[k] EXCEPT !.phase = "pop", !.d = Top(th.stack)])

\* Pop's first statement reads the entry, then waits for its row lock; an entry
\* that another call deleted meanwhile is still reported.
PopSnapshot(k) ==
    LET d == call[k].d
    IN  /\ call[k].phase = "pop"
        /\ IF d \in OnStack(th)
           THEN Continue(k, [call[k] EXCEPT !.phase = "delete", !.isTop = Top(th.stack) = d])
           ELSE Return(k)

PopDelete(k) ==
    LET d == call[k].d
    IN  /\ call[k].phase = "delete"
        /\ ~Locked(k, d)
        /\ Continue(k, [call[k] EXCEPT !.phase = "top", !.popped = d \in OnStack(th)])

\* The second statement reads the new top; its update of the thread row may wait.
PopTop(k) ==
    /\ call[k].phase = "top"
    /\ Continue(k, [call[k] EXCEPT !.phase = "update", !.top = Top(Without(th.stack, call[k].d))])

Entry(k) == IF call[k].popped THEN PopEntry(th, call[k].d) ELSE th

CompleteCommit(k) ==
    LET c == call[k]
        t == Entry(k)
        newTop == Popped(t, c.top, c.isTop, "completed")
    IN  /\ At(k, "complete", "update")
        /\ Commit(k, [t EXCEPT !.controller = Controller(t, c.top, c.isTop, "completed")],
                  IF c.active /\ newTop # Nil /\ newTop # c.owner
                  THEN [granted |-> newTop, released |-> c.d] ELSE NoEvent)

ReleaseCommit(k) ==
    LET c == call[k]
        t == Entry(k)
    IN  /\ At(k, "release", "update")
        /\ c.d # Nil
        /\ Commit(k, [t EXCEPT !.controller = Controller(t, c.top, c.isTop, "client_leave")],
                  [granted |-> Popped(t, c.top, c.isTop, "client_leave"), released |-> c.d])

-----------------------------------------------------------------------------
(* Operators, and the customer's next message *)

\* verifyOperator
HandBackToBot(k) ==
    /\ Operators(th) # {}
    /\ Begin(k, [NoCall EXCEPT !.op = "handback", !.phase = "begun"])

\* RestoreController reads the controller and the candidate...
HandBackRead(k) ==
    /\ At(k, "handback", "begun")
    /\ IF Coalesce(th.controller, Candidate(th)) = Nil
       THEN Return(k)
       ELSE Continue(k, [call[k] EXCEPT !.phase = "update", !.prev = th.controller, !.top = Candidate(th)])

\* ...and sets it only where both the row it read and the row it locks have none.
HandBackCommit(k) ==
    LET c == call[k]
    IN  /\ At(k, "handback", "update")
        /\ Commit(k, IF c.prev = Nil THEN [th EXCEPT !.controller = Coalesce(@, c.top)] ELSE th,
                  [granted |-> Coalesce(c.prev, c.top), released |-> Nil])

TakeOverFromBot(k) ==
    /\ Operators(th) # {}
    /\ Begin(k, [NoCall EXCEPT !.op = "takeover", !.phase = "clear"])

\* ClearController, for TakeOverFromBot and for /close with an empty stack: reads
\* the controller, then clears whatever the row it locks holds.
ClearRead(k) ==
    /\ call[k].phase = "clear"
    /\ IF th.controller = Nil
       THEN Return(k)
       ELSE Continue(k, [call[k] EXCEPT !.phase = "update", !.prev = th.controller])

ClearCommit(k) ==
    /\ \/ At(k, "takeover", "update")
       \/ At(k, "release", "update") /\ call[k].d = Nil
    /\ Commit(k, [th EXCEPT !.controller = Nil], [granted |-> Nil, released |-> call[k].prev])

\* ensureBotControl: a message to a bot of a thread whose bot lost control and that has
\* no operator; any bot member may come first in the unordered member list.
EnsureBotControl(k, to, d) ==
    /\ th.controller = Nil
    /\ to \in Bots(th)
    /\ Operators(th) = {}
    /\ d \in Bots(th)
    /\ Begin(k, [NoCall EXCEPT !.op = "ensure", !.phase = "begun", !.d = d])

EnsureRead(k) ==
    /\ At(k, "ensure", "begun")
    /\ Continue(k, [call[k] EXCEPT !.phase = "update", !.top = Top(th.stack)])

\* Mutant: a thread that has a stack is left as it is.
EnsureCommitMutant(k) ==
    LET c == call[k]
    IN  /\ At(k, "ensure", "update")
        /\ IF c.top # Nil \/ c.d \in OnStack(th)
           THEN Return(k)
           ELSE Commit(k, Push(th, c.d), [granted |-> c.d, released |-> Nil])

EnsureCommit(k) ==
    LET c == call[k]
        e == [granted |-> c.d, released |-> Nil]
    IN  /\ At(k, "ensure", "update")
        /\ \/ /\ c.top # Nil
              /\ Commit(k, [th EXCEPT !.controller = c.top], e)
           \/ /\ c.top = Nil /\ c.d \notin OnStack(th)
              /\ Commit(k, Push(th, c.d), e)
           \/ /\ c.top = Nil /\ c.d \in OnStack(th)
              /\ Return(k)

-----------------------------------------------------------------------------
(* Specification *)

Init ==
    /\ th = [st |-> [d \in Dialogs |-> "none"], mem |-> [d \in Dialogs |-> Client],
             stack |-> <<>>, controller |-> Nil, owner |-> Nil]
    /\ event = NoEvent
    /\ call = [k \in Calls |-> NoCall]
    /\ fails = 0

\* The statements of a call once it has begun.
Step(k) ==
    \/ TransferCommit(k)
    \/ RemoveCommit(k)
    \/ ReleaseRead(k)
    \/ PopSnapshot(k)
    \/ PopDelete(k)
    \/ PopTop(k)
    \/ CompleteCommit(k)
    \/ ReleaseCommit(k)
    \/ HandBackRead(k)
    \/ HandBackCommit(k)
    \/ ClearRead(k)
    \/ ClearCommit(k)
    \/ EnsureRead(k)
    \/ EnsureCommit(k)

Message(k) == \E to, d \in Dialogs : EnsureBotControl(k, to, d)

Next ==
    \E k \in Calls :
         \/ \E b \in BOOLEAN : CreateDirectThread(k, b)
         \/ \E m \in Joiners : AddMember(k, m)
         \/ \E d \in Dialogs, m \in Joiners : Transfer(k, d, m)
         \/ \E d \in Dialogs : RemoveMember(k, d)
         \/ \E d \in Dialogs : CompleteBotControl(k, d)
         \/ ReleaseBotControl(k)
         \/ HandBackToBot(k)
         \/ TakeOverFromBot(k)
         \/ Message(k)
         \/ Step(k)
         \/ CallFails(k)

Spec == Init /\ [][Next]_vars

\* A call runs to its end, and the customer keeps writing to a bot: every message
\* is handled by a call of its own, whatever the other calls do.
FairSpec ==
    /\ Spec
    /\ \A k \in Calls : WF_vars(Step(k)) /\ SF_vars(Message(k))

-----------------------------------------------------------------------------
(* Properties *)

\* A bot that controls the thread is the top of the stack or, with no stack, the
\* owner the fallback names, so that a completion resumes the right bot.
ControllerOnTop ==
    th.controller # Nil =>
        th.controller = IF th.stack = <<>> THEN th.owner ELSE Top(th.stack)

\* What call k read without the thread lock, and is about to write from, is still so.
UpToDate(k) ==
    LET c == call[k]
    IN  c.phase = "update" =>
          /\ c.op \in {"complete", "release"} /\ c.d # Nil =>
               /\ c.popped /\ c.d \in OnStack(th)
               /\ c.isTop <=> Top(th.stack) = c.d
               /\ c.top = Top(Without(th.stack, c.d))
          /\ c.op = "handback" => c.prev = th.controller /\ c.top = Candidate(th)
          /\ c.op = "ensure" => c.top = Top(th.stack)

\* The call whose step this is does not write from a stale read.
NoStaleWrite == \A k \in Calls : call'[k] # call[k] => UpToDate(k)

\* Control leaves the top of the stack only by a write from a stale read: no join,
\* transfer, removal, completion, /close, hand-back or message that saw the rows it
\* overwrites leaves another bot in control, whatever ran before and beside it
\* (bot_control_store.go Pop: "If the member was the current top, updates
\* bot_controller_id to the new top (or owner_bot_id if stack is now empty)").
ControlFollowsStack == [][ControllerOnTop /\ NoStaleWrite => ControllerOnTop']_vars

\* A completion never takes the owner bot off the stack, whatever ran between
\* its statements (thread_manager.go CompleteBotControl: the owner "must never
\* complete or leave").
OwnerKept ==
    [][\A k \in Calls :
          At(k, "complete", "update") /\ call'[k] = NoCall /\ th.owner \in OnStack(th)
            => th'.owner = th.owner /\ th.owner \in OnStack(th')]_vars

\* A bot is told that it has control only by a transaction that leaves the thread to
\* a bot, unless that transaction wrote from a stale read (thread_manager.go
\* publishBotControlGranted and its callers, HandBackToBot among them).
GrantsReal == [][event'.granted # Nil /\ NoStaleWrite => th'.controller # Nil]_vars

\* A bot that is removed from the thread loses control of it (thread_manager.go
\* RemoveMember).
RemovedLosesControl == \A d \in Dialogs : th.st[d] = "left" => th.controller # d

\* A thread with a bot and no operator is not left unanswered: a bot controls
\* it again once the customer writes (thread_manager.go ensureBotControl,
\* restoreControlAfterAgent).
BotAnswers ==
    (Bots(th) # {} /\ Operators(th) = {})
        ~> (th.controller # Nil \/ Operators(th) # {} \/ Bots(th) = {})
=============================================================================
