------------------------------ MODULE ModPipe ------------------------------
(***************************************************************************)
(* internal/delivery/modclient/client.go: requests multiplexed over the    *)
(* stdio of one delivery-module child process, and what a caller may       *)
(* conclude when the child, the pipe or its own patience ends first.       *)
(*                                                                         *)
(* One action per step another goroutine can observe: do() is the caller's *)
(* five stops, writer(), reader()/dispatch() and the supervisor's          *)
(* detach / reap / failPending are the goroutines that race with it.  A    *)
(* child is numbered by its generation; children that never say hello      *)
(* carry no requests and belong to ModSupervisor.                          *)
(***************************************************************************)
EXTENDS Integers, Sequences

CONSTANTS
    Calls,      \* requests, each made once
    MaxGen,     \* bound: generations (accepted hellos) explored
    Cap         \* capacity of a child's writeCh (64 in the code)

ASSUME PipeAssumption == MaxGen \in Nat \ {0} /\ Cap \in Nat \ {0}

VARIABLES
    cur,        \* Client.cur: the connected child's generation, or 0
    gen,        \* Client.gen
    stopping,   \* Client.stopping
    phase,      \* how far the supervisor has taken each child
    exited,     \* child.exited closed
    broken,     \* child.broken closed
    readerDone, \* child.readerDone closed
    writerGone, \* the writer goroutine has returned
    pending,    \* child.pending, by child (closed <=> phase "closed"/"dead")
    failing,    \* failPending's local copy, the part not yet completed
    queue,      \* child.writeCh
    hand,       \* the call the reader has unlinked and not yet finished
    pc,         \* where each do() is
    via,        \* the child a do() runs on, 0 before connected()
    frame,      \* call.state
    out,        \* call.out (capacity 1)
    res,        \* what do() returned
    wire,       \* calls of whose frame a byte has reached the pipe
    seen,       \* calls the module has acted on
    reply,      \* the response line the module wrote for a call
    unread      \* calls whose response is still in the child's stdout

clientVars == <<cur, gen, stopping>>
childVars  == <<phase, exited, broken, readerDone, writerGone>>
tableVars  == <<pending, failing, queue, hand>>
callVars   == <<pc, via, frame, out, res>>
worldVars  == <<wire, seen, reply, unread>>
vars == <<clientVars, childVars, tableVars, callVars, worldVars>>

Gens == 1 .. MaxGen
Phases == {"unborn", "launched", "up", "detached", "closed", "dead"}

TypeOK ==
    /\ cur \in 0 .. MaxGen /\ gen \in 0 .. MaxGen /\ stopping \in BOOLEAN
    /\ phase \in [Gens -> Phases]
    /\ exited \in [Gens -> BOOLEAN] /\ broken \in [Gens -> BOOLEAN]
    /\ readerDone \in [Gens -> BOOLEAN] /\ writerGone \in [Gens -> BOOLEAN]
    /\ pending \in [Gens -> SUBSET Calls] /\ failing \in [Gens -> SUBSET Calls]
    /\ queue \in [Gens -> Seq(Calls)] /\ hand \in [Gens -> SUBSET Calls]
    /\ pc \in [Calls -> {"idle", "connected", "registered", "waiting",
                         "giveup", "done"}]
    /\ via \in [Calls -> 0 .. MaxGen]
    /\ frame \in [Calls -> {"none", "queued", "writing", "sent", "dropped"}]
    /\ out \in [Calls -> {"none", "answer", "junk", "notSent", "lost"}]
    /\ res \in [Calls -> {"none", "answered", "tooLarge", "notSent", "lost"}]
    /\ wire \subseteq Calls /\ seen \subseteq Calls /\ unread \subseteq Calls
    /\ reply \in [Calls -> {"none", "answer", "junk"}]

Init ==
    /\ cur = 0 /\ gen = 0 /\ stopping = FALSE
    /\ phase = [g \in Gens |-> "unborn"]
    /\ exited = [g \in Gens |-> FALSE] /\ broken = [g \in Gens |-> FALSE]
    /\ readerDone = [g \in Gens |-> FALSE] /\ writerGone = [g \in Gens |-> FALSE]
    /\ pending = [g \in Gens |-> {}] /\ failing = [g \in Gens |-> {}]
    /\ queue = [g \in Gens |-> <<>>] /\ hand = [g \in Gens |-> {}]
    /\ pc = [c \in Calls |-> "idle"] /\ via = [c \in Calls |-> 0]
    /\ frame = [c \in Calls |-> "none"] /\ out = [c \in Calls |-> "none"]
    /\ res = [c \in Calls |-> "none"]
    /\ wire = {} /\ seen = {} /\ unread = {}
    /\ reply = [c \in Calls |-> "none"]

-----------------------------------------------------------------------------
(* call.never() and call.finish().                                          *)

\* No byte of c's frame can have reached the pipe, nor ever will: the
\* compare-and-swap queued -> dropped, or dropped already.
Never(c) == frame[c] \in {"queued", "dropped"}

\* Mutant: the state is only read, so the frame stays in writeCh.
DropIfQueuedLoadOnly(c) == frame

DropIfQueued(c) == [frame EXCEPT ![c] = IF @ = "queued" THEN "dropped" ELSE @]

\* The first completion wins: a full out channel discards later ones.
Finish(c, o) == [out EXCEPT ![c] = IF @ = "none" THEN o ELSE @]

\* Mutant: register is refused only once dead is closed.
ClosedWhenDead(g) == phase[g] = "dead"

Closed(g) == phase[g] \in {"closed", "dead"}

-----------------------------------------------------------------------------
(* The caller: roundTrip and do().                                          *)

Return(c, r) ==
    /\ pc' = [pc EXCEPT ![c] = "done"]
    /\ res' = [res EXCEPT ![c] = r]

\* roundTrip: connected() under Client.mu; no child, nothing sent.
Connect(c) ==
    /\ pc[c] = "idle"
    /\ \/ /\ cur = 0 \/ stopping
          /\ Return(c, "notSent")
          /\ UNCHANGED via
       \/ /\ cur # 0 /\ ~ stopping
          /\ pc' = [pc EXCEPT ![c] = "connected"]
          /\ via' = [via EXCEPT ![c] = cur]
          /\ UNCHANGED res
    /\ UNCHANGED <<clientVars, childVars, tableVars, worldVars, frame, out>>

\* do(): the caller's context is already done, or the frame is over the limit.
RefuseEarly(c) ==
    /\ pc[c] = "connected"
    /\ \E r \in {"notSent", "tooLarge"} : Return(c, r)
    /\ UNCHANGED <<clientVars, childVars, tableVars, worldVars, via, frame, out>>

\* do(): register under child.mu, refused once failPending has run.
Register(c) ==
    /\ pc[c] = "connected"
    /\ LET g == via[c] IN
       \/ /\ Closed(g)
          /\ Return(c, "notSent")
          /\ UNCHANGED <<pending, frame>>
       \/ /\ ~ Closed(g)
          /\ pending' = [pending EXCEPT ![g] = @ \cup {c}]
          /\ frame' = [frame EXCEPT ![c] = "queued"]
          /\ pc' = [pc EXCEPT ![c] = "registered"]
          /\ UNCHANGED res
    /\ UNCHANGED <<clientVars, childVars, worldVars, failing, queue, hand, via, out>>

\* do(), first select, writeCh has room.
Enqueue(c) ==
    /\ pc[c] = "registered"
    /\ Len(queue[via[c]]) < Cap
    /\ queue' = [queue EXCEPT ![via[c]] = Append(@, c)]
    /\ pc' = [pc EXCEPT ![c] = "waiting"]
    /\ UNCHANGED <<clientVars, childVars, worldVars, pending, failing, hand,
                   via, frame, out, res>>

\* Mutant: the first select has no case for the child's death.
SkipDeadMissing(c) == FALSE /\ UNCHANGED vars

\* do(), first select, the child is dead: the outcome is already in out.
SkipDead(c) ==
    /\ pc[c] = "registered"
    /\ phase[via[c]] = "dead"
    /\ pc' = [pc EXCEPT ![c] = "waiting"]
    /\ UNCHANGED <<clientVars, childVars, tableVars, worldVars, via, frame, out, res>>

\* The deadline or the caller's context ends the wait: in the first select at
\* once, in the second only if the re-check of out finds nothing.
GiveUp(c) ==
    /\ \/ pc[c] = "registered"
       \/ pc[c] = "waiting" /\ out[c] = "none"
    /\ pc' = [pc EXCEPT ![c] = "giveup"]
    /\ UNCHANGED <<clientVars, childVars, tableVars, worldVars, via, frame, out, res>>

\* abandon(): one compare-and-swap decides between ErrNotSent and ErrLost; the
\* deferred unregister runs on the way out.
Abandon(c) ==
    /\ pc[c] = "giveup"
    /\ Return(c, IF Never(c) THEN "notSent" ELSE "lost")
    /\ frame' = DropIfQueued(c)
    /\ pending' = [pending EXCEPT ![via[c]] = @ \ {c}]
    /\ UNCHANGED <<clientVars, childVars, worldVars, failing, queue, hand, via, out>>

\* do(), second select, the outcome is there; answer() calls a response that is
\* not a usable object lost.
TakeOutcome(c) ==
    /\ pc[c] = "waiting"
    /\ out[c] # "none"
    /\ Return(c, CASE out[c] = "answer" -> "answered"
                   [] out[c] = "notSent" -> "notSent"
                   [] OTHER -> "lost")
    /\ pending' = [pending EXCEPT ![via[c]] = @ \ {c}]
    /\ UNCHANGED <<clientVars, childVars, worldVars, failing, queue, hand,
                   via, frame, out>>

-----------------------------------------------------------------------------
(* The writer goroutine of child g.                                         *)

Writing(g) == {c \in Calls : via[c] = g /\ frame[c] = "writing"}

\* Take the next frame; one whose caller gave up is skipped, never written.
WriterTake(g) ==
    /\ ~ writerGone[g] /\ Writing(g) = {}
    /\ queue[g] # <<>>
    /\ LET c == Head(queue[g]) IN
       frame' = [frame EXCEPT ![c] = IF @ = "queued" THEN "writing" ELSE @]
    /\ queue' = [queue EXCEPT ![g] = Tail(@)]
    /\ UNCHANGED <<clientVars, childVars, worldVars, pending, failing, hand,
                   pc, via, out, res>>

\* Inside Write: bytes reach the pipe, where the module may read them before
\* Write returns.
WriteBytes(c) ==
    /\ frame[c] = "writing"
    /\ wire' = wire \cup {c}
    /\ UNCHANGED <<clientVars, childVars, tableVars, callVars, seen, reply, unread>>

\* Mutant: a partial write is taken for no write.
WriteSentForgetsBytes(c) ==
    /\ frame[c] = "writing" /\ c \in wire
    /\ frame' = [frame EXCEPT ![c] = "dropped"]
    /\ out' = Finish(c, "notSent")
    /\ UNCHANGED <<clientVars, childVars, tableVars, worldVars, pc, via, res>>

\* Write returned: everything, or an error after part of the frame (n > 0) -
\* the module may act on either.
WriteSent(c) ==
    /\ frame[c] = "writing" /\ c \in wire
    /\ frame' = [frame EXCEPT ![c] = "sent"]
    /\ broken' \in {broken, [broken EXCEPT ![via[c]] = TRUE]}
    /\ UNCHANGED <<clientVars, tableVars, worldVars, phase, exited, readerDone,
                   writerGone, pc, via, out, res>>

\* Write returned an error with n = 0.
WriteFailed(c) ==
    /\ frame[c] = "writing" /\ c \notin wire
    /\ frame' = [frame EXCEPT ![c] = "dropped"]
    /\ out' = Finish(c, "notSent")
    /\ broken' = [broken EXCEPT ![via[c]] = TRUE]
    /\ UNCHANGED <<clientVars, tableVars, worldVars, phase, exited, readerDone,
                   writerGone, pc, via, res>>

WriterReturns(g) ==
    /\ phase[g] = "dead" /\ ~ writerGone[g] /\ Writing(g) = {}
    /\ writerGone' = [writerGone EXCEPT ![g] = TRUE]
    /\ UNCHANGED <<clientVars, tableVars, callVars, worldVars, phase, exited,
                   broken, readerDone>>

-----------------------------------------------------------------------------
(* The reader goroutine of child g.                                         *)

\* dispatch(): a response of another generation is dropped; otherwise unlink
\* the call from pending under child.mu.
Match(g, c) ==
    /\ ~ readerDone[g] /\ hand[g] = {}
    /\ c \in unread /\ via[c] = g
    /\ unread' = unread \ {c}
    /\ IF g = gen /\ c \in pending[g]
       THEN /\ pending' = [pending EXCEPT ![g] = @ \ {c}]
            /\ hand' = [hand EXCEPT ![g] = {c}]
       ELSE UNCHANGED <<pending, hand>>
    /\ UNCHANGED <<clientVars, childVars, callVars, failing, queue, wire, seen, reply>>

\* ... and, after the unlock, finish it.
Deliver(g, c) ==
    /\ c \in hand[g]
    /\ out' = Finish(c, reply[c])
    /\ hand' = [hand EXCEPT ![g] = {}]
    /\ UNCHANGED <<clientVars, childVars, worldVars, pending, failing, queue,
                   pc, via, frame, res>>

\* The stream ends (exit, or the module closed its stdout) once it is drained.
ReaderReturns(g) ==
    /\ phase[g] # "unborn" /\ ~ readerDone[g] /\ hand[g] = {}
    /\ \A c \in unread : via[c] # g
    /\ readerDone' = [readerDone EXCEPT ![g] = TRUE]
    /\ broken' = [broken EXCEPT ![g] = TRUE]
    /\ UNCHANGED <<clientVars, tableVars, callVars, worldVars, phase, exited, writerGone>>

-----------------------------------------------------------------------------
(* The supervisor: runChild, detachEnded, reap, failPending.                *)

\* runChild starts a child only after the one before it has been reaped.
Launch(g) ==
    /\ g = gen + 1 /\ ~ stopping
    /\ phase[g] = "unborn"
    /\ \A h \in Gens : phase[h] \in {"unborn", "dead"}
    /\ phase' = [phase EXCEPT ![g] = "launched"]
    /\ UNCHANGED <<clientVars, tableVars, callVars, worldVars, exited, broken,
                   readerDone, writerGone>>

\* The hello is accepted (runChild's select may prefer it to a pending Stop).
Hello(g) ==
    /\ phase[g] = "launched"
    /\ phase' = [phase EXCEPT ![g] = "up"]
    /\ cur' = g /\ gen' = g
    /\ UNCHANGED <<tableVars, callVars, worldVars, stopping, exited, broken,
                   readerDone, writerGone>>

Stop ==
    /\ ~ stopping
    /\ stopping' = TRUE
    /\ UNCHANGED <<childVars, tableVars, callVars, worldVars, cur, gen>>

\* detachEnded, or runChild's stopCh branch: no new request gets this child.
Detach(g) ==
    /\ phase[g] = "up"
    /\ exited[g] \/ broken[g] \/ stopping
    /\ phase' = [phase EXCEPT ![g] = "detached"]
    /\ cur' = IF cur = g THEN 0 ELSE cur
    /\ UNCHANGED <<tableVars, callVars, worldVars, gen, stopping, exited, broken,
                   readerDone, writerGone>>

\* reap: the waits for exit and for the reader are bounded, so this may run
\* while either is still going; failPending closes the table and takes it.
FailPending(g) ==
    /\ phase[g] = "detached"
    /\ phase' = [phase EXCEPT ![g] = "closed"]
    /\ failing' = [failing EXCEPT ![g] = pending[g]]
    /\ pending' = [pending EXCEPT ![g] = {}]
    /\ UNCHANGED <<clientVars, callVars, worldVars, exited, broken, readerDone,
                   writerGone, queue, hand>>

\* failPending's loop, one call at a time.
FailOne(g, c) ==
    /\ c \in failing[g]
    /\ failing' = [failing EXCEPT ![g] = @ \ {c}]
    /\ out' = Finish(c, IF Never(c) THEN "notSent" ELSE "lost")
    /\ frame' = DropIfQueued(c)
    /\ UNCHANGED <<clientVars, childVars, worldVars, pending, queue, hand, pc, via, res>>

\* reap: close(child.dead).
CloseDead(g) ==
    /\ phase[g] = "closed" /\ failing[g] = {}
    /\ phase' = [phase EXCEPT ![g] = "dead"]
    /\ UNCHANGED <<clientVars, tableVars, callVars, worldVars, exited, broken,
                   readerDone, writerGone>>

-----------------------------------------------------------------------------
(* The module process and the machine.                                      *)

ProcessExits(g) ==
    /\ phase[g] # "unborn" /\ ~ exited[g]
    /\ exited' = [exited EXCEPT ![g] = TRUE]
    /\ UNCHANGED <<clientVars, tableVars, callVars, worldVars, phase, broken,
                   readerDone, writerGone>>

\* A second missed health probe: ModSupervisor decides when.
ProbeBreaks(g) ==
    /\ phase[g] = "up" /\ ~ broken[g]
    /\ broken' = [broken EXCEPT ![g] = TRUE]
    /\ UNCHANGED <<clientVars, tableVars, callVars, worldVars, phase, exited,
                   readerDone, writerGone>>

ModuleActs(c) ==
    /\ c \in wire \ seen /\ ~ exited[via[c]]
    /\ seen' = seen \cup {c}
    /\ UNCHANGED <<clientVars, childVars, tableVars, callVars, wire, reply, unread>>

ModuleReplies(c) ==
    /\ c \in seen /\ ~ exited[via[c]] /\ ~ readerDone[via[c]]
    /\ reply[c] = "none"
    /\ \E r \in {"answer", "junk"} : reply' = [reply EXCEPT ![c] = r]
    /\ unread' = unread \cup {c}
    /\ UNCHANGED <<clientVars, childVars, tableVars, callVars, wire, seen>>

-----------------------------------------------------------------------------
Caller(c) ==
    \/ Connect(c) \/ RefuseEarly(c) \/ Register(c) \/ Enqueue(c)
    \/ SkipDead(c) \/ GiveUp(c) \/ Abandon(c) \/ TakeOutcome(c)

Writer(g) == WriterTake(g) \/ WriterReturns(g)

Pipe(c) == WriteBytes(c) \/ WriteSent(c) \/ WriteFailed(c)

Reader(g) == ReaderReturns(g) \/ \E c \in Calls : Match(g, c) \/ Deliver(g, c)

Supervisor(g) ==
    \/ Launch(g) \/ Hello(g) \/ Detach(g) \/ FailPending(g) \/ CloseDead(g)
    \/ \E c \in Calls : FailOne(g, c)

Module(c) == ModuleActs(c) \/ ModuleReplies(c)

Next ==
    \/ Stop
    \/ \E c \in Calls : Caller(c) \/ Pipe(c) \/ Module(c)
    \/ \E g \in Gens :
         Writer(g) \/ Reader(g) \/ Supervisor(g) \/ ProcessExits(g) \/ ProbeBreaks(g)

Spec == Init /\ [][Next]_vars

(* Goroutines that are runnable run, the reader once it has unlinked a call  *)
(* included.  Nothing is assumed of the module, of Write, of what the reader *)
(* reads, of any deadline or of the caller's context.                       *)
Fairness ==
    /\ \A g \in Gens :
         /\ WF_vars(Detach(g)) /\ WF_vars(FailPending(g)) /\ WF_vars(CloseDead(g))
         /\ WF_vars(\E c \in Calls : FailOne(g, c))
         /\ WF_vars(\E c \in Calls : Deliver(g, c))
    /\ \A c \in Calls :
         WF_vars(Register(c)) /\ WF_vars(SkipDead(c))
         /\ WF_vars(Abandon(c)) /\ WF_vars(TakeOutcome(c))

FairSpec == Spec /\ Fairness

-----------------------------------------------------------------------------
(* Properties.                                                              *)

\* A caller told "not sent" (do: ErrNotSent, or the local too-large) may send
\* the message another way: no byte of the frame is in the pipe.  Since the
\* property holds in every later state too, none ever gets there, although the
\* frame may still sit in writeCh when the caller leaves.
NotSentIsTrue == \A c \in Calls : res[c] \in {"notSent", "tooLarge"} => c \notin wire

\* What makes it inductive: the call state tells the truth about the wire, and
\* everything that says "not sent" is backed by a dropped frame - or by none.
NotSentInv ==
    /\ seen \subseteq wire /\ unread \subseteq seen
    /\ \A c \in Calls :
         /\ frame[c] \in {"none", "queued", "dropped"} => c \notin wire
         /\ pc[c] \in {"idle", "connected"} => frame[c] = "none"
         /\ pc[c] # "done" => res[c] = "none"
         /\ c \in unread => reply[c] # "none"
         /\ reply[c] # "none" => c \in seen
         /\ \A g \in Gens : c \in hand[g] => reply[c] # "none"
         /\ out[c] = "notSent" => frame[c] = "dropped"
         /\ out[c] = "answer" => c \in seen
         /\ res[c] \in {"notSent", "tooLarge"} => frame[c] \in {"none", "dropped"}
         /\ res[c] = "answered" => c \in seen

\* failPending "completes every request still waiting on this child ... so none
\* can be stranded": once dead is closed, every registered call has its outcome,
\* or the reader, which unlinked it first, is about to give it one.
NeverStranded ==
    \A c \in Calls :
        pc[c] \in {"registered", "waiting"} /\ phase[via[c]] = "dead" /\ out[c] = "none"
            => c \in hand[via[c]]

\* A request that was still queued when its child was declared dead is dropped,
\* not left for a writer that has not noticed yet (the writer's select may
\* prefer writeCh to dead).
QueuedDiesWithChild ==
    \A c \in Calls : frame[c] = "queued" => ~ phase[via[c]] = "dead"

\* What makes these two inductive.  The tables are as empty as the phase says
\* and hold only their own child's calls ...
TableInv ==
    \A g \in Gens :
        /\ Closed(g) => pending[g] = {}
        /\ phase[g] # "closed" => failing[g] = {}
        /\ \A c \in pending[g] \cup failing[g] \cup hand[g] :
             via[c] = g /\ frame[c] # "none"
        /\ \A c, d \in hand[g] : c = d

\* ... and a registered call without an outcome is in the hands of somebody who
\* owes it one.
OwedInv ==
    \A c \in Calls :
        /\ pc[c] \notin {"idle", "done"} => via[c] \in Gens
        /\ out[c] # "none" => frame[c] \notin {"none", "queued"}
        /\ (pc[c] \in {"registered", "waiting"} /\ out[c] = "none") =>
             c \in pending[via[c]] \cup failing[via[c]] \cup hand[via[c]]
        /\ frame[c] = "queued" =>
             via[c] \in Gens /\ c \in pending[via[c]] \cup failing[via[c]]

NeverStrandedInv == TableInv /\ OwedInv

\* A request on a child the supervisor has let go of returns, whether it waits
\* for its answer or is still blocked on a full writeCh, and whatever the
\* module, the pipe, the reader and the deadlines do.
DetachedCallsReturn ==
    \A c \in Calls :
        (pc[c] \in {"registered", "waiting"} /\ phase[via[c]] = "detached")
            ~> (pc[c] = "done")

\* The client implements the promise in AtMostOnceRequest: a response that is
\* unusable counts as lost, a local too-large as not sent.
Promise == INSTANCE AtMostOnceRequest WITH
    verdict <- [c \in Calls |-> IF res[c] = "tooLarge" THEN "notSent" ELSE res[c]],
    effect <- seen

KeepsPromise == Promise!Spec
=============================================================================
