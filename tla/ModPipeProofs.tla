---------------------------- MODULE ModPipeProofs ----------------------------
(***************************************************************************)
(* Theorems about ModPipe, for every set of requests, every number of      *)
(* generations and every capacity of writeCh.                              *)
(***************************************************************************)
EXTENDS ModPipe, TLAPS

USE PipeAssumption DEF PipeAssumption, Gens, Phases

(* Every variable keeps its type.                                           *)
LEMMA TypeCorrect == Spec => []TypeOK
<1>1. Init => TypeOK
  <2> SUFFICES ASSUME Init PROVE TypeOK
    OBVIOUS
  <2>1. cur \in 0 .. MaxGen /\ gen \in 0 .. MaxGen /\ via \in [Calls -> 0 .. MaxGen]
    BY DEF Init
  <2>2. stopping \in BOOLEAN
    BY DEF Init
  <2> QED
    BY <2>1, <2>2 DEF Init, TypeOK
<1>2. TypeOK /\ [Next]_vars => TypeOK'
  <2> SUFFICES ASSUME TypeOK, [Next]_vars PROVE TypeOK'
    OBVIOUS
  <2>1. CASE Stop
    BY <2>1 DEF Stop, TypeOK, clientVars, childVars, tableVars, callVars, worldVars
  <2>2. ASSUME NEW c \in Calls, Connect(c) PROVE TypeOK'
    <3>0. via' = via \/ via' = [via EXCEPT ![c] = cur]
      BY <2>2 DEF Connect
    <3>1. /\ pc' = [pc EXCEPT ![c] = "done"] \/ pc' = [pc EXCEPT ![c] = "connected"]
          /\ res' = res \/ res' = [res EXCEPT ![c] = "notSent"]
      BY <2>2 DEF Connect, Return
    <3>2. via' \in [Calls -> 0 .. MaxGen]
      BY <3>0 DEF TypeOK
    <3>3. /\ UNCHANGED <<cur, gen, stopping, frame, out, wire, seen, unread, reply>>
          /\ UNCHANGED <<childVars, tableVars>>
      BY <2>2 DEF Connect, clientVars, worldVars
    <3>4. res' \in [Calls -> {"none", "answered", "tooLarge", "notSent", "lost"}]
      BY <3>1 DEF TypeOK
    <3>5. pc' \in [Calls -> {"idle", "connected", "registered", "waiting",
                             "giveup", "done"}]
      BY <3>1 DEF TypeOK
    <3> QED
      BY <3>2, <3>3, <3>4, <3>5 DEF TypeOK, childVars, tableVars
  <2>3. ASSUME NEW c \in Calls, RefuseEarly(c) PROVE TypeOK'
    BY <2>3 DEF RefuseEarly, Return, TypeOK, clientVars, childVars, tableVars, callVars, worldVars
  <2>4. ASSUME NEW c \in Calls, Register(c) PROVE TypeOK'
    <3>1. pending' = pending \/ pending' = [pending EXCEPT ![via[c]] = @ \cup {c}]
      BY <2>4 DEF Register
    <3>2. /\ pending \in [Gens -> SUBSET Calls]
          /\ \A g \in Gens : pending[g] \cup {c} \in SUBSET Calls
      BY DEF TypeOK
    <3>3. pending' \in [Gens -> SUBSET Calls]
      BY <3>1, <3>2
    <3>4. /\ res' = res \/ res' = [res EXCEPT ![c] = "notSent"]
          /\ pc' = [pc EXCEPT ![c] = "done"] \/ pc' = [pc EXCEPT ![c] = "registered"]
          /\ frame' = frame \/ frame' = [frame EXCEPT ![c] = "queued"]
          /\ UNCHANGED <<clientVars, childVars, worldVars, failing, queue, hand, via, out>>
      BY <2>4 DEF Register, Return
    <3>5. res' \in [Calls -> {"none", "answered", "tooLarge", "notSent", "lost"}]
      BY <3>4 DEF TypeOK
    <3>6. pc' \in [Calls -> {"idle", "connected", "registered", "waiting",
                             "giveup", "done"}]
      BY <3>4 DEF TypeOK
    <3>7. frame' \in [Calls -> {"none", "queued", "writing", "sent", "dropped"}]
      BY <3>4 DEF TypeOK
    <3> QED
      BY <3>3, <3>4, <3>5, <3>6, <3>7 DEF TypeOK, clientVars, childVars, worldVars
  <2>5. ASSUME NEW c \in Calls, Enqueue(c) PROVE TypeOK'
    <3>1. \A g \in Gens : Append(queue[g], c) \in Seq(Calls)
      BY DEF TypeOK
    <3>2. queue' \in [Gens -> Seq(Calls)]
      BY <2>5, <3>1 DEF Enqueue, TypeOK
    <3> QED
      BY <2>5, <3>2 DEF Enqueue, TypeOK, clientVars, childVars, worldVars
  <2>6. ASSUME NEW c \in Calls, SkipDead(c) PROVE TypeOK'
    BY <2>6 DEF SkipDead, TypeOK, clientVars, childVars, tableVars, callVars, worldVars
  <2>7. ASSUME NEW c \in Calls, GiveUp(c) PROVE TypeOK'
    BY <2>7 DEF GiveUp, TypeOK, clientVars, childVars, tableVars, callVars, worldVars
  <2>8. ASSUME NEW c \in Calls, Abandon(c) PROVE TypeOK'
    BY <2>8 DEF Abandon, Return, Never, DropIfQueued, TypeOK, clientVars, childVars, tableVars, callVars, worldVars
  <2>9. ASSUME NEW c \in Calls, TakeOutcome(c) PROVE TypeOK'
    BY <2>9 DEF TakeOutcome, Return, TypeOK, clientVars, childVars, tableVars, callVars, worldVars
  <2>10. ASSUME NEW c \in Calls, WriteBytes(c) PROVE TypeOK'
    BY <2>10 DEF WriteBytes, TypeOK, clientVars, childVars, tableVars, callVars, worldVars
  <2>11. ASSUME NEW c \in Calls, WriteSent(c) PROVE TypeOK'
    BY <2>11 DEF WriteSent, TypeOK, clientVars, childVars, tableVars, callVars, worldVars
  <2>12. ASSUME NEW c \in Calls, WriteFailed(c) PROVE TypeOK'
    BY <2>12 DEF WriteFailed, Finish, TypeOK, clientVars, childVars, tableVars, callVars, worldVars
  <2>13. ASSUME NEW c \in Calls, ModuleActs(c) PROVE TypeOK'
    BY <2>13 DEF ModuleActs, TypeOK, clientVars, childVars, tableVars, callVars, worldVars
  <2>14. ASSUME NEW c \in Calls, ModuleReplies(c) PROVE TypeOK'
    BY <2>14 DEF ModuleReplies, TypeOK, clientVars, childVars, tableVars, callVars, worldVars
  <2>15. ASSUME NEW g \in Gens, WriterTake(g) PROVE TypeOK'
    BY <2>15 DEF WriterTake, TypeOK, clientVars, childVars, tableVars, callVars, worldVars
  <2>16. ASSUME NEW g \in Gens, WriterReturns(g) PROVE TypeOK'
    BY <2>16 DEF WriterReturns, TypeOK, clientVars, childVars, tableVars, callVars, worldVars
  <2>17. ASSUME NEW g \in Gens, ReaderReturns(g) PROVE TypeOK'
    BY <2>17 DEF ReaderReturns, TypeOK, clientVars, childVars, tableVars, callVars, worldVars
  <2>18. ASSUME NEW g \in Gens, Launch(g) PROVE TypeOK'
    BY <2>18 DEF Launch, TypeOK, clientVars, childVars, tableVars, callVars, worldVars
  <2>19. ASSUME NEW g \in Gens, Hello(g) PROVE TypeOK'
    BY <2>19 DEF Hello, TypeOK, clientVars, childVars, tableVars, callVars, worldVars
  <2>20. ASSUME NEW g \in Gens, Detach(g) PROVE TypeOK'
    BY <2>20 DEF Detach, TypeOK, clientVars, childVars, tableVars, callVars, worldVars
  <2>21. ASSUME NEW g \in Gens, FailPending(g) PROVE TypeOK'
    BY <2>21 DEF FailPending, TypeOK, clientVars, childVars, tableVars, callVars, worldVars
  <2>22. ASSUME NEW g \in Gens, CloseDead(g) PROVE TypeOK'
    BY <2>22 DEF CloseDead, TypeOK, clientVars, childVars, tableVars, callVars, worldVars
  <2>23. ASSUME NEW g \in Gens, ProcessExits(g) PROVE TypeOK'
    BY <2>23 DEF ProcessExits, TypeOK, clientVars, childVars, tableVars, callVars, worldVars
  <2>24. ASSUME NEW g \in Gens, ProbeBreaks(g) PROVE TypeOK'
    BY <2>24 DEF ProbeBreaks, TypeOK, clientVars, childVars, tableVars, callVars, worldVars
  <2>25. ASSUME NEW g \in Gens, NEW c \in Calls, Match(g, c) PROVE TypeOK'
    <3>1. /\ pending' = pending \/ pending' = [pending EXCEPT ![g] = @ \ {c}]
          /\ hand' = hand \/ hand' = [hand EXCEPT ![g] = {c}]
      BY <2>25 DEF Match
    <3>2. pending \in [Gens -> SUBSET Calls] /\ hand \in [Gens -> SUBSET Calls]
      BY DEF TypeOK
    <3>3. pending' \in [Gens -> SUBSET Calls]
      BY <3>1, <3>2
    <3>4. hand' \in [Gens -> SUBSET Calls]
      BY <3>1, <3>2
    <3> QED
      BY <2>25, <3>3, <3>4 DEF Match, TypeOK, clientVars, childVars, callVars
  <2>26. ASSUME NEW g \in Gens, NEW c \in Calls, Deliver(g, c) PROVE TypeOK'
    BY <2>26 DEF Deliver, Finish, TypeOK, clientVars, childVars, tableVars, callVars, worldVars
  <2>27. ASSUME NEW g \in Gens, NEW c \in Calls, FailOne(g, c) PROVE TypeOK'
    BY <2>27 DEF FailOne, Finish, Never, DropIfQueued, TypeOK, clientVars, childVars, tableVars, callVars, worldVars
  <2>28. CASE UNCHANGED vars
    BY <2>28 DEF vars, TypeOK, clientVars, childVars, tableVars, callVars, worldVars
  <2> QED
    BY <2>1, <2>2, <2>3, <2>4, <2>5, <2>6, <2>7, <2>8, <2>9, <2>10, <2>11, <2>12, <2>13, <2>14, <2>15, <2>16, <2>17, <2>18, <2>19, <2>20, <2>21, <2>22, <2>23, <2>24, <2>25, <2>26, <2>27, <2>28 DEF Next, Caller, Pipe, Module, Writer, Reader, Supervisor
<1> QED
  BY <1>1, <1>2, PTL DEF Spec

-----------------------------------------------------------------------------
(* The invariant behind the first safety theorem.                           *)
LEMMA NotSentInvariant == Spec => []NotSentInv
<1>1. Init => NotSentInv
  BY DEF Init, NotSentInv
<1>2. TypeOK /\ NotSentInv /\ [Next]_vars => NotSentInv'
  <2> SUFFICES ASSUME TypeOK, NotSentInv, [Next]_vars PROVE NotSentInv'
    OBVIOUS
  <2>1. CASE Stop
    BY <2>1 DEF Stop, TypeOK, NotSentInv, clientVars, childVars, tableVars, callVars, worldVars
  <2>2. ASSUME NEW c \in Calls, Connect(c) PROVE NotSentInv'
    BY <2>2 DEF Connect, Return, TypeOK, NotSentInv, clientVars, childVars, tableVars, callVars, worldVars
  <2>3. ASSUME NEW c \in Calls, RefuseEarly(c) PROVE NotSentInv'
    BY <2>3 DEF RefuseEarly, Return, TypeOK, NotSentInv, clientVars, childVars, tableVars, callVars, worldVars
  <2>4. ASSUME NEW c \in Calls, Register(c) PROVE NotSentInv'
    <3>1. UNCHANGED <<wire, seen, unread, reply, hand, out>> /\ pc[c] = "connected"
      BY <2>4 DEF Register, worldVars
    <3>2. CASE res' = [res EXCEPT ![c] = "notSent"] /\ pc' = [pc EXCEPT ![c] = "done"]
               /\ UNCHANGED frame
      BY <3>1, <3>2 DEF TypeOK, NotSentInv
    <3>3. CASE UNCHANGED res /\ pc' = [pc EXCEPT ![c] = "registered"]
               /\ frame' = [frame EXCEPT ![c] = "queued"]
      BY <3>1, <3>3 DEF TypeOK, NotSentInv
    <3> QED
      BY <2>4, <3>2, <3>3 DEF Register, Return
  <2>5. ASSUME NEW c \in Calls, Enqueue(c) PROVE NotSentInv'
    BY <2>5 DEF Enqueue, TypeOK, NotSentInv, clientVars, childVars, tableVars, callVars, worldVars
  <2>6. ASSUME NEW c \in Calls, SkipDead(c) PROVE NotSentInv'
    BY <2>6 DEF SkipDead, TypeOK, NotSentInv, clientVars, childVars, tableVars, callVars, worldVars
  <2>7. ASSUME NEW c \in Calls, GiveUp(c) PROVE NotSentInv'
    BY <2>7 DEF GiveUp, TypeOK, NotSentInv, clientVars, childVars, tableVars, callVars, worldVars
  <2>8. ASSUME NEW c \in Calls, Abandon(c) PROVE NotSentInv'
    BY <2>8 DEF Abandon, Return, Never, DropIfQueued, TypeOK, NotSentInv, clientVars, childVars, tableVars, callVars, worldVars
  <2>9. ASSUME NEW c \in Calls, TakeOutcome(c) PROVE NotSentInv'
    BY <2>9 DEF TakeOutcome, Return, TypeOK, NotSentInv, clientVars, childVars, tableVars, callVars, worldVars
  <2>10. ASSUME NEW c \in Calls, WriteBytes(c) PROVE NotSentInv'
    BY <2>10 DEF WriteBytes, TypeOK, NotSentInv, clientVars, childVars, tableVars, callVars, worldVars
  <2>11. ASSUME NEW c \in Calls, WriteSent(c) PROVE NotSentInv'
    BY <2>11 DEF WriteSent, TypeOK, NotSentInv, clientVars, childVars, tableVars, callVars, worldVars
  <2>12. ASSUME NEW c \in Calls, WriteFailed(c) PROVE NotSentInv'
    BY <2>12 DEF WriteFailed, Finish, TypeOK, NotSentInv, clientVars, childVars, tableVars, callVars, worldVars
  <2>13. ASSUME NEW c \in Calls, ModuleActs(c) PROVE NotSentInv'
    BY <2>13 DEF ModuleActs, TypeOK, NotSentInv, clientVars, childVars, tableVars, callVars, worldVars
  <2>14. ASSUME NEW c \in Calls, ModuleReplies(c) PROVE NotSentInv'
    BY <2>14 DEF ModuleReplies, TypeOK, NotSentInv, clientVars, childVars, tableVars, callVars, worldVars
  <2>15. ASSUME NEW g \in Gens, WriterTake(g) PROVE NotSentInv'
    BY <2>15 DEF WriterTake, TypeOK, NotSentInv, clientVars, childVars, tableVars, callVars, worldVars
  <2>16. ASSUME NEW g \in Gens, WriterReturns(g) PROVE NotSentInv'
    BY <2>16 DEF WriterReturns, TypeOK, NotSentInv, clientVars, childVars, tableVars, callVars, worldVars
  <2>17. ASSUME NEW g \in Gens, ReaderReturns(g) PROVE NotSentInv'
    BY <2>17 DEF ReaderReturns, TypeOK, NotSentInv, clientVars, childVars, tableVars, callVars, worldVars
  <2>18. ASSUME NEW g \in Gens, Launch(g) PROVE NotSentInv'
    BY <2>18 DEF Launch, TypeOK, NotSentInv, clientVars, childVars, tableVars, callVars, worldVars
  <2>19. ASSUME NEW g \in Gens, Hello(g) PROVE NotSentInv'
    BY <2>19 DEF Hello, TypeOK, NotSentInv, clientVars, childVars, tableVars, callVars, worldVars
  <2>20. ASSUME NEW g \in Gens, Detach(g) PROVE NotSentInv'
    BY <2>20 DEF Detach, TypeOK, NotSentInv, clientVars, childVars, tableVars, callVars, worldVars
  <2>21. ASSUME NEW g \in Gens, FailPending(g) PROVE NotSentInv'
    BY <2>21 DEF FailPending, TypeOK, NotSentInv, clientVars, childVars, tableVars, callVars, worldVars
  <2>22. ASSUME NEW g \in Gens, CloseDead(g) PROVE NotSentInv'
    BY <2>22 DEF CloseDead, TypeOK, NotSentInv, clientVars, childVars, tableVars, callVars, worldVars
  <2>23. ASSUME NEW g \in Gens, ProcessExits(g) PROVE NotSentInv'
    BY <2>23 DEF ProcessExits, TypeOK, NotSentInv, clientVars, childVars, tableVars, callVars, worldVars
  <2>24. ASSUME NEW g \in Gens, ProbeBreaks(g) PROVE NotSentInv'
    BY <2>24 DEF ProbeBreaks, TypeOK, NotSentInv, clientVars, childVars, tableVars, callVars, worldVars
  <2>25. ASSUME NEW g \in Gens, NEW c \in Calls, Match(g, c) PROVE NotSentInv'
    BY <2>25 DEF Match, TypeOK, NotSentInv, clientVars, childVars, tableVars, callVars, worldVars
  <2>26. ASSUME NEW g \in Gens, NEW c \in Calls, Deliver(g, c) PROVE NotSentInv'
    BY <2>26 DEF Deliver, Finish, TypeOK, NotSentInv, clientVars, childVars, tableVars, callVars, worldVars
  <2>27. ASSUME NEW g \in Gens, NEW c \in Calls, FailOne(g, c) PROVE NotSentInv'
    BY <2>27 DEF FailOne, Finish, Never, DropIfQueued, TypeOK, NotSentInv, clientVars, childVars, tableVars, callVars, worldVars
  <2>28. CASE UNCHANGED vars
    BY <2>28 DEF vars, TypeOK, NotSentInv, clientVars, childVars, tableVars, callVars, worldVars
  <2> QED
    BY <2>1, <2>2, <2>3, <2>4, <2>5, <2>6, <2>7, <2>8, <2>9, <2>10, <2>11, <2>12, <2>13, <2>14, <2>15, <2>16, <2>17, <2>18, <2>19, <2>20, <2>21, <2>22, <2>23, <2>24, <2>25, <2>26, <2>27, <2>28 DEF Next, Caller, Pipe, Module, Writer, Reader, Supervisor
<1> QED
  BY <1>1, <1>2, TypeCorrect, PTL DEF Spec

(* ErrNotSent, and the too-large refused before sending, are true: no byte   *)
(* of the frame is in the pipe, now or later (modclient, package comment).   *)
THEOREM NotSentSafe == Spec => []NotSentIsTrue
<1>1. NotSentInv => NotSentIsTrue
  BY DEF NotSentInv, NotSentIsTrue
<1> QED
  BY <1>1, NotSentInvariant, PTL

-----------------------------------------------------------------------------
(* The invariant behind the two theorems about failPending.                 *)
LEMMA NeverStrandedInvariant == Spec => []NeverStrandedInv
<1>1. Init => NeverStrandedInv
  BY DEF Init, NeverStrandedInv, TableInv, OwedInv, Closed
<1>2. TypeOK /\ NotSentInv /\ NeverStrandedInv /\ [Next]_vars => NeverStrandedInv'
  <2> SUFFICES ASSUME TypeOK, NotSentInv, NeverStrandedInv, [Next]_vars
               PROVE  NeverStrandedInv'
    OBVIOUS
  <2>1. CASE Stop
    BY <2>1 DEF Stop, Closed, TypeOK, NotSentInv, NeverStrandedInv, TableInv, OwedInv, clientVars, childVars, tableVars, callVars, worldVars
  <2>2. ASSUME NEW c \in Calls, Connect(c) PROVE NeverStrandedInv'
    BY <2>2 DEF Connect, Return, Closed, TypeOK, NotSentInv, NeverStrandedInv, TableInv, OwedInv, clientVars, childVars, tableVars, callVars, worldVars
  <2>3. ASSUME NEW c \in Calls, RefuseEarly(c) PROVE NeverStrandedInv'
    BY <2>3 DEF RefuseEarly, Return, Closed, TypeOK, NotSentInv, NeverStrandedInv, TableInv, OwedInv, clientVars, childVars, tableVars, callVars, worldVars
  <2>4. ASSUME NEW c \in Calls, Register(c) PROVE NeverStrandedInv'
    <3>1. UNCHANGED <<phase, failing, hand, via, out>> /\ pc[c] = "connected"
      BY <2>4 DEF Register, childVars
    <3>2. CASE pc' = [pc EXCEPT ![c] = "done"] /\ UNCHANGED <<frame, pending>>
      BY <3>1, <3>2 DEF TypeOK, NeverStrandedInv, TableInv, OwedInv, Closed
    <3>3. CASE /\ ~ Closed(via[c])
               /\ pc' = [pc EXCEPT ![c] = "registered"]
               /\ frame' = [frame EXCEPT ![c] = "queued"]
               /\ pending' = [pending EXCEPT ![via[c]] = @ \cup {c}]
      <4>1. via[c] \in Gens /\ frame[c] = "none" /\ out[c] = "none"
        BY <3>1 DEF TypeOK, NotSentInv, NeverStrandedInv, OwedInv
      <4>2. \A g \in Gens : pending'[g] = IF g = via[c] THEN pending[g] \cup {c}
                                          ELSE pending[g]
        BY <3>3 DEF TypeOK
      <4>3. TableInv'
        BY <3>1, <3>3, <4>1, <4>2 DEF TypeOK, NeverStrandedInv, TableInv, Closed
      <4>4. OwedInv'
        BY <3>1, <3>3, <4>1, <4>2 DEF TypeOK, NeverStrandedInv, OwedInv
      <4> QED
        BY <4>3, <4>4 DEF NeverStrandedInv
    <3> QED
      BY <2>4, <3>2, <3>3 DEF Register, Return
  <2>5. ASSUME NEW c \in Calls, Enqueue(c) PROVE NeverStrandedInv'
    BY <2>5 DEF Enqueue, Closed, TypeOK, NotSentInv, NeverStrandedInv, TableInv, OwedInv, clientVars, childVars, tableVars, callVars, worldVars
  <2>6. ASSUME NEW c \in Calls, SkipDead(c) PROVE NeverStrandedInv'
    BY <2>6 DEF SkipDead, Closed, TypeOK, NotSentInv, NeverStrandedInv, TableInv, OwedInv, clientVars, childVars, tableVars, callVars, worldVars
  <2>7. ASSUME NEW c \in Calls, GiveUp(c) PROVE NeverStrandedInv'
    BY <2>7 DEF GiveUp, Closed, TypeOK, NotSentInv, NeverStrandedInv, TableInv, OwedInv, clientVars, childVars, tableVars, callVars, worldVars
  <2>8. ASSUME NEW c \in Calls, Abandon(c) PROVE NeverStrandedInv'
    BY <2>8 DEF Abandon, Return, Never, DropIfQueued, Closed, TypeOK, NotSentInv, NeverStrandedInv, TableInv, OwedInv, clientVars, childVars, tableVars, callVars, worldVars
  <2>9. ASSUME NEW c \in Calls, TakeOutcome(c) PROVE NeverStrandedInv'
    BY <2>9 DEF TakeOutcome, Return, Closed, TypeOK, NotSentInv, NeverStrandedInv, TableInv, OwedInv, clientVars, childVars, tableVars, callVars, worldVars
  <2>10. ASSUME NEW c \in Calls, WriteBytes(c) PROVE NeverStrandedInv'
    BY <2>10 DEF WriteBytes, Closed, TypeOK, NotSentInv, NeverStrandedInv, TableInv, OwedInv, clientVars, childVars, tableVars, callVars, worldVars
  <2>11. ASSUME NEW c \in Calls, WriteSent(c) PROVE NeverStrandedInv'
    BY <2>11 DEF WriteSent, Closed, TypeOK, NotSentInv, NeverStrandedInv, TableInv, OwedInv, clientVars, childVars, tableVars, callVars, worldVars
  <2>12. ASSUME NEW c \in Calls, WriteFailed(c) PROVE NeverStrandedInv'
    BY <2>12 DEF WriteFailed, Finish, Closed, TypeOK, NotSentInv, NeverStrandedInv, TableInv, OwedInv, clientVars, childVars, tableVars, callVars, worldVars
  <2>13. ASSUME NEW c \in Calls, ModuleActs(c) PROVE NeverStrandedInv'
    BY <2>13 DEF ModuleActs, Closed, TypeOK, NotSentInv, NeverStrandedInv, TableInv, OwedInv, clientVars, childVars, tableVars, callVars, worldVars
  <2>14. ASSUME NEW c \in Calls, ModuleReplies(c) PROVE NeverStrandedInv'
    BY <2>14 DEF ModuleReplies, Closed, TypeOK, NotSentInv, NeverStrandedInv, TableInv, OwedInv, clientVars, childVars, tableVars, callVars, worldVars
  <2>15. ASSUME NEW g \in Gens, WriterTake(g) PROVE NeverStrandedInv'
    BY <2>15 DEF WriterTake, Closed, TypeOK, NotSentInv, NeverStrandedInv, TableInv, OwedInv, clientVars, childVars, tableVars, callVars, worldVars
  <2>16. ASSUME NEW g \in Gens, WriterReturns(g) PROVE NeverStrandedInv'
    BY <2>16 DEF WriterReturns, Closed, TypeOK, NotSentInv, NeverStrandedInv, TableInv, OwedInv, clientVars, childVars, tableVars, callVars, worldVars
  <2>17. ASSUME NEW g \in Gens, ReaderReturns(g) PROVE NeverStrandedInv'
    BY <2>17 DEF ReaderReturns, Closed, TypeOK, NotSentInv, NeverStrandedInv, TableInv, OwedInv, clientVars, childVars, tableVars, callVars, worldVars
  <2>18. ASSUME NEW g \in Gens, Launch(g) PROVE NeverStrandedInv'
    BY <2>18 DEF Launch, Closed, TypeOK, NotSentInv, NeverStrandedInv, TableInv, OwedInv, clientVars, childVars, tableVars, callVars, worldVars
  <2>19. ASSUME NEW g \in Gens, Hello(g) PROVE NeverStrandedInv'
    BY <2>19 DEF Hello, Closed, TypeOK, NotSentInv, NeverStrandedInv, TableInv, OwedInv, clientVars, childVars, tableVars, callVars, worldVars
  <2>20. ASSUME NEW g \in Gens, Detach(g) PROVE NeverStrandedInv'
    BY <2>20 DEF Detach, Closed, TypeOK, NotSentInv, NeverStrandedInv, TableInv, OwedInv, clientVars, childVars, tableVars, callVars, worldVars
  <2>21. ASSUME NEW g \in Gens, FailPending(g) PROVE NeverStrandedInv'
    <3>1. UNCHANGED <<hand, pc, via, frame, out>> /\ phase[g] = "detached"
      BY <2>21 DEF FailPending, callVars
    <3>2. /\ phase' = [phase EXCEPT ![g] = "closed"]
          /\ failing' = [failing EXCEPT ![g] = pending[g]]
          /\ pending' = [pending EXCEPT ![g] = {}]
      BY <2>21 DEF FailPending
    <3>3. failing[g] = {} /\ failing'[g] = pending[g] /\ pending'[g] = {}
      <4>1. failing[g] = {}
        BY <3>1 DEF NeverStrandedInv, TableInv
      <4> QED
        BY <3>2, <4>1 DEF TypeOK
    <3>4. \A h \in Gens \ {g} : /\ failing'[h] = failing[h] /\ pending'[h] = pending[h]
                                /\ phase'[h] = phase[h]
      BY <3>2 DEF TypeOK
    <3>5. TableInv'
      BY <3>1, <3>2, <3>3, <3>4 DEF TypeOK, NeverStrandedInv, TableInv, Closed
    <3>6. OwedInv'
      BY <3>1, <3>3, <3>4 DEF TypeOK, NeverStrandedInv, OwedInv
    <3> QED
      BY <3>5, <3>6 DEF NeverStrandedInv
  <2>22. ASSUME NEW g \in Gens, CloseDead(g) PROVE NeverStrandedInv'
    BY <2>22 DEF CloseDead, Closed, TypeOK, NotSentInv, NeverStrandedInv, TableInv, OwedInv, clientVars, childVars, tableVars, callVars, worldVars
  <2>23. ASSUME NEW g \in Gens, ProcessExits(g) PROVE NeverStrandedInv'
    BY <2>23 DEF ProcessExits, Closed, TypeOK, NotSentInv, NeverStrandedInv, TableInv, OwedInv, clientVars, childVars, tableVars, callVars, worldVars
  <2>24. ASSUME NEW g \in Gens, ProbeBreaks(g) PROVE NeverStrandedInv'
    BY <2>24 DEF ProbeBreaks, Closed, TypeOK, NotSentInv, NeverStrandedInv, TableInv, OwedInv, clientVars, childVars, tableVars, callVars, worldVars
  <2>25. ASSUME NEW g \in Gens, NEW c \in Calls, Match(g, c) PROVE NeverStrandedInv'
    <3>1. /\ UNCHANGED <<phase, failing, pc, via, frame, out>> /\ hand[g] = {}
          /\ via[c] = g /\ c \in unread
      BY <2>25 DEF Match, callVars, childVars
    <3>2. CASE UNCHANGED <<pending, hand>>
      BY <3>1, <3>2 DEF TypeOK, NeverStrandedInv, TableInv, OwedInv, Closed
    <3>3. CASE /\ c \in pending[g]
               /\ pending' = [pending EXCEPT ![g] = @ \ {c}]
               /\ hand' = [hand EXCEPT ![g] = {c}]
      <4>1. frame[c] \notin {"none", "queued", "dropped"}
        BY <3>1 DEF NotSentInv
      <4>2. TableInv'
        BY <3>1, <3>3 DEF TypeOK, NeverStrandedInv, TableInv, Closed
      <4>3. OwedInv'
        BY <3>1, <3>3, <4>1 DEF TypeOK, NeverStrandedInv, OwedInv
      <4> QED
        BY <4>2, <4>3 DEF NeverStrandedInv
    <3> QED
      BY <2>25, <3>2, <3>3 DEF Match
  <2>26. ASSUME NEW g \in Gens, NEW c \in Calls, Deliver(g, c) PROVE NeverStrandedInv'
    BY <2>26 DEF Deliver, Finish, Closed, TypeOK, NotSentInv, NeverStrandedInv, TableInv, OwedInv, clientVars, childVars, tableVars, callVars, worldVars
  <2>27. ASSUME NEW g \in Gens, NEW c \in Calls, FailOne(g, c) PROVE NeverStrandedInv'
    BY <2>27 DEF FailOne, Finish, Never, DropIfQueued, Closed, TypeOK, NotSentInv, NeverStrandedInv, TableInv, OwedInv, clientVars, childVars, tableVars, callVars, worldVars
  <2>28. CASE UNCHANGED vars
    BY <2>28 DEF vars, Closed, TypeOK, NotSentInv, NeverStrandedInv, TableInv, OwedInv, clientVars, childVars, tableVars, callVars, worldVars
  <2> QED
    BY <2>1, <2>2, <2>3, <2>4, <2>5, <2>6, <2>7, <2>8, <2>9, <2>10, <2>11, <2>12, <2>13, <2>14, <2>15, <2>16, <2>17, <2>18, <2>19, <2>20, <2>21, <2>22, <2>23, <2>24, <2>25, <2>26, <2>27, <2>28 DEF Next, Caller, Pipe, Module, Writer, Reader, Supervisor
<1> QED
  BY <1>1, <1>2, TypeCorrect, NotSentInvariant, PTL DEF Spec

(* failPending strands nobody: once a child is dead, each registered request *)
(* has its outcome, or the reader holds it and will finish it.               *)
THEOREM NoneStranded == Spec => []NeverStranded
<1>1. NeverStrandedInv => NeverStranded
  BY DEF NeverStrandedInv, TableInv, OwedInv, NeverStranded, Closed
<1> QED
  BY <1>1, NeverStrandedInvariant, PTL

(* A frame still queued when its child is declared dead has been dropped, so *)
(* a writer that prefers writeCh to dead writes nothing (writer()).          *)
THEOREM DeadChildWritesNothingNew == Spec => []QueuedDiesWithChild
<1>1. NeverStrandedInv => QueuedDiesWithChild
  BY DEF NeverStrandedInv, TableInv, OwedInv, QueuedDiesWithChild, Closed
<1> QED
  BY <1>1, NeverStrandedInvariant, PTL

-----------------------------------------------------------------------------
(* The refinement AtMostOnceRequest <- ModPipe.                             *)

VerdictBar == [c \in Calls |-> IF res[c] = "tooLarge" THEN "notSent" ELSE res[c]]

(* A step that changes neither a result nor what the module has acted on is  *)
(* a stutter of the promise; one that returns a result is a Conclude; the    *)
(* module acting is an Act.                                                  *)
LEMMA StutterStep ==
    ASSUME UNCHANGED res
    PROVE  UNCHANGED VerdictBar
BY DEF VerdictBar

(* A request that returns is concluded, in the promise, with the verdict of *)
(* its result.                                                              *)
LEMMA ReturnStep ==
    ASSUME TypeOK, NotSentInv, NotSentInv', NEW c \in Calls, NEW r, Return(c, r),
           r \in {"answered", "tooLarge", "notSent", "lost"}, pc[c] # "done",
           UNCHANGED <<seen, wire>>
    PROVE  \E v \in Promise!Verdicts \ {"none"} : Promise!Conclude(c, v)
<1> DEFINE v == IF r = "tooLarge" THEN "notSent" ELSE r
<1>1. res' = [res EXCEPT ![c] = r] /\ res[c] = "none" /\ res'[c] = r
  BY DEF Return, TypeOK, NotSentInv
<1>2. VerdictBar[c] = "none" /\ VerdictBar' = [VerdictBar EXCEPT ![c] = v]
  BY <1>1 DEF VerdictBar, TypeOK
<1>3. r = "answered" => c \in seen
  BY <1>1 DEF NotSentInv
<1>4. r \in {"notSent", "tooLarge"} => c \notin seen
  BY <1>1 DEF NotSentInv
<1>5. v \in Promise!Verdicts \ {"none"}
  BY DEF Promise!Verdicts
<1>6. Promise!Conclude(c, v)
  BY <1>2, <1>3, <1>4 DEF Promise!Conclude, VerdictBar
<1> QED
  BY <1>5, <1>6

(* Every step of the client is a step of the promise, or leaves it alone.    *)
LEMMA StepRefines ==
    ASSUME TypeOK, NotSentInv, NotSentInv', [Next]_vars
    PROVE  [Promise!Next]_<<VerdictBar, seen>>
<1> DEFINE Results == {"answered", "tooLarge", "notSent", "lost"}
<1>1. ASSUME NEW c \in Calls, NEW r \in Results, Return(c, r), pc[c] # "done",
             UNCHANGED <<seen, wire>>
      PROVE  Promise!Next
  BY <1>1, ReturnStep DEF Promise!Next
<1>2. ASSUME NEW c \in Calls, ModuleActs(c) PROVE Promise!Next
  <2>1. c \in wire \ seen /\ seen' = seen \cup {c} /\ UNCHANGED res
    BY <1>2 DEF ModuleActs, callVars
  <2>2. frame[c] \notin {"none", "queued", "dropped"}
    BY <2>1 DEF NotSentInv
  <2>3. res[c] \notin {"notSent", "tooLarge"}
    BY <2>2 DEF NotSentInv
  <2>4. VerdictBar[c] # "notSent" /\ UNCHANGED VerdictBar
    BY <2>1, <2>3 DEF VerdictBar
  <2> QED
    BY <2>1, <2>4 DEF Promise!Next, Promise!Act, VerdictBar
<1>3. ASSUME NEW c \in Calls, Caller(c)
      PROVE  Promise!Next \/ UNCHANGED <<res, seen>>
  <2>1. CASE Connect(c)
    <3>1. UNCHANGED <<seen, wire>> /\ pc[c] = "idle"
      BY <2>1 DEF Connect, worldVars
    <3>2. UNCHANGED res \/ Return(c, "notSent")
      BY <2>1 DEF Connect
    <3> QED
      BY <3>1, <3>2, <1>1
  <2>2. CASE RefuseEarly(c)
    BY <2>2, <1>1 DEF RefuseEarly, worldVars
  <2>3. CASE Register(c)
    <3>1. UNCHANGED <<seen, wire>> /\ pc[c] = "connected"
      BY <2>3 DEF Register, worldVars
    <3>2. UNCHANGED res \/ Return(c, "notSent")
      BY <2>3 DEF Register
    <3> QED
      BY <3>1, <3>2, <1>1
  <2>4. CASE Abandon(c)
    <3>1. UNCHANGED <<seen, wire>> /\ pc[c] = "giveup"
      BY <2>4 DEF Abandon, worldVars
    <3>2. Return(c, "notSent") \/ Return(c, "lost")
      BY <2>4 DEF Abandon
    <3> QED
      BY <3>1, <3>2, <1>1
  <2>5. CASE TakeOutcome(c)
    <3>1. UNCHANGED <<seen, wire>> /\ pc[c] = "waiting"
      BY <2>5 DEF TakeOutcome, worldVars
    <3>2. Return(c, "answered") \/ Return(c, "notSent") \/ Return(c, "lost")
      BY <2>5 DEF TakeOutcome
    <3> QED
      BY <3>1, <3>2, <1>1
  <2>6. CASE Enqueue(c) \/ SkipDead(c) \/ GiveUp(c)
    BY <2>6 DEF Enqueue, SkipDead, GiveUp, worldVars
  <2> QED
    BY <1>3, <2>1, <2>2, <2>3, <2>4, <2>5, <2>6 DEF Caller
<1>4. ASSUME NEW c \in Calls, Pipe(c) \/ ModuleReplies(c)
      PROVE  UNCHANGED <<res, seen>>
  BY <1>4 DEF Pipe, WriteBytes, WriteSent, WriteFailed, ModuleReplies, callVars, worldVars
<1>5. ASSUME NEW g \in Gens, Writer(g) \/ Reader(g) PROVE UNCHANGED <<res, seen>>
  BY <1>5 DEF Writer, WriterTake, WriterReturns, Reader, ReaderReturns, Match,
              Deliver, callVars, worldVars
<1>6. ASSUME NEW g \in Gens, Supervisor(g) \/ ProcessExits(g) \/ ProbeBreaks(g)
      PROVE  UNCHANGED <<res, seen>>
  BY <1>6 DEF Supervisor, Launch, Hello, Detach, FailPending, FailOne, CloseDead,
              ProcessExits, ProbeBreaks, callVars, worldVars
<1>7. CASE Stop \/ UNCHANGED vars
  BY <1>7, StutterStep DEF Stop, vars, callVars, worldVars
<1> QED
  BY <1>2, <1>3, <1>4, <1>5, <1>6, <1>7, StutterStep DEF Next, Module

(* The client keeps its promise: every behaviour of ModPipe is, seen through *)
(* the results and the module's actions, one of AtMostOnceRequest.           *)
THEOREM KeepsThePromise == Spec => KeepsPromise
<1>1. Init => Promise!Init
  BY DEF Init, Promise!Init
<1>2. TypeOK /\ NotSentInv /\ NotSentInv' /\ [Next]_vars
        => [Promise!Next]_<<VerdictBar, seen>>
  BY StepRefines
<1> QED
  BY <1>1, <1>2, TypeCorrect, NotSentInvariant, PTL
     DEF Spec, KeepsPromise, Promise!Spec, VerdictBar
=============================================================================
