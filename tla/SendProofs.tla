----------------------------- MODULE SendProofs ------------------------------
(***************************************************************************)
(* Theorems about a send of the tmux driver: the lock of its composer, for *)
(* any sessions, calls and renames (ComposerLock), the route of a delivery *)
(* with its ledger, for any texts, sends, lanes and events                 *)
(* (DeliveryRoutes), and the prompt a session is created with, for any     *)
(* creates and names (FirstPrompt).                                        *)
(***************************************************************************)
EXTENDS ComposerLock, DeliveryRoutes, FirstPrompt, SequenceTheorems, FunctionTheorems, FiniteSetTheorems, TLAPS

-----------------------------------------------------------------------------
(* Sequences *)

(* A sequence with one element replaced.                                    *)
LEMMA OneReplaced ==
  ASSUME NEW S, NEW s \in Seq(S), NEW i \in DOMAIN s, NEW r \in S, NEW t,
         t = [s EXCEPT ![i] = r]
  PROVE  /\ t \in Seq(S) /\ DOMAIN t = DOMAIN s
         /\ t[i] = r /\ \A j \in DOMAIN s : j # i => t[j] = s[j]
  BY ExceptSeq, LenProperties

(* A sequence with one element more.                                        *)
LEMMA OneMore ==
  ASSUME NEW S, NEW s \in Seq(S), NEW r \in S, NEW t, t = Append(s, r)
  PROVE  /\ t \in Seq(S) /\ DOMAIN t = DOMAIN s \cup {Len(s) + 1}
         /\ Len(s) + 1 \notin DOMAIN s
         /\ t[Len(s) + 1] = r /\ \A j \in DOMAIN s : t[j] = s[j]
  BY AppendProperties, LenProperties

-----------------------------------------------------------------------------
(* ComposerLock: types *)

(* The types hold at first.                                                 *)
LEMMA LockTypesHold == LockInit => LockTypes
<1> SUFFICES ASSUME LockInit PROVE LockTypes
  OBVIOUS
<1>1. SessionTypes
  BY DEF LockInit, SessionTypes
<1>2. TableTypes
  BY DEF LockInit, TableTypes
<1>3. CallTypes
  BY DEF LockInit, CallTypes
<1>4. RenameTypes
  BY DEF LockInit, RenameTypes
<1> QED
  BY <1>1, <1>2, <1>3, <1>4 DEF LockInit, LockTypes

(* A call that moves leaves the others alone, and the calls type-correct.   *)
LEMMA CallMoves ==
  ASSUME CallTypes, NEW i \in LockCalls, NEW r, calls' = [calls EXCEPT ![i] = r],
         r \in CallRecords
  PROVE  /\ calls' \in Seq(CallRecords) /\ LockCalls' = LockCalls
         /\ calls'[i] = r /\ \A j \in LockCalls : j # i => calls'[j] = calls[j]
  BY OneReplaced DEF CallTypes, LockCalls

(* A type-correct call has the components of its record.                    *)
LEMMA CallOfType ==
  ASSUME LockTypes, NEW i \in LockCalls
  PROVE  /\ calls[i] \in CallRecords /\ i \in Nat
         /\ calls[i].name \in LockNames /\ calls[i].lock \in Nat /\ calls[i].pane \in Nat
         /\ Found(locks, calls[i].name) \in Nat /\ Found(preempt, calls[i].name) \in Nat
         /\ panes[calls[i].name] \in Nat
<1>1. calls[i] \in CallRecords /\ i \in Nat
  <2>1. CallTypes
    BY DEF LockTypes
  <2> QED
    BY <2>1, LenProperties DEF CallTypes, LockCalls
<1>2. calls[i].name \in LockNames /\ calls[i].lock \in Nat /\ calls[i].pane \in Nat
  BY <1>1 DEF CallRecords
<1>3. ASSUME NEW table \in [LockNames -> Nat] PROVE Found(table, calls[i].name) \in Nat
  BY <1>2 DEF LockTypes, TableTypes, Found
<1> QED
  BY <1>1, <1>2, <1>3 DEF LockTypes, TableTypes, SessionTypes

(* A call that goes on, with what it has found out, is type-correct.        *)
LEMMA CallGoesOn ==
  ASSUME LockTypes, NEW i \in LockCalls, NEW l \in Nat, NEW c \in Nat, NEW p \in Nat,
         NEW pc \in {"ask", "try", "wait", "look", "confirm", "type", "left", "free", "done"}
  PROVE  /\ [calls[i] EXCEPT !.pc = pc] \in CallRecords
         /\ [calls[i] EXCEPT !.pc = pc, !.lock = l] \in CallRecords
         /\ [calls[i] EXCEPT !.pc = pc, !.counter = c] \in CallRecords
         /\ [calls[i] EXCEPT !.pane = p, !.pc = pc] \in CallRecords
<1>1. calls[i] \in CallRecords
  BY CallOfType
<1> QED
  BY <1>1 DEF CallRecords

(* Every step keeps the types.                                              *)
LEMMA TypesKept == LockTypes /\ [LockNext]_lockVars => LockTypes'
<1> SUFFICES ASSUME LockTypes, [LockNext]_lockVars PROVE LockTypes'
  OBVIOUS
<1>0. SessionTypes /\ TableTypes /\ CallTypes /\ RenameTypes
  BY DEF LockTypes
<1>1. CASE SessionOpens \/ SessionCloses
  <2>1. SessionTypes'
    BY <1>0, <1>1 DEF SessionOpens, SessionCloses, SessionTypes
  <2> QED
    BY <1>1, <2>1
       DEF SessionOpens, SessionCloses, LockTypes, TableTypes, CallTypes, RenameTypes
<1>2. CASE RenameChecks
  <2>1. rename' \in RenameRecords
    BY <1>2 DEF RenameChecks, RenameRecords
  <2>2. renamed' \in [left : SUBSET LockNames, count : Nat]
    BY <1>0, <1>2 DEF RenameChecks, RenameTypes
  <2> QED
    BY <1>2, <2>1, <2>2
       DEF RenameChecks, LockTypes, SessionTypes, TableTypes, CallTypes, RenameTypes
<1>3. ASSUME rename.at # "no" PROVE rename \in RenameRecords
  <2>1. NoRename.at = "no"
    BY DEF NoRename
  <2> QED
    BY <1>0, <1>3, <2>1 DEF RenameTypes
<1>4. CASE RenameAliases
  <2>1. rename \in RenameRecords
    BY <1>3, <1>4 DEF RenameAliases
  <2>2. TableTypes'
    BY <1>0, <1>4, <2>1 DEF RenameAliases, Aliased, RenameRecords, TableTypes
  <2>3. rename' \in RenameRecords
    BY <1>4, <2>1 DEF RenameAliases, RenameRecords
  <2> QED
    BY <1>4, <2>2, <2>3 DEF RenameAliases, LockTypes, SessionTypes, CallTypes, RenameTypes
<1>5. CASE RenameMovesLock
  <2>1. rename \in RenameRecords
    BY <1>3, <1>5 DEF RenameMovesLock
  <2>2. SessionTypes'
    BY <1>0, <1>5, <2>1 DEF RenameMovesLock, RenameRecords, SessionTypes
  <2>3. renamed' \in [left : SUBSET LockNames, count : Nat]
    BY <1>0, <1>5, <2>1 DEF RenameMovesLock, RenameRecords, RenameTypes
  <2> QED
    BY <1>5, <2>2, <2>3 DEF RenameMovesLock, LockTypes, TableTypes, CallTypes, RenameTypes
<1>6. CASE CallStarts
  <2>1. PICK kind \in lockEnv.kinds, n \in LockNames :
          calls' = Append(calls, [kind |-> kind, name |-> n, pc |-> WaitsFirst(kind),
                                  lock |-> 0, counter |-> 0, pane |-> 0])
    BY <1>6 DEF CallStarts
  <2>2. kind \in {"send", "respond", "discard", "keys", "escape"}
    BY LockAssumption DEF LockAssumption, LockTypes
  <2>3. [kind |-> kind, name |-> n, pc |-> WaitsFirst(kind),
         lock |-> 0, counter |-> 0, pane |-> 0] \in CallRecords
    BY <2>2 DEF CallRecords, WaitsFirst
  <2>4. calls' \in Seq(CallRecords)
    BY <1>0, <2>1, <2>3, OneMore DEF CallTypes
  <2> QED
    BY <1>6, <2>4 DEF CallStarts, LockTypes, SessionTypes, TableTypes, CallTypes, RenameTypes
<1>7. ASSUME NEW i \in LockCalls, NEW r \in CallRecords, calls' = [calls EXCEPT ![i] = r]
      PROVE  calls' \in Seq(CallRecords)
  BY <1>0, <1>7, CallMoves
<1>8. ASSUME NEW n \in LockNames, NEW table \in [LockNames -> Nat]
      PROVE  /\ Kept(table, n) \in [LockNames -> Nat]
             /\ MintedFor(table, n) \in Nat
  BY <1>0 DEF Kept, Found, MintedFor, TableTypes
<1>9. CASE AskToYield
  <2>1. PICK i \in LockCalls :
          /\ calls' = [calls EXCEPT ![i] =
               [@ EXCEPT !.pc = "ask", !.counter = Found(preempt, calls[i].name)]]
          /\ preempt' = Kept(preempt, calls[i].name)
          /\ minted' = MintedFor(preempt, calls[i].name)
    BY <1>9 DEF AskToYield
  <2>2. calls' \in Seq(CallRecords)
    BY <1>7, <2>1, CallGoesOn, CallOfType
  <2>3. TableTypes'
    BY <1>0, <1>8, <1>9, <2>1, CallOfType DEF AskToYield, TableTypes
  <2> QED
    BY <1>9, <2>2, <2>3 DEF AskToYield, LockTypes, SessionTypes, CallTypes, RenameTypes
<1>10. CASE FindLock
  <2>1. PICK i \in LockCalls :
          /\ calls' = [calls EXCEPT ![i] =
               [@ EXCEPT !.pc = "try", !.lock = Found(locks, calls[i].name)]]
          /\ locks' = Kept(locks, calls[i].name)
          /\ minted' = MintedFor(locks, calls[i].name)
    BY <1>10 DEF FindLock
  <2>2. calls' \in Seq(CallRecords)
    BY <1>7, <2>1, CallGoesOn, CallOfType
  <2>3. TableTypes'
    BY <1>0, <1>8, <1>10, <2>1, CallOfType DEF FindLock, TableTypes
  <2> QED
    BY <1>10, <2>2, <2>3 DEF FindLock, LockTypes, SessionTypes, CallTypes, RenameTypes
<1>11. ASSUME NEW i \in LockCalls, NEW pc \in {"look", "free"}, Takes(i, pc)
       PROVE  CallTypes'
  <2>1. calls' \in Seq(CallRecords)
    BY <1>7, <1>11, CallGoesOn DEF Takes
  <2>2. <<calls[i].lock, i>> \in Nat \X Nat
    BY CallOfType
  <2> QED
    BY <1>0, <1>11, <2>1, <2>2 DEF Takes, CallTypes
<1>12. ASSUME NEW i \in LockCalls, NEW pc \in {"wait", "free", "done", "type"}, CallTo(i, pc)
       PROVE  calls' \in Seq(CallRecords)
  BY <1>7, <1>12, CallGoesOn DEF CallTo
<1>13. CASE TryLock \/ WaiterGetsLock \/ LeftGetsLock
  <2>1. CallTypes'
    BY <1>0, <1>11, <1>12, <1>13 DEF TryLock, WaiterGetsLock, LeftGetsLock, CallTypes
  <2> QED
    BY <1>13, <2>1 DEF TryLock, WaiterGetsLock, LeftGetsLock, LockTypes, SessionTypes,
                       TableTypes, RenameTypes
<1>14. CASE Deadline
  <2>1. CallTypes'
    BY <1>0, <1>7, <1>14, CallGoesOn DEF Deadline, CallTypes
  <2> QED
    BY <1>14, <2>1 DEF Deadline, LockTypes, SessionTypes, TableTypes, RenameTypes
<1>15. CASE LookForSession
  <2>1. PICK i \in LockCalls, pc \in {"free", "confirm", "type"} :
          calls' = [calls EXCEPT ![i] = [@ EXCEPT !.pane = panes[calls[i].name], !.pc = pc]]
    BY <1>15 DEF LookForSession
  <2>2. CallTypes'
    BY <1>0, <1>7, <1>15, <2>1, CallGoesOn, CallOfType, ZenonT(60) DEF LookForSession, CallTypes
  <2> QED
    BY <1>15, <2>2 DEF LookForSession, LockTypes, SessionTypes, TableTypes, RenameTypes
<1>16. CASE TypeIntoComposer \/ SendConfirmed \/ SendYields \/ Unlock
  <2>1. CallTypes'
    BY <1>0, <1>12, <1>16 DEF TypeIntoComposer, SendConfirmed, SendYields, Unlock, Frees, CallTypes
  <2> QED
    BY <1>16, <2>1 DEF TypeIntoComposer, SendConfirmed, SendYields, Unlock, LockTypes,
                       SessionTypes, TableTypes, RenameTypes
<1>17. CASE UNCHANGED lockVars
  BY <1>17 DEF lockVars, LockTypes, SessionTypes, TableTypes, CallTypes, RenameTypes
<1> QED
  BY <1>1, <1>2, <1>4, <1>5, <1>6, <1>9, <1>10, <1>13, <1>14, <1>15, <1>16, <1>17
     DEF LockNext, CallStep

(* Every state of every behaviour is type-correct.                          *)
THEOREM LockTypeCorrect == LockSpec => []LockTypes
  BY LockTypesHold, TypesKept, PTL DEF LockSpec

-----------------------------------------------------------------------------
(* ComposerLock: the calls *)

(* Call i goes on: to pc, with lock l and pane p; nothing else about the calls changes. *)
Moved(i, pc, l, p) ==
    /\ LockCalls' = LockCalls
    /\ \A j \in LockCalls : calls'[j].kind = calls[j].kind /\ calls'[j].name = calls[j].name
    /\ \A j \in LockCalls \ {i} : calls'[j] = calls[j]
    /\ calls'[i].pc = pc /\ calls'[i].lock = l /\ calls'[i].pane = p

(* What a change of a call's record is: where it goes, with which lock and  *)
(* pane.                                                                    *)
LEMMA MovedIs ==
  ASSUME LockTypes, NEW i \in LockCalls, NEW l \in Nat, NEW c \in Nat, NEW p \in Nat,
         NEW pc \in {"ask", "try", "wait", "look", "confirm", "type", "left", "free", "done"}
  PROVE  /\ calls' = [calls EXCEPT ![i].pc = pc] => Moved(i, pc, calls[i].lock, calls[i].pane)
         /\ calls' = [calls EXCEPT ![i] = [@ EXCEPT !.pc = pc, !.counter = c]]
            => Moved(i, pc, calls[i].lock, calls[i].pane)
         /\ calls' = [calls EXCEPT ![i] = [@ EXCEPT !.pc = pc, !.lock = l]]
            => Moved(i, pc, l, calls[i].pane)
         /\ calls' = [calls EXCEPT ![i] = [@ EXCEPT !.pane = p, !.pc = pc]]
            => Moved(i, pc, calls[i].lock, p)
<1>1. CallTypes /\ calls[i] \in CallRecords
  BY CallOfType DEF LockTypes
<1>2. ASSUME NEW r \in CallRecords, calls' = [calls EXCEPT ![i] = r],
             r.kind = calls[i].kind, r.name = calls[i].name
      PROVE  Moved(i, r.pc, r.lock, r.pane)
  BY <1>1, <1>2, CallMoves DEF Moved
<1>3. ASSUME calls' = [calls EXCEPT ![i].pc = pc]
      PROVE  Moved(i, pc, calls[i].lock, calls[i].pane)
  <2> DEFINE r == [calls[i] EXCEPT !.pc = pc]
  <2>1. /\ r.kind = calls[i].kind /\ r.name = calls[i].name
        /\ r.pc = pc /\ r.lock = calls[i].lock /\ r.pane = calls[i].pane
    BY <1>1 DEF CallRecords
  <2> QED
    BY <1>2, <1>3, <2>1, CallGoesOn
<1>4. ASSUME calls' = [calls EXCEPT ![i] = [@ EXCEPT !.pc = pc, !.counter = c]]
      PROVE  Moved(i, pc, calls[i].lock, calls[i].pane)
  <2> DEFINE r == [calls[i] EXCEPT !.pc = pc, !.counter = c]
  <2>1. /\ r.kind = calls[i].kind /\ r.name = calls[i].name
        /\ r.pc = pc /\ r.lock = calls[i].lock /\ r.pane = calls[i].pane
    BY <1>1 DEF CallRecords
  <2> QED
    BY <1>2, <1>4, <2>1, CallGoesOn
<1>5. ASSUME calls' = [calls EXCEPT ![i] = [@ EXCEPT !.pc = pc, !.lock = l]]
      PROVE  Moved(i, pc, l, calls[i].pane)
  <2> DEFINE r == [calls[i] EXCEPT !.pc = pc, !.lock = l]
  <2>1. /\ r.kind = calls[i].kind /\ r.name = calls[i].name
        /\ r.pc = pc /\ r.lock = l /\ r.pane = calls[i].pane
    BY <1>1 DEF CallRecords
  <2> QED
    BY <1>2, <1>5, <2>1, CallGoesOn
<1>6. ASSUME calls' = [calls EXCEPT ![i] = [@ EXCEPT !.pane = p, !.pc = pc]]
      PROVE  Moved(i, pc, calls[i].lock, p)
  <2> DEFINE r == [calls[i] EXCEPT !.pane = p, !.pc = pc]
  <2>1. /\ r.kind = calls[i].kind /\ r.name = calls[i].name
        /\ r.pc = pc /\ r.lock = calls[i].lock /\ r.pane = p
    BY <1>1 DEF CallRecords
  <2> QED
    BY <1>2, <1>6, <2>1, CallGoesOn, ZenonT(60)
<1> QED
  BY <1>3, <1>4, <1>5, <1>6

(* A call that goes on with what it has, and is not let into a pane by it.  *)
LEMMA NobodyEnters ==
  ASSUME ComposerInvariant, NEW i \in LockCalls, NEW pc,
         Moved(i, pc, calls[i].lock, calls[i].pane),
         calls[i].kind # "escape" /\ pc \in {"confirm", "type"} => Inside(i),
         UNCHANGED <<panes, opened, locks, rename, renamed>>
  PROVE  PanesApart' /\ LocksStay' /\ InsideHaveTheLock' /\ RenamesShare'
<1>1. \A j \in LockCalls : calls'[j].lock = calls[j].lock /\ calls'[j].pane = calls[j].pane
  BY DEF Moved
<1>2. \A j \in LockCalls : Inside(j)' => Inside(j)
  BY DEF Moved, Inside
<1>3. PanesApart'
  BY DEF ComposerInvariant, PanesApart
<1>4. LocksStay'
  BY <1>1 DEF ComposerInvariant, LocksStay, Moved
<1>5. InsideHaveTheLock'
  BY <1>1, <1>2 DEF ComposerInvariant, InsideHaveTheLock, Moved
<1>6. RenamesShare'
  BY DEF ComposerInvariant, RenamesShare, Moved
<1> QED
  BY <1>3, <1>4, <1>5, <1>6

(* The holders when a call goes on: with the lock it takes, while it keeps   *)
(* what it has, or when it gives its lock back.                             *)
LEMMA TakesOne ==
  ASSUME LockTypes, LocksAreHeld, NEW i \in LockCalls, NEW pc \in {"look", "free"},
         Takes(i, pc), calls[i].pc \in {"try", "wait", "left"}
  PROVE  LocksAreHeld' /\ Moved(i, pc, calls[i].lock, calls[i].pane)
<1>1. Moved(i, pc, calls[i].lock, calls[i].pane)
  BY CallOfType, MovedIs DEF Takes
<1>2. calls[i].lock \in Nat /\ calls[i].lock # 0
  BY CallOfType DEF LocksAreHeld
<1>3. held' = held \cup {<<calls[i].lock, i>>}
  BY DEF Takes
<1>4. \A j \in LockCalls : <<calls[i].lock, j>> \notin held
  BY DEF Takes, IsHeld
<1>5. \A l \in Nat, j \in LockCalls :
        <<l, j>> \in held' <=> <<l, j>> \in held \/ (l = calls[i].lock /\ j = i)
  BY <1>3
<1> QED
  BY <1>1, <1>2, <1>3, <1>4, <1>5 DEF LocksAreHeld, Moved

(* A call that goes on holds the lock it held.                              *)
LEMMA KeepsHolding ==
  ASSUME LocksAreHeld, NEW i \in LockCalls, NEW pc, NEW p,
         Moved(i, pc, calls[i].lock, p), UNCHANGED held,
         pc \in {"look", "confirm", "type"} => calls[i].pc \in {"look", "confirm", "type"},
         pc \in {"try", "wait", "left"} => calls[i].pc \in {"try", "wait", "left"}
  PROVE  LocksAreHeld'
  BY DEF LocksAreHeld, Moved

(* A call that is over holds no lock.                                       *)
LEMMA GivesBack ==
  ASSUME LocksAreHeld, NEW i \in LockCalls,
         Moved(i, "done", calls[i].lock, calls[i].pane), Frees(i)
  PROVE  LocksAreHeld'
<1>1. \A l, j : <<l, j>> \in held' <=> <<l, j>> \in held /\ j # i
  BY DEF Frees
<1>2. held' \subseteq held
  BY DEF Frees
<1> QED
  BY <1>1, <1>2 DEF LocksAreHeld, Moved

-----------------------------------------------------------------------------
(* ComposerLock: a step under new names *)

(* No call is inside a composer at first.                                   *)
LEMMA SafeAtFirst == LockInit => ComposerInvariant
<1> SUFFICES ASSUME LockInit PROVE ComposerInvariant
  OBVIOUS
<1> USE DEF LockInit, LockCalls
<1>1. PanesApart
  BY DEF PanesApart
<1>2. LocksAreHeld
  BY DEF LocksAreHeld
<1>3. LocksStay
  BY DEF LocksStay
<1>4. InsideHaveTheLock
  BY DEF InsideHaveTheLock
<1>5. RenamesShare
  BY DEF RenamesShare, NoRename
<1> QED
  BY <1>1, <1>2, <1>3, <1>4, <1>5 DEF ComposerInvariant

(* The steps of a call that neither find a lock nor look for the session.   *)
LEMMA CallsAreSafe ==
  ASSUME LockTypes, ComposerInvariant,
         \/ AskToYield \/ TryLock \/ WaiterGetsLock \/ Deadline \/ LeftGetsLock
         \/ Unlock \/ TypeIntoComposer \/ SendConfirmed \/ SendYields
  PROVE  ComposerInvariant'
<1>1. LocksAreHeld
  BY DEF ComposerInvariant
<1>2. ASSUME NEW i \in LockCalls, NEW pc, Moved(i, pc, calls[i].lock, calls[i].pane),
             calls[i].kind # "escape" /\ pc \in {"confirm", "type"} => Inside(i),
             UNCHANGED <<panes, opened, locks, rename, renamed>>, LocksAreHeld'
      PROVE  ComposerInvariant'
  BY <1>2, NobodyEnters DEF ComposerInvariant
<1>3. CASE AskToYield
  <2>1. PICK i \in LockCalls :
          /\ calls[i].pc = "preempt"
          /\ calls' = [calls EXCEPT ![i] =
               [@ EXCEPT !.pc = "ask", !.counter = Found(preempt, calls[i].name)]]
    BY <1>3 DEF AskToYield
  <2>2. Moved(i, "ask", calls[i].lock, calls[i].pane)
    BY <2>1, CallOfType, MovedIs
  <2>3. LocksAreHeld'
    BY <1>1, <1>3, <2>2, KeepsHolding DEF AskToYield
  <2> QED
    BY <1>2, <1>3, <2>2, <2>3 DEF AskToYield
<1>4. CASE TryLock
  <2>1. PICK i \in LockCalls :
          /\ calls[i].pc = "try"
          /\ Takes(i, "look") \/ (CallTo(i, "wait") /\ UNCHANGED held)
    BY <1>4 DEF TryLock
  <2>2. CASE Takes(i, "look")
    BY <1>1, <1>2, <1>4, <2>1, <2>2, TakesOne DEF TryLock
  <2>3. CASE CallTo(i, "wait") /\ UNCHANGED held
    <3>1. Moved(i, "wait", calls[i].lock, calls[i].pane)
      BY <2>3, CallOfType, MovedIs DEF CallTo
    <3> QED
      BY <1>1, <1>2, <1>4, <2>1, <2>3, <3>1, KeepsHolding DEF TryLock
  <2> QED
    BY <2>1, <2>2, <2>3
<1>5. CASE WaiterGetsLock \/ LeftGetsLock
  BY <1>1, <1>2, <1>5, TakesOne DEF WaiterGetsLock, LeftGetsLock
<1>6. CASE Deadline
  <2>1. PICK i \in LockCalls :
          /\ calls[i].pc = "wait"
          /\ calls' = [calls EXCEPT ![i] = [@ EXCEPT !.pc = "left", !.counter = 0]]
    BY <1>6 DEF Deadline
  <2>2. Moved(i, "left", calls[i].lock, calls[i].pane)
    BY <2>1, CallOfType, MovedIs
  <2>3. LocksAreHeld'
    BY <1>1, <1>6, <2>1, <2>2, KeepsHolding DEF Deadline
  <2> QED
    BY <1>2, <1>6, <2>2, <2>3 DEF Deadline
<1>7. ASSUME NEW i \in LockCalls, NEW pc \in {"free", "done", "type"}, CallTo(i, pc)
      PROVE  Moved(i, pc, calls[i].lock, calls[i].pane)
  BY <1>7, CallOfType, MovedIs DEF CallTo
<1>8. CASE Unlock
  BY <1>1, <1>2, <1>7, <1>8, GivesBack DEF Unlock
<1>9. CASE TypeIntoComposer \/ SendYields
  <2>1. PICK i \in LockCalls : calls[i].pc \in {"confirm", "type"} /\ CallTo(i, "free")
    BY <1>9 DEF TypeIntoComposer, SendYields
  <2>2. LocksAreHeld'
    BY <1>1, <1>7, <1>9, <2>1, KeepsHolding DEF TypeIntoComposer, SendYields
  <2> QED
    BY <1>2, <1>7, <1>9, <2>1, <2>2 DEF TypeIntoComposer, SendYields
<1>10. CASE SendConfirmed
  <2>1. PICK i \in LockCalls : calls[i].pc = "confirm" /\ CallTo(i, "type")
    BY <1>10 DEF SendConfirmed
  <2>2. Moved(i, "type", calls[i].lock, calls[i].pane)
    BY <1>7, <2>1
  <2>3. LocksAreHeld'
    BY <1>1, <1>10, <2>1, <2>2, KeepsHolding DEF SendConfirmed
  <2>4. calls[i].kind # "escape" => Inside(i)
    BY <2>1 DEF Inside
  <2> QED
    BY <1>2, <1>10, <2>2, <2>3, <2>4 DEF SendConfirmed
<1> QED
  BY <1>3, <1>4, <1>5, <1>6, <1>8, <1>9, <1>10

(* The lock that a call finds is the one of its name from now on.           *)
LEMMA FindingIsSafe ==
  ASSUME LockTypes, ComposerInvariant, FindLock
  PROVE  ComposerInvariant'
<1>1. PICK i \in LockCalls :
        /\ calls[i].pc = "ask"
        /\ locks' = Kept(locks, calls[i].name)
        /\ calls' = [calls EXCEPT ![i] = [@ EXCEPT !.pc = "try", !.lock = Found(locks, calls[i].name)]]
  BY DEF FindLock
<1> DEFINE n == calls[i].name
           l == Found(locks, n)
<1>2. n \in LockNames /\ l \in Nat
  BY CallOfType
<1>3. Moved(i, "try", l, calls[i].pane)
  BY <1>1, <1>2, CallOfType, MovedIs
<1>4. l # 0 /\ \A m \in LockNames : locks'[m] = IF m = n THEN l ELSE locks[m]
  BY <1>1, <1>2 DEF Kept, Found, LockTypes, TableTypes
<1>5. UNCHANGED <<panes, opened, held, rename, renamed>>
  BY DEF FindLock
<1>6. \A m \in LockNames : locks[m] # 0 => locks'[m] = locks[m]
  BY <1>2, <1>4 DEF Found
<1>7. \A j \in LockCalls : calls[j].name \in LockNames
  BY CallOfType
<1>8. PanesApart'
  BY <1>5 DEF ComposerInvariant, PanesApart
<1>9. LocksAreHeld'
  BY <1>3, <1>4, <1>5 DEF ComposerInvariant, LocksAreHeld, Moved
<1>10. LocksStay'
  BY <1>2, <1>3, <1>4, <1>6, <1>7 DEF ComposerInvariant, LocksStay, Moved
<1>11. InsideHaveTheLock'
  <2>1. \A j \in LockCalls : Inside(j)' => Inside(j) /\ j # i
    BY <1>3 DEF Inside, Moved
  <2>2. \A j \in LockCalls : Inside(j) => calls[j].lock # 0
    BY DEF ComposerInvariant, LocksAreHeld, Inside
  <2> QED
    BY <1>3, <1>5, <1>6, <2>1, <2>2 DEF ComposerInvariant, InsideHaveTheLock, Moved
<1>12. RenamesShare'
  <2>1. rename # NoRename => rename \in RenameRecords
    BY DEF LockTypes, RenameTypes
  <2>2. renamed.left \subseteq LockNames
    BY DEF LockTypes, RenameTypes
  <2>3. rename.at = "alias" => rename.at # "no" /\ n # rename.to
    BY DEF ComposerInvariant, RenamesShare
  <2>4. NoRename.at = "no"
    BY DEF NoRename
  <2> QED
    BY <1>3, <1>4, <1>5, <1>6, <2>1, <2>2, <2>3, <2>4
       DEF ComposerInvariant, RenamesShare, RenameRecords, Moved
<1> QED
  BY <1>8, <1>9, <1>10, <1>11, <1>12 DEF ComposerInvariant

(* A call that sees its session has the lock of the name the pane has now.  *)
LEMMA LookingIsSafe ==
  ASSUME LockTypes, ComposerInvariant, LookForSession
  PROVE  ComposerInvariant'
<1>1. PICK i \in LockCalls, pc \in {"free", "confirm", "type"} :
        /\ calls[i].pc = "look" /\ (panes[calls[i].name] = 0 => pc = "free")
        /\ calls' = [calls EXCEPT ![i] = [@ EXCEPT !.pane = panes[calls[i].name], !.pc = pc]]
  BY DEF LookForSession
<1> DEFINE n == calls[i].name
           p == panes[n]
<1>2. n \in LockNames /\ p \in Nat /\ opened \in Nat /\ \A j \in LockCalls : calls[j].pane \in Nat
  BY CallOfType DEF LockTypes, SessionTypes
<1>3. Moved(i, pc, calls[i].lock, p)
  BY <1>1, <1>2, CallOfType, MovedIs
<1>4. UNCHANGED <<panes, opened, locks, held, rename, renamed>>
  BY DEF LookForSession
<1>5. PanesApart'
  BY <1>4 DEF ComposerInvariant, PanesApart
<1>6. LocksAreHeld'
  BY <1>1, <1>3, <1>4, KeepsHolding DEF ComposerInvariant
<1>7. LocksStay'
  BY <1>3, <1>4 DEF ComposerInvariant, LocksStay, Moved
<1>8. InsideHaveTheLock'
  <2>1. \A j \in LockCalls : j # i => (Inside(j)' <=> Inside(j))
    BY <1>3 DEF Inside, Moved
  <2>2. \A j \in LockCalls : calls'[j].lock = calls[j].lock
    BY <1>3 DEF Moved
  <2>3. ASSUME Inside(i)'
        PROVE  /\ p # 0 /\ p <= opened
               /\ \A m \in LockNames : panes[m] = p => m = n
               /\ locks[n] = calls[i].lock
    <3>1. calls[i].lock # 0 /\ p # 0
      BY <1>1, <1>3, <2>3 DEF Inside, Moved, ComposerInvariant, LocksAreHeld
    <3> QED
      BY <1>2, <3>1 DEF ComposerInvariant, PanesApart, LocksStay
  <2>4. ASSUME Inside(i)', NEW j \in LockCalls, j # i, Inside(j), calls[j].pane = p
        PROVE  calls[j].lock = calls[i].lock
    BY <1>2, <2>3, <2>4 DEF ComposerInvariant, InsideHaveTheLock
  <2> QED
    BY <1>3, <1>4, <2>1, <2>2, <2>3, <2>4 DEF ComposerInvariant, InsideHaveTheLock, Moved
<1>9. RenamesShare'
  BY <1>3, <1>4 DEF ComposerInvariant, RenamesShare, Moved
<1> QED
  BY <1>5, <1>6, <1>7, <1>8, <1>9 DEF ComposerInvariant

(* A call that comes has nothing yet, and not the new name of a rename.     *)
LEMMA StartingIsSafe ==
  ASSUME LockTypes, NewNames, ComposerInvariant, CallStarts
  PROVE  ComposerInvariant'
<1>1. PICK kind \in lockEnv.kinds, n \in LockNames :
        /\ panes[n] # 0 \/ n \in renamed.left
        /\ calls' = Append(calls, [kind |-> kind, name |-> n, pc |-> WaitsFirst(kind),
                                   lock |-> 0, counter |-> 0, pane |-> 0])
  BY DEF CallStarts, NewNames
<1>0. PICK i : i = Len(calls) + 1
  OBVIOUS
<1>2. kind \in {"send", "respond", "discard", "keys", "escape"}
  BY LockAssumption DEF LockAssumption, LockTypes
<1>3. [kind |-> kind, name |-> n, pc |-> WaitsFirst(kind),
       lock |-> 0, counter |-> 0, pane |-> 0] \in CallRecords
  BY <1>2 DEF CallRecords, WaitsFirst
<1>4. /\ LockCalls' = LockCalls \cup {i} /\ i \notin LockCalls
      /\ \A j \in LockCalls : calls'[j] = calls[j]
      /\ calls'[i] = [kind |-> kind, name |-> n, pc |-> WaitsFirst(kind),
                      lock |-> 0, counter |-> 0, pane |-> 0]
  BY <1>0, <1>1, <1>3, OneMore DEF LockTypes, CallTypes, LockCalls
<1>5. /\ calls'[i].kind = kind /\ calls'[i].name = n /\ calls'[i].lock = 0
      /\ calls'[i].pc = WaitsFirst(kind)
  BY <1>4
<1>6. /\ kind # "escape" => calls'[i].pc \in {"preempt", "ask"}
      /\ calls'[i].pc \in {"preempt", "ask", "look"}
  BY <1>5 DEF WaitsFirst
<1>7. UNCHANGED <<panes, opened, locks, held, rename, renamed>>
  BY DEF CallStarts
<1>8. PanesApart'
  BY <1>7 DEF ComposerInvariant, PanesApart
<1>9. LocksAreHeld'
  BY <1>4, <1>5, <1>6, <1>7 DEF ComposerInvariant, LocksAreHeld
<1>10. LocksStay'
  BY <1>4, <1>5, <1>7 DEF ComposerInvariant, LocksStay
<1>11. InsideHaveTheLock'
  <2>1. ~Inside(i)' /\ \A j \in LockCalls : Inside(j)' <=> Inside(j)
    BY <1>4, <1>6 DEF Inside
  <2> QED
    BY <1>4, <1>7, <2>1 DEF ComposerInvariant, InsideHaveTheLock
<1>12. RenamesShare'
  <2>1. NoRename.at = "no"
    BY DEF NoRename
  <2>2. ASSUME rename.at = "alias" PROVE n # rename.to
    BY <1>1, <2>1, <2>2 DEF ComposerInvariant, RenamesShare
  <2> QED
    BY <1>4, <1>5, <1>7, <2>2 DEF ComposerInvariant, RenamesShare
<1> QED
  BY <1>8, <1>9, <1>10, <1>11, <1>12 DEF ComposerInvariant

(* The sessions: a new one has a pane that no call has seen, and a rename   *)
(* gives its new name the lock before it gives it the pane.                 *)
LEMMA SessionsAreSafe ==
  ASSUME LockTypes, NewNames, ComposerInvariant, SessionOpens \/ SessionCloses
  PROVE  ComposerInvariant'
<1>1. PICK n \in LockNames, p \in Nat :
        /\ panes' = [panes EXCEPT ![n] = p]
        /\ p = 0 \/ (p = opened + 1 /\ n # rename.to)
        /\ opened' \in Nat /\ opened <= opened' /\ p <= opened'
  BY DEF SessionOpens, SessionCloses, NewNames, LockTypes, SessionTypes
<1>2. opened \in Nat /\ opened' \in Nat /\ opened <= opened' /\ p <= opened'
  BY <1>1 DEF LockTypes, SessionTypes
<1>3. \A m \in LockNames : panes[m] \in Nat /\ panes'[m] = IF m = n THEN p ELSE panes[m]
  BY <1>1 DEF LockTypes, SessionTypes
<1>4. UNCHANGED <<locks, held, calls, rename, renamed>>
  BY DEF SessionOpens, SessionCloses
<1>5. \A i \in LockCalls : calls[i].pane \in Nat
  BY CallOfType
<1>6. PanesApart'
  BY <1>1, <1>2, <1>3 DEF ComposerInvariant, PanesApart
<1>7. LocksAreHeld' /\ LocksStay'
  BY <1>4 DEF ComposerInvariant, LocksAreHeld, LocksStay, LockCalls
<1>8. InsideHaveTheLock'
  <2>1. \A i \in LockCalls, m \in LockNames :
           Inside(i) /\ panes'[m] = calls[i].pane => panes[m] = calls[i].pane
    BY <1>1, <1>2, <1>3, <1>5 DEF ComposerInvariant, InsideHaveTheLock
  <2>2. \A i \in LockCalls : Inside(i) => calls[i].pane # 0 /\ calls[i].pane <= opened'
    BY <1>2, <1>5 DEF ComposerInvariant, InsideHaveTheLock
  <2> QED
    BY <1>4, <2>1, <2>2 DEF ComposerInvariant, InsideHaveTheLock, Inside, LockCalls
<1>9. RenamesShare'
  <2>1. rename # NoRename => rename.to \in LockNames
    BY DEF LockTypes, RenameTypes, RenameRecords
  <2>2. rename # NoRename => panes'[rename.to] = 0
    BY <1>1, <1>3, <2>1 DEF ComposerInvariant, RenamesShare
  <2> QED
    BY <1>4, <2>2 DEF ComposerInvariant, RenamesShare, LockCalls
<1> QED
  BY <1>6, <1>7, <1>8, <1>9 DEF ComposerInvariant

(* A rename that starts checks a new name, which nobody asks about.         *)
LEMMA CheckingIsSafe ==
  ASSUME LockTypes, NewNames, ComposerInvariant, RenameChecks
  PROVE  ComposerInvariant'
<1>1. PICK n, m \in LockNames :
        /\ n # m /\ panes[m] = 0 /\ locks[m] = 0 /\ \A i \in LockCalls : calls[i].name # m
        /\ rename' = [at |-> "alias", from |-> n, to |-> m]
  BY DEF RenameChecks, NewNames
<1>2. UNCHANGED <<panes, opened, locks, held, calls>> /\ renamed'.left = renamed.left
  BY DEF RenameChecks, LockTypes, RenameTypes
<1>3. PanesApart' /\ LocksAreHeld' /\ LocksStay' /\ InsideHaveTheLock'
  BY <1>2 DEF ComposerInvariant, PanesApart, LocksAreHeld, LocksStay, InsideHaveTheLock,
              Inside, LockCalls
<1>4. RenamesShare'
  BY <1>1, <1>2 DEF ComposerInvariant, RenamesShare, LockCalls
<1> QED
  BY <1>3, <1>4 DEF ComposerInvariant

(* The new name is given the lock of the old one before the session has it. *)
LEMMA AliasingIsSafe ==
  ASSUME LockTypes, ComposerInvariant, RenameAliases
  PROVE  ComposerInvariant'
<1> DEFINE n == rename.from
           m == rename.to
<1>1. NoRename.at = "no" /\ rename.at = "alias"
  BY DEF NoRename, RenameAliases
<1>2. rename \in RenameRecords /\ n \in LockNames /\ m \in LockNames
  BY <1>1 DEF LockTypes, RenameTypes, RenameRecords
<1>3. /\ locks[m] = 0 /\ panes[m] = 0 /\ n # m /\ \A i \in LockCalls : calls[i].name # m
  BY <1>1 DEF ComposerInvariant, RenamesShare
<1>4. PICK l \in Nat :
        /\ l # 0 /\ (locks[n] # 0 => l = locks[n])
        /\ \A k \in LockNames : locks'[k] = IF k \in {n, m} THEN l ELSE locks[k]
  BY <1>2 DEF RenameAliases, Aliased, LockTypes, TableTypes
<1>5. \A k \in LockNames : locks[k] # 0 => locks'[k] = locks[k]
  BY <1>3, <1>4
<1>6. rename'.at = "move" /\ rename'.from = n /\ rename'.to = m
  BY <1>2 DEF RenameAliases, RenameRecords
<1>7. UNCHANGED <<panes, opened, held, calls, renamed>>
  BY DEF RenameAliases
<1>8. PanesApart' /\ LocksAreHeld'
  BY <1>7 DEF ComposerInvariant, PanesApart, LocksAreHeld, LockCalls
<1>9. \A i \in LockCalls : calls[i].name \in LockNames
  BY CallOfType
<1>10. LocksStay'
  BY <1>5, <1>7, <1>9 DEF ComposerInvariant, LocksStay, LockCalls
<1>11. InsideHaveTheLock'
  <2>1. \A i \in LockCalls : Inside(i) => calls[i].lock # 0
    BY DEF ComposerInvariant, LocksAreHeld, Inside
  <2> QED
    BY <1>5, <1>7, <2>1 DEF ComposerInvariant, InsideHaveTheLock, Inside, LockCalls
<1>12. RenamesShare'
  <2>1. \A k \in renamed.left : k \in LockNames
    BY DEF LockTypes, RenameTypes
  <2> QED
    BY <1>2, <1>3, <1>4, <1>5, <1>6, <1>7, <2>1 DEF ComposerInvariant, RenamesShare
<1> QED
  BY <1>8, <1>10, <1>11, <1>12 DEF ComposerInvariant

(* The session has the new name, whose lock is the one it had.              *)
LEMMA MovingIsSafe ==
  ASSUME LockTypes, ComposerInvariant, RenameMovesLock
  PROVE  ComposerInvariant'
<1> DEFINE n == rename.from
           m == rename.to
<1>1. NoRename.at = "no" /\ rename.at = "move"
  BY DEF NoRename, RenameMovesLock
<1>2. rename \in RenameRecords /\ n \in LockNames /\ m \in LockNames
  BY <1>1 DEF LockTypes, RenameTypes, RenameRecords
<1>3. locks[m] = locks[n] /\ locks[m] # 0 /\ panes[m] = 0
  BY <1>1 DEF ComposerInvariant, RenamesShare
<1>4. UNCHANGED <<opened, locks, held, calls>> /\ rename' = NoRename
  BY DEF RenameMovesLock
<1>5. LocksAreHeld' /\ LocksStay'
  BY <1>4 DEF ComposerInvariant, LocksAreHeld, LocksStay, LockCalls
<1>6. CASE UNCHANGED <<panes, renamed>>
  <2>1. PanesApart' /\ InsideHaveTheLock' /\ RenamesShare'
    BY <1>1, <1>4, <1>6 DEF ComposerInvariant, PanesApart, InsideHaveTheLock, Inside, RenamesShare,
                            LockCalls
  <2> QED
    BY <1>5, <2>1 DEF ComposerInvariant
<1>7. CASE /\ panes[n] # 0
           /\ panes' = [panes EXCEPT ![n] = 0, ![m] = panes[n]]
           /\ renamed' = [renamed EXCEPT !.left = @ \cup {n}]
  <2>1. \A k \in LockNames :
          panes'[k] = IF k = m THEN panes[n] ELSE IF k = n THEN 0 ELSE panes[k]
    BY <1>2, <1>3, <1>7 DEF LockTypes, SessionTypes
  <2>2. PanesApart'
    BY <1>2, <1>3, <1>4, <1>7, <2>1 DEF ComposerInvariant, PanesApart, LockTypes, SessionTypes
  <2>3. InsideHaveTheLock'
    <3>1. \A i \in LockCalls, k \in LockNames :
             Inside(i) /\ panes'[k] = calls[i].pane => locks[k] = calls[i].lock
      BY <1>2, <1>3, <2>1 DEF ComposerInvariant, InsideHaveTheLock
    <3> QED
      BY <1>4, <3>1 DEF ComposerInvariant, InsideHaveTheLock, Inside, LockCalls
  <2>4. RenamesShare'
    <3>1. renamed'.left = renamed.left \cup {n}
      BY <1>7 DEF LockTypes, RenameTypes
    <3> QED
      BY <1>1, <1>3, <1>4, <3>1 DEF ComposerInvariant, RenamesShare
  <2> QED
    BY <1>5, <2>2, <2>3, <2>4 DEF ComposerInvariant
<1> QED
  BY <1>6, <1>7 DEF RenameMovesLock

-----------------------------------------------------------------------------
(* ComposerLock: the theorems *)

LockInvariant == LockTypes /\ (NewNames => ComposerInvariant)

(* The inductive invariant of the composer locks.                           *)
LEMMA LockInvariantHolds == LockSpec => []LockInvariant
<1>1. LockInit => LockInvariant
  BY LockTypesHold, SafeAtFirst DEF LockInvariant
<1>2. LockInvariant /\ [LockNext]_lockVars => LockInvariant'
  <2> SUFFICES ASSUME LockInvariant, [LockNext]_lockVars, NewNames' PROVE ComposerInvariant'
    BY TypesKept DEF LockInvariant
  <2>1. LockTypes
    BY DEF LockInvariant
  <2>2. NewNames
    BY DEF NewNames, LockMay, lockVars, LockNext, CallStep, SessionOpens, SessionCloses,
           RenameChecks, RenameAliases, RenameMovesLock, CallStarts, AskToYield, FindLock, TryLock,
           LookForSession, TypeIntoComposer, SendConfirmed, SendYields, Unlock, WaiterGetsLock,
           Deadline, LeftGetsLock
  <2>3. ComposerInvariant
    BY <2>2 DEF LockInvariant
  <2>4. CASE UNCHANGED lockVars
    <3>1. UNCHANGED <<panes, opened, locks, held, calls, rename, renamed>>
      BY <2>4 DEF lockVars
    <3> QED
      BY <2>3, <3>1 DEF ComposerInvariant, PanesApart, LocksAreHeld, LocksStay,
                        InsideHaveTheLock, Inside, RenamesShare, LockCalls
  <2> QED
    BY <2>1, <2>2, <2>3, <2>4, SessionsAreSafe, CheckingIsSafe, AliasingIsSafe, MovingIsSafe,
       StartingIsSafe, FindingIsSafe, LookingIsSafe, CallsAreSafe DEF LockNext, CallStep
<1> QED
  BY <1>1, <1>2, PTL DEF LockSpec

(* Two calls are never in one composer at a time, whatever names they came  *)
(* for, as long as a rename goes to a new name: they would have one lock,   *)
(* and a mutex has one holder.                                              *)
THEOREM NeverTwoInAComposer == LockSpec => []OnePerComposer
<1>1. LockInvariant => OnePerComposer
  <2> SUFFICES ASSUME LockInvariant, NewNames, NEW i \in LockCalls, NEW j \in LockCalls,
                      i # j, calls[i].pane = calls[j].pane,
                      {calls[i].pc, calls[j].pc} \subseteq {"confirm", "type"},
                      Inside(i), Inside(j)
               PROVE  FALSE
    BY DEF OnePerComposer, Inside
  <2>1. ComposerInvariant /\ calls[i].lock \in Nat
    BY CallOfType DEF LockInvariant
  <2>2. calls[j].lock = calls[i].lock
    BY <2>1 DEF ComposerInvariant, InsideHaveTheLock
  <2>3. <<calls[i].lock, i>> \in held /\ <<calls[j].lock, j>> \in held
    BY <2>1 DEF ComposerInvariant, LocksAreHeld, Inside
  <2> QED
    BY <2>1, <2>2, <2>3 DEF ComposerInvariant, LocksAreHeld
<1> QED
  BY <1>1, LockInvariantHolds, PTL

-----------------------------------------------------------------------------
(* DeliveryRoutes: the ledger of a name *)

(* A list of entries has a last place, and stays one with one more.         *)
LEMMA OneEntryMore ==
  ASSUME NEW L \in SUBSET Entries, NEW e \in Entries
  PROVE  /\ Top(L) \in Nat
         /\ Added(L, e) = L \cup {[e EXCEPT !.place = Top(L) + 1]}
         /\ [e EXCEPT !.place = Top(L) + 1] \in Entries
<1>1. Top(L) \in Nat
  BY DEF Top, Entries
<1> QED
  BY <1>1 DEF Added, Entries

(* A list with one entry for each text is not cut if there is room for all. *)
LEMMA NothingIsPushedOut ==
  ASSUME RouteAssumption, RoomForAll, NEW L \in SUBSET Entries,
         \A e, f \in L : e.t = f.t => e = f
  PROVE  Capped(L) = L
<1>2. IsFiniteSet(L) /\ Cardinality(L) <= Cardinality(RouteTexts)
  <2>1. [e \in L |-> e.t] \in Injection(L, RouteTexts)
    BY DEF Injection, IsInjective, Entries
  <2> QED
    BY <2>1, FS_Injection DEF RouteAssumption
<1>3. ASSUME NEW e \in L PROVE Cardinality({f \in L : f.place > e.place}) < LedgerMax
  <2> DEFINE later == {f \in L : f.place > e.place}
  <2>1. later \in SUBSET L /\ later # L
    BY <1>3 DEF Entries
  <2>2. IsFiniteSet(later) /\ Cardinality(later) <= Cardinality(L) /\ Cardinality(later) # Cardinality(L)
    BY <1>2, <2>1, FS_Subset
  <2>3. Cardinality(later) \in Nat /\ Cardinality(L) \in Nat /\ Cardinality(RouteTexts) \in Nat
    BY <1>2, <2>2, FS_CardinalityType DEF RouteAssumption
  <2> HIDE DEF later
  <2>4. Cardinality(later) < LedgerMax
    BY <1>2, <2>2, <2>3 DEF RouteAssumption, RoomForAll
  <2> QED
    BY <2>4 DEF later
<1> QED
  BY <1>3 DEF Capped

(* What noteUnconfirmed makes of a ledger: nothing under another name, and  *)
(* under this one nothing new but an entry like the one that is noted;      *)
(* where there is room, that entry is there and no other text is lost.      *)
LEMMA NotedIs ==
  ASSUME RouteAssumption, ledger \in [RouteNames -> SUBSET Entries],
         NEW n \in RouteNames, NEW e \in Entries, ledger' = Noted(n, e)
  PROVE  /\ ledger' \in [RouteNames -> SUBSET Entries]
         /\ \A m \in RouteNames : m # n => ledger'[m] = ledger[m]
         /\ \E place \in Nat : LET new == [e EXCEPT !.place = place] IN
               /\ ledger'[n] \subseteq {f \in ledger[n] : f.t # e.t} \cup {new}
               /\ RoomForAll /\ (\A f, g \in ledger[n] : f.t = g.t => f = g)
                    => ledger'[n] = {f \in ledger[n] : f.t # e.t} \cup {new}
<1> DEFINE kept == Without(ledger[n], e.t)
<1>1. kept \in SUBSET Entries /\ ledger[n] \in SUBSET Entries
  BY DEF Without
<1> HIDE DEF kept
<1> DEFINE new == [e EXCEPT !.place = Top(kept) + 1]
<1>2. Added(kept, e) = kept \cup {new} /\ new \in Entries /\ Top(kept) + 1 \in Nat
  BY <1>1, OneEntryMore
<1>3. new.t = e.t
  BY DEF Entries
<1> HIDE DEF new
<1>4. Added(kept, e) \in SUBSET Entries /\ Capped(Added(kept, e)) \subseteq Added(kept, e)
  BY <1>1, <1>2 DEF Capped
<1>5. ledger' = [ledger EXCEPT ![n] = Capped(Added(kept, e))]
  BY DEF Noted, kept
<1>6. ledger'[n] = Capped(kept \cup {new})
  BY <1>2, <1>5
<1>7. ASSUME RoomForAll, \A f, g \in ledger[n] : f.t = g.t => f = g
      PROVE  ledger'[n] = kept \cup {new}
  <2>1. \A f, g \in kept \cup {new} : f.t = g.t => f = g
    BY <1>3, <1>7 DEF kept, Without
  <2> QED
    BY <1>2, <1>4, <1>6, <1>7, <2>1, NothingIsPushedOut
<1>8. kept = {f \in ledger[n] : f.t # e.t}
  BY DEF kept, Without
<1>9. ledger' \in [RouteNames -> SUBSET Entries] /\ \A m \in RouteNames : m # n => ledger'[m] = ledger[m]
  BY <1>4, <1>5
<1>10. ledger'[n] \subseteq kept \cup {new}
  BY <1>2, <1>4, <1>6
<1> QED
  BY <1>2, <1>7, <1>8, <1>9, <1>10 DEF new

-----------------------------------------------------------------------------
(* DeliveryRoutes: what the parts of a step do *)

(* A send that is somewhere is counted, and is a send.                      *)
LEMMA AtWork ==
  ASSUME RouteTypeOK, cur.at # "no"
  PROVE  /\ cur \in RunningSends /\ cur # NoSend /\ Id \in DOMAIN answer /\ Id \in Nat \ {0}
         /\ cur.t \in RouteTexts /\ cur.name \in RouteNames /\ cur.pinned \in BOOLEAN
<1>1. cur # NoSend
  BY DEF NoSend
<1>2. cur \in RunningSends /\ Id \in Nat /\ Id # 0 /\ DOMAIN answer = 1 .. Id
  BY <1>1, LenProperties DEF RouteTypeOK, Id
<1> QED
  BY <1>1, <1>2 DEF RunningSends

(* A send that runs is not one that does not.                               *)
LEMMA RunningIsASend ==
  ASSUME NEW s \in RunningSends PROVE s # NoSend /\ s.at # "no"
  BY DEF RunningSends, NoSend

(* The end of a send: its text and its number have the answer.              *)
LEMMA EndsIs ==
  ASSUME RouteTypeOK, cur.at # "no", NEW res \in RouteAnswers, Ends(cur.t, res)
  PROVE  /\ cur' = NoSend
         /\ last' \in [RouteTexts -> RouteAnswers] /\ last'[cur.t] = res
         /\ \A t \in RouteTexts : t # cur.t => last'[t] = last[t]
         /\ answer' \in Seq(RouteAnswers) /\ DOMAIN answer' = DOMAIN answer /\ Len(answer') = Len(answer)
         /\ answer'[Id] = res /\ \A i \in DOMAIN answer : i # Id => answer'[i] = answer[i]
<1>1. Id \in DOMAIN answer /\ cur.t \in RouteTexts
  BY AtWork
<1>2. answer \in Seq(RouteAnswers) /\ last \in [RouteTexts -> RouteAnswers]
  BY DEF RouteTypeOK
<1>3. answer' = [answer EXCEPT ![Id] = res] /\ cur' = NoSend /\ last' = [last EXCEPT ![cur.t] = res]
  BY DEF Ends, Id
<1>4. /\ answer' \in Seq(RouteAnswers) /\ DOMAIN answer' = DOMAIN answer
      /\ answer'[Id] = res /\ \A i \in DOMAIN answer : i # Id => answer'[i] = answer[i]
  BY <1>1, <1>2, <1>3, OneReplaced
<1>5. Len(answer') = Len(answer)
  BY <1>2, <1>4, LenProperties
<1> QED
  BY <1>1, <1>2, <1>3, <1>4, <1>5

(* A send that goes on is the same send.                                    *)
GoesOn(to) ==
    /\ cur' \in RunningSends /\ cur' # NoSend /\ cur'.at = to
    /\ cur'.t = cur.t /\ cur'.route = cur.route /\ cur'.shape = cur.shape
    /\ cur'.name = cur.name /\ cur'.pinned = cur.pinned

(* Setting where the send is changes nothing else of it.                    *)
LEMMA GoesIs ==
  ASSUME RouteTypeOK, cur.at # "no", NEW to, cur' = [cur EXCEPT !.at = to],
         to \in {"ledger", "inbox", "inboxed", "module", "sending", "written", "pane", "pasted"}
  PROVE  GoesOn(to)
<1>1. cur \in RunningSends
  BY AtWork
<1>2. /\ cur' \in RunningSends /\ cur'.at = to
      /\ cur'.t = cur.t /\ cur'.route = cur.route /\ cur'.shape = cur.shape
      /\ cur'.name = cur.name /\ cur'.pinned = cur.pinned
  BY <1>1 DEF RunningSends
<1> QED
  BY <1>2, RunningIsASend DEF GoesOn

(* A send that writes adds one copy of its text, to the session there is.   *)
LEMMA WritesIs ==
  ASSUME RouteTypeOK, cur.at # "no", NEW via \in {"inbox", "module", "pane"},
         NEW fates \in SUBSET {"going", "lost", "taken", "rejected"}, Writes(via, fates)
  PROVE  \E c \in Copies : /\ copies' = copies \cup {c}
                           /\ c.send = Id /\ c.t = cur.t /\ c.run = sess.run /\ c.via = via
                           /\ c.fate \in fates
<1>1. PICK fate \in fates :
         copies' = copies \cup {[send |-> Id, t |-> cur.t, run |-> sess.run, via |-> via, fate |-> fate]}
  BY DEF Writes
<1>2. cur.t \in RouteTexts /\ Id \in Nat /\ sess.run \in 1 .. 2
  BY AtWork DEF RouteTypeOK
<1>3. [send |-> Id, t |-> cur.t, run |-> sess.run, via |-> via, fate |-> fate] \in Copies
  BY <1>2 DEF Copies
<1> QED
  BY <1>1, <1>3

-----------------------------------------------------------------------------
(* DeliveryRoutes: types *)

(* The types hold at first.                                                 *)
LEMMA RouteTypesHold == RouteInit => RouteTypeOK
  BY DEF RouteInit, RouteTypeOK, RouteNames, NoSend, RouteAnswers, NoText

(* A ledger keeps its type when a text is dropped or an entry is noted.     *)
LEMMA LedgerTypes ==
  ASSUME RouteAssumption, RouteTypeOK, NEW n \in RouteNames
  PROVE  /\ \A t : Dropped(n, t) \in [RouteNames -> SUBSET Entries]
         /\ \A e \in Entries : Noted(n, e) \in [RouteNames -> SUBSET Entries]
<1>1. ledger \in [RouteNames -> SUBSET Entries]
  BY DEF RouteTypeOK
<1>2. \A t : Dropped(n, t) \in [RouteNames -> SUBSET Entries]
  BY <1>1 DEF Dropped, Without
<1>3. ASSUME NEW e \in Entries PROVE Noted(n, e) \in [RouteNames -> SUBSET Entries]
  <2> DEFINE kept == Without(ledger[n], e.t)
  <2>1. kept \in SUBSET Entries
    BY <1>1 DEF Without
  <2>2. Noted(n, e) = [ledger EXCEPT ![n] = Capped(Added(kept, e))]
    BY DEF Noted
  <2> HIDE DEF kept
  <2>3. Added(kept, e) = kept \cup {[e EXCEPT !.place = Top(kept) + 1]}
        /\ [e EXCEPT !.place = Top(kept) + 1] \in Entries
    BY <2>1, <1>3, OneEntryMore
  <2> DEFINE new == [e EXCEPT !.place = Top(kept) + 1]
  <2> HIDE DEF new
  <2>4. Added(kept, e) \in SUBSET Entries
    BY <2>1, <2>3 DEF new
  <2> QED
    BY <1>1, <2>2, <2>4 DEF Capped
<1> QED
  BY <1>2, <1>3

(* The entries that are noted have their type.                              *)
LEMMA EntryTypes ==
  ASSUME RouteTypeOK, cur.at # "no"
  PROVE  /\ LaneDir \in 0 .. 2
         /\ \A dir \in 0 .. 2, via \in {"inbox", "module"}, handle \in {0, Id} :
               LedgerEntry(cur.t, via, dir, handle) \in Entries
<1>1. cur.t \in RouteTexts /\ Id \in Nat /\ sess.run \in 1 .. 2
  BY AtWork DEF RouteTypeOK
<1> QED
  BY <1>1 DEF LaneDir, LedgerEntry, Entries

(* A lane that is degraded has its type.                                    *)
LEMMA LaneTypes ==
  ASSUME RouteTypeOK
  PROVE  Degraded \in [RouteNames -> {NoText, "usable", "degraded", "closing"}]
  BY DEF RouteTypeOK, Degraded

(* A send that ends with nothing written keeps the types.                   *)
LEMMA AnswersKeepTypes ==
  ASSUME RouteTypeOK, cur.at # "no", NEW res \in RouteAnswers, Answers(res),
         ledger' \in [RouteNames -> SUBSET Entries]
  PROVE  RouteTypeOK'
<1>1. Ends(cur.t, res) /\ UNCHANGED <<routeEnv, sess, lane, box, copies, stranded, laneMoves, events>>
  BY DEF Answers
<1>2. cur' = NoSend /\ last' \in [RouteTexts -> RouteAnswers] /\ answer' \in Seq(RouteAnswers)
  BY <1>1, EndsIs
<1> QED
  BY <1>1, <1>2 DEF RouteTypeOK

(* So does one that goes on.                                                *)
LEMMA GoesKeepsTypes ==
  ASSUME RouteTypeOK, cur.at # "no", NEW to \in {"inbox", "module", "pane"}, Goes(to),
         ledger' \in [RouteNames -> SUBSET Entries]
  PROVE  RouteTypeOK'
<1>1. cur' = [cur EXCEPT !.at = to]
      /\ UNCHANGED <<routeEnv, sess, lane, box, copies, stranded, last, answer, laneMoves, events>>
  BY DEF Goes
<1>2. cur' \in RunningSends /\ cur # NoSend
  BY <1>1, GoesIs, AtWork DEF GoesOn
<1> QED
  BY <1>1, <1>2 DEF RouteTypeOK, Id

(* A send that is begun, or refused at once, keeps the types.               *)
LEMMA SendKeepsTypes ==
  ASSUME RouteTypeOK, NEW t \in RouteTexts, NEW route \in RouteKinds,
         NEW shape \in {"plain", "composer"}, Send(t, route, shape)
  PROVE  RouteTypeOK'
<1>1. UNCHANGED <<routeEnv, sess, lane, ledger, stranded, box, copies, laneMoves, events>>
  BY DEF Send
<1>2. answer \in Seq(RouteAnswers) /\ last \in [RouteTexts -> RouteAnswers] /\ sess.name \in RouteNames
  BY DEF RouteTypeOK
<1>3. PICK live \in BOOLEAN :
        \/ /\ cur' = NoSend /\ last' = [last EXCEPT ![t] = "refused"]
           /\ answer' = Append(answer, "refused")
        \/ /\ cur' = [at |-> "ledger", t |-> t, route |-> route, shape |-> shape,
                      name |-> sess.name, pinned |-> live]
           /\ answer' = Append(answer, NoText) /\ last' = last
  <2> DEFINE live == route \in {"auto", "terminal"} /\ lane[sess.name] = "usable"
  <2> live \in BOOLEAN
    OBVIOUS
  <2> QED
    BY DEF Send
<1>4. cur' \in RunningSends \cup {NoSend}
  BY <1>2, <1>3 DEF RunningSends
<1>5. PICK r \in RouteAnswers : answer' = Append(answer, r)
  BY <1>3 DEF RouteAnswers
<1>6. answer' \in Seq(RouteAnswers) /\ Len(answer') # 0
  BY <1>2, <1>5, OneMore, AppendProperties, LenProperties
<1>7. last' \in [RouteTexts -> RouteAnswers]
  BY <1>2, <1>3 DEF RouteAnswers
<1> QED
  BY <1>1, <1>4, <1>6, <1>7 DEF RouteTypeOK, Id

(* What a rename does, to whatever name it goes.                            *)
RenamedTo(to) ==
    /\ to # sess.name
    /\ sess' = [sess EXCEPT !.name = to]
    /\ lane' = IF lane[sess.name] = NoText THEN lane
               ELSE [lane EXCEPT ![sess.name] = NoText, ![to] = lane[sess.name]]
    /\ stranded' = IF stranded[sess.name] = NoText THEN stranded
                   ELSE [stranded EXCEPT ![sess.name] = NoText, ![to] = stranded[sess.name]]
    /\ ledger' = [ledger EXCEPT ![sess.name] = {},
                                ![to] = Capped(Merged(ledger[to], ledger[sess.name]))]
    /\ events' = events + 1
    /\ UNCHANGED <<routeEnv, box, cur, copies, last, answer, laneMoves>>

(* A rename is one to some other name.                                      *)
LEMMA RenameIs ==
  ASSUME RenamesSession
  PROVE  Happens("rename") /\ \E to \in RouteNames : RenamedTo(to)
<1>1. \E n \in RouteNames : n # sess.name
  BY DEF RouteNames
<1>2. PICK to \in RouteNames : to = (CHOOSE n \in RouteNames : n # sess.name) /\ to # sess.name
  BY <1>1
<1>3. sess' = [sess EXCEPT !.name = to]
  BY <1>2 DEF RenamesSession
<1>4. lane' = IF lane[sess.name] = NoText THEN lane
              ELSE [lane EXCEPT ![sess.name] = NoText, ![to] = lane[sess.name]]
  BY <1>2 DEF RenamesSession
<1>5. stranded' = IF stranded[sess.name] = NoText THEN stranded
                  ELSE [stranded EXCEPT ![sess.name] = NoText, ![to] = stranded[sess.name]]
  BY <1>2 DEF RenamesSession
<1>6. ledger' = [ledger EXCEPT ![sess.name] = {},
                               ![to] = Capped(Merged(ledger[to], ledger[sess.name]))]
  BY <1>2 DEF RenamesSession
<1>7. events' = events + 1 /\ UNCHANGED <<routeEnv, box, cur, copies, last, answer, laneMoves>>
      /\ Happens("rename")
  BY DEF RenamesSession, Happens
<1> QED
  BY <1>2, <1>3, <1>4, <1>5, <1>6, <1>7 DEF RenamedTo

(* A step of a send, or one beside it, keeps the types.                     *)
LEMMA RouteTypesKept ==
  ASSUME RouteAssumption, RouteTypeOK, [RouteNext]_routeVars
  PROVE  RouteTypeOK'
<1>1. ledger \in [RouteNames -> SUBSET Entries] /\ copies \subseteq Copies /\ sess.name \in RouteNames
  BY DEF RouteTypeOK
<1>2. CASE FromLedger
  <2>1. cur.at # "no" /\ cur.name \in RouteNames
    BY <1>2, AtWork DEF FromLedger
  <2>2. \/ Goes("inbox") \/ \E res \in {"queued", "delivered", "held"} : Answers(res)
    BY <1>2 DEF FromLedger
  <2>3. ledger' = ledger \/ ledger' = Dropped(cur.name, cur.t)
    BY <1>2 DEF FromLedger
  <2>4. ledger' \in [RouteNames -> SUBSET Entries]
    BY <1>1, <2>1, <2>3, LedgerTypes
  <2>5. CASE Goes("inbox")
    BY <2>1, <2>4, <2>5, GoesKeepsTypes
  <2>6. CASE \E res \in {"queued", "delivered", "held"} : Answers(res)
    BY <2>1, <2>4, <2>6, AnswersKeepTypes DEF RouteAnswers
  <2> QED
    BY <2>2, <2>5, <2>6
<1>3. CASE Inbox
  <2>1. cur.at # "no"
    BY <1>3 DEF Inbox
  <2>2. \/ /\ Goes("module") \/ Answers("refused")
           /\ ledger' = ledger
        \/ /\ Writes("inbox", {"going", "lost"}) /\ cur' = [cur EXCEPT !.at = "inboxed"]
           /\ UNCHANGED <<routeEnv, sess, lane, ledger, stranded, box, last, answer, laneMoves, events>>
    BY <1>3 DEF Inbox
  <2>3. CASE (Goes("module") \/ Answers("refused")) /\ ledger' = ledger
    BY <1>1, <2>1, <2>3, GoesKeepsTypes, AnswersKeepTypes DEF RouteAnswers
  <2>4. CASE /\ Writes("inbox", {"going", "lost"}) /\ cur' = [cur EXCEPT !.at = "inboxed"]
             /\ UNCHANGED <<routeEnv, sess, lane, ledger, stranded, box, last, answer, laneMoves, events>>
    <3>1. cur' \in RunningSends /\ cur # NoSend
      BY <2>1, <2>4, GoesIs, AtWork DEF GoesOn
    <3>2. copies' \subseteq Copies
      BY <1>1, <2>1, <2>4, WritesIs
    <3> QED
      BY <2>4, <3>1, <3>2 DEF RouteTypeOK, Id
  <2> QED
    BY <2>2, <2>3, <2>4
<1>4. CASE InboxAnswers
  <2>1. cur.at # "no" /\ cur.name \in RouteNames /\ sess.run \in 0 .. 2
    BY <1>4, AtWork DEF InboxAnswers, RouteTypeOK
  <2>2. LedgerEntry(cur.t, "inbox", sess.run, Id) \in Entries
    BY <2>1, EntryTypes
  <2>3. \/ Answers("delivered") /\ ledger' = ledger
        \/ Answers("unknown") /\ ledger' = Noted(cur.name, LedgerEntry(cur.t, "inbox", sess.run, Id))
    BY <1>4 DEF InboxAnswers
  <2>4. ledger' \in [RouteNames -> SUBSET Entries]
    BY <1>1, <2>1, <2>2, <2>3, LedgerTypes
  <2> QED
    BY <2>1, <2>3, <2>4, AnswersKeepTypes DEF RouteAnswers
<1>5. CASE Module
  <2>1. cur.at # "no"
    BY <1>5 DEF Module
  <2>2. \/ /\ Goes("pane") \/ Answers("refused")
           /\ ledger' = ledger
        \/ /\ cur' = [cur EXCEPT !.at = "sending"]
           /\ UNCHANGED <<routeEnv, sess, lane, ledger, stranded, box, copies, last, answer, laneMoves, events>>
    BY <1>5 DEF Module, HandedBack
  <2>3. CASE (Goes("pane") \/ Answers("refused")) /\ ledger' = ledger
    BY <1>1, <2>1, <2>3, GoesKeepsTypes, AnswersKeepTypes DEF RouteAnswers
  <2>4. CASE /\ cur' = [cur EXCEPT !.at = "sending"]
             /\ UNCHANGED <<routeEnv, sess, lane, ledger, stranded, box, copies, last, answer, laneMoves, events>>
    <3>1. cur' \in RunningSends /\ cur # NoSend
      BY <2>1, <2>4, GoesIs, AtWork DEF GoesOn
    <3> QED
      BY <2>4, <3>1 DEF RouteTypeOK, Id
  <2> QED
    BY <2>2, <2>3, <2>4
<1>6. CASE ModuleSends
  <2>1. cur.at # "no" /\ cur.name \in RouteNames
    BY <1>6, AtWork DEF ModuleSends
  <2>2. UNCHANGED <<routeEnv, sess, stranded, box, laneMoves, events>>
    BY <1>6 DEF ModuleSends
  <2>3. copies' \subseteq Copies
    <3>1. UNCHANGED copies \/ Writes("module", {"going"}) \/ Writes("module", {"going", "lost"})
      BY <1>6 DEF ModuleSends
    <3> QED
      BY <1>1, <2>1, <3>1, WritesIs
  <2>4. lane' \in [RouteNames -> {NoText, "usable", "degraded", "closing"}]
    <3>1. lane' = Degraded \/ lane' = lane
      BY <1>6 DEF ModuleSends
    <3> QED
      BY <3>1, LaneTypes DEF RouteTypeOK
  <2>5. ledger' \in [RouteNames -> SUBSET Entries]
    <3>1. ledger' = ledger \/ ledger' = Noted(cur.name, LedgerEntry(cur.t, "module", LaneDir, 0))
      BY <1>6 DEF ModuleSends
    <3> QED
      BY <1>1, <2>1, <3>1, LedgerTypes, EntryTypes
  <2>6. \/ \E to \in {"written", "pane"} : cur' = [cur EXCEPT !.at = to] /\ UNCHANGED <<last, answer>>
        \/ \E res \in {"refused", "unknown"} : Ends(cur.t, res)
    BY <1>6 DEF ModuleSends
  <2>7. CASE \E to \in {"written", "pane"} : cur' = [cur EXCEPT !.at = to] /\ UNCHANGED <<last, answer>>
    <3>1. cur' \in RunningSends /\ cur # NoSend
      BY <2>1, <2>7, GoesIs, AtWork DEF GoesOn
    <3> QED
      BY <2>2, <2>3, <2>4, <2>5, <2>7, <3>1 DEF RouteTypeOK, Id
  <2>8. CASE \E res \in {"refused", "unknown"} : Ends(cur.t, res)
    <3>1. cur' = NoSend /\ last' \in [RouteTexts -> RouteAnswers] /\ answer' \in Seq(RouteAnswers)
      BY <2>1, <2>8, EndsIs DEF RouteAnswers
    <3> QED
      BY <2>2, <2>3, <2>4, <2>5, <3>1 DEF RouteTypeOK
  <2> QED
    BY <2>6, <2>7, <2>8
<1>7. CASE ModuleAnswers
  <2>1. cur.at # "no" /\ cur.name \in RouteNames
    BY <1>7, AtWork DEF ModuleAnswers
  <2>2. UNCHANGED <<routeEnv, sess, stranded, box, copies, laneMoves, events>>
    BY <1>7 DEF ModuleAnswers
  <2>3. lane' \in [RouteNames -> {NoText, "usable", "degraded", "closing"}]
    <3>1. lane' = Degraded \/ lane' = lane
      BY <1>7 DEF ModuleAnswers
    <3> QED
      BY <3>1, LaneTypes DEF RouteTypeOK
  <2>4. ledger' \in [RouteNames -> SUBSET Entries]
    <3>1. ledger' = ledger \/ ledger' = Noted(cur.name, LedgerEntry(cur.t, "module", LaneDir, Id))
      BY <1>7 DEF ModuleAnswers
    <3> QED
      BY <1>1, <2>1, <3>1, LedgerTypes, EntryTypes
  <2>5. \E res \in {"queued", "refused", "unknown"} : Ends(cur.t, res)
    BY <1>7 DEF ModuleAnswers
  <2>6. cur' = NoSend /\ last' \in [RouteTexts -> RouteAnswers] /\ answer' \in Seq(RouteAnswers)
    BY <2>1, <2>5, EndsIs DEF RouteAnswers
  <2> QED
    BY <2>2, <2>3, <2>4, <2>6 DEF RouteTypeOK
<1>8. CASE Pane
  <2>1. cur.at # "no" /\ cur.name \in RouteNames /\ cur.t \in RouteTexts
    BY <1>8, AtWork DEF Pane
  <2>2. \/ Answers("refused") /\ UNCHANGED ledger
        \/ /\ Writes("pane", {"taken"}) /\ box' = NoText
           /\ stranded' = [stranded EXCEPT ![cur.name] = NoText]
           /\ Ends(cur.t, "queued")
           /\ UNCHANGED <<routeEnv, sess, lane, ledger, laneMoves, events>>
        \/ /\ Writes("pane", {"going", "taken"})
           /\ cur' = [cur EXCEPT !.at = "pasted"]
           /\ box' \in {cur.t, NoText}
           /\ UNCHANGED <<routeEnv, sess, lane, ledger, stranded, last, answer, laneMoves, events>>
    BY <1>8 DEF Pane
  <2>3. CASE Answers("refused") /\ UNCHANGED ledger
    BY <1>1, <2>1, <2>3, AnswersKeepTypes DEF RouteAnswers
  <2>4. CASE /\ Writes("pane", {"taken"}) /\ box' = NoText
             /\ stranded' = [stranded EXCEPT ![cur.name] = NoText]
             /\ Ends(cur.t, "queued")
             /\ UNCHANGED <<routeEnv, sess, lane, ledger, laneMoves, events>>
    <3>1. cur' = NoSend /\ last' \in [RouteTexts -> RouteAnswers] /\ answer' \in Seq(RouteAnswers)
      BY <2>1, <2>4, EndsIs DEF RouteAnswers
    <3>2. copies' \subseteq Copies
      BY <1>1, <2>1, <2>4, WritesIs
    <3>3. stranded' \in [RouteNames -> RouteTexts \cup {NoText}]
      BY <2>4 DEF RouteTypeOK
    <3> QED
      BY <2>4, <3>1, <3>2, <3>3 DEF RouteTypeOK
  <2>5. CASE /\ Writes("pane", {"going", "taken"})
             /\ cur' = [cur EXCEPT !.at = "pasted"]
             /\ box' \in {cur.t, NoText}
             /\ UNCHANGED <<routeEnv, sess, lane, ledger, stranded, last, answer, laneMoves, events>>
    <3>1. cur' \in RunningSends /\ cur # NoSend
      BY <2>1, <2>5, GoesIs, AtWork DEF GoesOn
    <3>2. copies' \subseteq Copies
      BY <1>1, <2>1, <2>5, WritesIs
    <3> QED
      BY <2>1, <2>5, <3>1, <3>2 DEF RouteTypeOK, Id
  <2> QED
    BY <2>2, <2>3, <2>4, <2>5
<1>9. CASE PaneAnswers
  <2>1. cur.at # "no" /\ cur.name \in RouteNames /\ cur.t \in RouteTexts
    BY <1>9, AtWork DEF PaneAnswers
  <2>2. UNCHANGED <<routeEnv, sess, lane, ledger, box, laneMoves, events>>
    BY <1>9 DEF PaneAnswers
  <2>3. /\ stranded' = stranded \/ stranded' = [stranded EXCEPT ![cur.name] = cur.t]
        /\ copies' \subseteq copies
        /\ \E res \in {"queued", "unknown"} : Ends(cur.t, res)
    BY <1>9 DEF PaneAnswers
  <2>4. cur' = NoSend /\ last' \in [RouteTexts -> RouteAnswers] /\ answer' \in Seq(RouteAnswers)
    BY <2>1, <2>3, EndsIs DEF RouteAnswers
  <2>5. stranded' \in [RouteNames -> RouteTexts \cup {NoText}]
    BY <2>1, <2>3 DEF RouteTypeOK
  <2> QED
    BY <1>1, <2>2, <2>3, <2>4, <2>5 DEF RouteTypeOK
<1>10. CASE \E c \in copies : Reaches(c)
  <2>1. copies' \subseteq Copies
    BY <1>1, <1>10 DEF Reaches, Copies
  <2> QED
    BY <1>10, <2>1 DEF Reaches, RouteTypeOK, Id
<1>11. CASE LaneChanges
  BY <1>1, <1>11 DEF LaneChanges, RouteTypeOK, Id
<1>12. CASE RenamesSession
  <2>1. PICK to \in RouteNames : RenamedTo(to)
    BY <1>12, RenameIs
  <2>2. Merged(ledger[to], ledger[sess.name]) \in SUBSET Entries
    <3>1. Top(ledger[to]) \in Nat
      BY <1>1, <2>1 DEF Top, Entries
    <3>2. \A f \in ledger[sess.name] : [f EXCEPT !.place = @ + Top(ledger[to])] \in Entries
      BY <1>1, <3>1 DEF Entries
    <3> QED
      BY <1>1, <2>1, <3>2 DEF Merged
  <2>3. Capped(Merged(ledger[to], ledger[sess.name])) \in SUBSET Entries
    BY <2>2 DEF Capped
  <2>4. ledger' \in [RouteNames -> SUBSET Entries]
    BY <1>1, <2>1, <2>3 DEF RenamedTo
  <2>5. lane' \in [RouteNames -> {NoText, "usable", "degraded", "closing"}]
    BY <1>1, <2>1 DEF RouteTypeOK, RenamedTo
  <2>6. stranded' \in [RouteNames -> RouteTexts \cup {NoText}]
    BY <1>1, <2>1 DEF RouteTypeOK, RenamedTo
  <2>7. sess' \in [name : RouteNames, run : 1 .. 2]
    BY <1>1, <2>1 DEF RouteTypeOK, RenamedTo
  <2>8. events' \in Nat /\ UNCHANGED <<routeEnv, box, cur, copies, last, answer, laneMoves>>
    BY <2>1 DEF RenamedTo, RouteTypeOK
  <2> QED
    BY <2>4, <2>5, <2>6, <2>7, <2>8 DEF RouteTypeOK, Id
<1>13. CASE Crash
  <2>1. UNCHANGED <<routeEnv, sess, ledger, stranded, box, copies, laneMoves>> /\ events' = events + 1
        /\ cur' = NoSend
    BY <1>13 DEF Crash, Happens
  <2>2. lane' \in [RouteNames -> {NoText, "usable", "degraded", "closing"}]
    BY <1>13 DEF Crash, RouteTypeOK
  <2>3. last' \in [RouteTexts -> RouteAnswers] /\ answer' \in Seq(RouteAnswers)
    <3>1. CASE cur = NoSend
      BY <1>13, <3>1 DEF Crash, RouteTypeOK
    <3>2. CASE cur # NoSend
      <4>1. cur.at # "no"
        BY <3>2, RunningIsASend DEF RouteTypeOK
      <4>2. Ends(cur.t, "unknown")
        BY <1>13, <3>2 DEF Crash, Ends
      <4> QED
        BY <4>1, <4>2, EndsIs DEF RouteAnswers
    <3> QED
      BY <3>1, <3>2
  <2> QED
    BY <2>1, <2>2, <2>3 DEF RouteTypeOK
<1>14. CASE Succeeded
  <2>1. sess' \in [name : RouteNames, run : 1 .. 2]
    <3>1. sess' = [sess EXCEPT !.run = 2]
      BY <1>14 DEF Succeeded
    <3> QED
      BY <3>1 DEF RouteTypeOK
  <2>2. stranded' \in [RouteNames -> RouteTexts \cup {NoText}]
    <3>1. stranded \in [RouteNames -> RouteTexts \cup {NoText}]
      BY DEF RouteTypeOK
    <3>2. stranded' = [stranded EXCEPT ![sess.name] = NoText]
      BY <1>14 DEF Succeeded
    <3> QED
      BY <3>1, <3>2
  <2>3. lane' \in [RouteNames -> {NoText, "usable", "degraded", "closing"}]
    BY <1>14 DEF Succeeded, RouteTypeOK
  <2>4. last' \in [RouteTexts -> RouteAnswers]
    BY <1>14 DEF Succeeded, RouteAnswers
  <2> QED
    BY <1>14, <2>1, <2>2, <2>3, <2>4 DEF Succeeded, RouteTypeOK, Id
<1>15. CASE UNCHANGED routeVars
  BY <1>15 DEF routeVars, RouteTypeOK, Id
<1> QED
  BY <1>2, <1>3, <1>4, <1>5, <1>6, <1>7, <1>8, <1>9, <1>10, <1>11, <1>12, <1>13, <1>14, <1>15,
     SendKeepsTypes DEF RouteNext, RouteKinds

-----------------------------------------------------------------------------
(* DeliveryRoutes: the invariant *)

Running == cur.at # "no"
Live(c) == c.fate \in {"going", "taken"}

(* A send goes to the session under the name it was asked for, it is not    *)
(* answered yet, and a lane it counts on is there.                          *)
SendIsInPlace ==
    /\ Allows("succeed") \/ sess.run = 1
    /\ \A n \in RouteNames : lane[n] # "closing"
    /\ Running =>
          /\ cur.name = sess.name /\ answer[Id] = NoText
          /\ last[cur.t] \notin {"queued", "delivered"}
          /\ cur.at \in {"sending", "written"} => lane[sess.name] # NoText
          /\ cur.pinned => /\ cur.route = "auto" /\ cur.shape = "plain"
                           /\ lane[sess.name] # NoText /\ cur.at \notin {"pane", "pasted"}

(* A send writes one copy, which is its own until the send is answered; a   *)
(* paste that was not taken is nobody else's.                               *)
CopiesAreOwned ==
    /\ \A c, d \in copies : c.send = d.send => c = d
    /\ \A c \in copies : c.send \in 1 .. Len(answer) /\ c.run <= sess.run
    /\ \A c \in copies : Running /\ c.send = Id =>
          /\ c.t = cur.t /\ c.run = sess.run
          /\ \/ cur.at = "inboxed" /\ c.via = "inbox"
             \/ cur.at = "written" /\ c.via = "module"
             \/ cur.at = "pasted" /\ c.via = "pane"
    /\ cur.at \in {"inboxed", "pasted"} => \E c \in copies : c.send = Id
    /\ \A c \in copies : c.via = "pane" /\ c.fate # "taken" => Running /\ c.send = Id

(* The ledger has at most one entry for a text, about a copy that was       *)
(* written.                                                                 *)
EntriesAreTrue ==
    /\ \A n \in RouteNames : n # sess.name => ledger[n] = {}
    /\ \A e \in ledger[sess.name] :
          /\ e.dir \in 1 .. sess.run /\ (e.handle = 0 => e.via = "module")
          /\ \E c \in copies : /\ c.t = e.t /\ c.run = e.dir /\ c.via = e.via
                               /\ e.handle # 0 => c.send = e.handle
    /\ \A e, f \in ledger[sess.name] : e.t = f.t => e = f

(* What is in the composer is recorded as stranded, unless it was just      *)
(* pasted.                                                                  *)
BoxIsKnown ==
    /\ \A n \in RouteNames : n # sess.name => stranded[n] = NoText
    /\ cur.at # "pasted" => box = stranded[sess.name]
    /\ cur.at \in {"inboxed", "sending", "written"} => box # cur.t
    /\ cur.at = "pasted" =>
          /\ stranded[sess.name] = NoText
          /\ \/ box = cur.t /\ \A c \in Mine : c.fate = "going"
             \/ box = NoText /\ \A c \in Mine : c.fate = "taken"

(* An entry of the ledger is about this copy.                               *)
Gated(c) ==
    \E e \in ledger[sess.name] :
       e.t = c.t /\ e.dir = c.run /\ e.via = c.via /\ e.handle \in {0, c.send}

(* A text is on its way to a session, or there, at most once; where it is,  *)
(* its last send was told, or still runs, or an entry is about it; and      *)
(* neither a send that is past the ledger nor the composer brings another.  *)
LiveCopiesAreKnown ==
    RoomForAll =>
       /\ \A c, d \in copies : Live(c) /\ Live(d) /\ c.t = d.t /\ c.run = d.run => c = d
       /\ \A c \in copies : Live(c) /\ c.run = sess.run =>
             \/ last[c.t] \in {"queued", "delivered"}
             \/ Running /\ c.send = Id
             \/ Gated(c)
       /\ Running /\ cur.at # "ledger" =>
             \A c \in copies : Live(c) /\ c.t = cur.t /\ c.run = sess.run => c.send = Id
       /\ box # NoText => \A c \in copies : Live(c) /\ c.t = box /\ c.run = sess.run =>
                                               Running /\ c.send = Id

(* The answers are true.                                                    *)
AnswersAreBacked == Recognised => AnswersAreTrue /\ HeldForItself

(* The invariant: the types, and where sends are undisturbed all of it.     *)
RouteParts ==
    /\ SendIsInPlace /\ CopiesAreOwned /\ EntriesAreTrue /\ BoxIsKnown
    /\ LiveCopiesAreKnown /\ AnswersAreBacked

RouteInvariant == RouteTypeOK /\ (Undisturbed => RouteParts)

-----------------------------------------------------------------------------
(* DeliveryRoutes: the steps *)

(* It holds at first.                                                       *)
LEMMA RouteInvariantAtFirst == RouteInit => RouteInvariant
<1> SUFFICES ASSUME RouteInit PROVE RouteInvariant
  OBVIOUS
<1>1. RouteTypeOK
  BY RouteTypesHold
<1>2. cur.at = "no" /\ copies = {} /\ answer = <<>> /\ sess = [name |-> "n1", run |-> 1]
      /\ lane = [n \in RouteNames |-> NoText] /\ ledger = [n \in RouteNames |-> {}]
      /\ stranded = [n \in RouteNames |-> NoText] /\ box = NoText
      /\ last = [t \in RouteTexts |-> NoText]
  BY DEF RouteInit, NoSend
<1>3. SendIsInPlace /\ CopiesAreOwned
  BY <1>2 DEF SendIsInPlace, CopiesAreOwned, Running, NoText
<1>4. EntriesAreTrue /\ BoxIsKnown
  BY <1>2 DEF EntriesAreTrue, BoxIsKnown, RouteNames
<1>5. LiveCopiesAreKnown
  BY <1>2 DEF LiveCopiesAreKnown
<1>6. AnswersAreBacked
  BY <1>2, LenProperties DEF AnswersAreBacked, AnswersAreTrue, HeldForItself, NoText
<1> QED
  BY <1>1, <1>3, <1>4, <1>5, <1>6 DEF RouteInvariant, RouteParts

(* A send that goes on, with the ledger as it was or without its text, if   *)
(* past the ledger the text is nowhere on its way.                          *)
LEMMA GoingOnIsSafe ==
  ASSUME RouteTypeOK, RouteTypeOK', Undisturbed, RouteParts, Running,
         NEW to \in {"inbox", "module", "pane", "sending"}, GoesOn(to),
         cur.at \in {"ledger", "inbox", "module", "sending"},
         ledger' = ledger \/ ledger' = Dropped(sess.name, cur.t),
         lane' = lane \/ (to = "pane" /\ \A n \in RouteNames : lane'[n] # "closing"),
         UNCHANGED <<routeEnv, sess, box, copies, stranded, last, answer>>,
         to = "sending" => lane[sess.name] # NoText,
         to = "sending" => box # cur.t,
         to = "pane" => ~cur.pinned,
         RoomForAll => \A c \in copies : ~(Live(c) /\ c.t = cur.t /\ c.run = sess.run)
  PROVE  RouteParts'
<1>1. /\ cur' \in RunningSends /\ cur' # NoSend /\ cur'.at = to
      /\ cur'.t = cur.t /\ cur'.route = cur.route /\ cur'.shape = cur.shape
      /\ cur'.name = cur.name /\ cur'.pinned = cur.pinned
  BY DEF GoesOn
<1>2. Id' = Id /\ Running' /\ Undisturbed' = Undisturbed
  BY <1>1 DEF Id, Running, Undisturbed
<1>3. SendIsInPlace'
  BY <1>1, <1>2 DEF RouteParts, SendIsInPlace, Allows
<1>4. CopiesAreOwned'
  BY <1>1, <1>2 DEF RouteParts, CopiesAreOwned
<1>5. /\ ledger'[sess.name] \subseteq ledger[sess.name]
      /\ \A n \in RouteNames : n # sess.name => ledger'[n] = ledger[n]
      /\ \A e \in ledger[sess.name] : e.t # cur.t => e \in ledger'[sess.name]
  BY DEF Dropped, Without, RouteTypeOK
<1>6. EntriesAreTrue'
  BY <1>5 DEF RouteParts, EntriesAreTrue
<1>7. BoxIsKnown'
  BY <1>1, <1>2 DEF RouteParts, BoxIsKnown, Mine
<1>8. LiveCopiesAreKnown'
  <2> SUFFICES ASSUME RoomForAll PROVE LiveCopiesAreKnown'
    BY DEF LiveCopiesAreKnown, RoomForAll
  <2>1. \A c \in copies : ~(Running /\ c.send = Id)
    BY DEF RouteParts, CopiesAreOwned
  <2>2. ASSUME NEW c \in copies, Live(c), c.run = sess.run
        PROVE  last[c.t] \in {"queued", "delivered"} \/ Gated(c)'
    <3>1. last[c.t] \in {"queued", "delivered"} \/ Gated(c)
      BY <2>1, <2>2 DEF RouteParts, LiveCopiesAreKnown
    <3>2. c.t # cur.t
      BY <2>2
    <3>3. CASE Gated(c)
      <4>1. PICK e \in ledger[sess.name] :
               e.t = c.t /\ e.dir = c.run /\ e.via = c.via /\ e.handle \in {0, c.send}
        BY <3>3 DEF Gated
      <4>2. e \in ledger'[sess'.name]
        BY <1>5, <3>2, <4>1
      <4> QED
        BY <4>1, <4>2 DEF Gated
    <3> QED
      BY <3>1, <3>3
  <2>3. \A c, d \in copies : Live(c) /\ Live(d) /\ c.t = d.t /\ c.run = d.run => c = d
    BY DEF RouteParts, LiveCopiesAreKnown
  <2>4. box # NoText => \A c \in copies : ~(Live(c) /\ c.t = box /\ c.run = sess.run)
    BY <2>1 DEF RouteParts, LiveCopiesAreKnown
  <2> QED
    BY <1>1, <2>2, <2>3, <2>4 DEF LiveCopiesAreKnown, Live
<1>9. AnswersAreBacked'
  BY DEF RouteParts, AnswersAreBacked, Recognised, Allows, AnswersAreTrue, HeldForItself, Arrived
<1> QED
  BY <1>3, <1>4, <1>6, <1>7, <1>8, <1>9 DEF RouteParts

(* The end of a send keeps the invariant if what it wrote is told or noted. *)
LEMMA EndingIsSafe ==
  ASSUME RouteTypeOK, RouteTypeOK', Undisturbed, RouteParts, Running,
         NEW res \in RouteAnswers, Ends(cur.t, res), UNCHANGED <<routeEnv, sess>>,
         \A n \in RouteNames : lane'[n] # "closing",
         \A c \in copies \cup copies' : c.send # Id => c \in copies /\ c \in copies',
         \A c \in copies' : c.send = Id =>
            c.t = cur.t /\ c.run = sess.run /\ (c.via = "pane" => c.fate = "taken"),
         \A c, d \in copies' : c.send = Id /\ d.send = Id => c = d,
         EntriesAreTrue',
         RoomForAll => \A e \in ledger[sess.name] : e.t # cur.t => e \in ledger'[sess.name],
         box' = stranded'[sess.name],
         \A n \in RouteNames : n # sess.name => stranded'[n] = NoText,
         RoomForAll /\ box' # NoText => \A c \in copies' : ~(Live(c) /\ c.t = box' /\ c.run = sess.run),
         RoomForAll => \A c, d \in copies' : c.send = Id /\ d.send # Id /\ Live(c) /\ Live(d) =>
                                               ~(d.t = cur.t /\ d.run = sess.run),
         RoomForAll => \A c \in copies' : Live(c) /\ c.t = cur.t /\ c.run = sess.run =>
                                            res \in {"queued", "delivered"} \/ Gated(c)',
         Recognised /\ res \in {"queued", "delivered"} => \E c \in copies' : c.t = cur.t /\ c.run = sess.run /\ c.fate = "taken",
         res = "refused" => \A c \in copies' : c.send = Id => ~Live(c),
         Recognised /\ res = "held" => \E c \in copies' : c.t = cur.t /\ c.run = sess.run
  PROVE  RouteParts'
<1>1. /\ cur' = NoSend /\ cur'.at = "no"
      /\ last'[cur.t] = res /\ \A t \in RouteTexts : t # cur.t => last'[t] = last[t]
      /\ DOMAIN answer' = DOMAIN answer /\ Len(answer') = Len(answer)
      /\ answer'[Id] = res /\ \A i \in DOMAIN answer : i # Id => answer'[i] = answer[i]
  BY EndsIs DEF Running, NoSend
<1>2. /\ Id \in DOMAIN answer /\ DOMAIN answer = 1 .. Len(answer) /\ Len(answer) \in Nat
      /\ cur.t \in RouteTexts /\ \A c \in copies \cup copies' : c.t \in RouteTexts
  BY AtWork, LenProperties DEF Running, RouteTypeOK, Copies
<1>3. SendIsInPlace'
  BY <1>1 DEF RouteParts, SendIsInPlace, Allows, Running
<1>4. CopiesAreOwned'
  <2>1. \A c \in copies' : c.send = Id \/ c \in copies
    OBVIOUS
  <2>2. \A c, d \in copies' : c.send = d.send => c = d
    BY <2>1 DEF RouteParts, CopiesAreOwned
  <2>3. \A c \in copies' : c.send \in 1 .. Len(answer') /\ c.run <= sess'.run
    BY <1>1, <1>2, <2>1 DEF RouteParts, CopiesAreOwned, RouteTypeOK
  <2>4. \A c \in copies' : c.via = "pane" => c.fate = "taken"
    BY <2>1 DEF RouteParts, CopiesAreOwned
  <2> QED
    BY <1>1, <2>2, <2>3, <2>4 DEF CopiesAreOwned, Running
<1>5. BoxIsKnown'
  BY <1>1 DEF BoxIsKnown
<1>6. LiveCopiesAreKnown'
  <2> SUFFICES ASSUME RoomForAll PROVE LiveCopiesAreKnown'
    BY DEF LiveCopiesAreKnown, RoomForAll
  <2>1. \A c, d \in copies' : Live(c) /\ Live(d) /\ c.t = d.t /\ c.run = d.run => c = d
    BY DEF RouteParts, LiveCopiesAreKnown
  <2>2. ASSUME NEW c \in copies', Live(c), c.run = sess'.run
        PROVE  last'[c.t] \in {"queued", "delivered"} \/ Gated(c)'
    <3>1. CASE c.t = cur.t
      BY <1>1, <2>2, <3>1
    <3>2. CASE c.t # cur.t
      <4>1. c \in copies /\ c.send # Id /\ last'[c.t] = last[c.t]
        BY <1>1, <1>2, <2>2, <3>2
      <4>2. last[c.t] \in {"queued", "delivered"} \/ Gated(c)
        BY <2>2, <4>1 DEF RouteParts, LiveCopiesAreKnown
      <4>3. CASE Gated(c)
        <5>1. PICK e \in ledger[sess.name] :
                 e.t = c.t /\ e.dir = c.run /\ e.via = c.via /\ e.handle \in {0, c.send}
          BY <4>3 DEF Gated
        <5>2. e \in ledger'[sess'.name]
          BY <3>2, <5>1
        <5> QED
          BY <5>1, <5>2 DEF Gated
      <4> QED
        BY <4>1, <4>2, <4>3
    <3> QED
      BY <3>1, <3>2
  <2> QED
    BY <1>1, <2>1, <2>2 DEF LiveCopiesAreKnown, Live, Running
<1>7. AnswersAreBacked'
  <2> SUFFICES ASSUME Recognised PROVE (AnswersAreTrue /\ HeldForItself)'
    BY DEF AnswersAreBacked, Recognised, Allows
  <2>1. AnswersAreTrue /\ HeldForItself
    BY DEF RouteParts, AnswersAreBacked
  <2>2. ASSUME NEW t \in RouteTexts, last'[t] \in {"queued", "delivered"}
        PROVE  Arrived(t, sess.run)' # {}
    <3>1. CASE t = cur.t
      BY <1>1, <2>2, <3>1 DEF Arrived
    <3>2. CASE t # cur.t
      <4>1. PICK c \in copies : c.t = t /\ c.run = sess.run /\ c.fate = "taken"
        BY <1>1, <2>1, <2>2, <3>2 DEF AnswersAreTrue, Arrived
      <4>2. c.send # Id
        BY <3>2, <4>1 DEF RouteParts, CopiesAreOwned
      <4> QED
        BY <4>1, <4>2 DEF Arrived
    <3> QED
      BY <3>1, <3>2
  <2>3. ASSUME NEW i \in DOMAIN answer', answer'[i] = "refused",
               NEW c \in copies', c.send = i, c.fate \in {"going", "taken"}
        PROVE  FALSE
    <3>1. CASE i = Id
      BY <1>1, <2>3, <3>1 DEF Live
    <3>2. CASE i # Id
      <4>1. c \in copies /\ i \in DOMAIN answer /\ answer[i] = "refused"
        BY <1>1, <2>3, <3>2
      <4> QED
        BY <2>1, <2>3, <4>1 DEF AnswersAreTrue
    <3> QED
      BY <3>1, <3>2
  <2>4. ASSUME NEW t \in RouteTexts, last'[t] = "held"
        PROVE  \E c \in copies' : c.t = t /\ c.run = sess.run
    <3>1. CASE t = cur.t
      BY <1>1, <2>4, <3>1
    <3>2. CASE t # cur.t
      <4>1. PICK c \in copies : c.t = t /\ c.run = sess.run
        BY <1>1, <2>1, <2>4, <3>2 DEF HeldForItself
      <4>2. c.send # Id
        BY <3>2, <4>1 DEF RouteParts, CopiesAreOwned
      <4> QED
        BY <4>1, <4>2
    <3> QED
      BY <3>1, <3>2
  <2> QED
    BY <2>2, <2>3, <2>4 DEF AnswersAreTrue, HeldForItself
<1> QED
  BY <1>3, <1>4, <1>5, <1>6, <1>7 DEF RouteParts

(* A send that ends with nothing written, whose text is answered as an      *)
(* earlier write was, or refused, keeps the invariant.                      *)
LEMMA AnsweringIsSafe ==
  ASSUME RouteAssumption, RouteTypeOK, RouteTypeOK', Undisturbed, RouteParts, Running,
         NEW res \in RouteAnswers, Ends(cur.t, res),
         UNCHANGED <<routeEnv, sess, box, copies, stranded>>,
         \A n \in RouteNames : lane'[n] # "closing",
         \/ ledger' = ledger \/ ledger' = Dropped(sess.name, cur.t)
         \/ /\ EntriesAreTrue'
            /\ RoomForAll => \A e \in ledger[sess.name] : e.t # cur.t => e \in ledger'[sess.name],
         cur.at # "pasted",
         RoomForAll => \A c \in copies : Live(c) /\ c.t = cur.t /\ c.run = sess.run =>
                                            res \in {"queued", "delivered"} \/ Gated(c)',
         Recognised /\ res \in {"queued", "delivered"} => \E c \in copies : c.t = cur.t /\ c.run = sess.run /\ c.fate = "taken",
         res = "refused" => \A c \in copies : c.send = Id => ~Live(c),
         Recognised /\ res = "held" => \E c \in copies : c.t = cur.t /\ c.run = sess.run
  PROVE  RouteParts'
<1>1. ASSUME ledger' = ledger \/ ledger' = Dropped(sess.name, cur.t)
      PROVE  /\ ledger'[sess.name] \subseteq ledger[sess.name]
             /\ \A n \in RouteNames : n # sess.name => ledger'[n] = ledger[n]
             /\ \A e \in ledger[sess.name] : e.t # cur.t => e \in ledger'[sess.name]
  BY <1>1 DEF Dropped, Without, RouteTypeOK
<1>2. /\ EntriesAreTrue'
      /\ RoomForAll => \A e \in ledger[sess.name] : e.t # cur.t => e \in ledger'[sess.name]
  BY <1>1 DEF RouteParts, EntriesAreTrue
<1>3. \A c \in copies : c.send = Id =>
         c.t = cur.t /\ c.run = sess.run /\ (c.via = "pane" => c.fate = "taken")
  BY DEF RouteParts, CopiesAreOwned
<1>4. \A c, d \in copies : c.send = Id /\ d.send = Id => c = d
  BY DEF RouteParts, CopiesAreOwned
<1>5. box' = stranded'[sess.name] /\ \A n \in RouteNames : n # sess.name => stranded'[n] = NoText
  BY DEF RouteParts, BoxIsKnown
<1>6. ASSUME RoomForAll, box # NoText, NEW c \in copies, Live(c), c.t = box, c.run = sess.run
      PROVE  FALSE
  <2>1. c.send = Id
    BY <1>6 DEF RouteParts, LiveCopiesAreKnown
  <2>2. c.t = cur.t /\ cur.at \in {"inboxed", "written"}
    BY <2>1 DEF RouteParts, CopiesAreOwned
  <2> QED
    BY <1>6, <2>2 DEF RouteParts, BoxIsKnown
<1>7. RoomForAll => \A c, d \in copies : c.send = Id /\ d.send # Id /\ Live(c) /\ Live(d) =>
                                            ~(d.t = cur.t /\ d.run = sess.run)
  BY <1>3 DEF RouteParts, LiveCopiesAreKnown
<1>8. RoomForAll /\ box' # NoText => \A c \in copies' : ~(Live(c) /\ c.t = box' /\ c.run = sess.run)
  BY <1>6
<1> QED
  BY <1>2, <1>3, <1>4, <1>5, <1>7, <1>8, EndingIsSafe DEF RouteTypeOK

(* A send that writes a copy and goes on keeps the invariant, if its text   *)
(* is nowhere on its way yet.                                               *)
LEMMA WritingIsSafe ==
  ASSUME RouteTypeOK, RouteTypeOK', Undisturbed, RouteParts, Running,
         cur.at \in {"inbox", "sending", "pane"},
         NEW via, NEW c0 \in Copies, copies' = copies \cup {c0},
         c0.send = Id, c0.t = cur.t, c0.run = sess.run, c0.via = via,
         NEW to, GoesOn(to),
         \/ to = "inboxed" /\ via = "inbox" /\ box' = box /\ box # cur.t
         \/ to = "written" /\ via = "module" /\ cur.at = "sending" /\ box' = box
         \/ /\ to = "pasted" /\ via = "pane" /\ ~cur.pinned /\ box = NoText
            /\ \/ box' = cur.t /\ c0.fate = "going"
               \/ box' = NoText /\ c0.fate = "taken",
         UNCHANGED <<routeEnv, sess, lane, ledger, stranded, last, answer>>
  PROVE  RouteParts'
<1>1. /\ cur' \in RunningSends /\ cur' # NoSend /\ cur'.at = to
      /\ cur'.t = cur.t /\ cur'.route = cur.route /\ cur'.shape = cur.shape
      /\ cur'.name = cur.name /\ cur'.pinned = cur.pinned
  BY DEF GoesOn
<1>2. Id' = Id /\ Running' /\ Undisturbed' = Undisturbed
  BY <1>1 DEF Id, Running, Undisturbed
<1>3. \A c \in copies : c.send # Id
  BY DEF RouteParts, CopiesAreOwned
<1>4. Id \in 1 .. Len(answer) /\ sess.run \in 1 .. 2
  BY AtWork, LenProperties DEF Running, RouteTypeOK
<1>5. SendIsInPlace'
  BY <1>1, <1>2 DEF RouteParts, SendIsInPlace, Allows
<1>6. CopiesAreOwned'
  <2>1. \A c, d \in copies' : c.send = d.send => c = d
    BY <1>3 DEF RouteParts, CopiesAreOwned
  <2>2. \A c \in copies' : c.send \in 1 .. Len(answer') /\ c.run <= sess'.run
    BY <1>4 DEF RouteParts, CopiesAreOwned
  <2>3. \A c \in copies' : c.send = Id => c = c0
    BY <1>3
  <2>4. \A c \in copies' : c.via = "pane" /\ c.fate # "taken" => c.send = Id
    BY <1>3 DEF RouteParts, CopiesAreOwned
  <2> QED
    BY <1>1, <1>2, <2>1, <2>2, <2>3, <2>4 DEF CopiesAreOwned
<1>7. EntriesAreTrue'
  BY DEF RouteParts, EntriesAreTrue
<1>8. BoxIsKnown'
  <2>1. \A c \in Mine' : c = c0
    BY <1>2, <1>3 DEF Mine
  <2>2. box = stranded[sess.name] /\ \A n \in RouteNames : n # sess.name => stranded[n] = NoText
    BY DEF RouteParts, BoxIsKnown
  <2>3. to = "written" => box # cur.t
    BY DEF RouteParts, BoxIsKnown
  <2> QED
    BY <1>1, <2>1, <2>2, <2>3 DEF BoxIsKnown
<1>9. LiveCopiesAreKnown'
  <2> SUFFICES ASSUME RoomForAll PROVE LiveCopiesAreKnown'
    BY DEF LiveCopiesAreKnown, RoomForAll
  <2>1. \A c \in copies : ~(Live(c) /\ c.t = cur.t /\ c.run = sess.run)
    BY DEF RouteParts, LiveCopiesAreKnown, CopiesAreOwned
  <2>2. \A c, d \in copies' : Live(c) /\ Live(d) /\ c.t = d.t /\ c.run = d.run => c = d
    BY <2>1 DEF RouteParts, LiveCopiesAreKnown
  <2>3. ASSUME NEW c \in copies', Live(c), c.run = sess'.run
        PROVE  last'[c.t] \in {"queued", "delivered"} \/ c.send = Id \/ Gated(c)'
    <3>1. CASE c \in copies
      <4>1. last[c.t] \in {"queued", "delivered"} \/ c.send = Id \/ Gated(c)
        BY <2>3, <3>1 DEF RouteParts, LiveCopiesAreKnown
      <4>2. Gated(c) => Gated(c)'
        BY DEF Gated
      <4> QED
        BY <4>1, <4>2
    <3> QED
      BY <2>3, <3>1
  <2>4. ASSUME box' # NoText, NEW c \in copies', Live(c), c.t = box', c.run = sess'.run
        PROVE  c.send = Id
    <3>1. CASE box' = cur.t
      BY <2>1, <2>4, <3>1
    <3>2. CASE box' # cur.t
      <4>1. box' = box /\ c \in copies
        BY <2>4, <3>2
      <4> QED
        BY <2>4, <4>1 DEF RouteParts, LiveCopiesAreKnown
    <3> QED
      BY <3>1, <3>2
  <2> QED
    BY <1>1, <1>2, <2>1, <2>2, <2>3, <2>4 DEF LiveCopiesAreKnown, Live
<1>10. AnswersAreBacked'
  <2> SUFFICES ASSUME Recognised PROVE (AnswersAreTrue /\ HeldForItself)'
    BY DEF AnswersAreBacked, Recognised, Allows
  <2>1. AnswersAreTrue /\ HeldForItself
    BY DEF RouteParts, AnswersAreBacked
  <2>2. answer[Id] # "refused"
    BY DEF RouteParts, SendIsInPlace, NoText
  <2>3. \A t \in RouteTexts : last'[t] \in {"queued", "delivered"} => Arrived(t, sess.run)' # {}
    BY <2>1 DEF AnswersAreTrue, Arrived
  <2>4. \A i \in DOMAIN answer' : answer'[i] = "refused" =>
           ~\E c \in copies' : c.send = i /\ c.fate \in {"going", "taken"}
    BY <2>1, <2>2 DEF AnswersAreTrue
  <2>5. HeldForItself'
    BY <2>1 DEF HeldForItself
  <2> QED
    BY <2>3, <2>4, <2>5 DEF AnswersAreTrue
<1> QED
  BY <1>5, <1>6, <1>7, <1>8, <1>9, <1>10 DEF RouteParts

(* An entry that is noted for a copy of this send keeps the ledger true, is *)
(* there if there is room, and pushes out nothing then.                     *)
LEMMA NotingIsTrue ==
  ASSUME RouteAssumption, RouteTypeOK, EntriesAreTrue, UNCHANGED sess,
         cur.t \in RouteTexts, copies \subseteq copies', sess.run \in 1 .. 2,
         NEW via \in {"inbox", "module"}, NEW handle \in Nat,
         ledger' = Noted(sess.name, LedgerEntry(cur.t, via, sess.run, handle)),
         handle = 0 => via = "module",
         NEW c0 \in copies', c0.t = cur.t, c0.run = sess.run, c0.via = via,
         handle \in {0, c0.send}
  PROVE  /\ EntriesAreTrue'
         /\ RoomForAll => \A e \in ledger[sess.name] : e.t # cur.t => e \in ledger'[sess.name]
         /\ RoomForAll => Gated(c0)'
<1> DEFINE e0 == LedgerEntry(cur.t, via, sess.run, handle)
<1>1. e0 \in Entries /\ e0.t = cur.t /\ sess.name \in RouteNames
      /\ ledger \in [RouteNames -> SUBSET Entries]
  BY DEF LedgerEntry, Entries, RouteTypeOK
<1>2. /\ \A m \in RouteNames : m # sess.name => ledger'[m] = ledger[m]
      /\ \E place \in Nat : LET new == [e0 EXCEPT !.place = place] IN
               /\ ledger'[sess.name] \subseteq {f \in ledger[sess.name] : f.t # e0.t} \cup {new}
               /\ RoomForAll /\ (\A f, g \in ledger[sess.name] : f.t = g.t => f = g)
                    => ledger'[sess.name] = {f \in ledger[sess.name] : f.t # e0.t} \cup {new}
  <2> HIDE DEF e0
  <2>1. ledger' = Noted(sess.name, e0)
    BY DEF e0
  <2> QED
    BY <1>1, <2>1, NotedIs
<1>3. PICK place \in Nat : LET new == [e0 EXCEPT !.place = place] IN
               /\ ledger'[sess.name] \subseteq {f \in ledger[sess.name] : f.t # e0.t} \cup {new}
               /\ RoomForAll /\ (\A f, g \in ledger[sess.name] : f.t = g.t => f = g)
                    => ledger'[sess.name] = {f \in ledger[sess.name] : f.t # e0.t} \cup {new}
  BY <1>2
<1> DEFINE new == [e0 EXCEPT !.place = place]
<1>4. new.t = cur.t /\ new.via = via /\ new.dir = sess.run /\ new.handle = handle
  BY DEF LedgerEntry
<1>5. ledger'[sess.name] \subseteq {f \in ledger[sess.name] : f.t # cur.t} \cup {new}
  BY <1>1, <1>3
<1>6. RoomForAll => ledger'[sess.name] = {f \in ledger[sess.name] : f.t # cur.t} \cup {new}
  BY <1>1, <1>3 DEF EntriesAreTrue
<1> HIDE DEF new, e0
<1>7. \A n \in RouteNames : n # sess'.name => ledger'[n] = {}
  BY <1>2 DEF EntriesAreTrue
<1>8. ASSUME NEW e \in ledger'[sess.name]
      PROVE  /\ e.dir \in 1 .. sess.run /\ (e.handle = 0 => e.via = "module")
             /\ \E c \in copies' : /\ c.t = e.t /\ c.run = e.dir /\ c.via = e.via
                                   /\ e.handle # 0 => c.send = e.handle
  <2>1. CASE e = new
    BY <1>4, <2>1
  <2>2. CASE e \in ledger[sess.name]
    BY <2>2 DEF EntriesAreTrue
  <2> QED
    BY <1>5, <1>8, <2>1, <2>2
<1>9. \A e, f \in ledger'[sess.name] : e.t = f.t => e = f
  BY <1>4, <1>5 DEF EntriesAreTrue
<1>10. EntriesAreTrue'
  BY <1>7, <1>8, <1>9 DEF EntriesAreTrue
<1>11. RoomForAll => Gated(c0)'
  BY <1>4, <1>6 DEF Gated
<1> QED
  BY <1>6, <1>10, <1>11

-----------------------------------------------------------------------------
(* DeliveryRoutes: the actions *)

(* A send is begun, or refused at once.                                     *)
LEMMA SendIsSafe ==
  ASSUME RouteTypeOK, RouteTypeOK', Undisturbed, RouteParts,
         NEW t \in RouteTexts, NEW route \in RouteKinds, NEW shape \in {"plain", "composer"},
         Send(t, route, shape)
  PROVE  RouteParts'
<1>1. /\ cur = NoSend /\ cur.at = "no" /\ last[t] \notin {"queued", "delivered"}
      /\ UNCHANGED <<routeEnv, sess, lane, ledger, stranded, box, copies, laneMoves, events>>
  BY DEF Send, NoSend
<1>2. answer \in Seq(RouteAnswers) /\ last \in [RouteTexts -> RouteAnswers] /\ sess.name \in RouteNames
  BY DEF RouteTypeOK
<1>3. PICK live \in BOOLEAN :
        \/ /\ cur' = NoSend /\ last' = [last EXCEPT ![t] = "refused"]
           /\ answer' = Append(answer, "refused")
        \/ /\ cur' = [at |-> "ledger", t |-> t, route |-> route, shape |-> shape,
                      name |-> sess.name, pinned |-> live]
           /\ answer' = Append(answer, NoText) /\ last' = last
           /\ live => route = "auto" /\ shape = "plain" /\ lane[sess.name] = "usable"
  <2> DEFINE live == route \in {"auto", "terminal"} /\ lane[sess.name] = "usable"
  <2> live \in BOOLEAN
    OBVIOUS
  <2> QED
    BY DEF Send
<1>4. PICK r \in {"refused", NoText} :
        /\ answer' = Append(answer, r)
        /\ r = "refused" => cur' = NoSend
        /\ r = NoText => cur'.at = "ledger" /\ cur'.t = t /\ cur'.route = route /\ cur'.shape = shape
                         /\ cur'.name = sess.name /\ last'[t] = last[t]
                         /\ (cur'.pinned => route = "auto" /\ shape = "plain" /\ lane[sess.name] = "usable")
        /\ \A u \in RouteTexts : last'[u] = last[u] \/ (u = t /\ last'[u] = "refused")
  <2>1. CASE /\ cur' = NoSend /\ last' = [last EXCEPT ![t] = "refused"]
             /\ answer' = Append(answer, "refused")
    BY <1>2, <2>1 DEF NoText
  <2>2. CASE /\ cur' = [at |-> "ledger", t |-> t, route |-> route, shape |-> shape,
                        name |-> sess.name, pinned |-> live]
             /\ answer' = Append(answer, NoText) /\ last' = last
             /\ live => route = "auto" /\ shape = "plain" /\ lane[sess.name] = "usable"
    BY <1>2, <2>2 DEF NoText
  <2> QED
    BY <1>3, <2>1, <2>2
<1>5. r \in RouteAnswers /\ Len(answer) \in Nat
  BY <1>2, LenProperties DEF RouteAnswers
<1>6. /\ Id' = Len(answer) + 1 /\ Len(answer') = Len(answer) + 1
      /\ DOMAIN answer' = DOMAIN answer \cup {Len(answer) + 1} /\ DOMAIN answer = 1 .. Len(answer)
      /\ answer'[Len(answer) + 1] = r /\ \A i \in DOMAIN answer : answer'[i] = answer[i]
  BY <1>2, <1>4, <1>5, OneMore, AppendProperties, LenProperties DEF Id
<1>7. Running' => r = NoText
  BY <1>4 DEF Running, NoSend
<1>8. r = "refused" => cur'.at = "no"
  BY <1>4 DEF NoSend
<1>9. \A c \in copies : c.send # Id' /\ c.send \in 1 .. Len(answer)
  BY <1>5, <1>6 DEF RouteParts, CopiesAreOwned
<1>10. SendIsInPlace'
  <2>1. Allows("succeed")' \/ sess'.run = 1
    BY <1>1 DEF RouteParts, SendIsInPlace, Allows
  <2>2. \A n \in RouteNames : lane'[n] # "closing"
    BY <1>1 DEF RouteParts, SendIsInPlace
  <2>3. Running' => /\ cur'.name = sess'.name /\ answer'[Id'] = NoText
                    /\ last'[cur'.t] \notin {"queued", "delivered"} /\ cur'.at = "ledger"
                    /\ cur'.pinned => cur'.route = "auto" /\ cur'.shape = "plain" /\ lane'[sess'.name] = "usable"
    BY <1>1, <1>4, <1>6, <1>7
  <2> QED
    BY <2>1, <2>2, <2>3 DEF SendIsInPlace, NoText
<1>11. CopiesAreOwned'
  <2>1. cur'.at \notin {"inboxed", "pasted"}
    BY <1>4, <1>8
  <2>2. \A c \in copies' : c.send \in 1 .. Len(answer') /\ c.run <= sess'.run
    BY <1>1, <1>5, <1>6, <1>9 DEF RouteParts, CopiesAreOwned
  <2>3. \A c \in copies' : ~(c.via = "pane" /\ c.fate # "taken")
    BY <1>1 DEF RouteParts, CopiesAreOwned, Running
  <2>4. \A c, d \in copies' : c.send = d.send => c = d
    BY <1>1 DEF RouteParts, CopiesAreOwned
  <2> QED
    BY <1>1, <1>9, <2>1, <2>2, <2>3, <2>4 DEF CopiesAreOwned
<1>12. EntriesAreTrue'
  BY <1>1 DEF RouteParts, EntriesAreTrue
<1>13. BoxIsKnown'
  <2>1. cur'.at \in {"no", "ledger"}
    BY <1>4, <1>8
  <2> QED
    BY <1>1, <2>1 DEF RouteParts, BoxIsKnown
<1>14. LiveCopiesAreKnown'
  <2> SUFFICES ASSUME RoomForAll PROVE LiveCopiesAreKnown'
    BY DEF LiveCopiesAreKnown, RoomForAll
  <2>1. cur'.at \in {"no", "ledger"}
    BY <1>4, <1>8
  <2>2. ASSUME NEW c \in copies, Live(c), c.run = sess.run
        PROVE  last'[c.t] \in {"queued", "delivered"} \/ Gated(c)'
    <3>1. last[c.t] \in {"queued", "delivered"} \/ Gated(c)
      BY <1>1, <2>2 DEF RouteParts, LiveCopiesAreKnown, Running
    <3>2. Gated(c) => Gated(c)'
      BY <1>1 DEF Gated
    <3>3. c.t \in RouteTexts
      BY DEF RouteTypeOK, Copies
    <3> QED
      BY <1>1, <1>4, <3>1, <3>2, <3>3
  <2>3. \A c, d \in copies : Live(c) /\ Live(d) /\ c.t = d.t /\ c.run = d.run => c = d
    BY DEF RouteParts, LiveCopiesAreKnown
  <2>4. box # NoText => \A c \in copies : ~(Live(c) /\ c.t = box /\ c.run = sess.run)
    BY <1>1 DEF RouteParts, LiveCopiesAreKnown, Running
  <2> QED
    BY <1>1, <2>1, <2>2, <2>3, <2>4 DEF LiveCopiesAreKnown, Live, Running
<1>15. AnswersAreBacked'
  <2> SUFFICES ASSUME Recognised PROVE (AnswersAreTrue /\ HeldForItself)'
    BY <1>1 DEF AnswersAreBacked, Recognised, Allows
  <2>1. AnswersAreTrue /\ HeldForItself
    BY DEF RouteParts, AnswersAreBacked
  <2>2. \A u \in RouteTexts : last'[u] \in {"queued", "delivered"} => Arrived(u, sess.run)' # {}
    BY <1>1, <1>4, <2>1 DEF AnswersAreTrue, Arrived
  <2>3. \A i \in DOMAIN answer' : answer'[i] = "refused" =>
           ~\E c \in copies' : c.send = i /\ c.fate \in {"going", "taken"}
    BY <1>1, <1>6, <1>9, <2>1 DEF AnswersAreTrue
  <2>4. HeldForItself'
    BY <1>1, <1>4, <2>1 DEF HeldForItself
  <2> QED
    BY <2>2, <2>3, <2>4 DEF AnswersAreTrue
<1> QED
  BY <1>10, <1>11, <1>12, <1>13, <1>14, <1>15 DEF RouteParts

(* What the ledger says: an entry about this session's copy that has not    *)
(* been answered holds the text back.                                       *)
LEMMA FromLedgerIsSafe ==
  ASSUME RouteAssumption, RouteTypeOK, RouteTypeOK', Undisturbed, RouteParts, FromLedger
  PROVE  RouteParts'
<1>1. /\ Running /\ cur.at = "ledger" /\ cur.name = sess.name /\ last[cur.t] \notin {"queued", "delivered"}
      /\ cur.t \in RouteTexts /\ \A c \in copies : c.send # Id
  <2>1. Running /\ cur.at = "ledger"
    BY DEF FromLedger, Running
  <2> QED
    BY <2>1, AtWork DEF Running, RouteParts, SendIsInPlace, CopiesAreOwned
<1>2. \A c \in copies : RoomForAll /\ Live(c) /\ c.t = cur.t /\ c.run = sess.run => Gated(c)
  BY <1>1 DEF RouteParts, LiveCopiesAreKnown
<1>3. \A e, f \in ledger[sess.name] : e.t = f.t => e = f
  BY DEF RouteParts, EntriesAreTrue
<1>4. ASSUME Goes("inbox"), ledger' = ledger \/ ledger' = Dropped(sess.name, cur.t),
             RoomForAll => \A c \in copies : ~(Live(c) /\ c.t = cur.t /\ c.run = sess.run)
      PROVE  RouteParts'
  <2>1. GoesOn("inbox") /\ UNCHANGED <<routeEnv, sess, lane, box, copies, stranded, last, answer>>
    BY <1>1, <1>4, GoesIs DEF Goes, Running
  <2> QED
    BY <1>1, <1>4, <2>1, GoingOnIsSafe
<1>5. CASE Find(cur.name, cur.t) = {}
  <2>1. Goes("inbox") /\ ledger' = ledger
    BY <1>5 DEF FromLedger
  <2>2. RoomForAll => \A c \in copies : ~(Live(c) /\ c.t = cur.t /\ c.run = sess.run)
    <3>1. ASSUME NEW e \in ledger[sess.name] PROVE e.t # cur.t
      <4>1. ledger[sess.name] \in SUBSET Entries
        BY DEF RouteTypeOK
      <4>2. e.place <= e.place
        BY <4>1 DEF Entries
      <4> QED
        BY <1>1, <1>3, <1>5, <4>2 DEF Find
    <3> QED
      BY <1>1, <1>2, <3>1 DEF Gated
  <2> QED
    BY <1>4, <2>1, <2>2
<1>6. CASE Find(cur.name, cur.t) # {}
  <2>1. PICK e \in Find(cur.name, cur.t), seen \in {TRUE} \cup (IF Allows("blind") THEN {FALSE} ELSE {}) :
          IF (seen /\ cur.name # sess.name) \/ ~About(e, seen)
          THEN ledger' = Dropped(cur.name, cur.t) /\ Goes("inbox")
          ELSE \/ /\ e.via = "module" /\ "taken" \in Fates(e)
                  /\ ledger' = Dropped(cur.name, cur.t) /\ Answers("queued")
               \/ /\ e.via = "module" /\ "rejected" \in Fates(e)
                  /\ ledger' = Dropped(cur.name, cur.t) /\ Goes("inbox")
               \/ /\ e.via = "inbox" /\ "taken" \in Fates(e)
                  /\ ledger' = Dropped(cur.name, cur.t) /\ Answers("delivered")
               \/ /\ e.via = "module" \/ "taken" \notin Fates(e)
                  /\ Answers("held") /\ UNCHANGED ledger
    BY <1>6 DEF FromLedger
  <2>2. e \in ledger[sess.name] /\ e.t = cur.t
    BY <1>1, <2>1 DEF Find
  <2>3. PICK c0 \in copies : c0.t = e.t /\ c0.run = e.dir /\ c0.via = e.via /\ (e.handle # 0 => c0.send = e.handle)
    BY <2>2 DEF RouteParts, EntriesAreTrue
  <2>4. \A c \in copies : RoomForAll /\ Live(c) /\ c.t = cur.t /\ c.run = sess.run =>
                             e.dir = sess.run /\ e.handle \in {0, c.send}
    BY <1>2, <1>3, <2>2 DEF Gated
  <2>5. \A f : f \in Fates(e) => c0.fate = f /\ c0.send = e.handle
    <3>1. \A c \in copies : c.send # 0
      BY DEF RouteParts, CopiesAreOwned, RouteTypeOK, Copies
    <3>2. \A c \in copies : c.send = e.handle => c = c0
      BY <2>3, <3>1 DEF RouteParts, CopiesAreOwned
    <3> QED
      BY <3>2 DEF Fates
  <2>6. CASE ~About(e, seen)
    <3>1. e.dir # sess.run
      BY <2>6 DEF About
    <3>2. Goes("inbox") /\ ledger' = Dropped(sess.name, cur.t)
      BY <1>1, <2>1, <2>6
    <3> QED
      BY <1>4, <2>4, <3>1, <3>2
  <2>7. CASE About(e, seen)
    <3>1. Recognised => e.dir = sess.run
      <4>1. CASE seen
        BY <2>7, <4>1 DEF About
      <4>2. CASE ~seen
        <5>1. Recognised => sess.run = 1
          BY <4>2 DEF RouteParts, SendIsInPlace, Recognised
        <5>2. e.dir \in 1 .. sess.run /\ sess.run \in 1 .. 2
          BY <2>2 DEF RouteParts, EntriesAreTrue, RouteTypeOK
        <5> QED
          BY <5>1, <5>2
      <4> QED
        BY <4>1, <4>2
    <3>2. CASE "rejected" \in Fates(e) /\ ledger' = Dropped(cur.name, cur.t) /\ Goes("inbox")
      <4>1. RoomForAll => \A c \in copies : ~(Live(c) /\ c.t = cur.t /\ c.run = sess.run)
        <5>1. c0.fate = "rejected" /\ c0.send = e.handle /\ c0.send # 0
          BY <2>5, <3>2 DEF RouteParts, CopiesAreOwned, RouteTypeOK, Copies
        <5>2. \A c \in copies : c.send = e.handle => c = c0
          BY <5>1 DEF RouteParts, CopiesAreOwned
        <5> QED
          BY <2>4, <5>1, <5>2 DEF Live
      <4> QED
        BY <1>1, <1>4, <3>2, <4>1
    <3>3. CASE \E res \in {"queued", "delivered"} :
                  "taken" \in Fates(e) /\ ledger' = Dropped(cur.name, cur.t) /\ Answers(res)
      <4>1. PICK res \in {"queued", "delivered"} :
                  "taken" \in Fates(e) /\ ledger' = Dropped(cur.name, cur.t) /\ Answers(res)
        BY <3>3
      <4>2. c0.fate = "taken" /\ c0.t = cur.t /\ c0.run = e.dir
        BY <2>2, <2>3, <2>5, <4>1
      <4>3. Recognised => \E c \in copies : c.t = cur.t /\ c.run = sess.run /\ c.fate = "taken"
        BY <3>1, <4>2
      <4>4. Ends(cur.t, res) /\ UNCHANGED <<routeEnv, sess, lane, box, copies, stranded>>
        BY <4>1 DEF Answers
      <4>5. \A n \in RouteNames : lane'[n] # "closing"
        BY <4>4 DEF RouteParts, SendIsInPlace
      <4>6. res \in RouteAnswers /\ res \notin {"refused", "held"} /\ cur.at # "pasted"
            /\ ledger' = Dropped(sess.name, cur.t)
        BY <1>1, <4>1 DEF RouteAnswers
      <4> QED
        BY <1>1, <4>1, <4>3, <4>4, <4>5, <4>6, AnsweringIsSafe
    <3>4. CASE Answers("held") /\ ledger' = ledger
      <4>1. Recognised => \E c \in copies : c.t = cur.t /\ c.run = sess.run
        BY <2>2, <2>3, <3>1
      <4>2. Ends(cur.t, "held") /\ UNCHANGED <<routeEnv, sess, lane, box, copies, stranded>>
        BY <3>4 DEF Answers
      <4>3. \A n \in RouteNames : lane'[n] # "closing"
        BY <4>2 DEF RouteParts, SendIsInPlace
      <4>4. \A c : Gated(c) => Gated(c)'
        BY <3>4, <4>2 DEF Gated
      <4>5. RoomForAll => \A c \in copies : Live(c) /\ c.t = cur.t /\ c.run = sess.run => Gated(c)'
        BY <1>2, <4>4
      <4>6. "held" \in RouteAnswers
        BY DEF RouteAnswers
      <4> QED
        BY <1>1, <3>4, <4>1, <4>2, <4>3, <4>5, <4>6, AnsweringIsSafe
    <3>5. ~(seen /\ cur.name # sess.name)
      BY <1>1
    <3> QED
      BY <2>1, <2>7, <3>2, <3>3, <3>4, <3>5
  <2> QED
    BY <2>6, <2>7
<1> QED
  BY <1>5, <1>6

(* The inbox refuses what is stranded in the composer, and writes the rest. *)
LEMMA InboxIsSafe ==
  ASSUME RouteAssumption, RouteTypeOK, RouteTypeOK', Undisturbed, RouteParts, Inbox
  PROVE  RouteParts'
<1>1. Running /\ cur.at = "inbox" /\ cur.name = sess.name /\ \A c \in copies : c.send # Id
  <2>1. Running /\ cur.at = "inbox"
    BY DEF Inbox, Running
  <2> QED
    BY <2>1 DEF RouteParts, SendIsInPlace, CopiesAreOwned
<1>2. RoomForAll => \A c \in copies : ~(Live(c) /\ c.t = cur.t /\ c.run = sess.run)
  BY <1>1 DEF RouteParts, LiveCopiesAreKnown
<1>3. CASE Goes("module") /\ ledger' = ledger
  <2>1. GoesOn("module") /\ UNCHANGED <<routeEnv, sess, lane, box, copies, stranded, last, answer>>
    BY <1>1, <1>3, GoesIs DEF Goes, Running
  <2> QED
    BY <1>1, <1>2, <1>3, <2>1, GoingOnIsSafe
<1>4. CASE Answers("refused") /\ ledger' = ledger
  <2>1. Ends(cur.t, "refused") /\ UNCHANGED <<routeEnv, sess, lane, box, copies, stranded>>
    BY <1>4 DEF Answers
  <2>2. "refused" \in RouteAnswers /\ \A n \in RouteNames : lane'[n] # "closing"
    BY <2>1 DEF RouteParts, SendIsInPlace, RouteAnswers
  <2> QED
    BY <1>1, <1>2, <1>4, <2>1, <2>2, AnsweringIsSafe
<1>5. CASE /\ ~TerminalUnconfirmed /\ Writes("inbox", {"going", "lost"})
           /\ cur' = [cur EXCEPT !.at = "inboxed"]
           /\ UNCHANGED <<routeEnv, sess, lane, ledger, stranded, box, last, answer,
                          laneMoves, events>>
  <2>1. GoesOn("inboxed")
    BY <1>1, <1>5, GoesIs DEF Running
  <2>2. PICK c0 \in Copies : /\ copies' = copies \cup {c0}
                             /\ c0.send = Id /\ c0.t = cur.t /\ c0.run = sess.run /\ c0.via = "inbox"
    BY <1>1, <1>5, WritesIs DEF Running
  <2>3. box # cur.t
    BY <1>1, <1>5 DEF RouteParts, BoxIsKnown, TerminalUnconfirmed
  <2> QED
    BY <1>1, <1>5, <2>1, <2>2, <2>3, WritingIsSafe
<1> QED
  BY <1>3, <1>4, <1>5 DEF Inbox

(* The transcript confirms the message in the inbox, or it is noted.        *)
LEMMA InboxAnswersIsSafe ==
  ASSUME RouteAssumption, RouteTypeOK, RouteTypeOK', Undisturbed, RouteParts, InboxAnswers
  PROVE  RouteParts'
<1>1. Running /\ cur.at = "inboxed" /\ cur.name = sess.name
  <2>1. Running /\ cur.at = "inboxed"
    BY DEF InboxAnswers, Running
  <2> QED
    BY <2>1 DEF RouteParts, SendIsInPlace
<1>2. PICK c0 \in copies : c0.send = Id
  BY <1>1 DEF RouteParts, CopiesAreOwned
<1>3. c0.t = cur.t /\ c0.run = sess.run /\ c0.via = "inbox" /\ \A c \in copies : c.send = Id => c = c0
  BY <1>1, <1>2 DEF RouteParts, CopiesAreOwned
<1>4. cur.t \in RouteTexts /\ Id \in Nat \ {0} /\ sess.run \in 1 .. 2
  BY <1>1, AtWork DEF Running, RouteTypeOK
<1>5. CASE (\E c \in Mine : c.fate = "taken") /\ Answers("delivered") /\ ledger' = ledger
  <2>1. Ends(cur.t, "delivered") /\ UNCHANGED <<routeEnv, sess, lane, box, copies, stranded>>
    BY <1>5 DEF Answers
  <2>2. "delivered" \in RouteAnswers /\ \A n \in RouteNames : lane'[n] # "closing"
    BY <2>1 DEF RouteParts, SendIsInPlace, RouteAnswers
  <2>3. \E c \in copies : c.t = cur.t /\ c.run = sess.run /\ c.fate = "taken"
    BY <1>3, <1>5 DEF Mine
  <2> QED
    BY <1>1, <1>5, <2>1, <2>2, <2>3, AnsweringIsSafe
<1>6. CASE ledger' = Noted(cur.name, LedgerEntry(cur.t, "inbox", sess.run, Id)) /\ Answers("unknown")
  <2>1. Ends(cur.t, "unknown") /\ UNCHANGED <<routeEnv, sess, lane, box, copies, stranded>>
    BY <1>6 DEF Answers
  <2>2. "unknown" \in RouteAnswers /\ \A n \in RouteNames : lane'[n] # "closing"
    BY <2>1 DEF RouteParts, SendIsInPlace, RouteAnswers
  <2>3. EntriesAreTrue
    BY DEF RouteParts
  <2>4. /\ EntriesAreTrue'
        /\ RoomForAll => \A e \in ledger[sess.name] : e.t # cur.t => e \in ledger'[sess.name]
        /\ RoomForAll => Gated(c0)'
    BY <1>1, <1>2, <1>3, <1>4, <1>6, <2>1, <2>3, NotingIsTrue
  <2>5. RoomForAll => \A c \in copies : Live(c) /\ c.t = cur.t /\ c.run = sess.run => Gated(c)'
    <3>1. RoomForAll => \A c \in copies : Live(c) /\ c.t = cur.t /\ c.run = sess.run => c.send = Id
      BY <1>1 DEF RouteParts, LiveCopiesAreKnown
    <3> QED
      BY <1>3, <2>4, <3>1
  <2> QED
    BY <1>1, <1>6, <2>1, <2>2, <2>4, <2>5, AnsweringIsSafe
<1> QED
  BY <1>5, <1>6 DEF InboxAnswers

(* The module's route: a send that the lane could not take is handed back,  *)
(* to the terminal unless it was forced to the module or pinned.            *)
LEMMA ModuleIsSafe ==
  ASSUME RouteAssumption, RouteTypeOK, RouteTypeOK', Undisturbed, RouteParts, Module
  PROVE  RouteParts'
<1>1. Running /\ cur.at = "module" /\ cur.name = sess.name /\ \A c \in copies : c.send # Id
  <2>1. Running /\ cur.at = "module"
    BY DEF Module, Running
  <2> QED
    BY <2>1 DEF RouteParts, SendIsInPlace, CopiesAreOwned
<1>2. RoomForAll => \A c \in copies : ~(Live(c) /\ c.t = cur.t /\ c.run = sess.run)
  BY <1>1 DEF RouteParts, LiveCopiesAreKnown
<1>3. cur.pinned => cur.route = "auto" /\ cur.shape = "plain" /\ lane[sess.name] # NoText
  BY <1>1 DEF RouteParts, SendIsInPlace
<1>4. CASE Goes("pane") /\ ~cur.pinned /\ ledger' = ledger
  <2>1. GoesOn("pane") /\ UNCHANGED <<routeEnv, sess, lane, box, copies, stranded, last, answer>>
    BY <1>1, <1>4, GoesIs DEF Goes, Running
  <2> QED
    BY <1>1, <1>2, <1>4, <2>1, GoingOnIsSafe
<1>5. CASE Answers("refused") /\ ledger' = ledger
  <2>1. Ends(cur.t, "refused") /\ UNCHANGED <<routeEnv, sess, lane, box, copies, stranded>>
    BY <1>5 DEF Answers
  <2>2. "refused" \in RouteAnswers /\ \A n \in RouteNames : lane'[n] # "closing"
    BY <2>1 DEF RouteParts, SendIsInPlace, RouteAnswers
  <2> QED
    BY <1>1, <1>2, <1>5, <2>1, <2>2, AnsweringIsSafe
<1>6. CASE /\ ~TerminalUnconfirmed /\ lane[cur.name] = "usable"
           /\ cur' = [cur EXCEPT !.at = "sending"]
           /\ UNCHANGED <<routeEnv, sess, lane, ledger, stranded, box, copies, last, answer,
                          laneMoves, events>>
  <2>1. GoesOn("sending")
    BY <1>1, <1>6, GoesIs DEF Running
  <2>2. box # cur.t
    BY <1>1, <1>6 DEF RouteParts, BoxIsKnown, TerminalUnconfirmed
  <2>3. lane[sess.name] # NoText
    BY <1>1, <1>6 DEF NoText
  <2> QED
    BY <1>1, <1>2, <1>6, <2>1, <2>2, <2>3, GoingOnIsSafe
<1>7. CASE \/ cur.route \in {"terminal", "inbox"} \/ (cur.route = "auto" /\ cur.shape # "plain")
  BY <1>3, <1>4, <1>7 DEF Module
<1>8. CASE ~(\/ cur.route \in {"terminal", "inbox"} \/ (cur.route = "auto" /\ cur.shape # "plain"))
  <2>1. \/ TerminalUnconfirmed /\ HandedBack /\ ledger' = ledger
        \/ /\ cur.route = "auto" /\ lane[cur.name] \in {NoText, "closing"}
           /\ Goes("pane") /\ ledger' = ledger
        \/ lane[cur.name] # "usable" /\ HandedBack /\ ledger' = ledger
        \/ /\ ~TerminalUnconfirmed /\ lane[cur.name] = "usable"
           /\ cur' = [cur EXCEPT !.at = "sending"]
           /\ UNCHANGED <<routeEnv, sess, lane, ledger, stranded, box, copies, last, answer,
                          laneMoves, events>>
    BY <1>8 DEF Module
  <2>2. CASE HandedBack /\ ledger' = ledger
    BY <1>4, <1>5, <2>2 DEF HandedBack
  <2>3. CASE /\ cur.route = "auto" /\ lane[cur.name] \in {NoText, "closing"}
             /\ Goes("pane") /\ ledger' = ledger
    <3>1. lane[sess.name] # "closing"
      BY DEF RouteParts, SendIsInPlace, RouteTypeOK
    <3>2. ~cur.pinned
      BY <1>1, <1>3, <2>3, <3>1
    <3> QED
      BY <1>4, <2>3, <3>2
  <2> QED
    BY <1>6, <2>1, <2>2, <2>3
<1> QED
  BY <1>7, <1>8

(* A lane that is degraded is not closing, and the lane's directory is the  *)
(* session's while the lane is there.                                       *)
LEMMA LanesStayOpen ==
  ASSUME RouteTypeOK, Undisturbed, RouteParts, Running, cur.at \in {"sending", "written"}
  PROVE  /\ \A n \in RouteNames : Degraded[n] # "closing"
         /\ LaneDir = sess.run /\ cur.name = sess.name
         /\ cur.pinned => cur.route = "auto"
<1>1. cur.name = sess.name /\ lane[sess.name] # NoText /\ (cur.pinned => cur.route = "auto")
      /\ \A n \in RouteNames : lane[n] # "closing"
  BY DEF RouteParts, SendIsInPlace
<1>2. ~Allows("cwd")
  BY DEF Undisturbed, Allows
<1> QED
  BY <1>1, <1>2 DEF Degraded, LaneDir, RouteTypeOK

(* The module's answer: nothing was written and the send is handed back or  *)
(* refused, or something was and it is awaited or noted.                    *)
LEMMA ModuleSendsIsSafe ==
  ASSUME RouteAssumption, RouteTypeOK, RouteTypeOK', Undisturbed, RouteParts, ModuleSends
  PROVE  RouteParts'
<1>1. Running /\ cur.at = "sending" /\ \A c \in copies : c.send # Id
  <2>1. Running /\ cur.at = "sending"
    BY DEF ModuleSends, Running
  <2> QED
    BY <2>1 DEF RouteParts, CopiesAreOwned
<1>2. /\ \A n \in RouteNames : Degraded[n] # "closing" /\ lane[n] # "closing"
      /\ LaneDir = sess.run /\ cur.name = sess.name
      /\ cur.pinned => cur.route = "auto"
  BY <1>1, LanesStayOpen DEF RouteParts, SendIsInPlace
<1>3. RoomForAll => \A c \in copies : ~(Live(c) /\ c.t = cur.t /\ c.run = sess.run)
  BY <1>1 DEF RouteParts, LiveCopiesAreKnown
<1>4. UNCHANGED <<routeEnv, sess, stranded, box>> /\ lane' \in {Degraded, lane}
  BY DEF ModuleSends
<1>5. \A n \in RouteNames : lane'[n] # "closing"
  BY <1>2, <1>4
<1>6. CASE copies' = copies /\ ledger' = ledger /\ Ends(cur.t, "refused")
  <2>1. "refused" \in RouteAnswers
    BY DEF RouteAnswers
  <2> QED
    BY <1>1, <1>3, <1>4, <1>5, <1>6, <2>1, AnsweringIsSafe
<1>7. CASE /\ copies' = copies /\ ledger' = ledger /\ cur.route # "module" /\ ~cur.pinned
           /\ cur' = [cur EXCEPT !.at = "pane"] /\ UNCHANGED <<last, answer>>
  <2>1. GoesOn("pane")
    BY <1>1, <1>7, GoesIs DEF Running
  <2> QED
    BY <1>1, <1>2, <1>3, <1>4, <1>5, <1>7, <2>1, GoingOnIsSafe
<1>8. CASE /\ Writes("module", {"going"}) /\ lane' = lane
           /\ cur' = [cur EXCEPT !.at = "written"] /\ UNCHANGED <<ledger, last, answer>>
  <2>1. GoesOn("written")
    BY <1>1, <1>8, GoesIs DEF Running
  <2>2. PICK c0 \in Copies : /\ copies' = copies \cup {c0}
                             /\ c0.send = Id /\ c0.t = cur.t /\ c0.run = sess.run /\ c0.via = "module"
    BY <1>1, <1>8, WritesIs DEF Running
  <2> QED
    BY <1>1, <1>4, <1>8, <2>1, <2>2, WritingIsSafe
<1>9. CASE /\ Writes("module", {"going", "lost"})
           /\ ledger' = Noted(cur.name, LedgerEntry(cur.t, "module", LaneDir, 0))
           /\ Ends(cur.t, "unknown")
  <2>1. PICK c0 \in Copies : /\ copies' = copies \cup {c0}
                             /\ c0.send = Id /\ c0.t = cur.t /\ c0.run = sess.run /\ c0.via = "module"
    BY <1>1, <1>9, WritesIs DEF Running
  <2>2. cur.t \in RouteTexts /\ sess.run \in 1 .. 2 /\ EntriesAreTrue
    BY <1>1, AtWork DEF Running, RouteTypeOK, RouteParts
  <2>3. /\ EntriesAreTrue'
        /\ RoomForAll => \A e \in ledger[sess.name] : e.t # cur.t => e \in ledger'[sess.name]
        /\ RoomForAll => Gated(c0)'
    BY <1>2, <1>4, <1>9, <2>1, <2>2, NotingIsTrue
  <2>4. \A c \in copies \cup copies' : c.send # Id => c \in copies /\ c \in copies'
    BY <2>1
  <2>5. \A c \in copies' : c.send = Id => c = c0
    BY <1>1, <2>1
  <2>6. box' = stranded'[sess.name] /\ (\A n \in RouteNames : n # sess.name => stranded'[n] = NoText)
        /\ box # cur.t
    BY <1>1, <1>4 DEF RouteParts, BoxIsKnown
  <2>7. RoomForAll /\ box' # NoText => \A c \in copies' : ~(Live(c) /\ c.t = box' /\ c.run = sess.run)
    BY <1>1, <1>4, <2>1, <2>6 DEF RouteParts, LiveCopiesAreKnown
  <2>8. RoomForAll => \A c \in copies' : Live(c) /\ c.t = cur.t /\ c.run = sess.run => c = c0
    BY <1>3, <2>1
  <2>9. "unknown" \in RouteAnswers
    BY DEF RouteAnswers
  <2> QED
    BY <1>1, <1>4, <1>5, <1>9, <2>1, <2>3, <2>4, <2>5, <2>6, <2>7, <2>8, <2>9, EndingIsSafe
<1> QED
  BY <1>6, <1>7, <1>8, <1>9 DEF ModuleSends, Declines, NothingWritten, Refusals, MaybeWritten

(* The verdict on what was written: confirmed, rejected, or noted.          *)
LEMMA ModuleAnswersIsSafe ==
  ASSUME RouteAssumption, RouteTypeOK, RouteTypeOK', Undisturbed, RouteParts, ModuleAnswers
  PROVE  RouteParts'
<1>1. Running /\ cur.at = "written"
  BY DEF ModuleAnswers, Running
<1>2. /\ \A n \in RouteNames : Degraded[n] # "closing" /\ lane[n] # "closing"
      /\ LaneDir = sess.run /\ cur.name = sess.name
  BY <1>1, LanesStayOpen DEF RouteParts, SendIsInPlace
<1>3. UNCHANGED <<routeEnv, sess, stranded, box, copies>> /\ lane' \in {Degraded, lane}
  BY DEF ModuleAnswers
<1>4. \A n \in RouteNames : lane'[n] # "closing"
  BY <1>2, <1>3
<1>0. PICK c0 \in Mine : \E v \in Verdicts(c0) :
         /\ ledger' = IF v \in {"confirmed", "rejected"} THEN ledger
                      ELSE Noted(cur.name, LedgerEntry(cur.t, "module", LaneDir, Id))
         /\ Ends(cur.t, CASE v = "confirmed" -> "queued" [] v = "rejected" -> "refused"
                          [] OTHER -> "unknown")
  BY DEF ModuleAnswers
<1>5. PICK v \in Verdicts(c0) :
         /\ ledger' = IF v \in {"confirmed", "rejected"} THEN ledger
                      ELSE Noted(cur.name, LedgerEntry(cur.t, "module", LaneDir, Id))
         /\ Ends(cur.t, CASE v = "confirmed" -> "queued" [] v = "rejected" -> "refused"
                          [] OTHER -> "unknown")
  BY <1>0
<1>6. c0 \in copies /\ c0.send = Id /\ c0.t = cur.t /\ c0.run = sess.run /\ c0.via = "module"
      /\ \A c \in copies : c.send = Id => c = c0
  BY <1>1, <1>5 DEF Mine, RouteParts, CopiesAreOwned
<1>7. cur.t \in RouteTexts /\ Id \in Nat \ {0} /\ sess.run \in 1 .. 2 /\ EntriesAreTrue
  BY <1>1, AtWork DEF Running, RouteTypeOK, RouteParts
<1>8. RoomForAll => \A c \in copies : Live(c) /\ c.t = cur.t /\ c.run = sess.run => c = c0
  BY <1>1, <1>6 DEF RouteParts, LiveCopiesAreKnown
<1>9. CASE v = "confirmed"
  <2>1. c0.fate = "taken"
    BY <1>5, <1>9 DEF Verdicts
  <2>2. Ends(cur.t, "queued") /\ ledger' = ledger /\ "queued" \in RouteAnswers
    BY <1>5, <1>9 DEF RouteAnswers
  <2> QED
    BY <1>1, <1>3, <1>4, <1>6, <2>1, <2>2, AnsweringIsSafe
<1>10. CASE v = "rejected"
  <2>1. ~Live(c0)
    BY <1>5, <1>10 DEF Verdicts, Live
  <2>2. Ends(cur.t, "refused") /\ ledger' = ledger /\ "refused" \in RouteAnswers
    BY <1>5, <1>10 DEF RouteAnswers
  <2>3. RoomForAll => \A c \in copies : ~(Live(c) /\ c.t = cur.t /\ c.run = sess.run)
    BY <1>8, <2>1
  <2> QED
    BY <1>1, <1>3, <1>4, <1>6, <2>1, <2>2, <2>3, AnsweringIsSafe
<1>11. CASE v \notin {"confirmed", "rejected"}
  <2>1. Ends(cur.t, "unknown") /\ "unknown" \in RouteAnswers
        /\ ledger' = Noted(sess.name, LedgerEntry(cur.t, "module", sess.run, Id))
    BY <1>2, <1>5, <1>11 DEF RouteAnswers
  <2>2. /\ EntriesAreTrue'
        /\ RoomForAll => \A e \in ledger[sess.name] : e.t # cur.t => e \in ledger'[sess.name]
        /\ RoomForAll => Gated(c0)'
    BY <1>3, <1>6, <1>7, <2>1, NotingIsTrue
  <2>3. RoomForAll => \A c \in copies : Live(c) /\ c.t = cur.t /\ c.run = sess.run => Gated(c)'
    BY <1>8, <2>2
  <2> QED
    BY <1>1, <1>3, <1>4, <2>1, <2>2, <2>3, AnsweringIsSafe
<1> QED
  BY <1>9, <1>10, <1>11

(* The terminal: another text in the composer refuses the send, the same    *)
(* one is submitted for a resume, and into an empty one the text is pasted. *)
LEMMA PaneIsSafe ==
  ASSUME RouteAssumption, RouteTypeOK, RouteTypeOK', Undisturbed, RouteParts, Pane
  PROVE  RouteParts'
<1>1. Running /\ cur.at = "pane" /\ cur.name = sess.name /\ ~cur.pinned /\ \A c \in copies : c.send # Id
  <2>1. Running /\ cur.at = "pane"
    BY DEF Pane, Running
  <2> QED
    BY <2>1 DEF RouteParts, SendIsInPlace, CopiesAreOwned
<1>2. RoomForAll => \A c \in copies : ~(Live(c) /\ c.t = cur.t /\ c.run = sess.run)
  BY <1>1 DEF RouteParts, LiveCopiesAreKnown
<1>3. cur.t \in RouteTexts /\ cur.t # NoText
  BY <1>1, AtWork DEF Running, RouteAssumption, NoText
<1>4. CASE Answers("refused") /\ ledger' = ledger
  <2>1. Ends(cur.t, "refused") /\ UNCHANGED <<routeEnv, sess, lane, box, copies, stranded>>
    BY <1>4 DEF Answers
  <2>2. "refused" \in RouteAnswers /\ \A n \in RouteNames : lane'[n] # "closing"
    BY <2>1 DEF RouteParts, SendIsInPlace, RouteAnswers
  <2> QED
    BY <1>1, <1>2, <1>4, <2>1, <2>2, AnsweringIsSafe
<1>5. CASE /\ Writes("pane", {"taken"}) /\ box' = NoText
           /\ stranded' = [stranded EXCEPT ![cur.name] = NoText]
           /\ Ends(cur.t, "queued")
           /\ UNCHANGED <<routeEnv, sess, lane, ledger, laneMoves, events>>
  <2>1. PICK c0 \in Copies : /\ copies' = copies \cup {c0} /\ c0.fate = "taken"
                             /\ c0.send = Id /\ c0.t = cur.t /\ c0.run = sess.run /\ c0.via = "pane"
    BY <1>1, <1>5, WritesIs DEF Running
  <2>2. "queued" \in RouteAnswers /\ (\A n \in RouteNames : lane'[n] # "closing") /\ EntriesAreTrue'
    BY <1>5, <2>1 DEF RouteParts, SendIsInPlace, EntriesAreTrue, RouteAnswers
  <2>3. box' = stranded'[sess.name] /\ (\A n \in RouteNames : n # sess.name => stranded'[n] = NoText)
    BY <1>1, <1>5 DEF RouteParts, BoxIsKnown, RouteTypeOK
  <2>4. \A c \in copies' : c.send = Id => c = c0
    BY <1>1, <2>1
  <2>5. \A c \in copies \cup copies' : c.send # Id => c \in copies /\ c \in copies'
    BY <2>1
  <2>6. RoomForAll => \A c, d \in copies' : c.send = Id /\ d.send # Id /\ Live(c) /\ Live(d) =>
                                               ~(d.t = cur.t /\ d.run = sess.run)
    BY <1>2, <2>1
  <2> QED
    BY <1>1, <1>5, <2>1, <2>2, <2>3, <2>4, <2>5, <2>6, EndingIsSafe
<1>6. CASE /\ box = NoText /\ Writes("pane", {"going", "taken"})
           /\ cur' = [cur EXCEPT !.at = "pasted"]
           /\ box' = IF \E c \in copies' \ copies : c.fate = "going" THEN cur.t ELSE NoText
           /\ UNCHANGED <<routeEnv, sess, lane, ledger, stranded, last, answer, laneMoves, events>>
  <2>1. PICK c0 \in Copies : /\ copies' = copies \cup {c0} /\ c0.fate \in {"going", "taken"}
                             /\ c0.send = Id /\ c0.t = cur.t /\ c0.run = sess.run /\ c0.via = "pane"
    BY <1>1, <1>6, WritesIs DEF Running
  <2>2. GoesOn("pasted")
    BY <1>1, <1>6, GoesIs DEF Running
  <2>3. copies' \ copies = {c0}
    BY <1>1, <2>1
  <2>4. \/ box' = cur.t /\ c0.fate = "going"
        \/ box' = NoText /\ c0.fate = "taken"
    BY <1>6, <2>1, <2>3
  <2> QED
    BY <1>1, <1>6, <2>1, <2>2, <2>4, WritingIsSafe
<1> QED
  BY <1>4, <1>5, <1>6 DEF Pane

(* A paste that was submitted is told so; another is recorded as stranded.  *)
LEMMA PaneAnswersIsSafe ==
  ASSUME RouteAssumption, RouteTypeOK, RouteTypeOK', Undisturbed, RouteParts, PaneAnswers
  PROVE  RouteParts'
<1>1. Running /\ cur.at = "pasted" /\ cur.name = sess.name
  <2>1. Running /\ cur.at = "pasted"
    BY DEF PaneAnswers, Running
  <2> QED
    BY <2>1 DEF RouteParts, SendIsInPlace
<1>2. UNCHANGED <<routeEnv, sess, lane, ledger, box>>
  BY DEF PaneAnswers
<1>3. \A n \in RouteNames : lane'[n] # "closing"
  BY <1>2 DEF RouteParts, SendIsInPlace
<1>4. \A c \in copies : c.send = Id => c.t = cur.t /\ c.run = sess.run
  BY <1>1 DEF RouteParts, CopiesAreOwned
<1>5. \A c, d \in copies : c.send = Id /\ d.send = Id => c = d
  BY DEF RouteParts, CopiesAreOwned
<1>6. RoomForAll => \A c \in copies : Live(c) /\ c.t = cur.t /\ c.run = sess.run => c.send = Id
  BY <1>1 DEF RouteParts, LiveCopiesAreKnown
<1>7. cur.t \in RouteTexts /\ cur.t # NoText /\ sess.name \in RouteNames
  BY <1>1, AtWork DEF Running, RouteAssumption, RouteTypeOK, NoText
<1>8. /\ stranded[sess.name] = NoText /\ \A n \in RouteNames : n # sess.name => stranded[n] = NoText
      /\ \/ box = cur.t /\ \A c \in Mine : c.fate = "going"
         \/ box = NoText /\ \A c \in Mine : c.fate = "taken"
  BY <1>1 DEF RouteParts, BoxIsKnown
<1>9. CASE \E c \in Mine : c.fate = "taken"
  <2>1. Ends(cur.t, "queued") /\ copies' = copies /\ stranded' = stranded
    BY <1>9 DEF PaneAnswers
  <2>2. box = NoText /\ \A c \in copies : c.send = Id => c.fate = "taken"
    BY <1>8, <1>9 DEF Mine
  <2>3. "queued" \in RouteAnswers /\ EntriesAreTrue'
    BY <1>2, <2>1 DEF RouteParts, EntriesAreTrue, RouteAnswers
  <2>4. \E c \in copies : c.t = cur.t /\ c.run = sess.run /\ c.fate = "taken"
    BY <1>4, <1>9 DEF Mine
  <2>5. RoomForAll => \A c, d \in copies : c.send = Id /\ d.send # Id /\ Live(c) /\ Live(d) =>
                                               ~(d.t = cur.t /\ d.run = sess.run)
    BY <1>6
  <2> QED
    BY <1>1, <1>2, <1>3, <1>4, <1>5, <1>8, <2>1, <2>2, <2>3, <2>4, <2>5, EndingIsSafe
<1>10. CASE ~\E c \in Mine : c.fate = "taken"
  <2>1. /\ stranded' = [stranded EXCEPT ![sess.name] = cur.t]
        /\ copies' = {c \in copies : c.send # Id}
        /\ Ends(cur.t, "unknown")
    BY <1>1, <1>10 DEF PaneAnswers
  <2>2. "unknown" \in RouteAnswers
    BY DEF RouteAnswers
  <2>3. EntriesAreTrue'
    <3>1. \A c \in copies : c.send = Id => c.via = "pane"
      BY <1>1 DEF RouteParts, CopiesAreOwned
    <3>2. \A e \in ledger[sess.name] : e.via # "pane"
      <4>1. ledger[sess.name] \in SUBSET Entries
        BY <1>7 DEF RouteTypeOK
      <4> QED
        BY <4>1 DEF Entries
    <3>3. ASSUME NEW e \in ledger[sess.name]
          PROVE  \E c \in copies' : /\ c.t = e.t /\ c.run = e.dir /\ c.via = e.via
                                    /\ e.handle # 0 => c.send = e.handle
      <4>1. PICK c \in copies : /\ c.t = e.t /\ c.run = e.dir /\ c.via = e.via
                                /\ e.handle # 0 => c.send = e.handle
        BY DEF RouteParts, EntriesAreTrue
      <4> QED
        BY <2>1, <3>1, <3>2, <4>1
    <3> QED
      BY <1>2, <3>3 DEF RouteParts, EntriesAreTrue
  <2>4. stranded'[sess.name] = cur.t /\ \A n \in RouteNames : n # sess.name => stranded'[n] = NoText
    BY <1>7, <1>8, <2>1 DEF RouteTypeOK
  <2>5. CASE box = cur.t
    <3>1. RoomForAll => \A c \in copies' : ~(Live(c) /\ c.t = cur.t /\ c.run = sess.run)
      BY <1>6, <2>1
    <3>2. \A c \in copies \cup copies' : c.send # Id => c \in copies /\ c \in copies'
      BY <2>1
    <3>3. \A c \in copies' : c.send # Id
      BY <2>1
    <3> QED
      BY <1>1, <1>2, <1>3, <2>1, <2>2, <2>3, <2>4, <2>5, <3>1, <3>2, <3>3, EndingIsSafe
  <2>6. CASE box # cur.t
    <3>1. \E c \in copies : c.send = Id
      BY <1>1 DEF RouteParts, CopiesAreOwned
    <3> QED
      BY <1>8, <1>10, <2>6, <3>1 DEF Mine
  <2> QED
    BY <2>5, <2>6
<1> QED
  BY <1>9, <1>10

(* A message is taken by the session it is for, or rejected.                *)
LEMMA ReachesIsSafe ==
  ASSUME RouteTypeOK, RouteTypeOK', Undisturbed, RouteParts, NEW c0 \in copies, Reaches(c0)
  PROVE  RouteParts'
<1>1. c0.fate = "going" /\ c0.via # "pane" /\ c0.run = sess.run
      /\ UNCHANGED <<routeEnv, sess, lane, ledger, stranded, box, cur, last, answer>>
  BY DEF Reaches
<1>2. PICK c1 \in Copies : /\ copies' = (copies \ {c0}) \cup {c1}
                           /\ c1.send = c0.send /\ c1.t = c0.t /\ c1.run = c0.run /\ c1.via = c0.via
                           /\ c1.fate \in {"taken", "rejected"}
  <2>1. PICK fate \in {"taken", "rejected"} : copies' = (copies \ {c0}) \cup {[c0 EXCEPT !.fate = fate]}
    BY DEF Reaches
  <2>2. c0 \in Copies
    BY DEF RouteTypeOK
  <2>3. /\ [c0 EXCEPT !.fate = fate] \in Copies
        /\ [c0 EXCEPT !.fate = fate].send = c0.send /\ [c0 EXCEPT !.fate = fate].t = c0.t
        /\ [c0 EXCEPT !.fate = fate].run = c0.run /\ [c0 EXCEPT !.fate = fate].via = c0.via
        /\ [c0 EXCEPT !.fate = fate].fate = fate
    BY <2>2 DEF Copies
  <2> QED
    BY <2>1, <2>3
<1>3. Live(c0)
  BY <1>1 DEF Live
<1>4. Id' = Id /\ Running' = Running /\ Undisturbed' = Undisturbed
  BY <1>1 DEF Id, Running, Undisturbed
<1>5. SendIsInPlace'
  BY <1>1, <1>4 DEF RouteParts, SendIsInPlace, Allows
<1>6. CopiesAreOwned'
  <2>1. \A c, d \in copies' : c.send = d.send => c = d
    BY <1>2 DEF RouteParts, CopiesAreOwned
  <2>2. \A c \in copies' : c.send \in 1 .. Len(answer') /\ c.run <= sess'.run
    BY <1>1, <1>2 DEF RouteParts, CopiesAreOwned
  <2>3. \A c \in copies' : Running /\ c.send = Id =>
           /\ c.t = cur.t /\ c.run = sess.run
           /\ \/ cur.at = "inboxed" /\ c.via = "inbox"
              \/ cur.at = "written" /\ c.via = "module"
              \/ cur.at = "pasted" /\ c.via = "pane"
    BY <1>2 DEF RouteParts, CopiesAreOwned
  <2>4. cur.at \in {"inboxed", "pasted"} => \E c \in copies' : c.send = Id
    BY <1>2 DEF RouteParts, CopiesAreOwned
  <2>5. \A c \in copies' : c.via = "pane" /\ c.fate # "taken" => Running /\ c.send = Id
    BY <1>1, <1>2 DEF RouteParts, CopiesAreOwned
  <2> QED
    BY <1>1, <1>4, <2>1, <2>2, <2>3, <2>4, <2>5 DEF CopiesAreOwned
<1>7. EntriesAreTrue'
  <2>1. ASSUME NEW e \in ledger[sess.name]
        PROVE  \E c \in copies' : /\ c.t = e.t /\ c.run = e.dir /\ c.via = e.via
                                  /\ e.handle # 0 => c.send = e.handle
    <3>1. PICK c \in copies : /\ c.t = e.t /\ c.run = e.dir /\ c.via = e.via
                              /\ e.handle # 0 => c.send = e.handle
      BY DEF RouteParts, EntriesAreTrue
    <3> QED
      BY <1>2, <3>1
  <2> QED
    BY <1>1, <2>1 DEF RouteParts, EntriesAreTrue
<1>8. BoxIsKnown'
  <2>1. cur.at = "pasted" => c0.send # Id
    BY <1>1 DEF RouteParts, CopiesAreOwned, Running
  <2>2. cur.at = "pasted" => Mine' = Mine
    BY <1>2, <1>4, <2>1 DEF Mine
  <2> QED
    BY <1>1, <2>2 DEF RouteParts, BoxIsKnown
<1>9. LiveCopiesAreKnown'
  <2> SUFFICES ASSUME RoomForAll PROVE LiveCopiesAreKnown'
    BY DEF LiveCopiesAreKnown, RoomForAll
  <2> DEFINE Was(c) == IF c = c1 THEN c0 ELSE c
  <2>1. \A c \in copies' : /\ Was(c) \in copies
                           /\ Was(c).send = c.send /\ Was(c).t = c.t /\ Was(c).run = c.run /\ Was(c).via = c.via
                           /\ Live(c) => Live(Was(c))
    BY <1>2, <1>3
  <2>2. \A c, d \in copies' : Was(c) = Was(d) => c = d
    BY <1>2 DEF RouteParts, CopiesAreOwned
  <2> HIDE DEF Was
  <2>3. \A c, d \in copies' : Live(c) /\ Live(d) /\ c.t = d.t /\ c.run = d.run => c = d
    BY <2>1, <2>2 DEF RouteParts, LiveCopiesAreKnown
  <2>4. \A c \in copies' : Gated(Was(c)) => Gated(c)'
    BY <1>1, <2>1 DEF Gated
  <2>5. \A c \in copies' : Live(c) /\ c.run = sess.run =>
             last[c.t] \in {"queued", "delivered"} \/ (Running /\ c.send = Id) \/ Gated(c)'
    BY <2>1, <2>4 DEF RouteParts, LiveCopiesAreKnown
  <2>6. Running /\ cur.at # "ledger" =>
             \A c \in copies' : Live(c) /\ c.t = cur.t /\ c.run = sess.run => c.send = Id
    BY <2>1 DEF RouteParts, LiveCopiesAreKnown
  <2>7. box # NoText => \A c \in copies' : Live(c) /\ c.t = box /\ c.run = sess.run =>
                                               Running /\ c.send = Id
    BY <2>1 DEF RouteParts, LiveCopiesAreKnown
  <2> QED
    BY <1>1, <1>4, <2>3, <2>5, <2>6, <2>7 DEF LiveCopiesAreKnown, Live
<1>10. AnswersAreBacked'
  <2> SUFFICES ASSUME Recognised PROVE (AnswersAreTrue /\ HeldForItself)'
    BY <1>1 DEF AnswersAreBacked, Recognised, Allows
  <2>1. AnswersAreTrue /\ HeldForItself
    BY DEF RouteParts, AnswersAreBacked
  <2>2. \A t \in RouteTexts : last'[t] \in {"queued", "delivered"} => Arrived(t, sess.run)' # {}
    <3>1. \A c \in copies : c.fate = "taken" => c \in copies'
      BY <1>1, <1>2
    <3> QED
      BY <1>1, <2>1, <3>1 DEF AnswersAreTrue, Arrived
  <2>3. \A i \in DOMAIN answer' : answer'[i] = "refused" =>
           ~\E c \in copies' : c.send = i /\ c.fate \in {"going", "taken"}
    BY <1>1, <1>2, <2>1 DEF AnswersAreTrue
  <2>4. HeldForItself'
    BY <1>1, <1>2, <2>1 DEF HeldForItself
  <2> QED
    BY <2>2, <2>3, <2>4 DEF AnswersAreTrue
<1> QED
  BY <1>5, <1>6, <1>7, <1>8, <1>9, <1>10 DEF RouteParts

(* Where only the lanes change and none closes, the invariant stays: a      *)
(* change of the lane, or the service that stops and starts at rest.        *)
LEMMA LanesMayChange ==
  ASSUME RouteParts, Undisturbed, \A n \in RouteNames : lane'[n] # "closing",
         Running => (lane[sess.name] # NoText => lane'[sess.name] # NoText),
         UNCHANGED <<routeEnv, sess, ledger, stranded, box, cur, copies, last, answer>>
  PROVE  RouteParts'
<1>1. Id' = Id /\ Running' = Running /\ Mine' = Mine
  BY DEF Id, Running, Mine
<1>2. SendIsInPlace'
  BY <1>1 DEF RouteParts, SendIsInPlace, Allows
<1>3. CopiesAreOwned'
  BY <1>1 DEF RouteParts, CopiesAreOwned
<1>4. EntriesAreTrue'
  BY DEF RouteParts, EntriesAreTrue
<1>5. BoxIsKnown'
  BY <1>1 DEF RouteParts, BoxIsKnown
<1>6. LiveCopiesAreKnown'
  <2>1. RoomForAll' = RoomForAll /\ \A c : Gated(c)' = Gated(c)
    BY DEF RoomForAll, Gated
  <2> QED
    BY <1>1, <2>1 DEF RouteParts, LiveCopiesAreKnown, Live
<1>7. AnswersAreBacked'
  BY DEF RouteParts, AnswersAreBacked, Recognised, Allows, AnswersAreTrue, HeldForItself, Arrived
<1> QED
  BY <1>2, <1>3, <1>4, <1>5, <1>6, <1>7 DEF RouteParts

(* A lane that becomes usable or degraded.                                  *)
LEMMA LaneChangesIsSafe ==
  ASSUME RouteTypeOK, Undisturbed, RouteParts, LaneChanges
  PROVE  RouteParts'
<1>1. ~Allows("close")
  BY DEF Undisturbed, Allows
<1>2. PICK st \in {"usable", "degraded"} : lane' = [lane EXCEPT ![sess.name] = st]
  BY <1>1 DEF LaneChanges
<1>3. (\A n \in RouteNames : lane'[n] # "closing") /\ lane'[sess.name] # NoText
  BY <1>2 DEF RouteParts, SendIsInPlace, RouteTypeOK, NoText
<1> QED
  BY <1>3, LanesMayChange DEF LaneChanges

(* The service stops and starts between two sends.                          *)
LEMMA CrashIsSafe ==
  ASSUME RouteTypeOK, Undisturbed, RouteParts, Crash
  PROVE  RouteParts'
<1>1. cur = NoSend
  BY DEF Crash, Happens, Undisturbed, Allows
<1>2. ~Running
  BY <1>1 DEF Running, NoSend
<1>3. UNCHANGED <<routeEnv, sess, ledger, stranded, box, cur, copies, last, answer>>
  BY <1>1 DEF Crash
<1>4. \A n \in RouteNames : lane'[n] # "closing"
  BY DEF Crash, RouteParts, SendIsInPlace
<1> QED
  BY <1>2, <1>3, <1>4, LanesMayChange

(* A list goes to a name without one as it is.                              *)
LEMMA MovedAsItIs ==
  ASSUME NEW L \in SUBSET Entries
  PROVE  Merged({}, L) = L
<1>1. Top({}) = 0
  BY DEF Top
<1>2. \A e \in L : [e EXCEPT !.place = @ + 0] = e
  BY DEF Entries
<1> QED
  BY <1>1, <1>2 DEF Merged

(* A rename at rest: what is known of the session goes with it.             *)
LEMMA RenameIsSafe ==
  ASSUME RouteAssumption, RouteTypeOK, RouteTypeOK', Undisturbed, RouteParts, RenamesSession
  PROVE  RouteParts'
<1>1. PICK to \in RouteNames : RenamedTo(to)
  BY RenameIs
<1>2. cur = NoSend /\ cur' = NoSend /\ ~Running /\ ~Running' /\ cur.at = "no" /\ cur'.at = "no"
  BY <1>1 DEF RenamesSession, Happens, Undisturbed, Allows, Running, NoSend, RenamedTo
<1>3. /\ sess'.name = to /\ sess'.run = sess.run /\ to # sess.name /\ sess.name \in RouteNames
      /\ UNCHANGED <<routeEnv, box, copies, last, answer>>
  BY <1>1 DEF RenamedTo, RouteTypeOK
<1>4. \A n \in RouteNames : n \in {to, sess.name}
  BY <1>3 DEF RouteNames
<1>5. SendIsInPlace'
  <2>1. \A n \in RouteNames : lane'[n] # "closing"
    BY <1>1, <1>3 DEF RenamedTo, RouteParts, SendIsInPlace, RouteTypeOK, NoText
  <2> QED
    BY <1>2, <1>3, <2>1 DEF RouteParts, SendIsInPlace, Allows
<1>6. CopiesAreOwned'
  BY <1>2, <1>3 DEF RouteParts, CopiesAreOwned
<1>7. /\ ledger'[sess.name] = {} /\ ledger'[to] \subseteq ledger[sess.name]
      /\ RoomForAll => ledger'[to] = ledger[sess.name]
  <2>1. ledger[to] = {} /\ ledger[sess.name] \in SUBSET Entries
        /\ \A e, f \in ledger[sess.name] : e.t = f.t => e = f
    BY <1>3 DEF RouteParts, EntriesAreTrue, RouteTypeOK
  <2>2. Merged(ledger[to], ledger[sess.name]) = ledger[sess.name]
    BY <2>1, MovedAsItIs
  <2>3. ledger' = [ledger EXCEPT ![sess.name] = {}, ![to] = Capped(ledger[sess.name])]
    BY <1>1, <2>2 DEF RenamedTo
  <2>4. ledger'[sess.name] = {} /\ ledger'[to] = Capped(ledger[sess.name])
    BY <1>3, <2>3 DEF RouteTypeOK
  <2>5. RoomForAll => Capped(ledger[sess.name]) = ledger[sess.name]
    BY <2>1, NothingIsPushedOut
  <2> QED
    BY <2>4, <2>5 DEF Capped
<1>8. EntriesAreTrue'
  BY <1>3, <1>4, <1>7 DEF RouteParts, EntriesAreTrue
<1>9. BoxIsKnown'
  <2>1. stranded'[to] = stranded[sess.name] /\ stranded'[sess.name] = NoText
    BY <1>1, <1>3 DEF RenamedTo, RouteParts, BoxIsKnown, RouteTypeOK
  <2>2. box = stranded[sess.name]
    BY <1>2 DEF RouteParts, BoxIsKnown
  <2> QED
    BY <1>2, <1>3, <1>4, <2>1, <2>2 DEF BoxIsKnown
<1>10. LiveCopiesAreKnown'
  <2> SUFFICES ASSUME RoomForAll PROVE LiveCopiesAreKnown'
    BY DEF LiveCopiesAreKnown, RoomForAll
  <2>1. \A c : Gated(c) => Gated(c)'
    BY <1>3, <1>7 DEF Gated
  <2>2. \A c \in copies : Live(c) /\ c.run = sess.run => last[c.t] \in {"queued", "delivered"} \/ Gated(c)'
    BY <1>2, <2>1 DEF RouteParts, LiveCopiesAreKnown
  <2>3. \A c, d \in copies : Live(c) /\ Live(d) /\ c.t = d.t /\ c.run = d.run => c = d
    BY DEF RouteParts, LiveCopiesAreKnown
  <2>4. box # NoText => \A c \in copies : ~(Live(c) /\ c.t = box /\ c.run = sess.run)
    BY <1>2 DEF RouteParts, LiveCopiesAreKnown
  <2> QED
    BY <1>2, <1>3, <2>2, <2>3, <2>4 DEF LiveCopiesAreKnown, Live
<1>11. AnswersAreBacked'
  BY <1>3 DEF RouteParts, AnswersAreBacked, Recognised, Allows, AnswersAreTrue, HeldForItself, Arrived
<1> QED
  BY <1>5, <1>6, <1>8, <1>9, <1>10, <1>11 DEF RouteParts

(* Another session takes the name: nothing was written to it yet.           *)
LEMMA SucceededIsSafe ==
  ASSUME RouteTypeOK, RouteTypeOK', Undisturbed, RouteParts, Succeeded
  PROVE  RouteParts'
<1>1. cur = NoSend /\ cur' = NoSend /\ ~Running /\ ~Running' /\ cur.at = "no" /\ cur'.at = "no"
  BY DEF Succeeded, Running, NoSend
<1>2. /\ Allows("succeed") /\ sess.run = 1 /\ sess'.name = sess.name /\ sess'.run = 2
      /\ UNCHANGED <<routeEnv, ledger, copies, answer>> /\ box' = NoText
  <2>1. sess' = [sess EXCEPT !.run = 2]
    BY DEF Succeeded
  <2>2. sess'.name = sess.name /\ sess'.run = 2
    BY <2>1 DEF RouteTypeOK
  <2> QED
    BY <2>2 DEF Succeeded
<1>3. \A c \in copies : c.run # 2
  BY <1>2 DEF RouteParts, CopiesAreOwned, RouteTypeOK, Copies
<1>4. SendIsInPlace'
  <2>1. lane' = [lane EXCEPT ![sess.name] = NoText] /\ lane \in [RouteNames -> {NoText, "usable", "degraded", "closing"}]
    BY DEF Succeeded, RouteTypeOK
  <2>2. \A n \in RouteNames : lane'[n] # "closing"
    BY <2>1 DEF RouteParts, SendIsInPlace, NoText
  <2> QED
    BY <1>1, <1>2, <2>2 DEF SendIsInPlace, Allows
<1>5. CopiesAreOwned'
  <2>1. \A c \in copies : c.run <= 2
    BY DEF RouteTypeOK, Copies
  <2> QED
    BY <1>1, <1>2, <2>1 DEF RouteParts, CopiesAreOwned
<1>6. EntriesAreTrue'
  BY <1>2 DEF RouteParts, EntriesAreTrue
<1>7. BoxIsKnown'
  <2>1. stranded' = [stranded EXCEPT ![sess.name] = NoText] /\ sess.name \in RouteNames
        /\ stranded \in [RouteNames -> RouteTexts \cup {NoText}]
    BY DEF Succeeded, RouteTypeOK
  <2> QED
    BY <1>1, <1>2, <2>1 DEF RouteParts, BoxIsKnown
<1>8. LiveCopiesAreKnown'
  <2>1. RoomForAll => \A c, d \in copies : Live(c) /\ Live(d) /\ c.t = d.t /\ c.run = d.run => c = d
    BY DEF RouteParts, LiveCopiesAreKnown
  <2> QED
    BY <1>1, <1>2, <1>3, <2>1 DEF LiveCopiesAreKnown, RoomForAll, Live
<1>9. AnswersAreBacked'
  <2>1. \A t \in RouteTexts : last'[t] = NoText
    BY DEF Succeeded
  <2> QED
    BY <1>2, <2>1 DEF RouteParts, AnswersAreBacked, Recognised, Allows, AnswersAreTrue, HeldForItself, NoText
<1> QED
  BY <1>4, <1>5, <1>6, <1>7, <1>8, <1>9 DEF RouteParts

-----------------------------------------------------------------------------
(* DeliveryRoutes: every step *)

(* The invariant is inductive.                                              *)
LEMMA RouteInvariantKept ==
  ASSUME RouteAssumption, RouteInvariant, [RouteNext]_routeVars
  PROVE  RouteInvariant'
<1>1. RouteTypeOK /\ RouteTypeOK'
  BY RouteTypesKept DEF RouteInvariant
<1>2. Undisturbed' => Undisturbed
  BY DEF RouteNext, routeVars, Undisturbed, Send, FromLedger, Inbox, InboxAnswers, Module, ModuleSends,
         ModuleAnswers, Pane, PaneAnswers, Reaches, LaneChanges, RenamesSession, Crash, Succeeded,
         Answers, Goes, HandedBack
<1> SUFFICES ASSUME Undisturbed PROVE RouteParts'
  BY <1>1, <1>2 DEF RouteInvariant
<1>3. RouteParts
  BY DEF RouteInvariant
<1>4. CASE \E t \in RouteTexts, route \in {"auto", "terminal", "inbox", "module"},
              shape \in {"plain", "composer"} : Send(t, route, shape)
  BY <1>1, <1>3, <1>4, SendIsSafe DEF RouteKinds
<1>5. CASE FromLedger
  BY <1>1, <1>3, <1>5, FromLedgerIsSafe
<1>6. CASE Inbox
  BY <1>1, <1>3, <1>6, InboxIsSafe
<1>7. CASE InboxAnswers
  BY <1>1, <1>3, <1>7, InboxAnswersIsSafe
<1>8. CASE Module
  BY <1>1, <1>3, <1>8, ModuleIsSafe
<1>9. CASE ModuleSends
  BY <1>1, <1>3, <1>9, ModuleSendsIsSafe
<1>10. CASE ModuleAnswers
  BY <1>1, <1>3, <1>10, ModuleAnswersIsSafe
<1>11. CASE Pane
  BY <1>1, <1>3, <1>11, PaneIsSafe
<1>12. CASE PaneAnswers
  BY <1>1, <1>3, <1>12, PaneAnswersIsSafe
<1>13. CASE \E c \in copies : Reaches(c)
  BY <1>1, <1>3, <1>13, ReachesIsSafe
<1>14. CASE LaneChanges
  BY <1>1, <1>3, <1>14, LaneChangesIsSafe
<1>15. CASE RenamesSession
  BY <1>1, <1>3, <1>15, RenameIsSafe
<1>16. CASE Crash
  BY <1>1, <1>3, <1>16, CrashIsSafe
<1>17. CASE Succeeded
  BY <1>1, <1>3, <1>17, SucceededIsSafe
<1>18. CASE UNCHANGED routeVars
  <2>1. /\ UNCHANGED <<routeEnv, sess, ledger, stranded, box, cur, copies, last, answer>> /\ lane' = lane
    BY <1>18 DEF routeVars
  <2>2. \A n \in RouteNames : lane'[n] # "closing"
    BY <1>3, <2>1 DEF RouteParts, SendIsInPlace
  <2> QED
    BY <1>3, <2>1, <2>2, LanesMayChange
<1> QED
  BY <1>4, <1>5, <1>6, <1>7, <1>8, <1>9, <1>10, <1>11, <1>12, <1>13, <1>14, <1>15, <1>16, <1>17, <1>18
     DEF RouteNext

(* It holds of every behaviour.                                             *)
LEMMA RouteInvariantHolds == RouteSpec => []RouteInvariant
<1>1. RouteInvariant /\ [RouteNext]_routeVars => RouteInvariant'
  BY RouteInvariantKept, RouteAssumption
<1> QED
  BY RouteInvariantAtFirst, <1>1, PTL DEF RouteSpec

(* At most one copy of a text is there if no two are.                       *)
LEMMA OneArrives ==
  ASSUME RouteInvariant
  PROVE  ArrivesOnce
<1> SUFFICES ASSUME Undisturbed, RoomForAll, NEW t \in RouteTexts, NEW run \in 1 .. 2
             PROVE  Cardinality(Arrived(t, run)) <= 1
  BY DEF ArrivesOnce
<1>1. \A c, d \in Arrived(t, run) : c = d
  BY DEF RouteInvariant, RouteParts, LiveCopiesAreKnown, Live, Arrived
<1>2. CASE Arrived(t, run) = {}
  BY <1>2, FS_EmptySet
<1>3. CASE Arrived(t, run) # {}
  <2>1. PICK c : Arrived(t, run) = {c}
    BY <1>1, <1>3
  <2> QED
    BY <2>1, FS_Singleton
<1> QED
  BY <1>2, <1>3

-----------------------------------------------------------------------------
(* DeliveryRoutes: the theorems *)

(* The types of the route of a delivery (route.go).                         *)
THEOREM RouteTypeCorrect == RouteSpec => []RouteTypeOK
<1>1. RouteInvariant => RouteTypeOK
  BY DEF RouteInvariant
<1> QED
  BY <1>1, RouteInvariantHolds, PTL

(* However often a text is sent again, by whichever route, one copy arrives *)
(* (modulelane_send.go, inbox.go): for any texts, any ledger that has room  *)
(* for them, any number of sends, lane changes and events.                  *)
THEOREM TextsArriveOnce == RouteSpec => []ArrivesOnce
<1>1. RouteInvariant => ArrivesOnce
  BY OneArrives
<1> QED
  BY <1>1, RouteInvariantHolds, PTL

(* What a caller is told of a send is so, a send is held back only for an   *)
(* earlier one to this session, and a pinned one never goes to the terminal *)
(* (modulelane_send.go, inbox.go).                                          *)
THEOREM SendsAreAlwaysAsAnswered == RouteSpec => []SendsAreAsAnswered
<1>1. RouteInvariant => SendsAreAsAnswered
  <2>1. RouteTypeOK /\ SendIsInPlace /\ cur # NoSend => Running
    BY RunningIsASend DEF RouteTypeOK, Running
  <2> QED
    BY <2>1 DEF RouteInvariant, RouteParts, SendIsInPlace, AnswersAreBacked, SendsAreAsAnswered, PinnedKeepsOff
<1> QED
  BY <1>1, RouteInvariantHolds, PTL

-----------------------------------------------------------------------------
(* FirstPrompt: the inductive invariant, while no name is used again        *)

Sightings == {"nothing", "absent", "starting", "question", "other", "empty"}
Spawns == [name : PromptNames, there : BOOLEAN, got : SUBSET Nat,
           screen : {"starting", "question", "other", "empty", "stranded", "dead"}]
SettlerTypes == [name : PromptNames, at : {"new", "look", "acts", "retry", "done", "lost"}, gone : Nat,
                 saw : Sightings, said : Sightings \cup {"none"}, answered : BOOLEAN]
CreateTypes == [of : Nat, outcome : {"none", "pending", "queued", "refused", "unknown"},
                why : Sightings \cup {"none"}]
FirstTypes ==
    /\ spawned \in Seq(Spawns) /\ settlers \in Seq(SettlerTypes) /\ Len(settlers) = Len(spawned)
    /\ createRecords \in [PromptNames -> CreateTypes]

(* No session has a name that is another's or that another's settler keeps. *)
NamesApart ==
    \A s, t \in Creates : s # t =>
       /\ settlers[s].name # settlers[t].name /\ spawned[s].name # spawned[t].name
       /\ spawned[s].name # settlers[t].name

RecordsAreOfCreates ==
    \A n \in PromptNames : createRecords[n] # NoCreate =>
       \E s \in Creates : settlers[s].name = n /\ settlers[s].at # "new" /\ createRecords[n].of = s

(* The settler of s will never see its session again.                       *)
Away(s) == ~spawned[s].there \/ spawned[s].name # settlers[s].name \/ spawned[s].screen = "dead"

SettlerTrue(s) ==
    /\ spawned[s].got \subseteq {s}
    /\ settlers[s].at \in {"new", "look", "acts"} => s \notin spawned[s].got
    /\ settlers[s].at = "retry" => FirstMay("lost")
    /\ settlers[s].gone >= 1 => Away(s)

RecordTrue(s) ==
    createRecords[settlers[s].name] # NoCreate =>
       LET outcome == createRecords[settlers[s].name].outcome  at == settlers[s].at IN
       /\ outcome = "pending" => at \notin {"new", "done"}
       /\ outcome = "queued" => at = "done" /\ s \in spawned[s].got
       /\ outcome = "refused" => at = "done" /\ s \notin spawned[s].got
       /\ outcome = "unknown" => at = "done" /\ (Away(s) \/ FirstMay("lost"))

PromptInv ==
    /\ FirstTypes /\ NamesApart /\ RecordsAreOfCreates
    /\ \A s \in Creates : SettlerTrue(s) /\ RecordTrue(s)

(* A type-correct create has the components of its records.                 *)
LEMMA CreateOfType ==
  ASSUME FirstTypes, NEW s \in Creates
  PROVE  /\ spawned[s] \in Spawns /\ settlers[s] \in SettlerTypes
         /\ s \in Nat /\ s \in DOMAIN settlers /\ settlers[s].name \in PromptNames
         /\ createRecords[settlers[s].name] \in CreateTypes
<1>1. DOMAIN settlers = DOMAIN spawned /\ s \in 1 .. Len(spawned)
  BY LenProperties DEF FirstTypes, Creates
<1>2. spawned[s] \in Spawns /\ settlers[s] \in SettlerTypes
  BY <1>1, ElementOfSeq DEF FirstTypes
<1> QED
  BY <1>1, <1>2, LenProperties DEF FirstTypes, SettlerTypes, Creates

(* A sequence by its values.                                                *)
LEMMA InSeq ==
  ASSUME NEW S, NEW n \in Nat, NEW f \in [1 .. n -> S]
  PROVE  f \in Seq(S) /\ Len(f) = n /\ DOMAIN f = 1 .. n
  BY IsASeq, LenProperties

(* Under the name a settler keeps there is its own session or none.         *)
LEMMA UnderOwnName ==
  ASSUME PromptInv, NEW s \in Creates
  PROVE  /\ UnderName(settlers[s].name) \subseteq {s}
         /\ s \in UnderName(settlers[s].name) <=>
               spawned[s].there /\ spawned[s].name = settlers[s].name
  BY DEF PromptInv, NamesApart, UnderName

(* A poll finds it absent when it is away, and only then.                   *)
LEMMA AbsentIsAway ==
  ASSUME PromptInv, NEW s \in Creates
  PROVE  /\ Readiness(settlers[s].name) \in Sightings
         /\ Readiness(settlers[s].name) = "absent" <=> Away(s)
<1>1. spawned[s] \in Spawns
  BY CreateOfType DEF PromptInv
<1>2. CASE UnderName(settlers[s].name) = {}
  <2>1. Readiness(settlers[s].name) = "absent"
    BY <1>2 DEF Readiness
  <2> QED
    BY <2>1, <1>2, UnderOwnName DEF Away, Sightings
<1>3. CASE UnderName(settlers[s].name) # {}
  <2>1. UnderName(settlers[s].name) = {s}
    BY <1>3, UnderOwnName
  <2>2. (CHOOSE t \in UnderName(settlers[s].name) : TRUE) = s
    BY <2>1
  <2>3. PICK screen : screen = spawned[s].screen
    OBVIOUS
  <2>4. Readiness(settlers[s].name) = CASE screen = "dead" -> "absent"
                                        [] screen \in {"other", "stranded"} -> "other"
                                        [] OTHER -> screen
    BY <1>3, <2>2, <2>3 DEF Readiness
  <2>5. screen \in {"starting", "question", "other", "empty", "stranded", "dead"}
    BY <1>1, <2>3 DEF Spawns
  <2>6. Away(s) <=> screen = "dead"
    BY <2>1, <2>3, UnderOwnName DEF Away
  <2>7. CASE screen = "dead"
    BY <2>4, <2>6, <2>7 DEF Sightings
  <2>8. CASE screen \in {"other", "stranded"}
    BY <2>4, <2>6, <2>8 DEF Sightings
  <2>9. CASE screen \in {"starting", "question", "empty"}
    BY <2>4, <2>6, <2>9 DEF Sightings
  <2> QED
    BY <2>5, <2>7, <2>8, <2>9
<1> QED
  BY <1>2, <1>3

(* What the invariant says of a create is what the property says of it.     *)
LEMMA PromptInvTells == PromptInv => PromptIsTold
<1> SUFFICES ASSUME PromptInv, NEW s \in Creates
             PROVE  /\ spawned[s].got \subseteq {s}
                    /\ (spawned[s].there /\ spawned[s].name = settlers[s].name /\ ShownOf(s) # NoCreate) =>
                       LET shown == ShownOf(s) IN
                       /\ shown.of = s
                       /\ shown.outcome = "pending" => settlers[s].at # "done"
                       /\ shown.outcome = "queued" => s \in spawned[s].got
                       /\ shown.outcome = "refused" => s \notin spawned[s].got
                       /\ shown.outcome = "unknown" => Readiness(spawned[s].name) = "absent" \/ FirstMay("lost")
  BY DEF PromptIsTold
<1>1. SettlerTrue(s) /\ RecordTrue(s) /\ settlers[s].name \in PromptNames
  BY CreateOfType DEF PromptInv
<1>2. spawned[s].got \subseteq {s}
  BY <1>1 DEF SettlerTrue
<1> SUFFICES ASSUME spawned[s].there, spawned[s].name = settlers[s].name, ShownOf(s) # NoCreate
             PROVE  LET shown == ShownOf(s) IN
                    /\ shown.of = s
                    /\ shown.outcome = "pending" => settlers[s].at # "done"
                    /\ shown.outcome = "queued" => s \in spawned[s].got
                    /\ shown.outcome = "refused" => s \notin spawned[s].got
                    /\ shown.outcome = "unknown" => Readiness(spawned[s].name) = "absent" \/ FirstMay("lost")
  BY <1>2
<1>3. ShownOf(s) = createRecords[settlers[s].name]
  BY DEF ShownOf
<1>4. PICK t \in Creates : settlers[t].name = settlers[s].name /\ ShownOf(s).of = t
  BY <1>1, <1>3 DEF PromptInv, RecordsAreOfCreates
<1>5. t = s
  BY <1>4 DEF PromptInv, NamesApart
<1> QED
  BY <1>1, <1>3, <1>4, <1>5, AbsentIsAway DEF RecordTrue

-----------------------------------------------------------------------------
(* FirstPrompt: what a step keeps                                           *)

(* A step that changes one create, its settler and its record, and tells of *)
(* it what is so.                                                           *)
LEMMA OneCreateMoves ==
  ASSUME PromptInv, firstEnv' = firstEnv, NEW s \in Creates, NEW n \in PromptNames, n = settlers[s].name,
         NEW r \in SettlerTypes, settlers' = [settlers EXCEPT ![s] = r], r.name = n,
         spawned' \in Seq(Spawns), DOMAIN spawned' = DOMAIN spawned,
         \A t \in Creates : t # s => spawned'[t] = spawned[t],
         spawned'[s].name = spawned[s].name, spawned'[s].there = spawned[s].there,
         createRecords' \in [PromptNames -> CreateTypes],
         \A m \in PromptNames : m # n => createRecords'[m] = createRecords[m],
         createRecords'[n] # NoCreate => r.at # "new" /\ createRecords'[n].of = s,
         SettlerTrue(s)', RecordTrue(s)'
  PROVE  PromptInv'
<1>1. /\ settlers' \in Seq(SettlerTypes) /\ DOMAIN settlers' = DOMAIN settlers
      /\ settlers'[s] = r /\ \A t \in Creates : t # s => settlers'[t] = settlers[t]
  <2>1. settlers \in Seq(SettlerTypes) /\ DOMAIN settlers = Creates
    BY LenProperties DEF PromptInv, FirstTypes, Creates
  <2> QED
    BY <2>1, OneReplaced
<1>2. Creates' = Creates
  BY DEF Creates
<1>3. FirstTypes'
  <2>1. Len(settlers') = Len(spawned')
    <3>1. /\ DOMAIN settlers = 1 .. Len(settlers) /\ DOMAIN spawned = 1 .. Len(spawned)
          /\ DOMAIN settlers' = 1 .. Len(settlers') /\ DOMAIN spawned' = 1 .. Len(spawned')
          /\ Len(settlers') \in Nat /\ Len(spawned') \in Nat /\ Len(settlers) = Len(spawned)
      BY <1>1, LenProperties DEF PromptInv, FirstTypes
    <3> QED
      BY <3>1, <1>1
  <2> QED
    BY <1>1, <2>1 DEF FirstTypes
<1>4. \A t \in Creates : settlers'[t].name = settlers[t].name /\ spawned'[t].name = spawned[t].name
  BY <1>1
<1>5. NamesApart'
  BY <1>2, <1>4 DEF PromptInv, NamesApart
<1>6. RecordsAreOfCreates'
  <2> SUFFICES ASSUME NEW m \in PromptNames, createRecords'[m] # NoCreate
               PROVE  \E t \in Creates : /\ settlers'[t].name = m /\ settlers'[t].at # "new"
                                         /\ createRecords'[m].of = t
    BY <1>2 DEF RecordsAreOfCreates, NoCreate
  <2>1. CASE m = n
    BY <2>1, <1>1
  <2>2. CASE m # n
    <3>1. createRecords'[m] = createRecords[m]
      BY <2>2
    <3>2. PICK t \in Creates : settlers[t].name = m /\ settlers[t].at # "new" /\ createRecords[m].of = t
      BY <3>1 DEF PromptInv, RecordsAreOfCreates
    <3> QED
      BY <3>1, <3>2, <2>2, <1>1
  <2> QED
    BY <2>1, <2>2
<1>7. ASSUME NEW t \in Creates PROVE SettlerTrue(t)' /\ RecordTrue(t)'
  <2>1. CASE t = s
    BY <2>1
  <2>2. CASE t # s
    <3>1. spawned'[t] = spawned[t] /\ settlers'[t] = settlers[t]
      BY <2>2, <1>1
    <3>2. settlers[t].name # n /\ settlers[t].name \in PromptNames
      BY <2>2, CreateOfType DEF PromptInv, NamesApart
    <3>3. createRecords'[settlers[t].name] = createRecords[settlers[t].name]
      BY <3>2
    <3>4. SettlerTrue(t) /\ RecordTrue(t)
      BY DEF PromptInv
    <3>5. SettlerTrue(t)'
      BY <3>1, <3>4 DEF SettlerTrue, Away, FirstMay
    <3>6. RecordTrue(t)'
      BY <3>1, <3>3, <3>4 DEF RecordTrue, Away, FirstMay, NoCreate
    <3> QED
      BY <3>5, <3>6
  <2> QED
    BY <2>1, <2>2
<1> QED
  BY <1>2, <1>3, <1>5, <1>6, <1>7 DEF PromptInv

(* A step of the world: no settler moves, no record is written, nothing is  *)
(* received, and what was away stays away.                                  *)
LEMMA WorldMoves ==
  ASSUME PromptInv, UNCHANGED <<firstEnv, settlers, createRecords>>,
         spawned' \in Seq(Spawns), DOMAIN spawned' = DOMAIN spawned,
         \A t \in Creates : spawned'[t].got = spawned[t].got /\ (Away(t) => Away(t)'),
         NamesApart'
  PROVE  PromptInv'
<1>1. Creates' = Creates
  BY DEF Creates
<1>2. FirstTypes'
  <2>1. Len(spawned') = Len(spawned)
    BY LenProperties DEF PromptInv, FirstTypes
  <2> QED
    BY <2>1 DEF PromptInv, FirstTypes
<1>3. RecordsAreOfCreates'
  BY <1>1 DEF PromptInv, RecordsAreOfCreates, NoCreate
<1>4. ASSUME NEW t \in Creates PROVE SettlerTrue(t)' /\ RecordTrue(t)'
  <2>1. SettlerTrue(t) /\ RecordTrue(t)
    BY DEF PromptInv
  <2>2. /\ spawned'[t].got = spawned[t].got /\ (Away(t) => Away(t)') /\ settlers'[t] = settlers[t]
        /\ createRecords'[settlers[t].name] = createRecords[settlers[t].name]
    OBVIOUS
  <2>3. SettlerTrue(t)'
    BY <2>1, <2>2 DEF SettlerTrue, FirstMay
  <2>4. RecordTrue(t)'
    BY <2>1, <2>2 DEF RecordTrue, FirstMay, NoCreate
  <2> QED
    BY <2>3, <2>4
<1> QED
  BY <1>1, <1>2, <1>3, <1>4 DEF PromptInv

(* The screen of a session changes.                                         *)
LEMMA ScreenMoves ==
  ASSUME PromptInv, NEW s \in Creates, NEW from, NEW to \in {"question", "other", "empty", "dead"},
         "dead" \notin from, Screen(s, from, to)
  PROVE  PromptInv'
<1>1. PICK p : p = [spawned[s] EXCEPT !.screen = to]
  OBVIOUS
<1>2. spawned' = [spawned EXCEPT ![s] = p] /\ UNCHANGED <<firstEnv, settlers, createRecords>>
  BY <1>1 DEF Screen
<1>3. /\ p \in Spawns /\ p.name = spawned[s].name /\ p.there = spawned[s].there /\ p.got = spawned[s].got
      /\ spawned[s].screen # "dead"
  BY <1>1, CreateOfType DEF PromptInv, Spawns, Screen
<1>4. /\ spawned' \in Seq(Spawns) /\ DOMAIN spawned' = DOMAIN spawned
      /\ spawned'[s] = p /\ \A t \in Creates : t # s => spawned'[t] = spawned[t]
  <2>1. spawned \in Seq(Spawns) /\ s \in DOMAIN spawned
    BY DEF PromptInv, FirstTypes, Creates
  <2> QED
    BY <1>2, <1>3, <2>1, OneReplaced DEF Creates
<1>5. ASSUME NEW t \in Creates
      PROVE  spawned'[t].got = spawned[t].got /\ (Away(t) => Away(t)') /\ spawned'[t].name = spawned[t].name
  <2>1. CASE t = s
    BY <2>1, <1>2, <1>3, <1>4 DEF Away
  <2>2. CASE t # s
    BY <2>2, <1>2, <1>4 DEF Away
  <2> QED
    BY <2>1, <2>2
<1>6. NamesApart'
  BY <1>2, <1>4, <1>5 DEF PromptInv, NamesApart, Creates
<1> QED
  BY <1>2, <1>4, <1>5, <1>6, WorldMoves

(* A session is closed.                                                     *)
LEMMA CloseMoves ==
  ASSUME PromptInv, NEW s \in Creates, IsClosed(s)
  PROVE  PromptInv'
<1>1. PICK p : p = [spawned[s] EXCEPT !.there = FALSE]
  OBVIOUS
<1>2. spawned' = [spawned EXCEPT ![s] = p] /\ UNCHANGED <<firstEnv, settlers, createRecords>>
  BY <1>1 DEF IsClosed
<1>3. p \in Spawns /\ p.name = spawned[s].name /\ p.there = FALSE /\ p.got = spawned[s].got
  BY <1>1, CreateOfType DEF PromptInv, Spawns
<1>4. /\ spawned' \in Seq(Spawns) /\ DOMAIN spawned' = DOMAIN spawned
      /\ spawned'[s] = p /\ \A t \in Creates : t # s => spawned'[t] = spawned[t]
  <2>1. spawned \in Seq(Spawns) /\ s \in DOMAIN spawned
    BY DEF PromptInv, FirstTypes, Creates
  <2> QED
    BY <1>2, <1>3, <2>1, OneReplaced DEF Creates
<1>5. ASSUME NEW t \in Creates
      PROVE  spawned'[t].got = spawned[t].got /\ (Away(t) => Away(t)') /\ spawned'[t].name = spawned[t].name
  <2>1. CASE t = s
    BY <2>1, <1>2, <1>3, <1>4 DEF Away
  <2>2. CASE t # s
    BY <2>2, <1>2, <1>4 DEF Away
  <2> QED
    BY <2>1, <2>2
<1>6. NamesApart'
  BY <1>2, <1>4, <1>5 DEF PromptInv, NamesApart, Creates
<1> QED
  BY <1>2, <1>4, <1>5, <1>6, WorldMoves

(* A session is renamed, to a name no other session or settler has.         *)
LEMMA RenameMoves ==
  ASSUME PromptInv, NEW s \in Creates, NEW n \in PromptNames, IsRenamed(s, n)
  PROVE  PromptInv'
<1>1. PICK p : p = [spawned[s] EXCEPT !.name = n]
  OBVIOUS
<1>2. /\ spawned' = [spawned EXCEPT ![s] = p] /\ UNCHANGED <<firstEnv, settlers, createRecords>>
      /\ \A t \in Creates : spawned[t].name # n /\ settlers[t].name # n
  BY <1>1 DEF IsRenamed
<1>3. p \in Spawns /\ p.name = n /\ p.got = spawned[s].got
  BY <1>1, CreateOfType DEF PromptInv, Spawns
<1>4. /\ spawned' \in Seq(Spawns) /\ DOMAIN spawned' = DOMAIN spawned
      /\ spawned'[s] = p /\ \A t \in Creates : t # s => spawned'[t] = spawned[t]
  <2>1. spawned \in Seq(Spawns) /\ s \in DOMAIN spawned
    BY DEF PromptInv, FirstTypes, Creates
  <2> QED
    BY <1>2, <1>3, <2>1, OneReplaced DEF Creates
<1>5. ASSUME NEW t \in Creates
      PROVE  spawned'[t].got = spawned[t].got /\ (Away(t) => Away(t)')
  <2>1. CASE t = s
    BY <2>1, <1>2, <1>3, <1>4 DEF Away
  <2>2. CASE t # s
    BY <2>2, <1>2, <1>4 DEF Away
  <2> QED
    BY <2>1, <2>2
<1>6. NamesApart'
  BY <1>2, <1>3, <1>4 DEF PromptInv, NamesApart, Creates
<1> QED
  BY <1>2, <1>4, <1>5, <1>6, WorldMoves

(* A record that is older than its retention goes.                          *)
LEMMA ForgetMoves ==
  ASSUME PromptInv, NEW n \in PromptNames, Forgets(n)
  PROVE  PromptInv'
<1>1. /\ createRecords' = [createRecords EXCEPT ![n] = NoCreate]
      /\ UNCHANGED <<firstEnv, spawned, settlers>> /\ Creates' = Creates
  BY DEF Forgets, Creates
<1>2. NoCreate \in CreateTypes
  BY DEF NoCreate, CreateTypes, Sightings
<1>3. /\ createRecords' \in [PromptNames -> CreateTypes] /\ createRecords'[n] = NoCreate
      /\ \A m \in PromptNames : m # n => createRecords'[m] = createRecords[m]
  BY <1>1, <1>2 DEF PromptInv, FirstTypes
<1>4. FirstTypes' /\ NamesApart'
  BY <1>1, <1>3 DEF PromptInv, FirstTypes, NamesApart
<1>5. RecordsAreOfCreates'
  BY <1>1, <1>3 DEF PromptInv, RecordsAreOfCreates, NoCreate
<1>6. ASSUME NEW t \in Creates PROVE SettlerTrue(t)' /\ RecordTrue(t)'
  <2>1. SettlerTrue(t) /\ RecordTrue(t) /\ settlers[t].name \in PromptNames
    BY CreateOfType DEF PromptInv
  <2>2. SettlerTrue(t)'
    BY <2>1, <1>1 DEF SettlerTrue, Away, FirstMay
  <2>3. CASE settlers[t].name = n
    <3>1. createRecords'[settlers'[t].name] = NoCreate
      BY <2>3, <1>1, <1>3
    <3>2. RecordTrue(t)'
      BY <3>1 DEF RecordTrue, NoCreate
    <3> QED
      BY <2>2, <3>2
  <2>4. CASE settlers[t].name # n
    <3>1. createRecords'[settlers[t].name] = createRecords[settlers[t].name] /\ settlers' = settlers
      BY <2>1, <2>4, <1>1, <1>3
    <3> QED
      BY <2>1, <2>2, <3>1, <1>1 DEF RecordTrue, Away, FirstMay, NoCreate
  <2> QED
    BY <2>2, <2>3, <2>4
<1> QED
  BY <1>1, <1>4, <1>5, <1>6 DEF PromptInv

(* The settlers that had not finished are gone.                             *)
LEMMA RestartMoves ==
  ASSUME PromptInv, Restarts
  PROVE  PromptInv'
<1>1. UNCHANGED <<firstEnv, spawned, createRecords>> /\ Creates' = Creates
  BY DEF Restarts, Creates
<1>2. PICK n \in Nat : n = Len(spawned) /\ Creates = 1 .. n
  BY LenProperties DEF PromptInv, FirstTypes, Creates
<1>3. ASSUME NEW t \in Creates
      PROVE  /\ settlers'[t] \in SettlerTypes /\ settlers'[t].name = settlers[t].name
             /\ settlers'[t].gone = settlers[t].gone
             /\ settlers'[t].at = IF settlers[t].at = "done" THEN "done" ELSE "lost"
  <2>1. settlers[t] \in SettlerTypes
    BY CreateOfType DEF PromptInv
  <2>2. settlers'[t] = IF settlers[t].at = "done" THEN settlers[t] ELSE [settlers[t] EXCEPT !.at = "lost"]
    BY DEF Restarts
  <2> QED
    BY <2>1, <2>2 DEF SettlerTypes
<1>4. settlers' \in Seq(SettlerTypes) /\ Len(settlers') = n
  <2>1. settlers' \in [1 .. n -> SettlerTypes]
    BY <1>2, <1>3 DEF Restarts
  <2> QED
    BY <2>1, InSeq
<1>5. FirstTypes'
  BY <1>1, <1>2, <1>4 DEF PromptInv, FirstTypes
<1>6. NamesApart'
  BY <1>1, <1>3 DEF PromptInv, NamesApart
<1>7. RecordsAreOfCreates'
  <2> SUFFICES ASSUME NEW m \in PromptNames, createRecords[m] # NoCreate
               PROVE  \E t \in Creates : /\ settlers'[t].name = m /\ settlers'[t].at # "new"
                                         /\ createRecords[m].of = t
    BY <1>1 DEF RecordsAreOfCreates, NoCreate
  <2>1. PICK t \in Creates : settlers[t].name = m /\ settlers[t].at # "new" /\ createRecords[m].of = t
    BY DEF PromptInv, RecordsAreOfCreates
  <2> QED
    BY <2>1, <1>3
<1>8. ASSUME NEW t \in Creates PROVE SettlerTrue(t)' /\ RecordTrue(t)'
  <2>1. SettlerTrue(t) /\ RecordTrue(t)
    BY DEF PromptInv
  <2>2. /\ spawned'[t] = spawned[t] /\ FirstMay("lost")' = FirstMay("lost")
        /\ createRecords'[settlers'[t].name] = createRecords[settlers[t].name]
        /\ Away(t)' = Away(t)
    BY <1>1, <1>3 DEF Away, FirstMay
  <2>3. SettlerTrue(t)'
    BY <2>1, <2>2, <1>3 DEF SettlerTrue
  <2>4. RecordTrue(t)'
    BY <2>1, <2>2, <1>3 DEF RecordTrue, NoCreate
  <2> QED
    BY <2>3, <2>4
<1> QED
  BY <1>1, <1>5, <1>6, <1>7, <1>8 DEF PromptInv

(* A session is started, under a name nobody had.                           *)
LEMMA LaunchMoves ==
  ASSUME PromptInv, ~FirstMay("reuse"), NEW n \in PromptNames, Launches(n)
  PROVE  PromptInv'
<1>1. PICK k : k = Len(spawned) + 1
  OBVIOUS
<1>2. PICK p : p = [name |-> n, there |-> TRUE, screen |-> "starting", got |-> {}]
  OBVIOUS
<1>3. /\ spawned' = Append(spawned, p) /\ settlers' = Append(settlers, NewSettler(n))
      /\ UNCHANGED <<firstEnv, createRecords>>
      /\ \A t \in Creates : spawned[t].name # n /\ settlers[t].name # n
  BY <1>2 DEF Launches
<1>4. p \in Spawns /\ NewSettler(n) \in SettlerTypes
  BY <1>2 DEF Spawns, NewSettler, SettlerTypes, Sightings
<1>5. /\ spawned' \in Seq(Spawns) /\ DOMAIN spawned' = DOMAIN spawned \cup {k} /\ k \notin DOMAIN spawned
      /\ spawned'[k] = p /\ \A t \in DOMAIN spawned : spawned'[t] = spawned[t]
  BY <1>1, <1>3, <1>4, OneMore DEF PromptInv, FirstTypes
<1>6. DOMAIN settlers = DOMAIN spawned /\ Len(settlers) + 1 = k
  BY <1>1, LenProperties DEF PromptInv, FirstTypes
<1>7. /\ settlers' \in Seq(SettlerTypes)
      /\ settlers'[k] = NewSettler(n) /\ \A t \in DOMAIN spawned : settlers'[t] = settlers[t]
  BY <1>3, <1>4, <1>6, OneMore DEF PromptInv, FirstTypes
<1>8. Creates' = Creates \cup {k} /\ k \notin Creates /\ k \in Nat
  BY <1>1, <1>5, LenProperties DEF Creates, PromptInv, FirstTypes
<1>9. FirstTypes'
  <2>1. Len(spawned') = Len(spawned) + 1 /\ Len(settlers') = Len(settlers) + 1
    BY <1>3, <1>4, AppendProperties DEF PromptInv, FirstTypes
  <2> QED
    BY <1>3, <1>5, <1>7, <2>1 DEF PromptInv, FirstTypes
<1>10. /\ spawned'[k].name = n /\ settlers'[k].name = n /\ spawned'[k].got = {}
       /\ settlers'[k].at = "new" /\ settlers'[k].gone = 0
  BY <1>2, <1>5, <1>7 DEF NewSettler
<1>11. \A t \in Creates : spawned'[t] = spawned[t] /\ settlers'[t] = settlers[t] /\ t # k
  BY <1>5, <1>7, <1>8 DEF Creates
<1>12. NamesApart'
  <2> SUFFICES ASSUME NEW s \in Creates', NEW t \in Creates', s # t
               PROVE  /\ settlers'[s].name # settlers'[t].name /\ spawned'[s].name # spawned'[t].name
                      /\ spawned'[s].name # settlers'[t].name
    BY DEF NamesApart
  <2>1. CASE s \in Creates /\ t \in Creates
    <3>1. /\ settlers[s].name # settlers[t].name /\ spawned[s].name # spawned[t].name
          /\ spawned[s].name # settlers[t].name
      BY <2>1 DEF PromptInv, NamesApart
    <3> QED
      BY <3>1, <2>1, <1>11
  <2>2. CASE s = k /\ t \in Creates
    BY <2>2, <1>3, <1>10, <1>11
  <2>3. CASE s \in Creates /\ t = k
    BY <2>3, <1>3, <1>10, <1>11
  <2> QED
    BY <2>1, <2>2, <2>3, <1>8
<1>13. RecordsAreOfCreates'
  <2> SUFFICES ASSUME NEW m \in PromptNames, createRecords[m] # NoCreate
               PROVE  \E t \in Creates' : /\ settlers'[t].name = m /\ settlers'[t].at # "new"
                                          /\ createRecords[m].of = t
    BY <1>3 DEF RecordsAreOfCreates, NoCreate
  <2>1. PICK t \in Creates : settlers[t].name = m /\ settlers[t].at # "new" /\ createRecords[m].of = t
    BY DEF PromptInv, RecordsAreOfCreates
  <2> QED
    BY <2>1, <1>8, <1>11
<1>14. createRecords[n] = NoCreate
  BY <1>3 DEF PromptInv, RecordsAreOfCreates
<1>15. SettlerTrue(k)' /\ RecordTrue(k)'
  BY <1>3, <1>10, <1>14 DEF SettlerTrue, RecordTrue, NoCreate
<1>16. ASSUME NEW t \in Creates PROVE SettlerTrue(t)' /\ RecordTrue(t)'
  <2>1. SettlerTrue(t) /\ RecordTrue(t)
    BY DEF PromptInv
  <2>2. /\ spawned'[t] = spawned[t] /\ settlers'[t] = settlers[t] /\ Away(t)' = Away(t)
        /\ createRecords' = createRecords /\ FirstMay("lost")' = FirstMay("lost")
    BY <1>3, <1>11 DEF Away, FirstMay
  <2>3. SettlerTrue(t)'
    BY <2>1, <2>2 DEF SettlerTrue
  <2>4. RecordTrue(t)'
    BY <2>1, <2>2 DEF RecordTrue, NoCreate
  <2> QED
    BY <2>3, <2>4
<1> QED
  BY <1>8, <1>9, <1>12, <1>13, <1>15, <1>16 DEF PromptInv

-----------------------------------------------------------------------------
(* FirstPrompt: what a settler keeps                                        *)

(* The record of a name with another outcome, when there is one.            *)
LEMMA ResolvedRecord ==
  ASSUME FirstTypes, NEW n \in PromptNames,
         NEW outcome \in {"queued", "refused", "unknown"}, NEW new, new = Resolved(n, outcome)
  PROVE  /\ new \in [PromptNames -> CreateTypes]
         /\ \A m \in PromptNames : m # n => new[m] = createRecords[m]
         /\ new[n].of = createRecords[n].of
         /\ createRecords[n] = NoCreate => new[n] = NoCreate
         /\ createRecords[n] # NoCreate => new[n].outcome = outcome
<1>1. createRecords \in [PromptNames -> CreateTypes]
  BY DEF FirstTypes
<1>2. CASE createRecords[n] = NoCreate
  BY <1>1, <1>2 DEF Resolved
<1>3. CASE createRecords[n] # NoCreate
  <2>1. PICK r : r = [createRecords[n] EXCEPT !.outcome = outcome]
    OBVIOUS
  <2>2. r \in CreateTypes /\ r.of = createRecords[n].of /\ r.outcome = outcome
    BY <1>1, <2>1 DEF CreateTypes
  <2>3. new = [createRecords EXCEPT ![n] = r]
    BY <1>3, <2>1 DEF Resolved
  <2> QED
    BY <1>1, <1>3, <2>2, <2>3
<1> QED
  BY <1>2, <1>3

(* The record of a create is its own, or there is none.                     *)
LEMMA OwnRecord ==
  ASSUME PromptInv, NEW s \in Creates, createRecords[settlers[s].name] # NoCreate
  PROVE  createRecords[settlers[s].name].of = s /\ settlers[s].at # "new"
<1>1. settlers[s].name \in PromptNames
  BY CreateOfType DEF PromptInv
<1>2. PICK t \in Creates : /\ settlers[t].name = settlers[s].name /\ settlers[t].at # "new"
                           /\ createRecords[settlers[s].name].of = t
  BY <1>1 DEF PromptInv, RecordsAreOfCreates
<1> QED
  BY <1>2 DEF PromptInv, NamesApart

(* A send ends: the record tells what is so of the session.                 *)
LEMMA EndMoves ==
  ASSUME PromptInv, NEW s \in Creates, settlers[s].at # "new", firstEnv' = firstEnv,
         NEW outcome \in {"queued", "refused", "unknown"}, PromptEnds(s, outcome),
         spawned' \in Seq(Spawns), DOMAIN spawned' = DOMAIN spawned,
         \A t \in Creates : t # s => spawned'[t] = spawned[t],
         spawned'[s].name = spawned[s].name, spawned'[s].there = spawned[s].there,
         spawned[s].screen = "dead" => spawned'[s].screen = "dead",
         spawned'[s].got \subseteq {s},
         outcome = "queued" => s \in spawned'[s].got,
         outcome = "refused" => s \notin spawned'[s].got,
         outcome = "unknown" => Away(s) \/ FirstMay("lost")
  PROVE  PromptInv'
<1>1. PICK n : n = settlers[s].name
  OBVIOUS
<1>2. PICK r : r = [settlers[s] EXCEPT !.at = "done"]
  OBVIOUS
<1>3. settlers[s] \in SettlerTypes /\ n \in PromptNames /\ s \in DOMAIN settlers
  BY <1>1, CreateOfType DEF PromptInv
<1>4. settlers' = [settlers EXCEPT ![s] = r] /\ createRecords' = Resolved(n, outcome)
  BY <1>1, <1>2 DEF PromptEnds, Settler
<1>5. r \in SettlerTypes /\ r.name = n /\ r.at = "done" /\ r.gone = settlers[s].gone
  BY <1>1, <1>2, <1>3 DEF SettlerTypes
<1>6. settlers'[s] = r
  BY <1>3, <1>4 DEF PromptInv, FirstTypes
<1>7. /\ createRecords' \in [PromptNames -> CreateTypes]
      /\ \A m \in PromptNames : m # n => createRecords'[m] = createRecords[m]
      /\ createRecords'[n].of = createRecords[n].of
      /\ createRecords[n] = NoCreate => createRecords'[n] = NoCreate
      /\ createRecords[n] # NoCreate => createRecords'[n].outcome = outcome
  BY <1>3, <1>4, ResolvedRecord DEF PromptInv
<1>8. createRecords'[n] # NoCreate => r.at # "new" /\ createRecords'[n].of = s
  BY <1>1, <1>5, <1>7, OwnRecord
<1>9. Away(s) => Away(s)'
  BY <1>1, <1>5, <1>6 DEF Away
<1>10. SettlerTrue(s)'
  BY <1>5, <1>6, <1>9 DEF SettlerTrue, PromptInv
<1>11. RecordTrue(s)'
  <2>1. /\ FirstMay("lost")' = FirstMay("lost") /\ settlers'[s].name = n /\ settlers'[s].at = "done"
        /\ createRecords'[n] # NoCreate => createRecords'[n].outcome = outcome
    BY <1>5, <1>6, <1>7 DEF FirstMay
  <2> QED
    BY <2>1, <1>9 DEF RecordTrue, NoCreate
<1> QED
  BY <1>1, <1>3, <1>4, <1>5, <1>7, <1>8, <1>10, <1>11, OneCreateMoves

(* The settler goes on, and its session is left as it is.                   *)
LEMMA SettlerGoesOn ==
  ASSUME PromptInv, NEW s \in Creates, UNCHANGED <<firstEnv, spawned>>,
         NEW n \in PromptNames, n = settlers[s].name,
         NEW r \in SettlerTypes, settlers' = [settlers EXCEPT ![s] = r], r.name = n,
         settlers[s].at \in {"new", "look", "acts"}, r.at \in {"look", "acts"}, r.gone >= 1 => Away(s),
         createRecords' \in [PromptNames -> CreateTypes],
         \A m \in PromptNames : m # n => createRecords'[m] = createRecords[m],
         createRecords'[n] # NoCreate =>
            createRecords'[n].of = s /\ createRecords'[n].outcome \in {"none", "pending"}
  PROVE  PromptInv'
<1>1. SettlerTrue(s) /\ spawned \in Seq(Spawns) /\ s \in DOMAIN settlers
  BY CreateOfType DEF PromptInv, FirstTypes
<1>2. settlers'[s] = r /\ (Away(s) => Away(s)')
  BY <1>1 DEF PromptInv, FirstTypes, Away
<1>3. SettlerTrue(s)'
  BY <1>1, <1>2 DEF SettlerTrue
<1>4. RecordTrue(s)'
  BY <1>2 DEF RecordTrue, NoCreate
<1> QED
  BY <1>1, <1>3, <1>4, OneCreateMoves

(* An unfinished create has a record that waits, or none.                   *)
LEMMA UnfinishedWaits ==
  ASSUME PromptInv, NEW s \in Creates, settlers[s].at \in {"new", "look", "acts"},
         createRecords[settlers[s].name] # NoCreate
  PROVE  /\ createRecords[settlers[s].name].of = s
         /\ createRecords[settlers[s].name].outcome \in {"none", "pending"}
<1>1. RecordTrue(s) /\ createRecords[settlers[s].name] \in CreateTypes
  BY CreateOfType DEF PromptInv
<1> QED
  BY <1>1, OwnRecord DEF RecordTrue, CreateTypes

(* The create is noted.                                                     *)
LEMMA NoteMoves ==
  ASSUME PromptInv, NEW s \in Creates, NotesCreate(s)
  PROVE  PromptInv'
<1>1. PICK n : n = settlers[s].name
  OBVIOUS
<1>2. PICK r : r = [settlers[s] EXCEPT !.at = "look"]
  OBVIOUS
<1>3. PICK c : c = [of |-> s, outcome |-> "pending", why |-> "none"]
  OBVIOUS
<1>4. settlers[s] \in SettlerTypes /\ n \in PromptNames /\ s \in Nat
  BY <1>1, CreateOfType DEF PromptInv
<1>5. r \in SettlerTypes /\ r.name = n /\ r.at = "look" /\ r.gone = settlers[s].gone
  BY <1>1, <1>2, <1>4 DEF SettlerTypes
<1>6. c \in CreateTypes /\ c.of = s /\ c.outcome = "pending"
  BY <1>3, <1>4 DEF CreateTypes
<1>7. /\ settlers[s].at = "new" /\ settlers' = [settlers EXCEPT ![s] = r]
      /\ createRecords' = [createRecords EXCEPT ![n] = c] /\ UNCHANGED <<firstEnv, spawned>>
  BY <1>1, <1>2, <1>3 DEF NotesCreate
<1>8. /\ createRecords' \in [PromptNames -> CreateTypes] /\ createRecords'[n] = c
      /\ \A m \in PromptNames : m # n => createRecords'[m] = createRecords[m]
  BY <1>4, <1>6, <1>7 DEF PromptInv, FirstTypes
<1>9. r.gone >= 1 => Away(s)
  BY <1>5 DEF PromptInv, SettlerTrue
<1>10. createRecords'[n] # NoCreate =>
          createRecords'[n].of = s /\ createRecords'[n].outcome \in {"none", "pending"}
  BY <1>6, <1>8
<1>11. settlers[s].at \in {"new", "look", "acts"} /\ r.at \in {"look", "acts"}
  BY <1>5, <1>7
<1> QED
  BY <1>1, <1>4, <1>5, <1>7, <1>8, <1>9, <1>10, <1>11, SettlerGoesOn

(* A look: it finds the session absent only when that is away.              *)
LEMMA LookMoves ==
  ASSUME PromptInv, NEW s \in Creates, Looks(s)
  PROVE  PromptInv'
<1>1. PICK n : n = settlers[s].name
  OBVIOUS
<1>2. /\ settlers[s].at = "look" /\ UNCHANGED <<firstEnv, spawned, createRecords>>
      /\ \E saw \in {Readiness(n), "nothing"} :
            Settler(s, [settlers[s] EXCEPT !.at = "acts", !.saw = saw, !.gone = GoneAfter(settlers[s], saw)])
  BY <1>1 DEF Looks
<1>3. PICK saw \in {Readiness(n), "nothing"} :
            Settler(s, [settlers[s] EXCEPT !.at = "acts", !.saw = saw, !.gone = GoneAfter(settlers[s], saw)])
  BY <1>2
<1>4. PICK gone : gone = GoneAfter(settlers[s], saw)
  OBVIOUS
<1>5. PICK r : r = [settlers[s] EXCEPT !.at = "acts", !.saw = saw, !.gone = gone]
  OBVIOUS
<1>6. settlers[s] \in SettlerTypes /\ n \in PromptNames
  BY <1>1, CreateOfType DEF PromptInv
<1>7. gone \in Nat /\ (gone >= 1 => saw = "absent")
  BY <1>4, <1>6 DEF GoneAfter, SettlerTypes
<1>8. saw \in Sightings /\ (saw = "absent" => Away(s))
  BY <1>1, <1>3, AbsentIsAway DEF Sightings
<1>9. r \in SettlerTypes /\ r.name = n /\ r.at = "acts" /\ r.gone = gone
  BY <1>1, <1>5, <1>6, <1>7, <1>8 DEF SettlerTypes
<1>10. settlers' = [settlers EXCEPT ![s] = r]
  BY <1>3, <1>4, <1>5 DEF Settler
<1>11. createRecords' \in [PromptNames -> CreateTypes]
  BY <1>2 DEF PromptInv, FirstTypes
<1>12. createRecords'[n] # NoCreate =>
          createRecords'[n].of = s /\ createRecords'[n].outcome \in {"none", "pending"}
  BY <1>1, <1>2, UnfinishedWaits
<1> QED
  BY <1>1, <1>2, <1>6, <1>7, <1>8, <1>9, <1>10, <1>11, <1>12, SettlerGoesOn

(* It was absent twice: the settler gives up.                               *)
LEMMA GiveUpMoves ==
  ASSUME PromptInv, NEW s \in Creates, SettlerGivesUp(s)
  PROVE  PromptInv'
<1>1. /\ settlers[s].at = "acts" /\ settlers[s].gone >= 2 /\ PromptEnds(s, "unknown")
      /\ UNCHANGED <<firstEnv, spawned>>
  BY DEF SettlerGivesUp, PromptEnds
<1>2. SettlerTrue(s) /\ settlers[s] \in SettlerTypes /\ spawned \in Seq(Spawns)
  BY CreateOfType DEF PromptInv, FirstTypes
<1>3. Away(s) /\ spawned[s].got \subseteq {s}
  BY <1>1, <1>2 DEF SettlerTrue, SettlerTypes
<1> QED
  BY <1>1, <1>2, <1>3, EndMoves

(* The settler waits, and notes for what.                                   *)
LEMMA WaitMoves ==
  ASSUME PromptInv, NEW s \in Creates, Waits(s)
  PROVE  PromptInv'
<1>1. PICK n : n = settlers[s].name
  OBVIOUS
<1>2. PICK saw : saw = settlers[s].saw
  OBVIOUS
<1>3. PICK said : said = IF saw = "nothing" THEN settlers[s].said ELSE saw
  OBVIOUS
<1>4. PICK r : r = [settlers[s] EXCEPT !.at = "look", !.said = said]
  OBVIOUS
<1>5. /\ settlers[s] \in SettlerTypes /\ n \in PromptNames /\ createRecords[n] \in CreateTypes
      /\ createRecords \in [PromptNames -> CreateTypes] /\ saw \in Sightings
  BY <1>1, <1>2, CreateOfType DEF PromptInv, FirstTypes, SettlerTypes
<1>6. said \in Sightings \cup {"none"}
  BY <1>2, <1>3, <1>5 DEF SettlerTypes
<1>7. r \in SettlerTypes /\ r.name = n /\ r.at = "look" /\ r.gone = settlers[s].gone
  BY <1>1, <1>4, <1>5, <1>6 DEF SettlerTypes
<1>8. /\ settlers[s].at = "acts" /\ UNCHANGED <<firstEnv, spawned>>
      /\ settlers' = [settlers EXCEPT ![s] = r]
      /\ createRecords' \in {createRecords, StillWaiting(n, saw)}
  BY <1>1, <1>2, <1>3, <1>4 DEF Waits, Settler
<1>9. r.gone >= 1 => Away(s)
  BY <1>7 DEF PromptInv, SettlerTrue
<1>10. createRecords[n] # NoCreate =>
          createRecords[n].of = s /\ createRecords[n].outcome \in {"none", "pending"}
  BY <1>1, <1>8, UnfinishedWaits
<1>11. /\ createRecords' \in [PromptNames -> CreateTypes]
       /\ \A m \in PromptNames : m # n => createRecords'[m] = createRecords[m]
       /\ createRecords'[n] # NoCreate =>
             createRecords'[n].of = s /\ createRecords'[n].outcome \in {"none", "pending"}
  <2>1. CASE createRecords' = createRecords
    BY <2>1, <1>5, <1>10
  <2>2. CASE createRecords' = StillWaiting(n, saw) /\ createRecords[n].outcome = "pending"
    <3>1. PICK c : c = [createRecords[n] EXCEPT !.why = saw]
      OBVIOUS
    <3>2. c \in CreateTypes /\ c.of = createRecords[n].of /\ c.outcome = createRecords[n].outcome
      BY <3>1, <1>5 DEF CreateTypes
    <3>3. createRecords' = [createRecords EXCEPT ![n] = c]
      BY <2>2, <3>1 DEF StillWaiting
    <3>4. createRecords[n] # NoCreate
      BY <2>2 DEF NoCreate
    <3> QED
      BY <1>5, <1>10, <3>2, <3>3, <3>4
  <2>3. CASE createRecords' = StillWaiting(n, saw) /\ createRecords[n].outcome # "pending"
    BY <2>3, <1>5, <1>10 DEF StillWaiting
  <2> QED
    BY <1>8, <2>1, <2>2, <2>3
<1> QED
  BY <1>1, <1>5, <1>7, <1>8, <1>9, <1>11, SettlerGoesOn

(* What a step does to the session under the settler's name.                *)
LEMMA OwnSession ==
  ASSUME PromptInv, NEW s \in Creates, NEW p \in Spawns, spawned' = [spawned EXCEPT ![s] = p]
  PROVE  /\ spawned' \in Seq(Spawns) /\ DOMAIN spawned' = DOMAIN spawned
         /\ spawned'[s] = p /\ \A t \in Creates : t # s => spawned'[t] = spawned[t]
<1>1. spawned \in Seq(Spawns) /\ s \in DOMAIN spawned
  BY DEF PromptInv, FirstTypes, Creates
<1> QED
  BY <1>1, OneReplaced DEF Creates

(* The settler goes on, and something happened to its session: it received  *)
(* nothing but its own prompt, and that only in a first send.               *)
LEMMA SettlerActs ==
  ASSUME PromptInv, NEW s \in Creates, settlers[s].at = "acts", UNCHANGED <<firstEnv, createRecords>>,
         NEW p \in Spawns, spawned' = [spawned EXCEPT ![s] = p], spawned[s].screen # "dead",
         p.name = spawned[s].name, p.there = spawned[s].there, p.got \subseteq {s},
         NEW r \in SettlerTypes, settlers' = [settlers EXCEPT ![s] = r], r.name = settlers[s].name,
         r.at \in {"look", "retry"}, r.gone = settlers[s].gone,
         r.at = "look" => p.got = spawned[s].got, r.at = "retry" => FirstMay("lost")
  PROVE  PromptInv'
<1>1. PICK n : n = settlers[s].name
  OBVIOUS
<1>2. /\ settlers[s] \in SettlerTypes /\ n \in PromptNames /\ s \in DOMAIN settlers
      /\ SettlerTrue(s) /\ settlers \in Seq(SettlerTypes)
  BY <1>1, CreateOfType DEF PromptInv, FirstTypes
<1>3. /\ spawned' \in Seq(Spawns) /\ DOMAIN spawned' = DOMAIN spawned
      /\ spawned'[s] = p /\ \A t \in Creates : t # s => spawned'[t] = spawned[t]
  BY OwnSession
<1>4. settlers'[s] = r
  BY <1>2
<1>5. Away(s) => Away(s)'
  BY <1>3, <1>4 DEF Away
<1>6. SettlerTrue(s)'
  BY <1>2, <1>3, <1>4, <1>5 DEF SettlerTrue, FirstMay
<1>7. createRecords[n] # NoCreate =>
         createRecords[n].of = s /\ createRecords[n].outcome \in {"none", "pending"}
  BY <1>1, UnfinishedWaits
<1>8. RecordTrue(s)'
  BY <1>1, <1>4, <1>7 DEF RecordTrue, NoCreate
<1>9. createRecords' \in [PromptNames -> CreateTypes]
  BY DEF PromptInv, FirstTypes
<1>10. createRecords'[n] # NoCreate => r.at # "new" /\ createRecords'[n].of = s
  BY <1>7
<1>11. \A m \in PromptNames : m # n => createRecords'[m] = createRecords[m]
  OBVIOUS
<1>12. /\ firstEnv' = firstEnv /\ settlers' = [settlers EXCEPT ![s] = r] /\ r.name = n
       /\ spawned'[s].name = spawned[s].name /\ spawned'[s].there = spawned[s].there
  BY <1>1, <1>3
<1> QED
  BY <1>1, <1>2, <1>3, <1>12, <1>6, <1>8, <1>9, <1>10, <1>11, OneCreateMoves

(* The boot question is answered.                                           *)
LEMMA ConsentMoves ==
  ASSUME PromptInv, NEW s \in Creates, Consents(s)
  PROVE  PromptInv'
<1>1. PICK r : r = [settlers[s] EXCEPT !.at = "look", !.answered = TRUE]
  OBVIOUS
<1>2. settlers[s] \in SettlerTypes /\ spawned[s] \in Spawns
  BY CreateOfType DEF PromptInv
<1>3. /\ r \in SettlerTypes /\ r.name = settlers[s].name /\ r.at = "look"
      /\ r.gone = settlers[s].gone
  BY <1>1, <1>2 DEF SettlerTypes
<1>4. /\ settlers[s].at = "acts" /\ UNCHANGED <<firstEnv, createRecords>>
      /\ settlers' = [settlers EXCEPT ![s] = r]
  BY <1>1 DEF Consents, Settler
<1>5. PICK there : there = {t \in UnderName(settlers[s].name) : spawned[t].screen = "question"}
  OBVIOUS
<1>6. spawned' = [t \in Creates |->
                    IF t \in there THEN [spawned[t] EXCEPT !.screen = "starting"] ELSE spawned[t]]
  BY <1>5 DEF Consents
<1>7. there \subseteq {s}
  BY <1>5, UnderOwnName
<1>8. CASE s \in there
  <2>1. PICK p : p = [spawned[s] EXCEPT !.screen = "starting"]
    OBVIOUS
  <2>2. /\ p \in Spawns /\ p.name = spawned[s].name /\ p.there = spawned[s].there
        /\ p.got = spawned[s].got
    BY <1>2, <2>1 DEF Spawns
  <2>3. spawned' = [spawned EXCEPT ![s] = p]
    BY <1>6, <1>7, <1>8, <2>1 DEF PromptInv, FirstTypes, Creates
  <2>4. spawned[s].screen # "dead" /\ p.got \subseteq {s}
    BY <1>5, <1>8, <2>2 DEF PromptInv, SettlerTrue
  <2> QED
    BY <1>3, <1>4, <2>2, <2>3, <2>4, SettlerActs
<1>9. CASE s \notin there
  <2>1. spawned' = spawned
    <3>1. spawned = [t \in Creates |-> spawned[t]]
      BY DEF PromptInv, FirstTypes, Creates
    <3> QED
      BY <1>6, <1>7, <1>9, <3>1
  <2>2. r.gone >= 1 => Away(s)
    BY <1>3 DEF PromptInv, SettlerTrue
  <2>3. /\ settlers[s].name \in PromptNames
        /\ createRecords' \in [PromptNames -> CreateTypes]
    BY <1>4, CreateOfType DEF PromptInv, FirstTypes
  <2>4. createRecords'[settlers[s].name] # NoCreate =>
           /\ createRecords'[settlers[s].name].of = s
           /\ createRecords'[settlers[s].name].outcome \in {"none", "pending"}
    BY <1>4, UnfinishedWaits
  <2> QED
    BY <1>3, <1>4, <2>1, <2>2, <2>3, <2>4, SettlerGoesOn
<1> QED
  BY <1>8, <1>9

(* The first send.                                                          *)
LEMMA SendMoves ==
  ASSUME PromptInv, NEW s \in Creates, Sends(s)
  PROVE  PromptInv'
<1>1. PICK there : there = UnderName(settlers[s].name)
  OBVIOUS
<1>2. /\ there \subseteq {s} /\ (there = {} => Away(s))
      /\ settlers[s].at = "acts" /\ firstEnv' = firstEnv
  BY <1>1, UnderOwnName DEF Sends, Away
<1>3. /\ spawned[s] \in Spawns /\ settlers[s] \in SettlerTypes /\ spawned \in Seq(Spawns) /\ s \in Nat
      /\ spawned[s].got \subseteq {s} /\ s \notin spawned[s].got
  BY <1>2, CreateOfType DEF PromptInv, FirstTypes, SettlerTrue
<1>4. \/ there = {} /\ PromptEnds(s, "unknown") /\ UNCHANGED spawned
      \/ PromptEnds(s, "refused") /\ UNCHANGED spawned
      \/ spawned[s].screen = "empty" /\ Receives(s, s) /\ PromptEnds(s, "queued")
      \/ /\ FirstMay("lost") /\ spawned[s].screen = "empty"
         /\ \/ spawned' = [spawned EXCEPT ![s].screen = "stranded"]
            \/ Receives(s, s)
         /\ Settler(s, [settlers[s] EXCEPT !.at = "retry"]) /\ UNCHANGED createRecords
  <2>1. \/ there = {} /\ PromptEnds(s, "unknown") /\ UNCHANGED spawned
        \/ \E t \in there : PromptEnds(s, "refused") /\ UNCHANGED spawned
        \/ \E t \in there : spawned[t].screen = "empty" /\ Receives(t, s) /\ PromptEnds(s, "queued")
        \/ \E t \in there :
              /\ FirstMay("lost") /\ spawned[t].screen = "empty"
              /\ \/ spawned' = [spawned EXCEPT ![t].screen = "stranded"]
                 \/ Receives(t, s)
              /\ Settler(s, [settlers[s] EXCEPT !.at = "retry"]) /\ UNCHANGED createRecords
    BY <1>1 DEF Sends
  <2>2. \A t \in there : t = s
    BY <1>2
  <2> QED
    BY <2>1, <2>2
<1>5. CASE there = {} /\ PromptEnds(s, "unknown") /\ UNCHANGED spawned
  BY <1>2, <1>3, <1>5, EndMoves
<1>6. CASE PromptEnds(s, "refused") /\ UNCHANGED spawned
  BY <1>2, <1>3, <1>6, EndMoves
<1>7. PICK p : p = [spawned[s] EXCEPT !.got = spawned[s].got \cup {s}]
  OBVIOUS
<1>8. /\ p \in Spawns /\ p.name = spawned[s].name /\ p.there = spawned[s].there
      /\ p.screen = spawned[s].screen /\ p.got = {s}
  BY <1>3, <1>7 DEF Spawns
<1>9. Receives(s, s) => spawned' = [spawned EXCEPT ![s] = p]
  BY <1>7 DEF Receives
<1>10. CASE spawned[s].screen = "empty" /\ Receives(s, s) /\ PromptEnds(s, "queued")
  <2>1. /\ spawned' \in Seq(Spawns) /\ DOMAIN spawned' = DOMAIN spawned
        /\ spawned'[s] = p /\ \A t \in Creates : t # s => spawned'[t] = spawned[t]
    BY <1>8, <1>9, <1>10, OwnSession
  <2> QED
    BY <1>2, <1>8, <1>10, <2>1, EndMoves
<1>11. CASE /\ FirstMay("lost") /\ spawned[s].screen = "empty"
            /\ spawned' = [spawned EXCEPT ![s].screen = "stranded"] \/ Receives(s, s)
            /\ Settler(s, [settlers[s] EXCEPT !.at = "retry"]) /\ UNCHANGED createRecords
  <2>1. PICK q : q = [spawned[s] EXCEPT !.screen = "stranded"]
    OBVIOUS
  <2>2. /\ q \in Spawns /\ q.name = spawned[s].name /\ q.there = spawned[s].there
        /\ q.got = spawned[s].got
    BY <1>3, <2>1 DEF Spawns
  <2>3. PICK o \in {p, q} : spawned' = [spawned EXCEPT ![s] = o]
    <3>1. CASE spawned' = [spawned EXCEPT ![s].screen = "stranded"]
      BY <3>1, <2>1
    <3>2. CASE Receives(s, s)
      BY <3>2, <1>9
    <3> QED
      BY <1>11, <3>1, <3>2
  <2>4. PICK r : r = [settlers[s] EXCEPT !.at = "retry"]
    OBVIOUS
  <2>5. /\ r \in SettlerTypes /\ r.name = settlers[s].name /\ r.at = "retry"
        /\ r.gone = settlers[s].gone /\ settlers' = [settlers EXCEPT ![s] = r]
    BY <1>3, <1>11, <2>4 DEF SettlerTypes, Settler
  <2>6. /\ o \in Spawns /\ o.name = spawned[s].name /\ o.there = spawned[s].there
        /\ o.got \subseteq {s}
    BY <1>3, <1>8, <2>2, <2>3
  <2> QED
    BY <1>2, <1>11, <2>3, <2>5, <2>6, SettlerActs
<1> QED
  BY <1>4, <1>5, <1>6, <1>10, <1>11

(* The one retry.                                                           *)
LEMMA RetryMoves ==
  ASSUME PromptInv, NEW s \in Creates, Retries(s)
  PROVE  PromptInv'
<1>1. PICK left : left = {t \in UnderName(settlers[s].name) : spawned[t].screen = "stranded"}
  OBVIOUS
<1>2. left \subseteq {s} /\ settlers[s].at = "retry" /\ firstEnv' = firstEnv
  BY <1>1, UnderOwnName DEF Retries
<1>3. /\ spawned[s] \in Spawns /\ spawned \in Seq(Spawns) /\ s \in Nat
      /\ spawned[s].got \subseteq {s} /\ FirstMay("lost")
  BY <1>2, CreateOfType DEF PromptInv, FirstTypes, SettlerTrue
<1>4. PICK p : p = [spawned[s] EXCEPT !.screen = "empty", !.got = spawned[s].got \cup {s}]
  OBVIOUS
<1>5. /\ p \in Spawns /\ p.name = spawned[s].name /\ p.there = spawned[s].there /\ p.got = {s}
  BY <1>3, <1>4 DEF Spawns
<1>6. \/ /\ spawned[s].screen = "stranded" /\ spawned' = [spawned EXCEPT ![s] = p]
         /\ PromptEnds(s, "queued") \/ PromptEnds(s, "unknown")
      \/ UNCHANGED spawned /\ PromptEnds(s, "unknown")
  <2>1. \/ \E t \in left :
             /\ spawned' = [spawned EXCEPT ![t].screen = "empty", ![t].got = @ \cup {s}]
             /\ PromptEnds(s, "queued")
        \/ \E t \in left :
             /\ PromptEnds(s, "unknown")
             /\ spawned' \in {spawned, [spawned EXCEPT ![t].screen = "empty", ![t].got = @ \cup {s}]}
        \/ PromptEnds(s, "unknown") /\ UNCHANGED spawned
    BY <1>1 DEF Retries
  <2>2. [spawned EXCEPT ![s].screen = "empty", ![s].got = @ \cup {s}] = [spawned EXCEPT ![s] = p]
    BY <1>3, <1>4 DEF Spawns, Creates
  <2>3. \A t \in left : t = s /\ spawned[s].screen = "stranded"
    BY <1>1, <1>2
  <2> QED
    BY <2>1, <2>2, <2>3
<1>7. CASE UNCHANGED spawned /\ PromptEnds(s, "unknown")
  BY <1>2, <1>3, <1>7, EndMoves
<1>8. CASE /\ spawned[s].screen = "stranded" /\ spawned' = [spawned EXCEPT ![s] = p]
           /\ PromptEnds(s, "queued") \/ PromptEnds(s, "unknown")
  <2>1. /\ spawned' \in Seq(Spawns) /\ DOMAIN spawned' = DOMAIN spawned
        /\ spawned'[s] = p /\ \A t \in Creates : t # s => spawned'[t] = spawned[t]
    BY <1>5, <1>8, OwnSession
  <2>2. CASE PromptEnds(s, "queued")
    BY <1>2, <1>5, <1>8, <2>1, <2>2, EndMoves
  <2>3. CASE PromptEnds(s, "unknown")
    BY <1>2, <1>3, <1>5, <1>8, <2>1, <2>3, EndMoves
  <2> QED
    BY <1>8, <2>2, <2>3
<1> QED
  BY <1>6, <1>7, <1>8

-----------------------------------------------------------------------------
(* FirstPrompt: the theorem                                                 *)

(* Every step keeps it.                                                     *)
LEMMA PromptInvStep ==
  ASSUME PromptInv, ~FirstMay("reuse"), [FirstNext]_firstVars
  PROVE  PromptInv'
<1>1. ASSUME NEW n \in PromptNames, Launches(n) PROVE PromptInv'
  BY <1>1, LaunchMoves
<1>2. ASSUME NEW n \in PromptNames, Forgets(n) PROVE PromptInv'
  BY <1>2, ForgetMoves
<1>3. ASSUME NEW s \in Creates, AsksFirst(s) PROVE PromptInv'
  <2>1. Screen(s, {"starting"}, "question")
    BY <1>3 DEF AsksFirst
  <2> QED
    BY <2>1, ScreenMoves
<1>4. ASSUME NEW s \in Creates, Paints(s) PROVE PromptInv'
  <2>1. Screen(s, {"starting", "question", "other"}, "empty")
    BY <1>4 DEF Paints
  <2> QED
    BY <2>1, ScreenMoves
<1>5. ASSUME NEW s \in Creates, Types(s) PROVE PromptInv'
  <2>1. Screen(s, {"empty"}, "other")
    BY <1>5 DEF Types
  <2> QED
    BY <2>1, ScreenMoves
<1>6. ASSUME NEW s \in Creates, AgentExits(s) PROVE PromptInv'
  <2>1. Screen(s, {"starting", "question", "other", "empty", "stranded"}, "dead")
    BY <1>6 DEF AgentExits
  <2> QED
    BY <2>1, ScreenMoves
<1>7. ASSUME NEW s \in Creates, IsClosed(s) PROVE PromptInv'
  BY <1>7, CloseMoves
<1>8. ASSUME NEW s \in Creates, NEW n \in PromptNames, IsRenamed(s, n) PROVE PromptInv'
  BY <1>8, RenameMoves
<1>9. ASSUME Restarts PROVE PromptInv'
  BY <1>9, RestartMoves
<1>10. ASSUME NEW s \in Creates, SettlerSteps(s) PROVE PromptInv'
  <2>1. CASE NotesCreate(s)
    BY <2>1, NoteMoves
  <2>2. CASE Looks(s)
    BY <2>2, LookMoves
  <2>3. CASE SettlerGivesUp(s)
    BY <2>3, GiveUpMoves
  <2>4. CASE Consents(s)
    BY <2>4, ConsentMoves
  <2>5. CASE Waits(s)
    BY <2>5, WaitMoves
  <2>6. CASE Sends(s)
    BY <2>6, SendMoves
  <2>7. CASE Retries(s)
    BY <2>7, RetryMoves
  <2> QED
    BY <1>10, <2>1, <2>2, <2>3, <2>4, <2>5, <2>6, <2>7 DEF SettlerSteps
<1>11. CASE UNCHANGED firstVars
  <2>1. spawned' \in Seq(Spawns) /\ NamesApart'
    BY <1>11 DEF PromptInv, FirstTypes, NamesApart, Creates, firstVars
  <2>2. \A t \in Creates : Away(t)' = Away(t)
    BY <1>11 DEF Away, firstVars
  <2> QED
    BY <1>11, <2>1, <2>2, WorldMoves DEF firstVars
<1> QED
  BY <1>1, <1>2, <1>3, <1>4, <1>5, <1>6, <1>7, <1>8, <1>9, <1>10, <1>11 DEF FirstNext

(* While no name is used again, what a listing shows of a session's first   *)
(* prompt is true, and the prompt reaches that session alone: whatever is   *)
(* renamed, closed, exits, restarts, is forgotten, or is lost on the way.   *)
THEOREM PromptsAreTold == FirstSpec => [](~FirstMay("reuse") => PromptIsTold)
<1>1. FirstInit => (~FirstMay("reuse") => PromptInv)
  <2> SUFFICES ASSUME FirstInit PROVE PromptInv
    OBVIOUS
  <2>1. /\ Creates = {} /\ spawned \in Seq(Spawns) /\ settlers \in Seq(SettlerTypes)
        /\ Len(settlers) = Len(spawned)
    BY EmptySeq DEF FirstInit, Creates
  <2>2. NoCreate \in CreateTypes
    BY DEF NoCreate, CreateTypes
  <2>3. FirstTypes
    BY <2>1, <2>2 DEF FirstInit, FirstTypes
  <2>4. NamesApart /\ RecordsAreOfCreates
    BY <2>1 DEF FirstInit, NamesApart, RecordsAreOfCreates
  <2> QED
    BY <2>1, <2>3, <2>4 DEF PromptInv
<1>2. (~FirstMay("reuse") => PromptInv) /\ [FirstNext]_firstVars => (~FirstMay("reuse") => PromptInv)'
  <2> SUFFICES ASSUME ~FirstMay("reuse") => PromptInv, [FirstNext]_firstVars, ~FirstMay("reuse")'
               PROVE  PromptInv'
    OBVIOUS
  <2>1. firstEnv' = firstEnv
    BY DEF FirstNext, firstVars, Launches, Forgets, AsksFirst, Paints, Types, AgentExits, Screen,
           IsClosed, IsRenamed, Restarts, SettlerSteps, NotesCreate, Looks, SettlerGivesUp, Consents,
           Waits, Sends, Retries
  <2>2. ~FirstMay("reuse")
    BY <2>1 DEF FirstMay
  <2> QED
    BY <2>2, PromptInvStep
<1>3. (~FirstMay("reuse") => PromptInv) => (~FirstMay("reuse") => PromptIsTold)
  BY PromptInvTells
<1> QED
  BY <1>1, <1>2, <1>3, PTL DEF FirstSpec
=============================================================================
