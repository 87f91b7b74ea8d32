----------------------------- MODULE ComposerLock ------------------------------
(***************************************************************************)
(* The lock of a session's composer (drivers/tmux/terminalpath2_lock.go).  *)
(* Send, Respond, Discard and Keys take it before they look for their      *)
(* session, so that two calls never type into one composer at a time;      *)
(* Escape takes none.  Locks are found by the name of the session, in a    *)
(* table that only grows; a rename makes the new name share the lock of    *)
(* the old one.  A call that waits gives up at its deadline, and the       *)
(* goroutine that waits for it then frees the lock as soon as it gets it.  *)
(* A respond asks the send that holds the lock to yield.                   *)
(***************************************************************************)
EXTENDS Naturals, Sequences

CONSTANTS
    LockNames,           \* the names of sessions
    LockEnvironments     \* what may happen to the sessions, a set of records

(***************************************************************************)
(*   may      a session ends ("end"); a new one takes the new name before  *)
(*            the rename ("taken"), or a name that was renamed ("reuse");  *)
(*            a rename goes to a name that has a lock already, or that     *)
(*            calls come for before it ("old"); a call meets its deadline  *)
(*            ("late"); a send sits before a dialog and is never confirmed *)
(*            ("stuck")                                                    *)
(*   kinds    the calls                                                    *)
(*   calls, renames, sessions   bounds                                     *)
(***************************************************************************)
ASSUME LockAssumption ==
    \A e \in LockEnvironments :
       /\ e.may \subseteq {"end", "taken", "reuse", "old", "late", "stuck"}
       /\ e.kinds \subseteq {"send", "respond", "discard", "keys", "escape"}
       /\ {e.calls, e.renames, e.sessions} \subseteq Nat

VARIABLES
    lockEnv,     \* the environment of this behaviour
    panes,       \* the pane of the session under each name, 0 is none
    opened,      \* panes so far
    locks,       \* composerLocks.locks: by name, 0 is none
    preempt,     \* composerLocks.preempt: the counter of a name
    minted,      \* locks and counters made so far
    held,        \* the locks that are taken, each with the call that has it
    calls,       \* the calls
    rename,      \* the rename under way
    renamed      \* the names that a rename has left, and how many there were

lockVars == <<lockEnv, panes, opened, locks, preempt, minted, held, calls, rename, renamed>>

LockMay(what) == what \in lockEnv.may
LockCalls == DOMAIN calls
NoRename == [at |-> "no", from |-> "", to |-> ""]

LockInit ==
    /\ lockEnv \in LockEnvironments
    /\ \E n \in LockNames : panes = [m \in LockNames |-> IF m = n THEN 1 ELSE 0]
    /\ opened = 1
    /\ locks = [n \in LockNames |-> 0] /\ preempt = locks /\ minted = 0
    /\ held = {} /\ calls = <<>> /\ rename = NoRename /\ renamed = [left |-> {}, count |-> 0]

-----------------------------------------------------------------------------
(* The sessions *)

SessionOpens ==
    \E n \in LockNames :
       /\ panes[n] = 0 /\ opened < lockEnv.sessions
       /\ n = rename.to => LockMay("taken")
       /\ n \in renamed.left => LockMay("reuse")
       /\ panes' = [panes EXCEPT ![n] = opened + 1] /\ opened' = opened + 1
       /\ UNCHANGED <<lockEnv, locks, preempt, minted, held, calls, rename, renamed>>

SessionCloses ==
    \E n \in LockNames :
       /\ panes[n] # 0 /\ LockMay("end")
       /\ panes' = [panes EXCEPT ![n] = 0]
       /\ UNCHANGED <<lockEnv, opened, locks, preempt, minted, held, calls, rename, renamed>>

-----------------------------------------------------------------------------
(* The table *)

\* Mutant: the new name gets a lock of its own.
FreshAlias(table, from, to, fresh) == [table EXCEPT ![from] = IF @ = 0 THEN fresh ELSE @]

\* aliasComposerLock: the new name shares what the old one has, made if need be.
Aliased(table, from, to, fresh) ==
    LET l == IF table[from] = 0 THEN fresh ELSE table[from]
    IN [table EXCEPT ![from] = l, ![to] = l]

Found(table, n) == IF table[n] = 0 THEN minted + 1 ELSE table[n]
Kept(table, n) == [table EXCEPT ![n] = Found(table, n)]
MintedFor(table, n) == IF table[n] = 0 THEN minted + 1 ELSE minted

\* Rename, once it has seen that its session is there and the other name is free.
RenameChecks ==
    \E n, m \in LockNames :
       /\ rename = NoRename /\ renamed.count < lockEnv.renames
       /\ n # m /\ panes[n] # 0 /\ panes[m] = 0
       /\ locks[m] # 0 \/ (\E i \in LockCalls : calls[i].name = m) => LockMay("old")
       /\ rename' = [at |-> "alias", from |-> n, to |-> m]
       /\ renamed' = [renamed EXCEPT !.count = @ + 1]
       /\ UNCHANGED <<lockEnv, panes, opened, locks, preempt, minted, held, calls>>

RenameAliases ==
    /\ rename.at = "alias"
    /\ locks' = Aliased(locks, rename.from, rename.to, minted + 1)
    /\ preempt' = Aliased(preempt, rename.from, rename.to, minted + 2)
    /\ minted' = minted + 2
    /\ rename' = [rename EXCEPT !.at = "move"]
    /\ UNCHANGED <<lockEnv, panes, opened, held, calls, renamed>>

\* The runtime renames, unless the session is gone or the name is taken by now.
RenameMovesLock ==
    LET n == rename.from m == rename.to
    IN /\ rename.at = "move"
       /\ IF panes[n] # 0 /\ panes[m] = 0
          THEN /\ panes' = [panes EXCEPT ![n] = 0, ![m] = panes[n]]
               /\ renamed' = [renamed EXCEPT !.left = @ \cup {n}]
          ELSE UNCHANGED <<panes, renamed>>
       /\ rename' = NoRename
       /\ UNCHANGED <<lockEnv, opened, locks, preempt, minted, held, calls>>

-----------------------------------------------------------------------------
(* A call *)

CallTo(i, pc) == calls' = [calls EXCEPT ![i].pc = pc]
WaitsFirst(kind) == IF kind = "respond" THEN "preempt" ELSE IF kind = "escape" THEN "look" ELSE "ask"

CallStarts ==
    \E kind \in lockEnv.kinds, n \in LockNames :
       /\ Len(calls) < lockEnv.calls
       /\ panes[n] # 0 \/ n \in renamed.left \/ LockMay("old")
       /\ calls' = Append(calls, [kind |-> kind, name |-> n, pc |-> WaitsFirst(kind),
                                  lock |-> 0, counter |-> 0, pane |-> 0])
       /\ UNCHANGED <<lockEnv, panes, opened, locks, preempt, minted, held, rename, renamed>>

\* lockComposerPreempting counts itself first.
AskToYield ==
    \E i \in LockCalls :
       LET n == calls[i].name
       IN /\ calls[i].pc = "preempt"
          /\ preempt' = Kept(preempt, n) /\ minted' = MintedFor(preempt, n)
          /\ calls' = [calls EXCEPT ![i] = [@ EXCEPT !.pc = "ask", !.counter = Found(preempt, n)]]
          /\ UNCHANGED <<lockEnv, panes, opened, locks, held, rename, renamed>>

\* lockComposerOpsCtx finds the lock, and then tries it.
FindLock ==
    \E i \in LockCalls :
       LET n == calls[i].name
       IN /\ calls[i].pc = "ask"
          /\ locks' = Kept(locks, n) /\ minted' = MintedFor(locks, n)
          /\ calls' = [calls EXCEPT ![i] = [@ EXCEPT !.pc = "try", !.lock = Found(locks, n)]]
          /\ UNCHANGED <<lockEnv, panes, opened, preempt, held, rename, renamed>>

IsHeld(l) == \E h \in held : h[1] = l

\* A respond that has the lock no longer asks anyone to yield.
Takes(i, pc) ==
    /\ ~IsHeld(calls[i].lock)
    /\ held' = held \cup {<<calls[i].lock, i>>}
    /\ calls' = [calls EXCEPT ![i] = [@ EXCEPT !.pc = pc, !.counter = 0]]

TryLock ==
    \E i \in LockCalls :
       /\ calls[i].pc = "try"
       /\ Takes(i, "look") \/ (IsHeld(calls[i].lock) /\ CallTo(i, "wait") /\ UNCHANGED held)
       /\ UNCHANGED <<lockEnv, panes, opened, locks, preempt, minted, rename, renamed>>

WaiterGetsLock ==
    \E i \in LockCalls :
       /\ calls[i].pc = "wait" /\ Takes(i, "look")
       /\ UNCHANGED <<lockEnv, panes, opened, locks, preempt, minted, rename, renamed>>

\* The call is refused; the goroutine that waits for its lock goes on waiting.
Deadline ==
    \E i \in LockCalls :
       /\ calls[i].pc = "wait" /\ LockMay("late")
       /\ calls' = [calls EXCEPT ![i] = [@ EXCEPT !.pc = "left", !.counter = 0]]
       /\ UNCHANGED <<lockEnv, panes, opened, locks, preempt, minted, held, rename, renamed>>

LeftGetsLock ==
    \E i \in LockCalls :
       /\ calls[i].pc = "left" /\ Takes(i, "free")
       /\ UNCHANGED <<lockEnv, panes, opened, locks, preempt, minted, rename, renamed>>

Frees(i) == held' = {h \in held : h[2] # i}

Unlock ==
    \E i \in LockCalls :
       /\ calls[i].pc = "free" /\ Frees(i) /\ CallTo(i, "done")
       /\ UNCHANGED <<lockEnv, panes, opened, locks, preempt, minted, rename, renamed>>

\* Only now does it look for its session, by the name that it was given.
LookForSession ==
    \E i \in LockCalls :
       LET pane == panes[calls[i].name]
       IN /\ calls[i].pc = "look"
          /\ calls' = [calls EXCEPT ![i] = [@ EXCEPT !.pane = pane, !.pc =
                IF pane = 0 THEN "free" ELSE IF calls[i].kind = "send" THEN "confirm" ELSE "type"]]
          /\ UNCHANGED <<lockEnv, panes, opened, locks, preempt, minted, held, rename, renamed>>

TypeIntoComposer ==
    \E i \in LockCalls :
       /\ calls[i].pc = "type" /\ CallTo(i, "free")
       /\ UNCHANGED <<lockEnv, panes, opened, locks, preempt, minted, held, rename, renamed>>

\* confirmLandedV2 sees the paste on the screen.
SendConfirmed ==
    \E i \in LockCalls :
       /\ calls[i].pc = "confirm" /\ ~LockMay("stuck") /\ CallTo(i, "type")
       /\ UNCHANGED <<lockEnv, panes, opened, locks, preempt, minted, held, rename, renamed>>

\* Mutant: the counter of the call's own lock is looked at.
OwnCounter(i) == \E j \in LockCalls : calls[j].counter # 0 /\ calls[j].counter = calls[i].lock

\* preempted: somebody counts on the counter that the name has by now.
Preempted(i) ==
    \E j \in LockCalls : calls[j].counter # 0 /\ calls[j].counter = preempt[calls[i].name]

SendYields ==
    \E i \in LockCalls :
       /\ calls[i].pc = "confirm" /\ Preempted(i) /\ CallTo(i, "free")
       /\ UNCHANGED <<lockEnv, panes, opened, locks, preempt, minted, held, rename, renamed>>

CallStep ==
    \/ AskToYield \/ FindLock \/ TryLock \/ LookForSession \/ TypeIntoComposer
    \/ SendConfirmed \/ SendYields \/ Unlock

LockNext ==
    \/ SessionOpens \/ SessionCloses
    \/ RenameChecks \/ RenameAliases \/ RenameMovesLock
    \/ CallStarts \/ CallStep \/ WaiterGetsLock \/ Deadline \/ LeftGetsLock

LockSpec == LockInit /\ [][LockNext]_lockVars

\* A call goes on, and a free mutex is given to one that waits for it.
LockFairSpec ==
    LockSpec /\ WF_lockVars(CallStep) /\ WF_lockVars(WaiterGetsLock) /\ WF_lockVars(LeftGetsLock)

-----------------------------------------------------------------------------
(* A name that a rename gives to a session is a new one: it has no lock yet, and      *)
(* nobody comes for it or takes it before the rename is done.                         *)
NewNames == ~LockMay("old") /\ ~LockMay("taken")

(* What a call has with it; a pane that was seen stays the session's until it ends.   *)
CallRecords ==
    [kind : {"send", "respond", "discard", "keys", "escape"}, name : LockNames,
     pc : {"preempt", "ask", "try", "wait", "look", "confirm", "type", "left", "free", "done"},
     lock : Nat, counter : Nat, pane : Nat]
RenameRecords == [at : {"alias", "move"}, from : LockNames, to : LockNames]

SessionTypes == panes \in [LockNames -> Nat] /\ opened \in Nat
TableTypes == locks \in [LockNames -> Nat] /\ preempt \in [LockNames -> Nat] /\ minted \in Nat
CallTypes == calls \in Seq(CallRecords) /\ held \subseteq Nat \X Nat
RenameTypes ==
    /\ rename = NoRename \/ rename \in RenameRecords
    /\ renamed \in [left : SUBSET LockNames, count : Nat]

LockTypes ==
    lockEnv \in LockEnvironments /\ SessionTypes /\ TableTypes /\ CallTypes /\ RenameTypes

(* Each pane has one name. *)
PanesApart ==
    /\ \A n \in LockNames : panes[n] <= opened
    /\ \A n, m \in LockNames : n # m /\ panes[n] = panes[m] => panes[n] = 0

(* A mutex has one holder, and whoever is past the wait is that holder. *)
LocksAreHeld ==
    /\ \A l \in Nat, i, j \in LockCalls : <<l, i>> \in held /\ <<l, j>> \in held => i = j
    /\ held \subseteq Nat \X LockCalls
    /\ \A i \in LockCalls :
          /\ calls[i].kind # "escape" /\ calls[i].pc \in {"look", "confirm", "type"}
          => calls[i].lock # 0 /\ <<calls[i].lock, i>> \in held
    /\ \A i \in LockCalls : calls[i].pc \in {"try", "wait", "left"} => calls[i].lock # 0

(* The lock a call has found stays the lock of the name it came for. *)
LocksStay == \A i \in LockCalls : calls[i].lock # 0 => locks[calls[i].name] = calls[i].lock

(* The calls that may type into a pane. *)
Inside(i) == calls[i].kind # "escape" /\ calls[i].pc \in {"confirm", "type"}

(* One that is inside a pane has the lock of whatever name the pane has by now, and   *)
(* two that are inside one pane have one lock.                                        *)
InsideHaveTheLock ==
    \A i \in LockCalls :
       Inside(i) =>
          /\ calls[i].pane # 0 /\ calls[i].pane <= opened
          /\ \A n \in LockNames : panes[n] = calls[i].pane => locks[n] = calls[i].lock
          /\ \A j \in LockCalls :
                Inside(j) /\ calls[j].pane = calls[i].pane => calls[j].lock = calls[i].lock

(* The new name of a rename is unknown until it shares the lock of the old one. *)
RenamesShare ==
    /\ rename.at = "alias" =>
          /\ locks[rename.to] = 0 /\ rename.from # rename.to
          /\ \A i \in LockCalls : calls[i].name # rename.to
    /\ rename.at = "move" => locks[rename.to] = locks[rename.from] /\ locks[rename.to] # 0
    /\ rename # NoRename => panes[rename.to] = 0
    /\ \A n \in renamed.left : locks[n] # 0

ComposerInvariant ==
    PanesApart /\ LocksAreHeld /\ LocksStay /\ InsideHaveTheLock /\ RenamesShare

(* Two calls are never in one composer at a time, under whatever names they came for  *)
(* it; only Escape may be.                                                            *)
OnePerComposer ==
    NewNames =>
    \A i, j \in LockCalls :
       /\ i # j /\ calls[i].pane = calls[j].pane
       /\ {calls[i].pc, calls[j].pc} \subseteq {"confirm", "type"}
       => "escape" \in {calls[i].kind, calls[j].kind}

(* A respond does not wait for ever for a send that is stuck before the very dialog   *)
(* the respond is for, and no lock is kept by a call that is over.                    *)
RespondGetsThrough ==
    []<>(\A i \in LockCalls : calls[i].kind = "respond" => calls[i].pc \in {"left", "done"})
=============================================================================
