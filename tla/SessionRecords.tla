----------------------------- MODULE SessionRecords ----------------------------
(***************************************************************************)
(* The tmux driver's record of the sessions (drivers/tmux/reconcile.go):   *)
(* which run the runtime had under each name at the last listing, the name *)
(* that a create or a rename asserted for it, and the marker its create    *)
(* carried.  A listing that finds a run under another name puts the        *)
(* asserted one back, twice at most.                                       *)
(*                                                                         *)
(* Every operation loads the whole record, changes it and saves it, and    *)
(* nothing is locked in between.                                           *)
(***************************************************************************)
EXTENDS Naturals, FiniteSets, Functions, TLC

CONSTANTS
    RecordNames,           \* the names of sessions
    RecordEnvironments     \* what may happen to the sessions, a set of records

(***************************************************************************)
(*   may      another program renames a session ("revert") or starts one   *)
(*            ("reuse"), acts while a request is under way ("meanwhile"),  *)
(*            or while the service is down ("down"); a session that a      *)
(*            create made ends or is renamed, or one that another program  *)
(*            renamed is renamed by a request, before the next listing has *)
(*            found it ("early"); a create or a rename takes a name that   *)
(*            still has the record of another run ("again"); the service   *)
(*            stops between requests ("stop") or at any time ("crash")     *)
(*   slots    requests under way at a time                                 *)
(*   starts, renames, moves, stops   bounds: sessions, renames asked for,  *)
(*            renames by others, stops of the service                      *)
(***************************************************************************)
ASSUME RecordAssumption ==
    \A e \in RecordEnvironments :
       /\ e.may \subseteq {"revert", "reuse", "meanwhile", "down", "early", "again", "stop", "crash"}
       /\ e.slots \in Nat \ {0}
       /\ {e.starts, e.renames, e.moves, e.stops} \subseteq Nat

VARIABLES
    recordEnv,   \* the environment of this behaviour
    bears,       \* the run that the runtime has under each name, 0 is none
    began,       \* runs so far
    records,     \* the file: a record for some of the names
    tasks,       \* the requests under way
    asserted,    \* the name and the marker that the last answered request asserted of a run
    repairs,     \* how often its name was put back since
    serving,     \* the service runs and has reconciled
    used         \* renames, moves and stops so far

recordVars == <<recordEnv, bears, began, records, tasks, asserted, repairs, serving, used>>

maxNameReasserts == 2
RecordMay(what) == what \in recordEnv.may
Slots == 1 .. recordEnv.slots
NoTask == [op |-> "none"]
AllDone == \A s \in Slots : tasks[s] = NoTask
RunsOf == 1 .. began
NoAssertion == [want |-> "", mark |-> FALSE]
\* The zero record.
NoRecord == [born |-> 0, pane |-> FALSE, want |-> "", mark |-> FALSE, tries |-> 0]
Within(bound, counter) == used[counter] < bound
Counted(counter) == used' = [used EXCEPT ![counter] = @ + 1]
\* The name has the record of another run.
Taken(n, run) == n \in DOMAIN records /\ records[n].born # run
\* A create's record that no listing has matched.
Stub(n) == n \in DOMAIN records /\ records[n].born = 0

RecordInit ==
    /\ recordEnv \in RecordEnvironments
    /\ bears = [n \in RecordNames |-> 0] /\ began = 0
    /\ records = <<>>
    /\ tasks = [s \in Slots |-> NoTask]
    /\ asserted = <<>> /\ repairs = <<>>
    /\ serving = TRUE
    /\ used = [renames |-> 0, moves |-> 0, stops |-> 0]

\* The runtime renames whatever it has under a name, unless the other name is taken.
CanMove(n, m) == bears[n] # 0 /\ bears[m] = 0
Moved(n, m) == [bears EXCEPT ![n] = 0, ![m] = bears[n]]
To(s, fields) == tasks' = [tasks EXCEPT ![s] = fields @@ tasks[s]]
Ready(s, op, pc) == tasks[s].op = op /\ tasks[s].pc = pc
Finished(s) == tasks' = [tasks EXCEPT ![s] = NoTask]

-----------------------------------------------------------------------------
(* The runtime and the other programs of the machine *)

OthersMayAct ==
    IF serving THEN AllDone \/ RecordMay("meanwhile") ELSE RecordMay("down") /\ AllDone

RecordedEnds ==
    \E n \in RecordNames :
       /\ OthersMayAct /\ bears[n] # 0
       /\ Stub(n) => RecordMay("early")
       /\ bears' = [bears EXCEPT ![n] = 0]
       /\ UNCHANGED <<recordEnv, began, records, tasks, asserted, repairs, serving, used>>

OtherStarts ==
    \E n \in RecordNames :
       /\ RecordMay("reuse") /\ OthersMayAct
       /\ bears[n] = 0 /\ began < recordEnv.starts
       /\ bears' = [bears EXCEPT ![n] = began + 1] /\ began' = began + 1
       /\ asserted' = asserted @@ (began + 1 :> NoAssertion)
       /\ repairs' = repairs @@ (began + 1 :> 0)
       /\ UNCHANGED <<recordEnv, records, tasks, serving, used>>

OtherRenames ==
    \E n, m \in RecordNames :
       /\ RecordMay("revert") /\ OthersMayAct
       /\ CanMove(n, m) /\ Within(recordEnv.moves, "moves")
       /\ Stub(n) => RecordMay("early")
       /\ Taken(m, bears[n]) => RecordMay("again")
       /\ bears' = Moved(n, m) /\ Counted("moves")
       /\ UNCHANGED <<recordEnv, began, records, tasks, asserted, repairs, serving>>

-----------------------------------------------------------------------------
(* A create and a rename *)

CreateStarts ==
    \E s \in Slots, n \in RecordNames, m \in BOOLEAN :
       /\ serving /\ tasks[s] = NoTask
       /\ bears[n] = 0 /\ began < recordEnv.starts
       /\ Taken(n, 0) => RecordMay("again")
       /\ bears' = [bears EXCEPT ![n] = began + 1] /\ began' = began + 1
       /\ asserted' = asserted @@ (began + 1 :> NoAssertion)
       /\ repairs' = repairs @@ (began + 1 :> 0)
       /\ tasks' = [tasks EXCEPT ![s] = [op |-> "create", pc |-> "load", to |-> n,
                                         run |-> began + 1, mark |-> m]]
       /\ UNCHANGED <<recordEnv, records, serving, used>>

\* noteAssertedName: what the record holds under the name already is kept.
Named(recs, n, mark) ==
    LET rec == IF n \in DOMAIN recs THEN recs[n] ELSE NoRecord
    IN (n :> [rec EXCEPT !.want = n, !.mark = mark, !.tries = 0]) @@ recs

\* Rename: what it enumerated, and the checks on it.
RenameStarts ==
    \E s \in Slots, n, m \in RecordNames :
       /\ serving /\ tasks[s] = NoTask
       /\ n # m /\ bears[n] # 0 /\ bears[m] = 0
       /\ (n \in DOMAIN records /\ records[n].born = bears[n]) \/ RecordMay("early")
       /\ Taken(m, bears[n]) => RecordMay("again")
       /\ Within(recordEnv.renames, "renames") /\ Counted("renames")
       /\ tasks' = [tasks EXCEPT ![s] = [op |-> "rename", pc |-> "move", from |-> n, to |-> m,
                                         run |-> bears[n]]]
       /\ UNCHANGED <<recordEnv, bears, began, records, asserted, repairs, serving>>

RenameMoves ==
    \E s \in Slots :
       /\ Ready(s, "rename", "move")
       /\ LET t == tasks[s]
          IN IF CanMove(t.from, t.to)
             THEN bears' = Moved(t.from, t.to) /\ To(s, [pc |-> "load"])
             ELSE UNCHANGED bears /\ Finished(s)
       /\ UNCHANGED <<recordEnv, began, records, asserted, repairs, serving, used>>

\* Mutant: the record does not follow the run.
RenamedStays(recs, t) == Named(recs, t.to, FALSE)

\* noteRenamed: the record moves with the run, which it now describes.
Renamed(recs, t) ==
    LET rec == IF t.from \in DOMAIN recs THEN recs[t.from] ELSE NoRecord
    IN (t.to :> [rec EXCEPT !.born = t.run, !.pane = TRUE, !.want = t.to, !.tries = 0])
         @@ Restrict(recs, DOMAIN recs \ {t.from})

\* Both load the file, and then save it with their change.
AssertionLoads ==
    \E s \in Slots :
       /\ tasks[s].op \in {"create", "rename"} /\ tasks[s].pc = "load"
       /\ To(s, [pc |-> "save", prior |-> records])
       /\ UNCHANGED <<recordEnv, bears, began, records, asserted, repairs, serving, used>>

AssertionSaves ==
    \E s \in Slots :
       LET t == tasks[s]
       IN /\ t.op \in {"create", "rename"} /\ t.pc = "save"
          /\ records' = (IF t.op = "create" THEN Named(t.prior, t.to, t.mark)
                         ELSE Renamed(t.prior, t))
          /\ asserted' = [asserted EXCEPT ![t.run] =
                            [want |-> t.to, mark |-> IF t.op = "create" THEN t.mark ELSE @.mark]]
          /\ repairs' = [repairs EXCEPT ![t.run] = 0]
          /\ Finished(s)
          /\ UNCHANGED <<recordEnv, bears, began, serving, used>>

-----------------------------------------------------------------------------
(* A listing *)

\* indexByPaneCreated: of two records of one run the map keeps either.
RecordsOf(recs, run) == {rec \in {recs[n] : n \in DOMAIN recs} : rec.pane /\ rec.born = run}

\* Mutant: a session is recognised by its name alone.
KeptByName(rows, prior, n) ==
    IF n \in DOMAIN prior THEN {[prior[n] EXCEPT !.born = rows[n], !.pane = TRUE]}
    ELSE {[NoRecord EXCEPT !.born = rows[n], !.pane = TRUE]}

\* noteSessionSet: the record of one row.
RecordKept(rows, prior, n) ==
    LET run == rows[n]
        fresh == [NoRecord EXCEPT !.born = run, !.pane = TRUE]
    IN CASE n \in DOMAIN prior /\ prior[n].born \in {0, run} ->
              {[prior[n] EXCEPT !.born = run, !.pane = TRUE]}
         [] n \in DOMAIN prior /\ prior[n].born \notin {0, run} -> {fresh}
         [] OTHER -> IF RecordsOf(prior, run) # {} THEN RecordsOf(prior, run) ELSE {fresh}

InRows(rows) == {n \in RecordNames : rows[n] # 0}

\* identityDrift: the runs under another name than the one asserted.
Drifts(rows, prior, n) ==
    {rec \in RecordsOf(prior, rows[n]) : rec.want # "" /\ rec.want # n}

\* identityAssertionFor and markerFor: what the answer says of the run under a name.
Claims(rows, prior, n) ==
    LET stub == n \in DOMAIN prior /\ ~prior[n].pane
        marked == stub /\ prior[n].born \in {0, rows[n]}
    IN IF RecordsOf(prior, rows[n]) # {}
       THEN {[want |-> rec.want, mark |-> rec.mark] : rec \in RecordsOf(prior, rows[n])}
       ELSE {[want |-> IF stub THEN prior[n].want ELSE "", mark |-> marked /\ prior[n].mark]}

ListStarts ==
    \E s \in Slots :
       /\ serving /\ tasks[s] = NoTask
       /\ tasks' = [tasks EXCEPT ![s] = [op |-> "list", pc |-> "read", boot |-> FALSE,
                                         rows |-> bears]]
       /\ UNCHANGED <<recordEnv, bears, began, records, asserted, repairs, serving, used>>

\* loadRecords, and the drift that it shows.
ListReads ==
    \E s \in Slots :
       /\ Ready(s, "list", "read")
       /\ LET rows == tasks[s].rows
              drifted == {n \in InRows(rows) : Drifts(rows, records, n) # {}}
          IN \E d \in [drifted -> UNION {Drifts(rows, records, n) : n \in drifted}] :
                /\ \A n \in drifted : d[n] \in Drifts(rows, records, n)
                /\ To(s, [pc |-> "keep", prior |-> records, todo |-> d])
       /\ UNCHANGED <<recordEnv, bears, began, records, asserted, repairs, serving, used>>

\* noteSessionSet saves only what differs from what was loaded.
ListKeeps ==
    \E s \in Slots :
       LET t == tasks[s]
           names == InRows(t.rows)
       IN /\ Ready(s, "list", "keep")
          /\ \E next \in [names -> UNION {RecordKept(t.rows, t.prior, n) : n \in names}] :
                /\ \A n \in names : next[n] \in RecordKept(t.rows, t.prior, n)
                /\ records' = IF next = t.prior THEN records ELSE next
          /\ To(s, [pc |-> "status"])
          /\ UNCHANGED <<recordEnv, bears, began, asserted, repairs, serving, used>>

\* noteStatuses: it saves all that it loaded if a status has changed.
ListLoadsStatuses ==
    \E s \in Slots :
       /\ Ready(s, "list", "status")
       /\ To(s, [pc |-> "stamp", prior |-> records])
       /\ UNCHANGED <<recordEnv, bears, began, records, asserted, repairs, serving, used>>

ListStampsStatuses ==
    \E s \in Slots :
       /\ Ready(s, "list", "stamp")
       /\ records' \in {records, tasks[s].prior}
       /\ To(s, [pc |-> "repair", prior |-> <<>>])
       /\ UNCHANGED <<recordEnv, bears, began, asserted, repairs, serving, used>>

\* reassertNames, for one of the runs that it found under another name.
ListRepairs ==
    \E s \in Slots :
       LET t == tasks[s]
       IN /\ Ready(s, "list", "repair")
          /\ \E n \in DOMAIN t.todo :
                LET rec == t.todo[n]
                    rest == Restrict(t.todo, DOMAIN t.todo \ {n})
                    Then(how) == To(s, [pc |-> "note", todo |-> rest, key |-> n, rec |-> rec,
                                        how |-> how])
                IN \/ /\ t.rows[rec.want] # 0
                      /\ Then("contested") /\ UNCHANGED <<bears, repairs>>
                   \/ /\ t.rows[rec.want] = 0 /\ rec.tries >= maxNameReasserts
                      /\ To(s, [todo |-> rest]) /\ UNCHANGED <<bears, repairs>>
                   \/ /\ t.rows[rec.want] = 0 /\ rec.tries < maxNameReasserts
                      /\ IF CanMove(n, rec.want)
                         THEN /\ bears' = Moved(n, rec.want) /\ Then("moved")
                              /\ repairs' = [repairs EXCEPT ![bears[n]] = @ + 1]
                         ELSE Then("failed") /\ UNCHANGED <<bears, repairs>>
          /\ UNCHANGED <<recordEnv, began, records, asserted, serving, used>>

\* Mutant: an attempt that succeeds is not counted.
AttemptedFree(recs, t) ==
    LET cur == IF t.key \in DOMAIN recs THEN recs[t.key] ELSE t.rec
    IN (cur.want :> cur) @@ Restrict(recs, DOMAIN recs \ {t.key})

\* Mutant: one attempt is all there is.
AttemptedOnce(recs, t) ==
    LET cur == IF t.key \in DOMAIN recs THEN recs[t.key] ELSE t.rec
        spent == [cur EXCEPT !.tries = maxNameReasserts]
    IN (cur.want :> spent) @@ Restrict(recs, DOMAIN recs \ {t.key})

\* recordReassertAttempt and recordContested
Attempted(recs, t) ==
    LET cur == IF t.key \in DOMAIN recs THEN recs[t.key] ELSE t.rec
        spent == [cur EXCEPT !.tries = IF t.how = "contested" THEN maxNameReasserts ELSE @ + 1]
    IN IF t.how = "moved" THEN (cur.want :> spent) @@ Restrict(recs, DOMAIN recs \ {t.key})
       ELSE (t.key :> spent) @@ recs

RepairLoads ==
    \E s \in Slots :
       /\ Ready(s, "list", "note")
       /\ To(s, [pc |-> "noted", prior |-> records])
       /\ UNCHANGED <<recordEnv, bears, began, records, asserted, repairs, serving, used>>

RepairSaves ==
    \E s \in Slots :
       /\ Ready(s, "list", "noted")
       /\ records' = Attempted(tasks[s].prior, tasks[s])
       /\ tasks' = [tasks EXCEPT ![s] = [f \in DOMAIN @ \ {"key", "rec", "how"} |->
                                           IF f = "pc" THEN "repair"
                                           ELSE IF f = "prior" THEN <<>> ELSE @[f]]]
       /\ UNCHANGED <<recordEnv, bears, began, asserted, repairs, serving, used>>

ListEnds ==
    \E s \in Slots :
       /\ Ready(s, "list", "repair") /\ tasks[s].todo = <<>> /\ ~tasks[s].boot
       /\ Finished(s)
       /\ UNCHANGED <<recordEnv, bears, began, records, asserted, repairs, serving, used>>

-----------------------------------------------------------------------------
(* A stop of the service, and the reconciliation before it serves again *)

\* Every run is matched with its record, and under the name asserted.
RecordsSettled ==
    \A n \in InRows(bears) :
       /\ n \in DOMAIN records /\ records[n].born = bears[n]
       /\ records[n].want \in {"", n}

ServiceStops ==
    /\ serving /\ Within(recordEnv.stops, "stops") /\ Counted("stops")
    /\ RecordMay("crash") \/ (RecordMay("stop") /\ AllDone /\ RecordsSettled)
    /\ tasks' = [s \in Slots |-> NoTask]
    /\ serving' = FALSE
    /\ UNCHANGED <<recordEnv, bears, began, records, asserted, repairs>>

\* Reconcile reads what was remembered, and then lists.
ReconcileStarts ==
    /\ ~serving /\ AllDone
    /\ tasks' = [tasks EXCEPT ![1] = [op |-> "list", pc |-> "read", boot |-> TRUE,
                                      rows |-> bears, first |-> records]]
    /\ UNCHANGED <<recordEnv, bears, began, records, asserted, repairs, serving, used>>

\* A run is adopted if its name and its start are those remembered.
Seen(prior, n, run) ==
    IF n \in DOMAIN prior /\ prior[n].born = run THEN prior[n] ELSE [NoRecord EXCEPT !.born = run]

\* It asks for the start of every session again, and saves what it adopts and finds.
Reconciles ==
    LET t == tasks[1]
    IN /\ Ready(1, "list", "repair") /\ t.todo = <<>> /\ t.boot
       /\ records' = [n \in InRows(t.rows) |-> Seen(t.first, n, bears[n])]
       /\ Finished(1) /\ serving' = TRUE
       /\ UNCHANGED <<recordEnv, bears, began, asserted, repairs, used>>

-----------------------------------------------------------------------------

RecordStep ==
    \/ AssertionLoads \/ AssertionSaves \/ RenameMoves
    \/ ListReads \/ ListKeeps \/ ListLoadsStatuses \/ ListStampsStatuses
    \/ ListRepairs \/ RepairLoads \/ RepairSaves \/ ListEnds
    \/ ReconcileStarts \/ Reconciles

RecordNext ==
    \/ RecordedEnds \/ OtherStarts \/ OtherRenames
    \/ CreateStarts \/ RenameStarts \/ ListStarts \/ ServiceStops
    \/ RecordStep

RecordSpec == RecordInit /\ [][RecordNext]_recordVars

\* A request that has begun goes on, and somebody lists the sessions again and again.
RecordFairSpec ==
    RecordSpec /\ WF_recordVars(RecordStep) /\ WF_recordVars(ListStarts)

-----------------------------------------------------------------------------
(* Between requests, the record holds of every live session the name and the marker   *)
(* that its last create or rename asserted, and the next listing finds it by the run.  *)
NamesAreKept ==
    AllDone /\ serving =>
       \A n \in InRows(bears) :
          LET said == asserted[bears[n]]
          IN said.want # "" =>
                \E m \in DOMAIN records :
                   /\ records[m].want = said.want /\ records[m].mark = said.mark
                   /\ \/ records[m].pane /\ records[m].born = bears[n]
                      \/ records[m].born = 0 /\ m = n

(* A listing attributes a name or a marker to a run only if a create or a rename of   *)
(* that very run asserted it, whatever had the name before.                           *)
ClaimsAreTrue ==
    \A s \in Slots :
       Ready(s, "list", "keep") =>
          \A n \in InRows(tasks[s].rows) :
             \A c \in Claims(tasks[s].rows, tasks[s].prior, n) :
                LET said == asserted[tasks[s].rows[n]]
                IN (c.want # "" => c.want = said.want) /\ (c.mark => said.mark)

(* The service puts a name back no more than twice for an assertion, also over its    *)
(* restarts: two programs do not take a session's name from each other for ever.      *)
RepairsEnd == \A r \in RunsOf : repairs[r] <= maxNameReasserts

(* A session that another program has renamed gets its name back, as long as the name *)
(* is free and it has not been taken away more than twice.                            *)
Lost(n) == bears[n] # 0 /\ asserted[bears[n]].want \notin {"", n}
NameComesBack ==
    []<>(\A n \in RecordNames : ~Lost(n))
=============================================================================
