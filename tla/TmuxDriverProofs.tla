-------------------------- MODULE TmuxDriverProofs ---------------------------
(***************************************************************************)
(* Theorems about what the tmux driver keeps and touches: about            *)
(* DeliveryLanes, for any names, keys, processes, lives of the module and  *)
(* environments; and about SessionOwnership, for any names, requests and   *)
(* environments.                                                           *)
(***************************************************************************)
EXTENDS DeliveryLanes, SessionOwnership, WellFoundedInduction, TLAPS

-----------------------------------------------------------------------------
(* Records and tasks *)

(* A record that is there, and what becomes of one that is closed.          *)
LEMMA LaneOfType ==
  ASSUME HostTypes, NEW id \in LaneIds
  PROVE  /\ Has(id) => lanes[id] \in LaneRecords
         /\ ~Has(id) => lanes[id] = Absent
         /\ LaneClosed(id) \in LaneRecords \cup {Absent}
<1>1. lanes[id] \in LaneRecords \cup {Absent}
  BY DEF HostTypes
<1>2. (Has(id) => lanes[id] \in LaneRecords) /\ (~Has(id) => lanes[id] = Absent)
  <2>1. ASSUME lanes[id] \in LaneRecords PROVE Has(id)
    <3>1. lanes[id].there \in {TRUE}
      BY <2>1 DEF LaneRecords
    <3> QED
      BY <3>1 DEF Has
  <2>2. ASSUME lanes[id] = Absent PROVE ~Has(id)
    BY <2>2 DEF Has, Absent
  <2> QED
    BY <1>1, <2>1, <2>2
<1>3. LaneClosed(id) \in LaneRecords \cup {Absent}
  BY <1>2 DEF LaneClosed, LaneRecords
<1> QED
  BY <1>2, <1>3

(* Every task is of the kind that its first fields say.                     *)
LEMMA TaskKinds ==
  ASSUME HostTypes, NEW t \in work
  PROVE  /\ t.by = "flush" => t \in FlushTasks
         /\ t.by = "drop" => t \in DropTasks
         /\ t.by \in {"poll", "ready", "pass"} /\ HasKey(t) => t \in AttachTasks
         /\ t.by \in {"poll", "pass"} => HasKey(t)
         /\ t.by \in {"flush", "drop"} => HasKey(t)
         /\ t.by = "ready" /\ t.at \in {"flush", "records"} => t \in ReadyTasks
         /\ t.by \in {"flush", "drop", "poll", "ready", "pass"}
<1>1. t \in FlushTasks \/ t \in DropTasks \/ t \in AttachTasks \/ t \in ReadyTasks
  BY DEF HostTypes, Tasks
<1>2. CASE t \in FlushTasks
  BY <1>2 DEF FlushTasks, HasKey
<1>3. CASE t \in DropTasks
  BY <1>3 DEF DropTasks, HasKey
<1>4. CASE t \in AttachTasks
  BY <1>4 DEF AttachTasks, HasKey
<1>5. CASE t \in ReadyTasks
  BY <1>5 DEF ReadyTasks, HasKey
<1> QED
  BY <1>1, <1>2, <1>3, <1>4, <1>5

(* The tasks that are made.                                                 *)
LEMMA TasksMade ==
  /\ \A id \in LaneIds, k \in Nat \ {0} : Flush(id, k) \in FlushTasks
  /\ \A k \in Nat \ {0} : Drop(k) \in DropTasks
  /\ \A id \in LaneIds, k, pid, gen \in Nat, by \in {"poll", "ready", "pass"} :
        \A at \in {"look", "rows", "due", "shut", "forget"} : Attach(by, id, k, pid, gen, at) \in AttachTasks
  BY DEF Flush, FlushTasks, Drop, DropTasks, Attach, AttachTasks

-----------------------------------------------------------------------------
(* Types *)

(* The types hold at first.                                                 *)
LEMMA LaneTypesAtFirst == LaneInit => LaneTypes
<1> SUFFICES ASSUME LaneInit PROVE LaneTypes
  OBVIOUS
<1>1. HostTypes
  BY DEF LaneInit, HostTypes, Unseen
<1>2. LaneSessionTypes
  BY DEF LaneInit, LaneSessionTypes, NoStep
<1>3. ModuleTypes
  BY DEF LaneInit, ModuleTypes
<1> QED
  BY <1>1, <1>2, <1>3 DEF LaneInit, LaneTypes

(* closeLane.                                                               *)
LEMMA CloseLaneIsTyped ==
  ASSUME HostTypes, NEW id \in LaneIds, NEW done, CloseLane(id, done), UNCHANGED glance
  PROVE  HostTypes'
<1>1. lanes' \in [LaneIds -> LaneRecords \cup {Absent}]
  BY LaneOfType DEF CloseLane, HostTypes
<1>2. Told(id) \subseteq FlushTasks
  <2>1. Holds(id) => lanes[id].key \in Nat \ {0}
    BY LaneOfType DEF Holds, LaneRecords
  <2> QED
    BY <2>1, TasksMade DEF Told
<1>3. work' \subseteq Tasks
  BY <1>2 DEF CloseLane, HostTypes, Tasks
<1> QED
  BY <1>1, <1>3 DEF HostTypes

(* The record of an offer.                                                  *)
LEMMA RecordIsTyped ==
  ASSUME HostTypes, NEW id \in LaneIds, NEW k \in Nat, Record(id, k), UNCHANGED glance
  PROVE  HostTypes'
<1>1. Lane(k) \in LaneRecords
  BY DEF Lane, LaneRecords
<1>2. Holds(id) => Drop(lanes[id].key) \in DropTasks
  BY LaneOfType, TasksMade DEF Holds, LaneRecords
<1>3. work' \subseteq Tasks
  BY <1>2 DEF Record, HostTypes, Tasks
<1> QED
  BY <1>1, <1>3 DEF Record, HostTypes

(* The requests, to the host.                                               *)
LEMMA RequestsAreTyped ==
  ASSUME LaneTypes, NEW id \in LaneIds,
         \/ Offer(id) \/ Offered(id) \/ Launch(id) \/ LaunchFails(id) \/ Launched(id)
         \/ KillSession(id) \/ Killed(id) \/ \E to \in LaneIds : RenameLane(id, to)
  PROVE  HostTypes'
<1> USE DEF LaneTypes
<1>1. CASE Offer(id)
  <2>1. CASE UNCHANGED hostVars
    BY <2>1 DEF hostVars, HostTypes
  <2>2. CASE Record(id, 0)
    BY <1>1, <2>2, RecordIsTyped DEF Offer, hostVars
  <2> QED
    BY <1>1, <2>1, <2>2 DEF Offer
<1>2. CASE Offered(id)
  <2> DEFINE k == step[id].key
  <2>0. k \in Nat /\ UNCHANGED glance
    BY <1>2 DEF Offered, LaneSessionTypes
  <2>1. CASE Record(id, k) \/ Record(id, 0)
    BY <2>0, <2>1, RecordIsTyped
  <2>2. CASE /\ lanes' = [lanes EXCEPT ![id] = Lane(0)]
             /\ work' = work \cup {Drop(k)} \cup IF Holds(id) THEN {Drop(lanes[id].key)} ELSE {}
    <3>1. k \in Nat \ {0}
      BY <1>2, <2>0 DEF Offered, LaneSessionTypes
    <3>2. Lane(0) \in LaneRecords
      BY DEF Lane, LaneRecords
    <3>3. Holds(id) => Drop(lanes[id].key) \in DropTasks
      BY LaneOfType, TasksMade DEF Holds, LaneRecords
    <3>4. work' \subseteq Tasks
      BY <2>2, <3>1, <3>3, TasksMade DEF HostTypes, Tasks
    <3> QED
      BY <2>0, <2>2, <3>2, <3>4 DEF HostTypes
  <2> QED
    BY <1>2, <2>1, <2>2 DEF Offered
<1>3. CASE LaunchFails(id) \/ Killed(id)
  BY <1>3, CloseLaneIsTyped DEF LaunchFails, Killed
<1>4. CASE Launched(id)
  <2>1. CASE UNCHANGED <<lanes, work>>
    BY <1>4, <2>1 DEF Launched, HostTypes
  <2>2. CASE /\ Holds(id)
             /\ lanes' = [lanes EXCEPT ![id] = [@ EXCEPT !.attaching = TRUE]]
             /\ work' = work \cup {Attach("poll", id, 0, 0, 0, "look")}
    <3>1. lanes[id] \in LaneRecords
      BY <2>2, LaneOfType DEF Holds
    <3>2. [lanes[id] EXCEPT !.attaching = TRUE] \in LaneRecords
      BY <3>1 DEF LaneRecords
    <3>3. Attach("poll", id, 0, 0, 0, "look") \in AttachTasks
      BY TasksMade
    <3> QED
      BY <1>4, <2>2, <3>2, <3>3 DEF Launched, HostTypes, Tasks
  <2> QED
    BY <1>4, <2>1, <2>2 DEF Launched
<1>5. CASE Launch(id) \/ KillSession(id) \/ \E to \in LaneIds : RenameLane(id, to)
  BY <1>5 DEF Launch, KillSession, RenameLane, hostVars, HostTypes
<1> QED
  BY <1>1, <1>2, <1>3, <1>4, <1>5

(* rekey, degrade and a restart.                                            *)
LEMMA RekeyIsTyped == ASSUME LaneTypes, Rekey \/ RestartDriver PROVE HostTypes'
<1> USE DEF LaneTypes
<1>1. CASE Rekey
  <2>1. PICK m \in moving : lanes' = IF Has(m[1])
                               THEN [lanes EXCEPT ![m[1]] = Absent, ![m[2]] = lanes[m[1]]] ELSE lanes
    BY <1>1 DEF Rekey
  <2>2. m[1] \in LaneIds /\ m[2] \in LaneIds
    BY DEF LaneSessionTypes
  <2>3. lanes' \in [LaneIds -> LaneRecords \cup {Absent}]
    BY <2>1, <2>2 DEF HostTypes
  <2> QED
    BY <1>1, <2>3 DEF Rekey, HostTypes
<1>2. CASE RestartDriver
  <2>1. PICK gone \in SUBSET LaneIds : lanes' = [id \in LaneIds |-> Reloaded(lanes[id], id \in gone)]
    BY <1>2 DEF RestartDriver
  <2>2. ASSUME NEW id \in LaneIds PROVE Reloaded(lanes[id], id \in gone) \in LaneRecords \cup {Absent}
    <3>1. CASE ~Has(id)
      BY <3>1 DEF Reloaded, Has
    <3>2. CASE Has(id)
      <4>1. lanes[id] \in LaneRecords
        BY <3>2, LaneOfType
      <4>2. (lanes[id].closing \/ id \in gone) \in BOOLEAN
        BY <4>1 DEF LaneRecords
      <4> DEFINE closing == lanes[id].closing \/ id \in gone
      <4>3. [lanes[id] EXCEPT !.live = FALSE, !.state = "", !.gen = 0, !.attaching = FALSE,
                              !.flushing = FALSE, !.closing = closing] \in LaneRecords
        <5> HIDE DEF closing
        <5> QED
          BY <4>1, <4>2 DEF LaneRecords, closing
      <4> QED
        BY <4>3 DEF Reloaded
    <3> QED
      BY <3>1, <3>2
  <2>3. lanes' \in [LaneIds -> LaneRecords \cup {Absent}]
    BY <2>1, <2>2
  <2> QED
    BY <1>2, <2>3 DEF RestartDriver, HostTypes, Unseen
<1> QED
  BY <1>1, <1>2

(* The goroutines that attach.                                              *)
LEMMA AttachesAreTyped ==
  ASSUME LaneTypes, NEW t \in work, Attaches(t)
  PROVE  HostTypes'
<1> USE DEF LaneTypes
<1>1. ASSUME NEW u, u \in AttachTasks, UNCHANGED <<lanes, glance>>, work' \subseteq (work \ {t}) \cup {u}
      PROVE  HostTypes'
  BY <1>1 DEF HostTypes, Tasks
<1>2. CASE PollLooks(t)
  <2>1. t \in AttachTasks
    BY <1>2, TaskKinds DEF PollLooks
  <2>2. CASE PollEnds(t)
    <3>1. Has(t.id) => /\ lanes[t.id] \in LaneRecords
                       /\ [lanes[t.id] EXCEPT !.attaching = FALSE] \in LaneRecords
      <4>1. t.id \in LaneIds
        BY <2>1 DEF AttachTasks
      <4>2. Has(t.id) => lanes[t.id] \in LaneRecords
        BY <4>1, LaneOfType
      <4> QED
        BY <4>2 DEF LaneRecords
    <3> QED
      BY <1>2, <2>2, <3>1 DEF PollLooks, PollEnds, HostTypes
  <2>3. CASE /\ Holds(t.id) /\ UNCHANGED lanes
             /\ work' = (work \ {t}) \cup
                  {[Attach("poll", t.id, lanes[t.id].key, rows[t.id], mod.gen, "asked") EXCEPT !.via = mod.gen]}
    <3>1. t.id \in LaneIds /\ lanes[t.id] \in LaneRecords /\ rows[t.id] \in Nat /\ mod.gen \in Nat
      <4>1. t.id \in LaneIds
        BY <2>1 DEF AttachTasks
      <4> QED
        BY <2>3, <4>1, LaneOfType DEF Holds, LaneSessionTypes, ModuleTypes
    <3>2. [Attach("poll", t.id, lanes[t.id].key, rows[t.id], mod.gen, "asked") EXCEPT !.via = mod.gen]
             \in AttachTasks
      BY <3>1 DEF Attach, AttachTasks, LaneRecords
    <3> QED
      BY <1>1, <1>2, <2>3, <3>2 DEF PollLooks
  <2> QED
    BY <1>2, <2>2, <2>3 DEF PollLooks
<1>3. CASE ModuleTakes(t) \/ ModuleDoesNot(t)
  <2>1. t \in AttachTasks
    BY <1>3, TaskKinds DEF ModuleTakes, ModuleDoesNot, HasKey
  <2>2. PICK res \in {"live", "refused", "lost", "later", "no"} : work' = Replied(t, res)
    BY <1>3 DEF ModuleTakes, ModuleDoesNot
  <2>3. [t EXCEPT !.at = "answered", !.res = res] \in AttachTasks
    BY <2>1 DEF AttachTasks
  <2> QED
    BY <1>1, <1>3, <2>2, <2>3 DEF ModuleTakes, ModuleDoesNot, Replied
<1>4. CASE Apply(t)
  <2>1. t \in AttachTasks /\ t.id \in LaneIds
    BY <1>4, TaskKinds DEF Apply, HasKey, AttachTasks
  <2>2. Has(t.id) => Applied(t) \in LaneRecords
    <3> SUFFICES ASSUME Has(t.id) PROVE Applied(t) \in LaneRecords
      OBVIOUS
    <3>1. lanes[t.id] \in LaneRecords
      BY <2>1, LaneOfType
    <3>2. t.pid \in Nat /\ t.gen \in Nat /\ lanes[t.id].pid \in Nat
      BY <2>1, <3>1 DEF AttachTasks, LaneRecords
    <3>3. \A pid, gen \in Nat, live \in BOOLEAN, state \in {"", "prepared", "live", "degraded", "gone"} :
             /\ [lanes[t.id] EXCEPT !.pid = pid, !.live = live, !.gen = gen, !.state = state] \in LaneRecords
             /\ [lanes[t.id] EXCEPT !.pid = pid, !.live = live, !.state = state] \in LaneRecords
             /\ [lanes[t.id] EXCEPT !.pid = pid, !.live = live] \in LaneRecords
      BY <3>1, ZenonT(60) DEF LaneRecords
    <3> QED
      BY <3>2, <3>3 DEF Applied
  <2> DEFINE after == IF Applies(t) THEN [lanes EXCEPT ![t.id] = Applied(t)] ELSE lanes
  <2>3. after \in [LaneIds -> LaneRecords \cup {Absent}] /\ (Has(t.id) => after[t.id] \in LaneRecords)
    BY <2>1, <2>2, LaneOfType DEF Applies, Holds, HostTypes
  <2>4. Has(t.id) => [after[t.id] EXCEPT !.attaching = FALSE] \in LaneRecords
    <3> HIDE DEF after
    <3> QED
      BY <2>3 DEF LaneRecords
  <2>5. lanes' = IF t.by = "poll" /\ ~GoesOn(t) /\ Has(t.id)
                 THEN [after EXCEPT ![t.id] = [after[t.id] EXCEPT !.attaching = FALSE]] ELSE after
    BY <1>4 DEF Apply
  <2>6. lanes' \in [LaneIds -> LaneRecords \cup {Absent}]
    <3> HIDE DEF after
    <3> QED
      BY <2>3, <2>4, <2>5
  <2>7. work' \subseteq Tasks
    <3>1. Attach("poll", t.id, 0, 0, 0, "look") \in AttachTasks
      BY <2>1, TasksMade
    <3> QED
      BY <1>4, <3>1 DEF Apply, HostTypes, Tasks
  <2> QED
    BY <1>4, <2>6, <2>7 DEF Apply, HostTypes
<1>5. CASE AskAttach(t)
  <2>1. t \in AttachTasks
    BY <1>5, TaskKinds DEF AskAttach, HasKey
  <2>2. [t EXCEPT !.at = "asked", !.via = mod.gen, !.gen = IF t.by = "pass" THEN mod.gen ELSE t.gen]
           \in AttachTasks
    BY <2>1 DEF AttachTasks, ModuleTypes
  <2> QED
    BY <1>1, <1>5, <2>2 DEF AskAttach
<1>6. CASE Shut(t)
  <2>1. t.id \in LaneIds
    BY <1>6, TaskKinds DEF Shut, HasKey, AttachTasks
  <2> QED
    BY <1>6, <2>1, CloseLaneIsTyped DEF Shut
<1>7. CASE PassForgets(t)
  BY <1>7 DEF PassForgets, HostTypes
<1> QED
  BY <1>2, <1>3, <1>4, <1>5, <1>6, <1>7 DEF Attaches

(* The goroutines that close.                                               *)
LEMMA ClosesAreTyped ==
  ASSUME LaneTypes, NEW t \in work, Closes(t)
  PROVE  HostTypes'
<1> USE DEF LaneTypes
<1>1. t \in FlushTasks \/ t \in DropTasks
  BY TaskKinds DEF Closes, FlushBegins, DropBegins, ModuleCloses, CloseFails, FlushEnds
<1>2. t.by = "flush" => t \in FlushTasks /\ t.id \in LaneIds
  BY <1>1 DEF FlushTasks, DropTasks
<1>3. \A at \in {"asked", "done"}, via \in Nat :
        /\ t \in FlushTasks => [t EXCEPT !.at = at, !.via = via] \in FlushTasks
                               /\ [t EXCEPT !.at = at] \in FlushTasks
        /\ t \in DropTasks /\ at = "asked" => [t EXCEPT !.at = at, !.via = via] \in DropTasks
  BY DEF FlushTasks, DropTasks
<1>4. ASSUME NEW f \in BOOLEAN, t.by = "flush", Has(t.id)
      PROVE  [lanes EXCEPT ![t.id] = [@ EXCEPT !.flushing = f]] \in [LaneIds -> LaneRecords \cup {Absent}]
  <2>1. lanes[t.id] \in LaneRecords
    BY <1>2, <1>4, LaneOfType
  <2>2. [lanes[t.id] EXCEPT !.flushing = f] \in LaneRecords
    BY <2>1 DEF LaneRecords
  <2> QED
    BY <2>2 DEF HostTypes
<1>5. lanes' \in [LaneIds -> LaneRecords \cup {Absent}]
  <2>1. lanes \in [LaneIds -> LaneRecords \cup {Absent}]
    BY DEF HostTypes
  <2> QED
    BY <1>2, <1>4, <2>1 DEF Closes, FlushBegins, DropBegins, ModuleCloses, CloseFails, FlushEnds,
                            ClaimsClose, Unflushed
<1>6. work' \subseteq Tasks
  <2>1. mod.gen \in Nat
    BY DEF ModuleTypes
  <2>2. CASE FlushBegins(t) \/ DropBegins(t)
    <3> DEFINE u == [t EXCEPT !.at = "asked", !.via = mod.gen]
    <3>1. u \in FlushTasks \cup DropTasks
      BY <1>1, <1>3, <2>1
    <3>2. work' \subseteq (work \ {t}) \cup {u}
      BY <2>2 DEF FlushBegins, DropBegins
    <3> HIDE DEF u
    <3> QED
      BY <3>1, <3>2 DEF HostTypes, Tasks
  <2>3. CASE ModuleCloses(t)
    BY <1>2, <1>3, <2>3 DEF ModuleCloses, HostTypes, Tasks
  <2>4. CASE CloseFails(t) \/ FlushEnds(t)
    BY <2>4 DEF CloseFails, FlushEnds, HostTypes
  <2> QED
    BY <2>2, <2>3, <2>4 DEF Closes
<1> QED
  BY <1>5, <1>6 DEF Closes, FlushBegins, DropBegins, ModuleCloses, CloseFails, FlushEnds, HostTypes

(* The ready callback and the background pass.                              *)
LEMMA LooksAreTyped ==
  ASSUME LaneTypes, (\E t \in work : Readies(t)) \/ ReadyLists \/ PassLists \/ PassReads
  PROVE  HostTypes'
<1> USE DEF LaneTypes
<1>0. \A id \in LaneIds : Holds(id) => lanes[id] \in LaneRecords /\ lanes[id].key \in Nat \ {0}
                                       /\ lanes[id].pid \in Nat
  <2> SUFFICES ASSUME NEW id \in LaneIds, Holds(id)
               PROVE  lanes[id] \in LaneRecords /\ lanes[id].key \in Nat \ {0} /\ lanes[id].pid \in Nat
    OBVIOUS
  <2>1. lanes[id] \in LaneRecords
    BY LaneOfType DEF Holds
  <2> QED
    BY <2>1 DEF Holds, LaneRecords
<1>1. ASSUME NEW t \in work, ReadyFlushes(t) PROVE HostTypes'
  <2>1. [t EXCEPT !.at = "records"] \in ReadyTasks
    <3>1. t \in ReadyTasks
      BY <1>1, TaskKinds DEF ReadyFlushes
    <3> QED
      BY <3>1 DEF ReadyTasks
  <2>2. \A id \in LaneIds : Holds(id) => Flush(id, lanes[id].key) \in FlushTasks
    BY <1>0, TasksMade
  <2> QED
    BY <1>1, <2>1, <2>2 DEF ReadyFlushes, HostTypes, Tasks
<1>2. ASSUME NEW t \in work, ReadyReads(t) PROVE HostTypes'
  <2>1. t.gen \in Nat
    BY <1>2, TaskKinds DEF ReadyReads, ReadyTasks
  <2>2. \A id \in LaneIds : Holds(id) =>
           Attach("ready", id, lanes[id].key, lanes[id].pid, t.gen, "rows") \in AttachTasks
    BY <1>0, <2>1, TasksMade
  <2> QED
    BY <1>2, <2>2 DEF ReadyReads, HostTypes, Tasks
<1>3. CASE ReadyLists
  <2>1. \A t \in work, seen \in BOOLEAN : t.by = "ready" /\ t.at = "rows" => Sorted(t, seen) \in AttachTasks
    <3> SUFFICES ASSUME NEW t \in work, NEW seen \in BOOLEAN, t.by = "ready", t.at = "rows"
                 PROVE  Sorted(t, seen) \in AttachTasks
      OBVIOUS
    <3>1. t \in AttachTasks
      BY TaskKinds DEF HasKey
    <3>2. t.id \in LaneIds /\ rows[t.id] \in Nat /\ t.pid \in Nat
      BY <3>1 DEF AttachTasks, LaneSessionTypes
    <3> QED
      BY <3>1, <3>2 DEF Sorted, AttachTasks
  <2> DEFINE waiting == {t \in work : t.by = "ready" /\ t.at = "rows"}
  <2>2. PICK seen \in BOOLEAN : work' = (work \ waiting) \cup {Sorted(t, seen) : t \in waiting}
    BY <1>3 DEF ReadyLists
  <2>3. work' \subseteq Tasks
    BY <2>1, <2>2 DEF HostTypes, Tasks
  <2> QED
    BY <1>3, <2>3 DEF ReadyLists, HostTypes
<1>4. CASE PassLists
  <2>1. PICK seen \in BOOLEAN :
           glance' = [valid |-> TRUE, ok |-> seen, rows |-> IF seen THEN rows ELSE [id \in LaneIds |-> 0]]
    BY <1>4 DEF PassLists
  <2>2. (IF seen THEN rows ELSE [id \in LaneIds |-> 0]) \in [LaneIds -> Nat]
    BY DEF LaneSessionTypes
  <2>3. glance' \in [valid : BOOLEAN, ok : BOOLEAN, rows : [LaneIds -> Nat]]
    BY <2>1, <2>2
  <2> QED
    BY <1>4, <2>3 DEF PassLists, HostTypes
<1>5. CASE PassReads
  <2>1. ASSUME NEW id \in LaneIds PROVE PassItem(id) \subseteq Tasks
    <3>1. glance.rows[id] \in Nat
      BY DEF HostTypes
    <3>2. Attach("pass", id, 0, 0, 0, "forget") \in AttachTasks
      BY TasksMade
    <3>3. CASE Has(id) /\ lanes[id].key = 0
      BY <3>2, <3>3 DEF PassItem, Tasks
    <3>4. CASE ~Has(id)
      BY <3>4 DEF PassItem
    <3>5. CASE Has(id) /\ lanes[id].key # 0
      <4>1. Holds(id)
        BY <3>5 DEF Holds
      <4>2. lanes[id].key \in Nat \ {0} /\ lanes[id].pid \in Nat
        BY <1>0, <4>1
      <4> DEFINE pid == IF glance.rows[id] # 0 THEN glance.rows[id] ELSE lanes[id].pid
      <4>3. pid \in Nat
        BY <3>1, <4>2
      <4>4. Attach("pass", id, lanes[id].key, 0, 0, "shut") \in AttachTasks
        BY <4>2, TasksMade
      <4>5. Attach("pass", id, lanes[id].key, pid, 0, "due") \in AttachTasks
        BY <4>2, <4>3, TasksMade
      <4>6. Flush(id, lanes[id].key) \in FlushTasks
        BY <4>2, TasksMade
      <4> QED
        BY <3>5, <4>4, <4>5, <4>6 DEF PassItem, Tasks
    <3> QED
      BY <3>3, <3>4, <3>5
  <2>2. work' \subseteq Tasks
    BY <1>5, <2>1 DEF PassReads, HostTypes
  <2> QED
    BY <1>5, <2>2 DEF PassReads, HostTypes, Unseen
<1> QED
  BY <1>1, <1>2, <1>3, <1>4, <1>5 DEF Readies

(* The other steps leave the host alone, or degrade a record.               *)
LEMMA WorldIsTyped ==
  ASSUME LaneTypes, LaneWorld
  PROVE  HostTypes'
<1> USE DEF LaneTypes
<1>1. ASSUME NEW id \in LaneIds, LaneSessionEnds(id) \/ AgentReplaced(id)
      PROVE  HostTypes'
  BY <1>1 DEF LaneSessionEnds, AgentReplaced, hostVars, HostTypes
<1>2. ASSUME NEW id \in LaneIds, Degrade(id)
      PROVE  HostTypes'
  <2>1. lanes[id] \in LaneRecords
    BY <1>2, LaneOfType DEF Degrade, Usable, Holds
  <2> DEFINE state == IF lanes[id].key \in known THEN "degraded" ELSE "gone"
  <2>2. [lanes[id] EXCEPT !.live = FALSE, !.state = state] \in LaneRecords
    <3>1. state \in {"degraded", "gone"}
      OBVIOUS
    <3> HIDE DEF state
    <3> QED
      BY <2>1, <3>1 DEF LaneRecords
  <2>3. lanes' = [lanes EXCEPT ![id] = [lanes[id] EXCEPT !.live = FALSE, !.state = state]]
    BY <1>2 DEF Degrade, HostTypes
  <2> HIDE DEF state
  <2> QED
    BY <1>2, <2>2, <2>3 DEF Degrade, HostTypes
<1>3. CASE (\E k \in Keys : Drops(k)) \/ ModuleDies \/ ModuleSuspect
  BY <1>3 DEF Drops, ModuleDies, ModuleSuspect, hostVars, HostTypes
<1>4. CASE ModuleReady
  <2>1. [by |-> "ready", id |-> 0, gen |-> mod'.gen, at |-> "flush"] \in ReadyTasks
    <3>1. mod'.gen \in Nat
      BY <1>4 DEF ModuleReady, ModuleTypes
    <3> QED
      BY <3>1 DEF ReadyTasks
  <2> QED
    BY <1>4, <2>1 DEF ModuleReady, HostTypes, Tasks
<1> QED
  BY <1>1, <1>2, <1>3, <1>4, RekeyIsTyped DEF LaneWorld

(* The sessions.                                                            *)
LEMMA SessionsAreTyped ==
  ASSUME LaneTypes, [LaneNext]_laneVars
  PROVE  LaneSessionTypes'
<1> USE DEF LaneTypes
<1>1. ASSUME UNCHANGED sessionVars PROVE LaneSessionTypes'
  BY <1>1 DEF sessionVars, LaneSessionTypes
<1>2. ASSUME NEW id \in LaneIds, Offer(id) PROVE LaneSessionTypes'
  BY <1>2 DEF Offer, LaneSessionTypes, ModuleTypes
<1>3. ASSUME NEW id \in LaneIds, Offered(id) \/ Launch(id) \/ LaunchFails(id) \/ Launched(id)
      PROVE  LaneSessionTypes'
  BY <1>3 DEF Offered, Launch, LaunchFails, Launched, NoStep, LaneSessionTypes
<1>4. ASSUME NEW id \in LaneIds, KillSession(id) \/ Killed(id) \/ LaneSessionEnds(id) \/ AgentReplaced(id)
      PROVE  LaneSessionTypes'
  BY <1>4 DEF KillSession, Killed, LaneSessionEnds, AgentReplaced, LaneSessionTypes
<1>5. ASSUME NEW id \in LaneIds, NEW to \in LaneIds, RenameLane(id, to)
      PROVE  LaneSessionTypes'
  BY <1>5 DEF RenameLane, LaneSessionTypes
<1>6. CASE Rekey
  BY <1>6 DEF Rekey, LaneSessionTypes
<1>7. CASE RestartDriver
  BY <1>7 DEF RestartDriver, NoStep, LaneSessionTypes
<1>8. ASSUME NEW id \in LaneIds, Degrade(id) PROVE LaneSessionTypes'
  BY <1>1, <1>8 DEF Degrade
<1>9. CASE \/ \E k \in Keys : Drops(k)
           \/ ModuleDies \/ ModuleSuspect \/ ModuleReady \/ ReadyLists \/ PassLists \/ PassReads
  BY <1>1, <1>9 DEF Drops, ModuleDies, ModuleSuspect, ModuleReady, ReadyLists, PassLists, PassReads
<1>10. ASSUME NEW t \in work, Attaches(t) \/ Closes(t) \/ Readies(t) PROVE LaneSessionTypes'
  BY <1>1, <1>10 DEF Attaches, PollLooks, ModuleTakes, ModuleDoesNot, Apply, AskAttach, Shut, PassForgets, Closes,
               FlushBegins,
       DropBegins, ModuleCloses, CloseFails, FlushEnds, Readies, ReadyFlushes, ReadyReads
<1>11. CASE UNCHANGED laneVars
  BY <1>1, <1>11 DEF laneVars
<1> QED
  BY <1>2, <1>3, <1>4, <1>5, <1>6, <1>7, <1>8, <1>9, <1>10, <1>11
     DEF LaneNext, Requests, Advance, LaneWorld

(* The module.                                                              *)
LEMMA ModuleIsTyped ==
  ASSUME LaneTypes, [LaneNext]_laneVars
  PROVE  ModuleTypes' /\ laneEnv' = laneEnv
<1> USE DEF LaneTypes
<1>1. ASSUME UNCHANGED <<laneEnv, moduleVars>> PROVE ModuleTypes' /\ laneEnv' = laneEnv
  BY <1>1 DEF moduleVars, ModuleTypes, Keys
<1>2. ASSUME NEW id \in LaneIds, Offer(id) PROVE ModuleTypes' /\ laneEnv' = laneEnv
  <2>1. UNCHANGED <<laneEnv, mod, bound, conn, drops>>
    BY <1>2 DEF Offer
  <2>2. UNCHANGED <<made, known>> \/ (made' = made + 1 /\ known' = known \cup {made + 1})
    BY <1>2 DEF Offer
  <2>3. made' \in Nat /\ known' \subseteq Nat \ {0} /\ known \subseteq known'
    <3>1. made \in Nat /\ known \subseteq Nat \ {0}
      BY DEF ModuleTypes
    <3> QED
      <4>1. CASE UNCHANGED <<made, known>>
        BY <3>1, <4>1
      <4>2. CASE made' = made + 1 /\ known' = known \cup {made + 1}
        BY <3>1, <4>2
      <4> QED
        BY <2>2, <4>1, <4>2
  <2> QED
    BY <2>1, <2>3 DEF ModuleTypes, Keys
<1>3. ASSUME NEW id \in LaneIds, \/ Offered(id) \/ Launch(id) \/ LaunchFails(id) \/ Launched(id)
                                 \/ KillSession(id) \/ Killed(id) \/ LaneSessionEnds(id) \/ AgentReplaced(id)
                                 \/ Degrade(id) \/ \E to \in LaneIds : RenameLane(id, to)
      PROVE  ModuleTypes' /\ laneEnv' = laneEnv
  BY <1>1, <1>3 DEF Offered, Launch, LaunchFails, Launched, KillSession, Killed, LaneSessionEnds, AgentReplaced,
                    Degrade, RenameLane
<1>4. CASE Rekey \/ ReadyLists \/ PassLists \/ PassReads
  BY <1>1, <1>4 DEF Rekey, ReadyLists, PassLists, PassReads
<1>5. CASE RestartDriver \/ ModuleDies \/ ModuleSuspect \/ ModuleReady
  <2>1. UNCHANGED <<laneEnv, known, bound, made, drops>> /\ conn' \subseteq conn
    BY <1>5 DEF RestartDriver, ModuleDies, ModuleSuspect, ModuleReady
  <2>2. mod' \in [runs : BOOLEAN, usable : BOOLEAN, gen : Nat]
    <3>1. mod \in [runs : BOOLEAN, usable : BOOLEAN, gen : Nat]
      BY DEF ModuleTypes
    <3>2. CASE RestartDriver \/ ModuleDies
      BY <3>1, <3>2 DEF RestartDriver, ModuleDies
    <3>3. CASE ModuleSuspect
      <4>1. (~mod.usable) \in BOOLEAN
        BY <3>1
      <4> QED
        BY <3>1, <3>3, <4>1 DEF ModuleSuspect
    <3>4. CASE ModuleReady
      BY <3>1, <3>4 DEF ModuleReady
    <3> QED
      BY <1>5, <3>2, <3>3, <3>4
  <2> QED
    BY <2>1, <2>2 DEF ModuleTypes, Keys
<1>6. ASSUME NEW k \in Keys, Drops(k) PROVE ModuleTypes' /\ laneEnv' = laneEnv
  BY <1>6 DEF Drops, ModuleTypes, Keys
<1>7. ASSUME NEW t \in work, \/ PollLooks(t) \/ ModuleDoesNot(t) \/ Apply(t) \/ AskAttach(t) \/ Shut(t) \/ PassForgets(t)
                             \/ FlushBegins(t) \/ DropBegins(t) \/ CloseFails(t) \/ FlushEnds(t) \/ Readies(t)
      PROVE  ModuleTypes' /\ laneEnv' = laneEnv
  BY <1>1, <1>7 DEF PollLooks, ModuleDoesNot, Apply, AskAttach, Shut, PassForgets, FlushBegins, DropBegins, CloseFails, FlushEnds,
                    Readies, ReadyFlushes, ReadyReads
<1>8. ASSUME NEW t \in work, ModuleTakes(t) PROVE ModuleTypes' /\ laneEnv' = laneEnv
  <2>1. t.pid \in Nat
    BY <1>8, TaskKinds DEF ModuleTakes, AttachTasks, HasKey
  <2> QED
    BY <1>8, <2>1 DEF ModuleTakes, ModuleTypes, Keys
<1>9. ASSUME NEW t \in work, ModuleCloses(t) PROVE ModuleTypes' /\ laneEnv' = laneEnv
  BY <1>9 DEF ModuleCloses, ModuleTypes, Keys
<1>10. CASE UNCHANGED laneVars
  BY <1>1, <1>10 DEF laneVars
<1> QED
  BY <1>2, <1>3, <1>4, <1>5, <1>6, <1>7, <1>8, <1>9, <1>10
     DEF LaneNext, Requests, Advance, LaneWorld, Attaches, Closes

(* The types are kept.                                                      *)
LEMMA LaneTypesKept == LaneTypes /\ [LaneNext]_laneVars => LaneTypes'
<1> SUFFICES ASSUME LaneTypes, [LaneNext]_laneVars PROVE LaneTypes'
  OBVIOUS
<1>1. HostTypes'
  <2>1. CASE UNCHANGED laneVars
    BY <2>1 DEF laneVars, hostVars, HostTypes, LaneTypes
  <2> QED
    BY <2>1, RequestsAreTyped, RekeyIsTyped, WorldIsTyped, AttachesAreTyped, ClosesAreTyped, LooksAreTyped
       DEF LaneNext, Requests, Advance
<1>2. LaneSessionTypes' /\ ModuleTypes' /\ laneEnv' = laneEnv
  BY SessionsAreTyped, ModuleIsTyped
<1>3. restarts' \in Nat
  <2>1. restarts' = restarts \/ restarts' = restarts + 1
    BY DEF LaneNext, Requests, Offer, KillSession, RenameLane, Advance, Offered, Launch, LaunchFails, Launched,
           Killed, LaneWorld, LaneSessionEnds, AgentReplaced, Degrade, Drops, ModuleDies, ModuleSuspect, ModuleReady,
           RestartDriver, Rekey, Attaches, PollLooks, ModuleTakes, ModuleDoesNot, Apply, AskAttach, Shut, PassForgets, Closes,
           FlushBegins, DropBegins, ModuleCloses, CloseFails, FlushEnds, Readies, ReadyFlushes, ReadyReads,
           ReadyLists, PassLists, PassReads, laneVars
  <2> QED
    BY <2>1 DEF LaneTypes
<1>4. lasted' \subseteq Nat \X Nat
  <2>1. ASSUME NEW t \in work, ModuleTakes(t) PROVE lasted' \subseteq Nat \X Nat
    <3>1. t.key \in Nat
      BY <2>1, TaskKinds DEF ModuleTakes, AttachTasks, HasKey, LaneTypes
    <3> QED
      BY <2>1, <3>1 DEF ModuleTakes, LaneTypes, ModuleTypes
  <2>2. CASE ~\E t \in work : ModuleTakes(t)
    <3>1. lasted' = lasted
      BY <2>2 DEF LaneNext, Requests, Offer, KillSession, RenameLane, Advance, Offered, Launch, LaunchFails, Launched,
             Killed, LaneWorld, LaneSessionEnds, AgentReplaced, Degrade, Drops, ModuleDies, ModuleSuspect,
             ModuleReady, RestartDriver, Rekey, Attaches, PollLooks, ModuleDoesNot, Apply, AskAttach, Shut, PassForgets,
             Closes, FlushBegins, DropBegins, ModuleCloses, CloseFails, FlushEnds, Readies, ReadyFlushes,
             ReadyReads, ReadyLists, PassLists, PassReads, laneVars
    <3> QED
      BY <3>1 DEF LaneTypes
  <2> QED
    BY <2>1, <2>2
<1>5. stray' \subseteq Nat
  <2>1. ASSUME NEW id \in LaneIds, Offered(id) PROVE stray' \subseteq Nat
    BY <2>1 DEF Offered, LaneTypes, LaneSessionTypes
  <2>2. ASSUME NEW t \in work, CloseFails(t) PROVE stray' \subseteq Nat
    <3>1. t.by = "drop" => t.key \in Nat
      BY TaskKinds DEF DropTasks, LaneTypes
    <3> QED
      BY <2>2, <3>1 DEF CloseFails, LaneTypes
  <2>3. CASE RestartDriver
    <3>1. \A t \in work : t.by = "drop" => t.key \in Nat
      BY TaskKinds DEF DropTasks, LaneTypes
    <3> QED
      BY <2>3, <3>1 DEF RestartDriver, LaneTypes, LaneSessionTypes
  <2>4. CASE /\ ~\E id \in LaneIds : Offered(id)
             /\ ~\E t \in work : CloseFails(t)
             /\ ~RestartDriver
    <3>1. stray' = stray
      BY <2>4 DEF LaneNext, Requests, Offer, KillSession, RenameLane, Advance, Launch, LaunchFails, Launched,
             Killed, LaneWorld, LaneSessionEnds, AgentReplaced, Degrade, Drops, ModuleDies, ModuleSuspect,
             ModuleReady, Rekey, Attaches, PollLooks, ModuleTakes, ModuleDoesNot, Apply, AskAttach, Shut, PassForgets,
             Closes, FlushBegins, DropBegins, ModuleCloses, FlushEnds, Readies, ReadyFlushes,
             ReadyReads, ReadyLists, PassLists, PassReads, laneVars
    <3> QED
      BY <3>1 DEF LaneTypes
  <2> QED
    BY <2>1, <2>2, <2>3, <2>4
<1> QED
  BY <1>1, <1>2, <1>3, <1>4, <1>5 DEF LaneTypes

(* Every variable has its type (modulelane.go).                             *)
THEOREM LaneTypeCorrect == LaneSpec => []LaneTypes
  BY LaneTypesAtFirst, LaneTypesKept, PTL DEF LaneSpec

-----------------------------------------------------------------------------
(* Where a task comes from *)

Begins(t) ==
  \/ /\ t.by = "flush" /\ t.at = "due" /\ t.id \in LaneIds
     /\ Holds(t.id) /\ t.key = lanes[t.id].key
  \/ /\ t.by = "drop" /\ t.at = "due" /\ t.id = 0
     /\ \E id \in LaneIds : \/ Holds(id) /\ t.key = lanes[id].key
                            \/ step[id].at = "asked" /\ t.key = step[id].key
  \/ /\ t.by = "poll" /\ t.at = "look" /\ t.id \in LaneIds
     /\ t.key = 0 /\ t.pid = 0 /\ t.gen = 0
     /\ Has(t.id) \/ \E u \in work : u.id = t.id
  \/ /\ t.by = "pass" /\ t.at \in {"due", "shut"} /\ t.id \in LaneIds
     /\ Holds(t.id) /\ t.key = lanes[t.id].key /\ t.gen = 0
     /\ t.pid \in {0, glance.rows[t.id], lanes[t.id].pid}
     /\ t.at = "shut" => GoneFrom(t.id) /\ glance.valid /\ MayLook
  \/ /\ t.by = "pass" /\ t.at = "forget" /\ t.id \in LaneIds
     /\ Has(t.id) /\ ~Holds(t.id) /\ t.key = 0 /\ t.pid = 0 /\ t.gen = 0
     /\ glance.valid /\ MayLook
  \/ /\ t.by = "ready" /\ t.at = "flush" /\ t.id = 0 /\ t.gen = mod'.gen

\* An attach goes on from another task.
AttachFollows(t, u) ==
  \/ /\ u.by = "poll" /\ t.by = "poll" /\ t.at = "asked" /\ t.id = u.id
     /\ Holds(t.id) /\ t.key = lanes[t.id].key /\ t.pid = rows[t.id]
     /\ t.gen = mod.gen /\ t.via = mod.gen
  \/ /\ t.by = u.by /\ u.by \in {"poll", "ready", "pass"} /\ u.at = "asked" /\ t.at = "answered"
     /\ t.id = u.id /\ t.key = u.key /\ t.pid = u.pid /\ t.gen = u.gen /\ t.via = u.via
     /\ t.res = "live" => <<t.key, t.via>> \in lasted'
  \/ /\ t.by = "ready" /\ u.by = "ready" /\ u.at = "records" /\ t.at = "rows" /\ MayLook
     /\ t.id \in LaneIds /\ Holds(t.id) /\ t.key = lanes[t.id].key /\ t.pid = lanes[t.id].pid
     /\ t.gen = u.gen
  \/ /\ t.by = "ready" /\ u.by = "ready" /\ u.at = "rows" /\ t.at \in {"due", "shut"} /\ MayLook
     /\ t.id = u.id /\ t.key = u.key /\ t.pid \in {u.pid, rows[t.id]} /\ t.gen = u.gen
     /\ t.at = "shut" => rows[t.id] = 0 \/ t.pid \notin {0, rows[t.id]}
  \/ /\ t.by = u.by /\ u.by \in {"ready", "pass"} /\ u.at = "due" /\ t.at = "asked"
     /\ t.id = u.id /\ t.key = u.key /\ t.pid = u.pid /\ t.gen \in {u.gen, mod.gen} /\ t.via = mod.gen
\* So does a close, and the ready callback.
CloseFollows(t, u) ==
  \/ /\ t.by = u.by /\ u.by \in {"flush", "drop"} /\ t.id = u.id /\ t.key = u.key
     /\ work' = (work \ {u}) \cup {t}
     /\ \/ u.at = "due" /\ t.at = "asked" /\ (u.by = "flush" => FlushBegins(u) /\ ClaimsClose(u))
        \/ u.by = "flush" /\ u.at = "asked" /\ t.at = "done" /\ t.key \notin known' /\ ModuleCloses(u)
  \/ /\ t.by = "ready" /\ u.by = "ready" /\ u.at = "flush" /\ t.at = "records" /\ t.gen = u.gen /\ t.id = 0

ComesFrom(t) ==
  \/ t \in work
  \/ Begins(t)
  \/ \E u \in work : AttachFollows(t, u) \/ CloseFollows(t, u)

(* What a close tells the module.                                           *)
LEMMA ToldBegins ==
  ASSUME NEW id \in LaneIds, NEW t \in Told(id)
  PROVE  Begins(t)
<1>1. Holds(id) /\ t = Flush(id, lanes[id].key)
  BY DEF Told
<1>2. t.by = "flush" /\ t.at = "due" /\ t.id = id /\ t.key = lanes[id].key
  BY <1>1 DEF Flush
<1> QED
  BY <1>1, <1>2 DEF Begins

(* The requests only begin tasks.                                           *)
LEMMA RequestsBegin ==
  ASSUME LaneTypes, NEW t \in work', NEW id \in LaneIds,
         \/ Offer(id) \/ Offered(id) \/ Launch(id) \/ LaunchFails(id) \/ Launched(id)
         \/ KillSession(id) \/ Killed(id) \/ \E to \in LaneIds : RenameLane(id, to)
  PROVE  t \in work \/ Begins(t)
<1>1. \A k : (Holds(id) /\ k = lanes[id].key) \/ (step[id].at = "asked" /\ k = step[id].key) => Begins(Drop(k))
  BY DEF Begins, Drop
<1>2. CASE Offer(id) \/ Offered(id)
  <2>1. \/ t \in work
        \/ t = Drop(lanes[id].key) /\ Holds(id)
        \/ t = Drop(step[id].key) /\ step[id].at = "asked"
    <3>1. CASE Offer(id)
      BY <3>1 DEF Offer, Record, hostVars
    <3>2. CASE Offered(id)
      BY <3>2 DEF Offered, Record
    <3> QED
      BY <1>2, <3>1, <3>2
  <2> QED
    BY <1>1, <2>1
<1>3. CASE LaunchFails(id) \/ Killed(id)
  BY <1>3, ToldBegins DEF LaunchFails, Killed, CloseLane
<1>4. CASE Launched(id)
  <2>1. CASE t \in work
    BY <2>1
  <2>2. CASE t = Attach("poll", id, 0, 0, 0, "look") /\ Holds(id)
    BY <2>2 DEF Attach, Begins, Holds
  <2> QED
    BY <1>4, <2>1, <2>2 DEF Launched
<1>5. CASE Launch(id) \/ KillSession(id) \/ \E to \in LaneIds : RenameLane(id, to)
  BY <1>5 DEF Launch, KillSession, RenameLane, hostVars
<1> QED
  BY <1>2, <1>3, <1>4, <1>5

(* The world begins a ready callback; a restart ends every task.            *)
LEMMA WorldBegins ==
  ASSUME LaneTypes, NEW t \in work', LaneWorld \/ Rekey
  PROVE  t \in work \/ Begins(t)
<1>1. CASE ModuleReady
  <2>1. CASE t \in work
    BY <2>1
  <2>2. CASE t = [by |-> "ready", id |-> 0, gen |-> mod'.gen, at |-> "flush"]
    BY <2>2 DEF Begins
  <2> QED
    BY <1>1, <2>1, <2>2 DEF ModuleReady
<1>2. CASE ~ModuleReady
  BY <1>2 DEF LaneWorld, LaneSessionEnds, AgentReplaced, Degrade, Drops, ModuleDies, ModuleSuspect, RestartDriver,
              Rekey, hostVars
<1> QED
  BY <1>1, <1>2

(* An attach goes on, or is done.                                           *)
LEMMA AttachesFollow ==
  ASSUME LaneTypes, NEW t \in work', NEW u \in work, Attaches(u)
  PROVE  ComesFrom(t)
<1>1. CASE PollLooks(u)
  <2>1. u.id \in LaneIds /\ u.by = "poll"
    BY <1>1, TaskKinds DEF PollLooks, AttachTasks, LaneTypes
  <2>2. CASE t \in work
    BY <2>2 DEF ComesFrom
  <2>3. CASE Holds(u.id) /\ t = [Attach("poll", u.id, lanes[u.id].key, rows[u.id], mod.gen, "asked")
                                   EXCEPT !.via = mod.gen]
    <3>1. /\ t.by = "poll" /\ t.at = "asked" /\ t.id = u.id /\ t.key = lanes[u.id].key /\ t.pid = rows[u.id]
          /\ t.gen = mod.gen /\ t.via = mod.gen
      BY <2>3 DEF Attach
    <3> QED
      BY <2>1, <2>3, <3>1 DEF AttachFollows, ComesFrom
  <2> QED
    BY <1>1, <2>2, <2>3 DEF PollLooks, PollEnds
<1>2. CASE ModuleTakes(u) \/ ModuleDoesNot(u)
  <2>1. u \in AttachTasks
    BY <1>2, TaskKinds DEF ModuleTakes, ModuleDoesNot, HasKey, LaneTypes
  <2>2. CASE t \in work
    BY <2>2 DEF ComesFrom
  <2>3. ASSUME NEW res, t = [u EXCEPT !.at = "answered", !.res = res], res = "live" => ModuleTakes(u)
        PROVE  ComesFrom(t)
    <3>1. /\ t.by = u.by /\ t.at = "answered" /\ t.id = u.id /\ t.key = u.key /\ t.pid = u.pid /\ t.gen = u.gen
          /\ t.via = u.via /\ t.res = res
      BY <2>1, <2>3 DEF AttachTasks
    <3>2. t.res = "live" => <<t.key, t.via>> \in lasted'
      BY <2>3, <3>1 DEF ModuleTakes
    <3> QED
      BY <1>2, <3>1, <3>2 DEF AttachFollows, ComesFrom, ModuleTakes, ModuleDoesNot
  <2>4. CASE ModuleTakes(u)
    BY <2>2, <2>3, <2>4 DEF ModuleTakes, Replied
  <2>5. CASE ModuleDoesNot(u)
    <3>1. PICK res \in {"refused", "lost", "later", "no"} : work' = Replied(u, res)
      BY <2>5 DEF ModuleDoesNot
    <3> QED
      BY <2>2, <2>3, <3>1 DEF Replied
  <2> QED
    BY <1>2, <2>4, <2>5
<1>3. CASE Apply(u)
  <2>1. u.id \in LaneIds
    BY <1>3, TaskKinds DEF Apply, AttachTasks, HasKey, LaneTypes
  <2>2. CASE t \in work
    BY <2>2 DEF ComesFrom
  <2>3. CASE t = Attach("poll", u.id, 0, 0, 0, "look")
    <3>1. /\ t.by = "poll" /\ t.at = "look" /\ t.id = u.id /\ t.key = 0 /\ t.pid = 0 /\ t.gen = 0
      BY <2>3 DEF Attach
    <3> QED
      BY <2>1, <3>1 DEF Begins, ComesFrom
  <2> QED
    BY <1>3, <2>2, <2>3 DEF Apply
<1>4. CASE AskAttach(u)
  <2>1. u \in AttachTasks
    BY <1>4, TaskKinds DEF AskAttach, HasKey, LaneTypes
  <2>2. CASE t \in work
    BY <2>2 DEF ComesFrom
  <2> DEFINE gen == IF u.by = "pass" THEN mod.gen ELSE u.gen
  <2>3. CASE t = [u EXCEPT !.at = "asked", !.via = mod.gen, !.gen = gen]
    <3>1. gen \in {u.gen, mod.gen}
      OBVIOUS
    <3> HIDE DEF gen
    <3>2. /\ t.by = u.by /\ t.at = "asked" /\ t.id = u.id /\ t.key = u.key /\ t.pid = u.pid /\ t.gen = gen
          /\ t.via = mod.gen
      BY <2>1, <2>3 DEF AttachTasks
    <3> QED
      BY <1>4, <3>1, <3>2 DEF AskAttach, AttachFollows, ComesFrom
  <2> QED
    BY <1>4, <2>2, <2>3 DEF AskAttach
<1>5. CASE Shut(u)
  <2>1. u.id \in LaneIds
    BY <1>5, TaskKinds DEF Shut, AttachTasks, HasKey, LaneTypes
  <2> QED
    BY <1>5, <2>1, ToldBegins DEF Shut, CloseLane, ComesFrom
<1>6. CASE PassForgets(u)
  BY <1>6 DEF PassForgets, ComesFrom
<1> QED
  BY <1>1, <1>2, <1>3, <1>4, <1>5, <1>6 DEF Attaches

(* A close goes on, or is done.                                             *)
LEMMA ClosesFollow ==
  ASSUME LaneTypes, NEW t \in work', NEW u \in work, Closes(u)
  PROVE  ComesFrom(t)
<1>1. u \in FlushTasks \/ u \in DropTasks
  BY TaskKinds DEF Closes, FlushBegins, DropBegins, ModuleCloses, CloseFails, FlushEnds, LaneTypes
<1>2. CASE t \in work
  BY <1>2 DEF ComesFrom
<1>3. CASE /\ t = [u EXCEPT !.at = "asked", !.via = mod.gen] /\ work' = (work \ {u}) \cup {t}
           /\ (FlushBegins(u) /\ ClaimsClose(u)) \/ DropBegins(u)
  <2>1. t.by = u.by /\ t.id = u.id /\ t.key = u.key /\ t.at = "asked"
    BY <1>1, <1>3 DEF FlushTasks, DropTasks
  <2> QED
    BY <1>3, <2>1 DEF FlushBegins, DropBegins, CloseFollows, ComesFrom
<1>4. CASE t = [u EXCEPT !.at = "done"] /\ ModuleCloses(u) /\ u.by = "flush"
  <2>1. t.by = u.by /\ t.id = u.id /\ t.key = u.key /\ t.at = "done"
    BY <1>1, <1>4 DEF FlushTasks, DropTasks
  <2>2. t.key \notin known'
    BY <1>4, <2>1 DEF ModuleCloses
  <2> QED
    BY <1>4, <2>1, <2>2 DEF ModuleCloses, CloseFollows, ComesFrom
<1> QED
  BY <1>2, <1>3, <1>4 DEF Closes, FlushBegins, DropBegins, ModuleCloses, CloseFails, FlushEnds

(* A look goes on.                                                          *)
LEMMA LooksFollow ==
  ASSUME LaneTypes, NEW t \in work', (\E u \in work : Readies(u)) \/ ReadyLists \/ PassLists \/ PassReads
  PROVE  ComesFrom(t)
<1>0. CASE t \in work
  BY <1>0 DEF ComesFrom
<1>1. ASSUME NEW u \in work, ReadyFlushes(u) PROVE ComesFrom(t)
  <2>1. u \in ReadyTasks
    BY <1>1, TaskKinds DEF ReadyFlushes, LaneTypes
  <2>2. CASE t = [u EXCEPT !.at = "records"]
    <3>1. t.by = "ready" /\ t.at = "records" /\ t.gen = u.gen /\ t.id = 0
      BY <2>1, <2>2 DEF ReadyTasks
    <3> QED
      BY <1>1, <3>1 DEF ReadyFlushes, CloseFollows, ComesFrom
  <2>3. ASSUME NEW id \in LaneIds, Holds(id), t = Flush(id, lanes[id].key) PROVE ComesFrom(t)
    <3>1. t.by = "flush" /\ t.at = "due" /\ t.id = id /\ t.key = lanes[id].key
      BY <2>3 DEF Flush
    <3> QED
      BY <2>3, <3>1 DEF Begins, ComesFrom
  <2> QED
    BY <1>0, <1>1, <2>2, <2>3 DEF ReadyFlushes
<1>2. ASSUME NEW u \in work, ReadyReads(u) PROVE ComesFrom(t)
  <2>1. ASSUME NEW id \in LaneIds, Holds(id),
               t = Attach("ready", id, lanes[id].key, lanes[id].pid, u.gen, "rows")
        PROVE  ComesFrom(t)
    <3>1. /\ t.by = "ready" /\ t.at = "rows" /\ t.id = id /\ t.key = lanes[id].key /\ t.pid = lanes[id].pid
          /\ t.gen = u.gen
      BY <2>1 DEF Attach
    <3> QED
      BY <1>2, <2>1, <3>1 DEF ReadyReads, AttachFollows, ComesFrom
  <2> QED
    BY <1>0, <1>2, <2>1 DEF ReadyReads
<1>3. CASE ReadyLists
  <2> DEFINE waiting == {u \in work : u.by = "ready" /\ u.at = "rows"}
  <2>1. PICK seen \in BOOLEAN : work' = (work \ waiting) \cup {Sorted(u, seen) : u \in waiting}
    BY <1>3 DEF ReadyLists
  <2>2. ASSUME NEW u \in waiting, t = Sorted(u, seen) PROVE ComesFrom(t)
    <3>1. u \in work /\ u.by = "ready" /\ u.at = "rows" /\ u \in AttachTasks /\ MayLook
      BY <1>3, TaskKinds DEF HasKey, LaneTypes, ReadyLists
    <3>2. CASE t = [u EXCEPT !.at = "shut"] /\ (rows[u.id] = 0 \/ (u.pid # 0 /\ rows[u.id] # u.pid))
      <4>1. /\ t.by = "ready" /\ t.at = "shut" /\ t.id = u.id /\ t.key = u.key /\ t.pid = u.pid /\ t.gen = u.gen
        BY <3>1, <3>2 DEF AttachTasks
      <4> QED
        BY <3>1, <3>2, <4>1 DEF AttachFollows, ComesFrom
    <3> DEFINE pid == IF seen THEN rows[u.id] ELSE u.pid
    <3>3. CASE t = [u EXCEPT !.at = "due", !.pid = pid]
      <4>1. pid \in {u.pid, rows[u.id]}
        OBVIOUS
      <4> HIDE DEF pid
      <4>2. /\ t.by = "ready" /\ t.at = "due" /\ t.id = u.id /\ t.key = u.key /\ t.pid = pid /\ t.gen = u.gen
        BY <3>1, <3>3 DEF AttachTasks
      <4> QED
        BY <3>1, <4>1, <4>2 DEF AttachFollows, ComesFrom
    <3> QED
      BY <2>2, <3>2, <3>3 DEF Sorted
  <2> QED
    BY <1>0, <2>1, <2>2
<1>4. CASE PassLists
  BY <1>0, <1>4 DEF PassLists
<1>5. CASE PassReads
  <2>1. ASSUME NEW id \in LaneIds, t \in PassItem(id) PROVE ComesFrom(t)
    <3>1. CASE t = Attach("pass", id, 0, 0, 0, "forget") /\ Has(id) /\ lanes[id].key = 0
      <4>1. t.by = "pass" /\ t.at = "forget" /\ t.id = id /\ t.key = 0 /\ t.pid = 0 /\ t.gen = 0
        BY <3>1 DEF Attach
      <4> QED
        BY <1>5, <3>1, <4>1 DEF PassReads, Holds, Begins, ComesFrom
    <3>2. CASE Holds(id) /\ t = Flush(id, lanes[id].key)
      <4>1. t.by = "flush" /\ t.at = "due" /\ t.id = id /\ t.key = lanes[id].key
        BY <3>2 DEF Flush
      <4> QED
        BY <3>2, <4>1 DEF Begins, ComesFrom
    <3>3. ASSUME Holds(id), NEW at \in {"due", "shut"}, NEW pid \in {0, glance.rows[id], lanes[id].pid},
                 t = Attach("pass", id, lanes[id].key, pid, 0, at), at = "shut" => GoneFrom(id)
          PROVE  ComesFrom(t)
      <4>1. /\ t.by = "pass" /\ t.at = at /\ t.id = id /\ t.key = lanes[id].key /\ t.pid = pid /\ t.gen = 0
        BY <3>3 DEF Attach
      <4> QED
        BY <1>5, <3>3, <4>1 DEF PassReads, Begins, ComesFrom
    <3> QED
      BY <2>1, <3>1, <3>2, <3>3 DEF PassItem, Holds
  <2> QED
    BY <1>0, <1>5, <2>1 DEF PassReads
<1> QED
  BY <1>1, <1>2, <1>3, <1>4, <1>5 DEF Readies

(* Every task was there, begins or goes on.                                 *)
LEMMA TasksComeFrom ==
  ASSUME LaneTypes, [LaneNext]_laneVars, NEW t \in work'
  PROVE  ComesFrom(t)
<1>1. CASE UNCHANGED laneVars
  BY <1>1 DEF laneVars, hostVars, ComesFrom
<1> QED
  BY <1>1, RequestsBegin, WorldBegins, AttachesFollow, ClosesFollow, LooksFollow
     DEF LaneNext, Requests, Advance, ComesFrom

-----------------------------------------------------------------------------
(* What becomes of a record *)

\* An answer makes the lane live, of this life of the module.
LiveNow(id) ==
  \E t \in work : /\ Attaching(t) /\ t.at = "answered" /\ t.res = "live" /\ t.id = id
                  /\ lanes'[id].gen = t.gen /\ t.gen = mod.gen
\* A flush is done with, and no other begins.
FlushOver(k) ==
  \/ work' = {}
  \/ \E t \in work : Closing(t) /\ t.key = k /\ work' = work \ {t}
\* The record stays what it is, but for what may have changed about its lane.
Stays(id) ==
  /\ Holds(id) => \/ lanes'[id].there /\ lanes'[id].key = lanes[id].key
                  \/ \E t \in work : t.by = "flush" /\ t.at = "done" /\ t.key = lanes[id].key
                  \/ \E t \in work : t.at = "forget" /\ t.id = id
  /\ lanes'[id].there =>
       /\ Has(id) /\ lanes'[id].key = lanes[id].key
       /\ lanes'[id].pid = lanes[id].pid \/ \E t \in work : Attaching(t) /\ lanes'[id].pid = t.pid
       /\ lanes'[id].live => (lanes[id].live /\ lanes'[id].gen = lanes[id].gen) \/ LiveNow(id)
       /\ lanes[id].flushing => lanes'[id].flushing \/ FlushOver(lanes[id].key)
       /\ lanes'[id].closing => \/ lanes[id].closing \/ rows[id] = 0
                                \/ step[id].at = "offered" \/ id \in ending
                                \/ \E t \in work : t.at = "shut" /\ t.id = id

(* A record that nothing happens to.                                        *)
LEMMA LeftAlone ==
  ASSUME LaneTypes, NEW id \in LaneIds, lanes'[id] = lanes[id] \/ lanes'[id] = Absent
  PROVE  \/ Stays(id)
         \/ Holds(id) /\ lanes'[id] = Absent
<1>1. CASE lanes'[id] = lanes[id]
  BY <1>1 DEF Stays, Has, Holds
<1>2. CASE lanes'[id] = Absent
  BY <1>2 DEF Stays, Absent
<1> QED
  BY <1>1, <1>2

(* closeLane.                                                               *)
LEMMA ClosedStays ==
  ASSUME LaneTypes, NEW id \in LaneIds, NEW other \in LaneIds, NEW done, CloseLane(other, done),
         \/ step[other].at = "offered" \/ other \in ending
         \/ \E t \in work : t.at = "shut" /\ t.id = other
  PROVE  Stays(id)
<1> USE DEF LaneTypes
<1>1. lanes' = [lanes EXCEPT ![other] = LaneClosed(other)] /\ lanes \in [LaneIds -> LaneRecords \cup {Absent}]
  BY DEF CloseLane, HostTypes
<1>2. CASE id # other
  BY <1>1, <1>2, LeftAlone DEF Stays, Has, Holds
<1>3. CASE id = other /\ ~Holds(id)
  <2>1. lanes'[id] = Absent
    BY <1>1, <1>3, LaneOfType DEF LaneClosed, Holds
  <2> QED
    BY <1>3, <2>1, LeftAlone
<1>4. CASE id = other /\ Holds(id)
  <2>1. lanes'[id] = [lanes[id] EXCEPT !.closing = TRUE, !.live = FALSE]
    BY <1>1, <1>4 DEF LaneClosed, Holds
  <2>2. lanes[id] \in LaneRecords
    BY <1>4, LaneOfType DEF Holds
  <2>3. /\ lanes'[id].there /\ lanes'[id].key = lanes[id].key /\ lanes'[id].pid = lanes[id].pid
        /\ ~lanes'[id].live /\ lanes'[id].flushing = lanes[id].flushing
    BY <2>1, <2>2 DEF LaneRecords
  <2> QED
    BY <1>4, <2>3 DEF Stays, Holds
<1> QED
  BY <1>2, <1>3, <1>4

(* A change of the other fields.                                            *)
LEMMA ChangedStays ==
  ASSUME LaneTypes, NEW id \in LaneIds, NEW other \in LaneIds, Has(other),
         NEW r, lanes' = [lanes EXCEPT ![other] = r],
         r.there, r.key = lanes[other].key,
         r.pid = lanes[other].pid \/ \E t \in work : Attaching(t) /\ r.pid = t.pid,
         id = other /\ r.live => (lanes[other].live /\ r.gen = lanes[other].gen) \/ LiveNow(id),
         lanes[other].flushing => r.flushing \/ FlushOver(lanes[other].key),
         r.closing => lanes[other].closing
  PROVE  Stays(id)
<1>1. lanes \in [LaneIds -> LaneRecords \cup {Absent}]
  BY DEF HostTypes, LaneTypes
<1>2. CASE id # other
  BY <1>1, <1>2, LeftAlone DEF Stays, Has, Holds
<1>3. CASE id = other
  <2>1. lanes'[id] = r
    BY <1>1, <1>3
  <2> QED
    BY <1>3, <2>1 DEF Stays
<1> QED
  BY <1>2, <1>3

(* An answer is applied.                                                    *)
LEMMA AppliedStays ==
  ASSUME LaneTypes, NEW id \in LaneIds, NEW t \in work, Apply(t)
  PROVE  Stays(id)
<1> USE DEF LaneTypes
<1>1. t \in AttachTasks /\ t.id \in LaneIds /\ Attaching(t) /\ t.at = "answered"
  BY TaskKinds DEF Apply, HasKey, AttachTasks, Attaching
<1>2. lanes \in [LaneIds -> LaneRecords \cup {Absent}]
  BY DEF HostTypes
<1>3. CASE ~Has(t.id)
  <2>1. lanes' = lanes
    BY <1>3 DEF Apply, Applies, Holds
  <2> QED
    BY <2>1, LeftAlone DEF Stays, Has, Holds
<1>4. CASE Has(t.id)
  <2>1. lanes[t.id] \in LaneRecords
    BY <1>1, <1>4, LaneOfType
  <2> DEFINE r == IF Applies(t) THEN Applied(t) ELSE lanes[t.id]
  <2>2. /\ r \in LaneRecords /\ r.key = lanes[t.id].key /\ r.flushing = lanes[t.id].flushing
        /\ r.closing = lanes[t.id].closing /\ (r.pid = lanes[t.id].pid \/ r.pid = t.pid)
        /\ r.live => (lanes[t.id].live /\ r.gen = lanes[t.id].gen)
                     \/ (t.res = "live" /\ r.gen = t.gen /\ t.gen = mod.gen)
    <3>1. CASE ~Applies(t)
      BY <2>1, <3>1 DEF LaneRecords
    <3>2. CASE Applies(t)
      <4> DEFINE agent == IF t.pid # 0 /\ (lanes[t.id].pid = 0 \/ t.res = "live") THEN t.pid ELSE lanes[t.id].pid
      <4>1. agent \in {t.pid, lanes[t.id].pid} /\ agent \in Nat /\ t.gen \in Nat /\ t.gen = mod.gen
        BY <1>1, <2>1, <3>2 DEF AttachTasks, LaneRecords, Applies
      <4>2. r = CASE t.res = "live" ->
                       [lanes[t.id] EXCEPT !.pid = agent, !.live = TRUE, !.gen = t.gen, !.state = "live"]
                  [] t.res = "refused" /\ Replaced(t) ->
                       [lanes[t.id] EXCEPT !.pid = agent, !.live = FALSE, !.state = "gone"]
                  [] t.res \in {"lost", "refused"} /\ ~Replaced(t) ->
                       [lanes[t.id] EXCEPT !.pid = agent, !.live = FALSE]
                  [] OTHER -> [lanes[t.id] EXCEPT !.pid = agent, !.live = FALSE, !.state = "prepared"]
        BY <3>2 DEF Applied
      <4> HIDE DEF agent, r
      <4>3. CASE t.res = "live"
        <5>1. r = [lanes[t.id] EXCEPT !.pid = agent, !.live = TRUE, !.gen = t.gen, !.state = "live"]
          BY <4>2, <4>3
        <5> QED
          BY <2>1, <4>1, <4>3, <5>1 DEF LaneRecords
      <4>4. CASE t.res = "refused" /\ Replaced(t)
        <5>1. r = [lanes[t.id] EXCEPT !.pid = agent, !.live = FALSE, !.state = "gone"]
          BY <4>2, <4>4
        <5> QED
          BY <2>1, <4>1, <5>1 DEF LaneRecords
      <4>5. CASE t.res \in {"lost", "refused"} /\ ~Replaced(t)
        <5>1. r = [lanes[t.id] EXCEPT !.pid = agent, !.live = FALSE]
          BY <4>2, <4>5
        <5> QED
          BY <2>1, <4>1, <5>1 DEF LaneRecords
      <4>6. CASE t.res \notin {"live", "lost", "refused"}
        <5>1. r = [lanes[t.id] EXCEPT !.pid = agent, !.live = FALSE, !.state = "prepared"]
          BY <4>2, <4>6
        <5> QED
          BY <2>1, <4>1, <5>1 DEF LaneRecords
      <4> QED
        BY <4>3, <4>4, <4>5, <4>6 DEF Replaced
    <3> QED
      BY <3>1, <3>2
  <2>3. lanes' = [lanes EXCEPT ![t.id] = r] \/ lanes' = [lanes EXCEPT ![t.id] = [r EXCEPT !.attaching = FALSE]]
    <3> DEFINE after == IF Applies(t) THEN [lanes EXCEPT ![t.id] = Applied(t)] ELSE lanes
    <3>1. after = [lanes EXCEPT ![t.id] = r]
      BY <1>1, <1>2
    <3>2. lanes' = IF t.by = "poll" /\ ~GoesOn(t) /\ Has(t.id)
                   THEN [after EXCEPT ![t.id] = [after[t.id] EXCEPT !.attaching = FALSE]] ELSE after
      BY DEF Apply
    <3>3. after[t.id] = r
      BY <1>1, <1>2, <3>1
    <3>4. [after EXCEPT ![t.id] = [after[t.id] EXCEPT !.attaching = FALSE]]
            = [lanes EXCEPT ![t.id] = [r EXCEPT !.attaching = FALSE]]
      <4> HIDE DEF after, r
      <4> QED
        BY <1>1, <1>2, <3>1, <3>3
    <3> QED
      BY <3>1, <3>2, <3>4
  <2> HIDE DEF r
  <2>4. PICK s : /\ lanes' = [lanes EXCEPT ![t.id] = s]
                 /\ s = r \/ s = [r EXCEPT !.attaching = FALSE]
    BY <2>3
  <2>5. /\ s.there /\ s.key = r.key /\ s.flushing = r.flushing /\ s.closing = r.closing /\ s.pid = r.pid
        /\ s.live = r.live /\ s.gen = r.gen
    BY <2>2, <2>4 DEF LaneRecords
  <2>6. lanes'[t.id] = s
    BY <1>1, <1>2, <2>4
  <2>7. s.live => (lanes[t.id].live /\ s.gen = lanes[t.id].gen) \/ LiveNow(t.id)
    BY <1>1, <2>2, <2>5, <2>6 DEF LiveNow
  <2> QED
    BY <1>1, <1>4, <2>2, <2>4, <2>5, <2>7, ChangedStays, ZenonT(60)
<1> QED
  BY <1>3, <1>4

(* A flush that takes the record's lane, or gives it back.                  *)
LEMMA FlushedStays ==
  ASSUME LaneTypes, NEW id \in LaneIds, NEW t \in work, Closes(t)
  PROVE  Stays(id)
<1> USE DEF LaneTypes
<1>1. t \in FlushTasks \/ t \in DropTasks
  BY TaskKinds DEF Closes, FlushBegins, DropBegins, ModuleCloses, CloseFails, FlushEnds
<1>2. lanes \in [LaneIds -> LaneRecords \cup {Absent}] /\ HasKey(t)
  BY TaskKinds DEF HostTypes, Closes, FlushBegins, DropBegins, ModuleCloses, CloseFails, FlushEnds
<1>3. CASE lanes' = lanes
  BY <1>3, LeftAlone DEF Stays, Has, Holds
<1>4. ASSUME NEW f \in BOOLEAN, t.by = "flush", Has(t.id), lanes[t.id].key = t.key,
             lanes' = [lanes EXCEPT ![t.id] = [@ EXCEPT !.flushing = f]],
             f \/ FlushOver(t.key)
      PROVE  Stays(id)
  <2>1. t.id \in LaneIds /\ lanes[t.id] \in LaneRecords
    BY <1>1, <1>4, LaneOfType DEF FlushTasks, DropTasks
  <2> DEFINE r == [lanes[t.id] EXCEPT !.flushing = f]
  <2>2. /\ r.there /\ r.key = lanes[t.id].key /\ r.pid = lanes[t.id].pid /\ r.live = lanes[t.id].live
        /\ r.gen = lanes[t.id].gen /\ r.flushing = f /\ r.closing = lanes[t.id].closing
    BY <2>1 DEF LaneRecords
  <2>3. lanes' = [lanes EXCEPT ![t.id] = r]
    BY <1>2, <1>4, <2>1
  <2> HIDE DEF r
  <2> QED
    BY <1>4, <2>1, <2>2, <2>3, ChangedStays
<1>5. CASE FlushBegins(t)
  BY <1>3, <1>4, <1>5 DEF FlushBegins, ClaimsClose
<1>6. CASE DropBegins(t) \/ ModuleCloses(t)
  BY <1>3, <1>6 DEF DropBegins, ModuleCloses
<1>7. ASSUME t.by = "flush", t.at \in {"asked", "done"}, lanes' = Unflushed(t), work' = work \ {t}
      PROVE  Stays(id)
  <2>1. FlushOver(t.key)
    BY <1>7 DEF FlushOver, Closing
  <2> QED
    BY <1>3, <1>4, <1>7, <2>1 DEF Unflushed
<1>8. CASE CloseFails(t)
  BY <1>3, <1>7, <1>8 DEF CloseFails
<1>9. CASE FlushEnds(t)
  <2>1. CASE lanes' = Unflushed(t)
    BY <1>7, <1>9, <2>1 DEF FlushEnds
  <2>2. CASE lanes[t.id].key = t.key /\ lanes' = [lanes EXCEPT ![t.id] = Absent]
    <3>1. t.id \in LaneIds
      BY <1>1, <1>9 DEF FlushEnds, FlushTasks, DropTasks
    <3>2. CASE id # t.id
      BY <1>2, <2>2, <3>1, <3>2, LeftAlone DEF Stays, Has, Holds
    <3>3. CASE id = t.id
      <4>1. lanes'[id] = Absent
        BY <1>2, <2>2, <3>3
      <4>2. ~lanes'[id].there
        BY <4>1 DEF Absent
      <4> QED
        BY <1>9, <2>2, <3>3, <4>2 DEF FlushEnds, Stays
    <3> QED
      BY <3>2, <3>3
  <2> QED
    BY <1>9, <2>1, <2>2 DEF FlushEnds
<1> QED
  BY <1>5, <1>6, <1>8, <1>9 DEF Closes

(* The attaches.                                                            *)
LEMMA AttachedStays ==
  ASSUME LaneTypes, NEW id \in LaneIds, NEW t \in work, Attaches(t)
  PROVE  Stays(id)
<1> USE DEF LaneTypes
<1>1. lanes \in [LaneIds -> LaneRecords \cup {Absent}]
  BY DEF HostTypes
<1>2. CASE lanes' = lanes
  BY <1>2, LeftAlone DEF Stays, Has, Holds
<1>3. CASE PollLooks(t) /\ PollEnds(t) /\ Has(t.id)
  <2>1. t.id \in LaneIds
    BY <1>3, TaskKinds DEF PollLooks, AttachTasks
  <2>2. lanes[t.id] \in LaneRecords
    BY <1>3, <2>1, LaneOfType
  <2> DEFINE r == [lanes[t.id] EXCEPT !.attaching = FALSE]
  <2>3. /\ r.there /\ r.key = lanes[t.id].key /\ r.pid = lanes[t.id].pid /\ r.live = lanes[t.id].live
        /\ r.gen = lanes[t.id].gen /\ r.flushing = lanes[t.id].flushing /\ r.closing = lanes[t.id].closing
    BY <2>2 DEF LaneRecords
  <2>4. lanes' = [lanes EXCEPT ![t.id] = r]
    BY <1>1, <1>3, <2>1 DEF PollEnds
  <2> HIDE DEF r
  <2> QED
    BY <1>3, <2>1, <2>3, <2>4, ChangedStays
<1>4. CASE Shut(t)
  <2>1. t.id \in LaneIds
    BY <1>4, TaskKinds DEF Shut, HasKey, AttachTasks
  <2> QED
    BY <1>4, <2>1, ClosedStays DEF Shut
<1>5. CASE PassForgets(t)
  <2>1. t.id \in LaneIds
    BY <1>5, TaskKinds DEF PassForgets, AttachTasks
  <2>2. CASE id = t.id
    <3>1. ~lanes'[id].there
      BY <1>1, <1>5, <2>2 DEF PassForgets, Absent
    <3> QED
      BY <1>5, <2>2, <3>1 DEF PassForgets, Stays
  <2>3. CASE id # t.id
    BY <1>1, <1>5, <2>1, <2>3, LeftAlone DEF PassForgets, Stays, Has, Holds
  <2> QED
    BY <2>2, <2>3
<1> QED
  BY <1>2, <1>3, <1>4, <1>5, AppliedStays DEF Attaches, PollLooks, PollEnds, ModuleTakes, ModuleDoesNot, AskAttach

(* A record that is read from the file.                                     *)
LEMMA RecordReloads ==
  ASSUME NEW r \in LaneRecords, NEW closing \in BOOLEAN, NEW s,
         s = [r EXCEPT !.live = FALSE, !.state = "", !.gen = 0, !.attaching = FALSE,
                       !.flushing = FALSE, !.closing = closing]
  PROVE  /\ s.there = TRUE /\ s.key = r.key /\ s.pid = r.pid /\ s.live = FALSE /\ s.closing = closing
  BY DEF LaneRecords

(* A restart.                                                               *)
LEMMA ReloadedStays ==
  ASSUME LaneTypes, NEW id \in LaneIds, RestartDriver
  PROVE  Stays(id)
<1> USE DEF LaneTypes
<1>1. PICK gone \in SUBSET {i \in LaneIds : rows[i] = 0} :
         lanes' = [i \in LaneIds |-> Reloaded(lanes[i], i \in gone)]
  BY DEF RestartDriver
<1>2. lanes'[id] = Reloaded(lanes[id], id \in gone) /\ work' = {}
  BY <1>1 DEF RestartDriver
<1>3. CASE ~Has(id) \/ (lanes[id].key = 0 /\ lanes'[id] = Absent)
  <2>1. lanes'[id] = Absent
    BY <1>2, <1>3 DEF Reloaded, Has
  <2> QED
    BY <1>3, <2>1, LeftAlone DEF Holds
<1>4. CASE Has(id) /\ ~(lanes[id].key = 0 /\ lanes'[id] = Absent)
  <2>1. lanes[id] \in LaneRecords
    BY <1>4, LaneOfType
  <2>2. ASSUME NEW closing \in BOOLEAN, closing => lanes[id].closing \/ rows[id] = 0,
               lanes'[id] = [lanes[id] EXCEPT !.live = FALSE, !.state = "", !.gen = 0, !.attaching = FALSE,
                                              !.flushing = FALSE, !.closing = closing]
        PROVE  Stays(id)
    <3>1. /\ lanes'[id].there = TRUE /\ lanes'[id].key = lanes[id].key /\ lanes'[id].pid = lanes[id].pid
          /\ lanes'[id].live = FALSE /\ lanes'[id].closing = closing
      <4>1. PICK r \in LaneRecords : r = lanes[id]
        BY <2>1
      <4>2. PICK s : s = lanes'[id]
        OBVIOUS
      <4>3. s = [r EXCEPT !.live = FALSE, !.state = "", !.gen = 0, !.attaching = FALSE, !.flushing = FALSE,
                          !.closing = closing]
        BY <2>2, <4>1, <4>2
      <4>4. /\ s.there = TRUE /\ s.key = r.key /\ s.pid = r.pid /\ s.live = FALSE /\ s.closing = closing
        BY <4>3, RecordReloads, ZenonT(60)
      <4> QED
        BY <4>1, <4>2, <4>4
    <3> QED
      BY <1>2, <1>4, <2>2, <3>1 DEF Stays, FlushOver
  <2> DEFINE closing == lanes[id].closing \/ id \in gone
  <2>3. closing \in BOOLEAN /\ (closing => lanes[id].closing \/ rows[id] = 0)
    BY <1>1, <2>1 DEF LaneRecords
  <2>4. lanes'[id] = [lanes[id] EXCEPT !.live = FALSE, !.state = "", !.gen = 0, !.attaching = FALSE,
                                       !.flushing = FALSE, !.closing = closing]
    BY <1>2, <1>4 DEF Reloaded, Has
  <2> HIDE DEF closing
  <2> QED
    BY <2>2, <2>3, <2>4
<1> QED
  BY <1>3, <1>4

(* Every record stays, unless a create or a rename has come to it.          *)
LEMMA RecordsStay ==
  ASSUME LaneTypes, [LaneNext]_laneVars, ~Rekey, \A i \in LaneIds : ~Offer(i) /\ ~Offered(i),
         NEW id \in LaneIds
  PROVE  Stays(id)
<1> USE DEF LaneTypes
<1>1. CASE lanes' = lanes
  BY <1>1, LeftAlone DEF Stays, Has, Holds
<1>2. ASSUME NEW i \in LaneIds, LaunchFails(i) \/ Killed(i) PROVE Stays(id)
  BY <1>2, ClosedStays DEF LaunchFails, Killed
<1>3. ASSUME NEW i \in LaneIds, NEW f \in BOOLEAN, Has(i), lanes' = [lanes EXCEPT ![i] = [@ EXCEPT !.attaching = f]]
      PROVE  Stays(id)
  <2>1. lanes[i] \in LaneRecords /\ lanes \in [LaneIds -> LaneRecords \cup {Absent}]
    BY <1>3, LaneOfType DEF HostTypes
  <2> DEFINE r == [lanes[i] EXCEPT !.attaching = f]
  <2>2. /\ r.there /\ r.key = lanes[i].key /\ r.pid = lanes[i].pid /\ r.live = lanes[i].live
        /\ r.gen = lanes[i].gen /\ r.flushing = lanes[i].flushing /\ r.closing = lanes[i].closing
    BY <2>1 DEF LaneRecords
  <2>3. lanes' = [lanes EXCEPT ![i] = r]
    BY <1>3, <2>1
  <2> HIDE DEF r
  <2> QED
    BY <1>3, <2>2, <2>3, ChangedStays
<1>4. ASSUME NEW i \in LaneIds, Launched(i) PROVE Stays(id)
  BY <1>1, <1>3, <1>4 DEF Launched, Holds
<1>5. ASSUME NEW i \in LaneIds, Degrade(i) PROVE Stays(id)
  <2>1. lanes[i] \in LaneRecords /\ lanes \in [LaneIds -> LaneRecords \cup {Absent}] /\ Has(i)
    BY <1>5, LaneOfType DEF HostTypes, Degrade, Usable, Holds
  <2> DEFINE state == IF lanes[i].key \in known THEN "degraded" ELSE "gone"
             r == [lanes[i] EXCEPT !.live = FALSE, !.state = state]
  <2>2. /\ r.there /\ r.key = lanes[i].key /\ r.pid = lanes[i].pid /\ ~r.live
        /\ r.gen = lanes[i].gen /\ r.flushing = lanes[i].flushing /\ r.closing = lanes[i].closing
    <3> HIDE DEF state
    <3> QED
      BY <2>1 DEF LaneRecords
  <2>3. lanes' = [lanes EXCEPT ![i] = r]
    BY <1>5, <2>1 DEF Degrade
  <2> HIDE DEF r
  <2> QED
    BY <2>1, <2>2, <2>3, ChangedStays
<1>6. CASE PassReads
  BY <1>1, <1>6 DEF PassReads
<1>7. CASE UNCHANGED laneVars
  BY <1>1, <1>7 DEF laneVars, hostVars
<1>8. ASSUME NEW i \in LaneIds, \/ Launch(i) \/ KillSession(i) \/ LaneSessionEnds(i) \/ AgentReplaced(i)
                                \/ \E to \in LaneIds : RenameLane(i, to)
      PROVE  Stays(id)
  BY <1>1, <1>8 DEF Launch, KillSession, LaneSessionEnds, AgentReplaced, RenameLane, hostVars
<1>9. CASE (\E k \in Keys : Drops(k)) \/ ModuleDies \/ ModuleSuspect \/ ModuleReady \/ ReadyLists \/ PassLists
  BY <1>1, <1>9 DEF Drops, ModuleDies, ModuleSuspect, ModuleReady, ReadyLists, PassLists, hostVars
<1>10. ASSUME NEW t \in work, Readies(t) PROVE Stays(id)
  BY <1>1, <1>10 DEF Readies, ReadyFlushes, ReadyReads
<1> QED
  BY <1>2, <1>4, <1>5, <1>6, <1>7, <1>8, <1>9, <1>10, AttachedStays, FlushedStays, ReloadedStays
     DEF LaneNext, Requests, Advance, LaneWorld

-----------------------------------------------------------------------------
(* Counters *)

(* Counters only grow, and a lane that is new to the module has a new key.  *)
LEMMA CountersGrow ==
  ASSUME LaneTypes, [LaneNext]_laneVars
  PROVE  /\ {made, made', pids, pids', mod.gen, mod'.gen} \subseteq Nat
         /\ made <= made' /\ pids <= pids' /\ mod.gen <= mod'.gen
         /\ known' \subseteq known \cup (IF made' = made THEN {} ELSE {made'})
         /\ made' # made => \E id \in LaneIds : Offer(id) /\ UNCHANGED hostVars
<1>1. {made, made', pids, pids', mod.gen, mod'.gen} \subseteq Nat
  BY LaneTypesKept DEF LaneTypes, ModuleTypes, LaneSessionTypes
<1>2. \/ UNCHANGED <<made, known>>
      \/ made' = made /\ known' \subseteq known
      \/ \E id \in LaneIds : Offer(id) /\ UNCHANGED hostVars /\ made' = made + 1 /\ known' = known \cup {made'}
  BY ZenonT(60) DEF LaneNext, Requests, Offer, KillSession, RenameLane, Advance, Offered, Launch, LaunchFails, Launched,
         Killed, LaneWorld, LaneSessionEnds, AgentReplaced, Degrade, Drops, ModuleDies, ModuleSuspect,
         ModuleReady, RestartDriver, Rekey, Attaches, PollLooks, ModuleTakes, ModuleDoesNot, Apply, AskAttach, Shut, PassForgets,
         Closes, FlushBegins, DropBegins, ModuleCloses, CloseFails, FlushEnds, Readies, ReadyFlushes, ReadyReads,
         ReadyLists, PassLists, PassReads, laneVars, moduleVars
<1>3. pids' = pids \/ pids' = pids + 1
  BY ZenonT(60) DEF LaneNext, Requests, Offer, KillSession, RenameLane, Advance, Offered, Launch, LaunchFails, Launched,
         Killed, LaneWorld, LaneSessionEnds, AgentReplaced, Degrade, Drops, ModuleDies, ModuleSuspect,
         ModuleReady, RestartDriver, Rekey, Attaches, PollLooks, ModuleTakes, ModuleDoesNot, Apply, AskAttach, Shut, PassForgets,
         Closes, FlushBegins, DropBegins, ModuleCloses, CloseFails, FlushEnds, Readies, ReadyFlushes, ReadyReads,
         ReadyLists, PassLists, PassReads, laneVars, sessionVars
<1>4. mod'.gen = mod.gen \/ mod'.gen = mod.gen + 1
  <2>1. CASE mod' = mod
    BY <2>1
  <2>2. CASE ModuleDies \/ ModuleSuspect \/ ModuleReady \/ RestartDriver
    <3>1. mod \in [runs : BOOLEAN, usable : BOOLEAN, gen : Nat]
      BY DEF LaneTypes, ModuleTypes
    <3>2. CASE ModuleSuspect
      <4> DEFINE usable == ~mod.usable
      <4>1. mod' = [mod EXCEPT !.usable = usable]
        BY <3>2 DEF ModuleSuspect
      <4> HIDE DEF usable
      <4> QED
        BY <3>1, <4>1
    <3> QED
      <4>1. CASE ModuleReady
        BY <3>1, <4>1 DEF ModuleReady
      <4>2. CASE ModuleDies \/ RestartDriver
        <5>1. mod' = [mod EXCEPT !.runs = FALSE, !.usable = FALSE]
          BY <4>2 DEF ModuleDies, RestartDriver
        <5> QED
          BY <3>1, <5>1
      <4> QED
        BY <2>2, <3>2, <4>1, <4>2
  <2> QED
    BY <2>1, <2>2
       DEF LaneNext, Requests, Offer, KillSession, RenameLane, Advance, Offered, Launch, LaunchFails, Launched,
           Killed, LaneWorld, LaneSessionEnds, AgentReplaced, Degrade, Drops, Rekey, Attaches, PollLooks, ModuleTakes,
           ModuleDoesNot, Apply, AskAttach, Shut, PassForgets, Closes, FlushBegins, DropBegins, ModuleCloses, CloseFails, FlushEnds,
           Readies, ReadyFlushes, ReadyReads, ReadyLists, PassLists, PassReads, laneVars, moduleVars
<1>5. made <= made' /\ pids <= pids' /\ mod.gen <= mod'.gen
  BY <1>1, <1>2, <1>3, <1>4
<1>6. /\ known' \subseteq known \cup (IF made' = made THEN {} ELSE {made'})
      /\ made' # made => \E id \in LaneIds : Offer(id) /\ UNCHANGED hostVars
  BY <1>1, <1>2
<1> QED
  BY <1>1, <1>5, <1>6

(* A new record.                                                            *)
LEMMA NewLane ==
  ASSUME NEW k
  PROVE  /\ Lane(k).there = TRUE /\ Lane(k).key = k /\ Lane(k).pid = 0 /\ Lane(k).live = FALSE
         /\ Lane(k).closing = FALSE /\ Lane(k).flushing = FALSE
  BY DEF Lane

(* A create's record.                                                       *)
LEMMA CreatesRecord ==
  ASSUME LaneTypes, NEW id \in LaneIds, Offer(id) \/ Offered(id)
  PROVE  \/ lanes' = lanes /\ Offer(id)
         \/ \E k \in {0, step[id].key} :
              /\ lanes' = [lanes EXCEPT ![id] = Lane(k)]
              /\ lanes'[id] = Lane(k) /\ \A i \in LaneIds \ {id} : lanes'[i] = lanes[i]
              /\ k # 0 => Offered(id) /\ step[id].at = "asked"
<1>1. lanes \in [LaneIds -> LaneRecords \cup {Absent}]
  BY DEF LaneTypes, HostTypes
<1>2. CASE Offer(id)
  BY <1>1, <1>2 DEF Offer, Record, hostVars
<1>3. CASE Offered(id)
  <2>1. PICK k \in {0, step[id].key} : lanes' = [lanes EXCEPT ![id] = Lane(k)]
    BY <1>3 DEF Offered, Record
  <2> QED
    BY <1>1, <1>3, <2>1 DEF Offered
<1> QED
  BY <1>2, <1>3

(* rekey moves a record, or nothing.                                        *)
LEMMA RekeyMoves ==
  ASSUME LaneTypes, Rekey
  PROVE  \E m \in moving :
           /\ m[1] \in LaneIds /\ m[2] \in LaneIds /\ moving' = moving \ {m}
           /\ ~Has(m[1]) => lanes' = lanes
           /\ Has(m[1]) => /\ lanes'[m[2]] = lanes[m[1]] /\ (m[1] # m[2] => lanes'[m[1]] = Absent)
                           /\ \A i \in LaneIds \ {m[1], m[2]} : lanes'[i] = lanes[i]
<1>1. lanes \in [LaneIds -> LaneRecords \cup {Absent}]
  BY DEF LaneTypes, HostTypes
<1>2. PICK m \in moving : /\ moving' = moving \ {m}
                          /\ lanes' = IF Has(m[1])
                               THEN [lanes EXCEPT ![m[1]] = Absent, ![m[2]] = lanes[m[1]]] ELSE lanes
  BY DEF Rekey
<1>3. m[1] \in LaneIds /\ m[2] \in LaneIds
  BY DEF LaneTypes, LaneSessionTypes
<1> QED
  BY <1>1, <1>2, <1>3

(* The records, sessions and tasks are of counted lanes and processes.      *)
LEMMA CountsKept ==
  ASSUME LaneTypes, CountsBound, [LaneNext]_laneVars
  PROVE  CountsBound'
<1>0. /\ {made, made', pids, pids'} \subseteq Nat /\ made <= made' /\ pids <= pids'
      /\ known' \subseteq known \cup (IF made' = made THEN {} ELSE {made'})
  BY CountersGrow
<1>1. known' \subseteq 1 .. made'
  <2>1. made' # made => made' >= 1
    BY <1>0
  <2> QED
    BY <1>0, <2>1 DEF CountsBound
<1>2. \A id \in LaneIds : step'[id].key <= made'
  <2> SUFFICES ASSUME NEW id \in LaneIds PROVE step'[id].key <= made'
    OBVIOUS
  <2>1. \A i \in LaneIds : step[i].key \in Nat /\ step[i].key <= made'
    BY <1>0 DEF LaneTypes, LaneSessionTypes, CountsBound
  <2>2. step \in [LaneIds -> [at : {"no", "asked", "offered", "launched"}, key : Nat]]
    BY DEF LaneTypes, LaneSessionTypes
  <2>3. CASE step' = step
    BY <2>1, <2>3
  <2>4. ASSUME NEW i \in LaneIds, Offer(i) PROVE step'[id].key <= made'
    BY <1>0, <2>1, <2>2, <2>4 DEF Offer
  <2>5. ASSUME NEW i \in LaneIds, Offered(i) \/ Launch(i) \/ LaunchFails(i) \/ Launched(i) PROVE step'[id].key <= made'
    BY <1>0, <2>1, <2>2, <2>5 DEF Offered, Launch, LaunchFails, Launched, NoStep
  <2>6. CASE RestartDriver
    BY <1>0, <2>6 DEF RestartDriver, NoStep
  <2> QED
    BY <2>3, <2>4, <2>5, <2>6
       DEF LaneNext, Requests, KillSession, RenameLane, Advance, Killed, LaneWorld, LaneSessionEnds,
           AgentReplaced, Degrade, Drops, ModuleDies, ModuleSuspect, ModuleReady, Rekey, Attaches, PollLooks, ModuleTakes,
           ModuleDoesNot, Apply, AskAttach, Shut, PassForgets, Closes, FlushBegins, DropBegins, ModuleCloses, CloseFails, FlushEnds,
           Readies, ReadyFlushes, ReadyReads, ReadyLists, PassLists, PassReads, laneVars, sessionVars
<1>3. \A t \in work : Attaching(t) => t.pid \in Nat /\ t.pid <= pids'
  <2> SUFFICES ASSUME NEW t \in work, Attaching(t) PROVE t.pid \in Nat /\ t.pid <= pids'
    OBVIOUS
  <2>1. t.pid \in Nat
    BY TaskKinds DEF Attaching, AttachTasks, LaneTypes
  <2> QED
    BY <1>0, <2>1 DEF CountsBound
<1>4. \A id \in LaneIds : Has(id) => /\ lanes[id].key \in Nat /\ lanes[id].key <= made'
                                     /\ lanes[id].pid \in Nat /\ lanes[id].pid <= pids'
  <2> SUFFICES ASSUME NEW id \in LaneIds, Has(id)
               PROVE  /\ lanes[id].key \in Nat /\ lanes[id].key <= made'
                      /\ lanes[id].pid \in Nat /\ lanes[id].pid <= pids'
    OBVIOUS
  <2>1. lanes[id].key \in Nat /\ lanes[id].pid \in Nat
    BY LaneOfType DEF LaneRecords, LaneTypes
  <2> QED
    BY <1>0, <2>1 DEF CountsBound
<1>5. ASSUME NEW id \in LaneIds, lanes'[id].there PROVE lanes'[id].key <= made' /\ lanes'[id].pid <= pids'
  <2>1. ASSUME NEW i \in LaneIds, Offer(i) \/ Offered(i) PROVE lanes'[id].key <= made' /\ lanes'[id].pid <= pids'
    <3>1. CASE lanes' = lanes
      BY <1>4, <1>5, <3>1 DEF Has
    <3>2. ASSUME NEW k \in {0, step[i].key}, lanes'[i] = Lane(k), \A j \in LaneIds \ {i} : lanes'[j] = lanes[j]
          PROVE  lanes'[id].key <= made' /\ lanes'[id].pid <= pids'
      <4>1. CASE id # i
        BY <1>4, <1>5, <3>2, <4>1 DEF Has
      <4>2. CASE id = i
        <5>1. lanes'[id].key = k /\ lanes'[id].pid = 0
          <6>1. Lane(k).key = k /\ Lane(k).pid = 0
            BY DEF Lane
          <6> QED
            BY <3>2, <4>2, <6>1
        <5>2. k <= made'
          BY <1>0 DEF LaneTypes, LaneSessionTypes, CountsBound
        <5> QED
          BY <1>0, <5>1, <5>2
      <4> QED
        BY <4>1, <4>2
    <3> QED
      BY <2>1, <3>1, <3>2, CreatesRecord
  <2>2. CASE Rekey
    <3>1. PICK m \in moving :
             /\ m[1] \in LaneIds /\ m[2] \in LaneIds
             /\ ~Has(m[1]) => lanes' = lanes
             /\ Has(m[1]) => /\ lanes'[m[2]] = lanes[m[1]] /\ (m[1] # m[2] => lanes'[m[1]] = Absent)
                             /\ \A i \in LaneIds \ {m[1], m[2]} : lanes'[i] = lanes[i]
      BY <2>2, RekeyMoves
    <3>2. \E i \in LaneIds : Has(i) /\ lanes'[id] = lanes[i]
      BY <1>5, <3>1 DEF Has, Absent
    <3> QED
      BY <1>4, <3>2
  <2>3. CASE ~Rekey /\ \A i \in LaneIds : ~Offer(i) /\ ~Offered(i)
    <3>1. Stays(id)
      BY <2>3, RecordsStay
    <3> QED
      BY <1>3, <1>4, <1>5, <3>1 DEF Stays
  <2> QED
    BY <2>1, <2>2, <2>3
<1>6. \A id \in LaneIds : rows'[id] \in Nat /\ rows'[id] <= pids' /\ glance'.rows[id] <= pids'
  <2>1. \A i \in LaneIds : /\ rows[i] \in Nat /\ rows[i] <= pids'
                           /\ glance.rows[i] \in Nat /\ glance.rows[i] <= pids'
    BY <1>0 DEF LaneTypes, LaneSessionTypes, HostTypes, CountsBound
  <2>2. \A id \in LaneIds : rows'[id] \in {0, pids'} \cup {rows[i] : i \in LaneIds}
    <3>1. rows \in [LaneIds -> Nat]
      BY DEF LaneTypes, LaneSessionTypes
    <3>2. CASE rows' = rows
      BY <3>2
    <3>3. ASSUME NEW i \in LaneIds, Launch(i) \/ KillSession(i) \/ LaneSessionEnds(i) \/ AgentReplaced(i)
          PROVE  \A id \in LaneIds : rows'[id] \in {0, pids'} \cup {rows[j] : j \in LaneIds}
      BY <3>1, <3>3 DEF Launch, KillSession, LaneSessionEnds, AgentReplaced
    <3>4. ASSUME NEW i \in LaneIds, NEW to \in LaneIds, RenameLane(i, to)
          PROVE  \A id \in LaneIds : rows'[id] \in {0, pids'} \cup {rows[j] : j \in LaneIds}
      BY <3>1, <3>4 DEF RenameLane
    <3> QED
      BY <3>2, <3>3, <3>4
         DEF LaneNext, Requests, Offer, Advance, Offered, LaunchFails, Launched, Killed, LaneWorld, Degrade, Drops,
             ModuleDies, ModuleSuspect, ModuleReady, RestartDriver, Rekey, Attaches, PollLooks, ModuleTakes,
             ModuleDoesNot, Apply, AskAttach, Shut, PassForgets, Closes, FlushBegins, DropBegins, ModuleCloses, CloseFails, FlushEnds,
             Readies, ReadyFlushes, ReadyReads, ReadyLists, PassLists, PassReads, laneVars, sessionVars
  <2>3. \A id \in LaneIds : glance'.rows[id] \in {0, rows[id], glance.rows[id]}
    <3>1. CASE PassLists
      <4>1. PICK seen \in BOOLEAN :
               glance' = [valid |-> TRUE, ok |-> seen, rows |-> IF seen THEN rows ELSE [id \in LaneIds |-> 0]]
        BY <3>1 DEF PassLists
      <4>2. glance'.rows = rows \/ glance'.rows = [id \in LaneIds |-> 0]
        BY <4>1
      <4> QED
        BY <4>2
    <3>2. CASE PassReads \/ RestartDriver
      BY <3>2 DEF PassReads, RestartDriver, Unseen
    <3>3. CASE glance' = glance
      BY <3>3
    <3> QED
      BY <3>1, <3>2, <3>3
         DEF LaneNext, Requests, Offer, Advance, Offered, LaunchFails, Launched, Killed, LaneWorld, Degrade, Drops,
             ModuleDies, ModuleSuspect, ModuleReady, Rekey, Attaches, PollLooks, ModuleTakes,
             ModuleDoesNot, Apply, AskAttach, Shut, PassForgets, Closes, FlushBegins, DropBegins, ModuleCloses, CloseFails, FlushEnds,
             Readies, ReadyFlushes, ReadyReads, ReadyLists, laneVars, hostVars, Launch, KillSession, LaneSessionEnds,
             AgentReplaced, RenameLane
  <2> QED
    <3>1. \A id \in LaneIds : rows'[id] \in Nat /\ rows'[id] <= pids'
      BY <1>0, <2>1, <2>2
    <3>2. \A id \in LaneIds : glance'.rows[id] <= pids'
      BY <1>0, <2>1, <2>3
    <3> QED
      BY <3>1, <3>2
<1>7. ASSUME NEW t \in work', HasKey(t) PROVE t.key <= made' /\ (Attaching(t) => t.pid <= pids')
  <2>0. \A u \in work : HasKey(u) => u.key \in Nat /\ u.key <= made'
    <3> SUFFICES ASSUME NEW u \in work, HasKey(u) PROVE u.key \in Nat /\ u.key <= made'
      OBVIOUS
    <3>1. u.key \in Nat
      BY TaskKinds DEF LaneTypes, FlushTasks, DropTasks, AttachTasks
    <3> QED
      BY <1>0, <3>1 DEF CountsBound
  <2>1. CASE t \in work
    BY <1>3, <1>7, <2>0, <2>1
  <2>2. CASE Begins(t)
    <3>1. t.key <= made'
      BY <1>0, <1>4, <1>7, <2>2 DEF Begins, HasKey, Holds, LaneTypes, LaneSessionTypes, CountsBound
    <3>2. Attaching(t) => t.pid <= pids'
      BY <1>0, <1>4, <2>2 DEF Begins, Attaching, HasKey, Holds, LaneTypes, HostTypes, CountsBound
    <3> QED
      BY <3>1, <3>2
  <2>3. ASSUME NEW u \in work, AttachFollows(t, u) PROVE t.key <= made' /\ t.pid <= pids'
    <3>0. \A i \in LaneIds : rows[i] \in Nat /\ rows[i] <= pids'
      BY <1>0 DEF LaneTypes, LaneSessionTypes, CountsBound
    <3>1. u.by \in {"poll", "ready", "pass"} /\ (HasKey(u) => u.id \in LaneIds)
      BY <2>3, TaskKinds DEF AttachFollows, AttachTasks, LaneTypes
    <3>2. CASE HasKey(u)
      BY <1>3, <1>4, <2>0, <2>3, <3>0, <3>1, <3>2 DEF AttachFollows, Attaching, HasKey, Holds
    <3>3. CASE ~HasKey(u)
      BY <1>4, <2>3, <3>3, TaskKinds DEF AttachFollows, HasKey, Holds, LaneTypes
    <3> QED
      BY <3>2, <3>3
  <2>4. ASSUME NEW u \in work, CloseFollows(t, u) PROVE t.key <= made' /\ ~Attaching(t)
    BY <1>7, <2>0, <2>4 DEF CloseFollows, Attaching, HasKey
  <2> QED
    BY <2>1, <2>2, <2>3, <2>4, TasksComeFrom DEF ComesFrom
<1> QED
  BY <1>1, <1>2, <1>5, <1>6, <1>7 DEF CountsBound, Has, HasKey, Attaching

(* An attach is asked of the life that it is for, or of a later one.        *)
LEMMA GensKept ==
  ASSUME LaneTypes, GensInOrder, [LaneNext]_laneVars
  PROVE  GensInOrder'
<1>0. mod.gen \in Nat /\ mod'.gen \in Nat /\ mod.gen <= mod'.gen
  BY CountersGrow
<1>1. \A u \in work : u.by \in {"poll", "ready", "pass"} => u.gen \in Nat /\ (HasKey(u) => u.via \in Nat)
  BY TaskKinds DEF LaneTypes, AttachTasks, ReadyTasks, HasKey
<1> SUFFICES ASSUME NEW t \in work', t.by \in {"poll", "ready", "pass"}
             PROVE  /\ t.gen <= mod'.gen
                    /\ t.at \in {"asked", "answered"} => t.gen <= t.via /\ t.via <= mod'.gen
  BY DEF GensInOrder
<1>2. CASE t \in work
  BY <1>0, <1>1, <1>2 DEF GensInOrder, HasKey
<1>3. CASE Begins(t)
  BY <1>0, <1>3 DEF Begins
<1>4. ASSUME NEW u \in work, AttachFollows(t, u)
      PROVE  /\ t.gen <= mod'.gen
             /\ t.at \in {"asked", "answered"} => t.gen <= t.via /\ t.via <= mod'.gen
  BY <1>0, <1>1, <1>4 DEF AttachFollows, GensInOrder, HasKey
<1>5. ASSUME NEW u \in work, CloseFollows(t, u)
      PROVE  /\ t.gen <= mod'.gen
             /\ t.at \in {"asked", "answered"} => t.gen <= t.via /\ t.via <= mod'.gen
  BY <1>0, <1>1, <1>5 DEF CloseFollows, GensInOrder
<1> QED
  BY <1>2, <1>3, <1>4, <1>5, TasksComeFrom DEF ComesFrom

-----------------------------------------------------------------------------
(* One record for a lane, and one close *)

(* A create that is asking asked before, or asks now, for a new lane.       *)
LEMMA AskedFrom ==
  ASSUME LaneTypes, [LaneNext]_laneVars, NEW id \in LaneIds, step'[id].at = "asked"
  PROVE  \/ step[id].at = "asked" /\ step'[id] = step[id] /\ ~Offered(id) /\ ~Offer(id)
         \/ /\ Offer(id) /\ UNCHANGED hostVars /\ made' = made + 1 /\ step'[id].key = made'
            /\ \A i \in LaneIds \ {id} : step'[i] = step[i]
<1>1. step \in [LaneIds -> [at : {"no", "asked", "offered", "launched"}, key : Nat]]
  BY DEF LaneTypes, LaneSessionTypes
<1>2. ASSUME NEW i \in LaneIds, Offered(i) \/ Launch(i) \/ LaunchFails(i) \/ Launched(i)
      PROVE  step[id].at = "asked" /\ step'[id] = step[id] /\ ~Offered(id) /\ ~Offer(id)
  <2>1. i # id /\ step'[id] = step[id] /\ step'[i].at # "asked"
    BY <1>1, <1>2 DEF Offered, Launch, LaunchFails, Launched, NoStep
  <2>2. ~Offered(id)
    BY <1>1, <2>1 DEF Offered
  <2>3. ~Offer(id)
    BY <2>1 DEF Offer
  <2> QED
    BY <2>1, <2>2, <2>3
<1>3. ASSUME NEW i \in LaneIds, Offer(i)
      PROVE  \/ step[id].at = "asked" /\ step'[id] = step[id] /\ ~Offered(id) /\ ~Offer(id)
             \/ /\ Offer(id) /\ UNCHANGED hostVars /\ made' = made + 1 /\ step'[id].key = made'
                /\ \A j \in LaneIds \ {id} : step'[j] = step[j]
  <2>1. CASE i = id
    BY <1>1, <1>3, <2>1 DEF Offer
  <2>2. CASE i # id
    <3>1. step'[id] = step[id]
      BY <1>1, <1>3, <2>2 DEF Offer
    <3>2. ~Offered(id) /\ ~Offer(id)
      BY <1>1, <3>1 DEF Offered, Offer
    <3> QED
      BY <3>1, <3>2
  <2> QED
    BY <2>1, <2>2
<1>4. CASE RestartDriver
  BY <1>4 DEF RestartDriver, NoStep
<1>5. CASE step' = step
  <2>1. ~Offered(id) /\ ~Offer(id)
    BY <1>1, <1>5 DEF Offered, Offer
  <2> QED
    BY <1>5, <2>1
<1> QED
  BY <1>2, <1>3, <1>4, <1>5
     DEF LaneNext, Requests, KillSession, RenameLane, Advance, Killed, LaneWorld, LaneSessionEnds,
         AgentReplaced, Degrade, Drops, ModuleDies, ModuleSuspect, ModuleReady, Rekey, Attaches, PollLooks, ModuleTakes,
         ModuleDoesNot, Apply, AskAttach, Shut, PassForgets, Closes, FlushBegins, DropBegins, ModuleCloses, CloseFails, FlushEnds,
         Readies, ReadyFlushes, ReadyReads, ReadyLists, PassLists, PassReads, laneVars, sessionVars

(* A record of a lane held the lane before, or is a create's or a rename's. *)
LEMMA HoldsFrom ==
  ASSUME LaneTypes, [LaneNext]_laneVars, NEW id \in LaneIds, Holds(id)'
  PROVE  \/ Holds(id) /\ lanes'[id].key = lanes[id].key
         \/ Offered(id) /\ step[id].at = "asked" /\ lanes'[id] = Lane(step[id].key)
         \/ \E m \in moving : /\ Rekey /\ m[1] \in LaneIds /\ m[2] = id /\ m[1] # id
                              /\ Holds(m[1]) /\ lanes'[id] = lanes[m[1]] /\ lanes'[m[1]] = Absent
                              /\ \A i \in LaneIds \ {id, m[1]} : lanes'[i] = lanes[i]
<1>0. lanes'[id].there /\ lanes'[id].key # 0
  BY DEF Holds, Has
<1>1. ASSUME NEW i \in LaneIds, Offer(i) \/ Offered(i)
      PROVE  \/ Holds(id) /\ lanes'[id].key = lanes[id].key
             \/ Offered(id) /\ step[id].at = "asked" /\ lanes'[id] = Lane(step[id].key)
  <2>1. CASE lanes' = lanes
    BY <1>0, <2>1 DEF Holds, Has
  <2>2. ASSUME NEW k \in {0, step[i].key}, lanes'[i] = Lane(k), \A j \in LaneIds \ {i} : lanes'[j] = lanes[j],
               k # 0 => Offered(i) /\ step[i].at = "asked"
        PROVE  \/ Holds(id) /\ lanes'[id].key = lanes[id].key
               \/ Offered(id) /\ step[id].at = "asked" /\ lanes'[id] = Lane(step[id].key)
    <3>1. Lane(k).key = k
      BY DEF Lane
    <3> QED
      BY <1>0, <2>2, <3>1 DEF Holds, Has
  <2> QED
    BY <1>1, <2>1, <2>2, CreatesRecord
<1>2. CASE Rekey
  <2>1. PICK m \in moving :
           /\ m[1] \in LaneIds /\ m[2] \in LaneIds
           /\ ~Has(m[1]) => lanes' = lanes
           /\ Has(m[1]) => /\ lanes'[m[2]] = lanes[m[1]] /\ (m[1] # m[2] => lanes'[m[1]] = Absent)
                           /\ \A i \in LaneIds \ {m[1], m[2]} : lanes'[i] = lanes[i]
    BY <1>2, RekeyMoves
  <2>2. CASE id = m[2] /\ m[1] # m[2] /\ Has(m[1])
    BY <1>0, <1>2, <2>1, <2>2 DEF Holds
  <2>3. CASE ~(id = m[2] /\ m[1] # m[2] /\ Has(m[1]))
    <3>1. lanes'[id] = lanes[id] \/ lanes'[id] = Absent
      BY <2>1, <2>3
    <3> QED
      BY <1>0, <3>1 DEF Absent, Holds, Has
  <2> QED
    BY <2>2, <2>3
<1>3. CASE ~Rekey /\ \A i \in LaneIds : ~Offer(i) /\ ~Offered(i)
  <2>1. Stays(id)
    BY <1>3, RecordsStay
  <2> QED
    BY <1>0, <2>1 DEF Stays, Holds
<1> QED
  BY <1>1, <1>2, <1>3

(* Keys stay apart.                                                         *)
LEMMA KeysApartKept ==
  ASSUME LaneTypes, CountsBound, KeysApart, [LaneNext]_laneVars
  PROVE  KeysApart'
<1>1. ASSUME NEW i \in LaneIds, NEW j \in LaneIds, Holds(i)', Holds(j)', lanes'[i].key = lanes'[j].key
      PROVE  i = j
  <2>1. ASSUME NEW a \in LaneIds, NEW b \in LaneIds, Holds(a)', Holds(b)', lanes'[a].key = lanes'[b].key,
               Offered(a), step[a].at = "asked", lanes'[a] = Lane(step[a].key)
        PROVE  a = b
    <3>1. lanes'[a].key = step[a].key
      BY <2>1, NewLane
    <3>2. CASE Holds(b) /\ lanes'[b].key = lanes[b].key
      BY <2>1, <3>1, <3>2 DEF KeysApart
    <3>3. CASE Offered(b) /\ step[b].at = "asked" /\ lanes'[b] = Lane(step[b].key)
      <4>1. lanes'[b].key = step[b].key
        BY <3>3, NewLane
      <4> QED
        BY <2>1, <3>1, <3>3, <4>1 DEF KeysApart
    <3>4. ASSUME NEW m \in moving, m[1] \in LaneIds, Holds(m[1]), lanes'[b] = lanes[m[1]] PROVE a = b
      BY <2>1, <3>1, <3>4 DEF KeysApart
    <3> QED
      BY <2>1, <3>2, <3>3, <3>4, HoldsFrom
  <2>2. ASSUME NEW a \in LaneIds, NEW b \in LaneIds, Holds(a)', Holds(b)', lanes'[a].key = lanes'[b].key,
               NEW m \in moving, m[1] \in LaneIds, m[1] # a, Holds(m[1]), lanes'[a] = lanes[m[1]],
               lanes'[m[1]] = Absent, \A c \in LaneIds \ {a, m[1]} : lanes'[c] = lanes[c]
        PROVE  a = b
    <3>1. ~Holds(m[1])'
      BY <2>2 DEF Holds, Has, Absent
    <3>2. CASE b # a
      <4>1. lanes'[b] = lanes[b] /\ Holds(b) /\ b # m[1]
        BY <2>2, <3>1, <3>2 DEF Holds, Has
      <4> QED
        BY <2>2, <4>1 DEF KeysApart
    <3> QED
      BY <3>2
  <2>3. CASE Holds(i) /\ lanes'[i].key = lanes[i].key /\ Holds(j) /\ lanes'[j].key = lanes[j].key
    BY <1>1, <2>3 DEF KeysApart
  <2>4. lanes'[j].key = lanes'[i].key
    BY <1>1
  <2> QED
    BY <1>1, <2>1, <2>2, <2>3, <2>4, HoldsFrom
<1>2. ASSUME NEW i \in LaneIds, step'[i].at = "asked"
      PROVE  /\ \A j \in LaneIds : Holds(j)' => lanes'[j].key # step'[i].key
             /\ \A j \in LaneIds : step'[j].at = "asked" /\ step'[j].key = step'[i].key => i = j
             /\ \A t \in work' : t.by = "flush" => t.key # step'[i].key
  <2>1. CASE step[i].at = "asked" /\ step'[i] = step[i] /\ ~Offered(i)
    <3>0. step[i].key \in Nat /\ step[i].key <= made /\ made \in Nat
      BY DEF LaneTypes, LaneSessionTypes, ModuleTypes, CountsBound
    <3>1. ASSUME NEW j \in LaneIds, Holds(j)' PROVE lanes'[j].key # step'[i].key
      <4>1. CASE Offered(j) /\ step[j].at = "asked" /\ lanes'[j] = Lane(step[j].key)
        <5>1. lanes'[j].key = step[j].key
          BY <4>1, NewLane
        <5> QED
          BY <2>1, <4>1, <5>1 DEF KeysApart
      <4>2. ASSUME NEW m \in moving, m[1] \in LaneIds, Holds(m[1]), lanes'[j] = lanes[m[1]]
            PROVE  lanes'[j].key # step'[i].key
        BY <2>1, <4>2 DEF KeysApart
      <4>3. CASE Holds(j) /\ lanes'[j].key = lanes[j].key
        BY <2>1, <4>3 DEF KeysApart
      <4> QED
        BY <3>1, <4>1, <4>2, <4>3, HoldsFrom
    <3>2. ASSUME NEW j \in LaneIds, step'[j].at = "asked", step'[j].key = step'[i].key PROVE i = j
      BY <2>1, <3>0, <3>2, AskedFrom DEF KeysApart
    <3>3. ASSUME NEW t \in work', t.by = "flush" PROVE t.key # step'[i].key
      <4>1. CASE t \in work
        BY <2>1, <3>3, <4>1 DEF KeysApart
      <4>2. CASE Begins(t)
        BY <2>1, <3>3, <4>2 DEF Begins, KeysApart
      <4>3. ASSUME NEW u \in work, AttachFollows(t, u) \/ CloseFollows(t, u) PROVE t.key # step'[i].key
        BY <2>1, <3>3, <4>3 DEF AttachFollows, CloseFollows, KeysApart
      <4> QED
        BY <4>1, <4>2, <4>3, TasksComeFrom DEF ComesFrom
    <3> QED
      BY <3>1, <3>2, <3>3
  <2>2. CASE /\ UNCHANGED hostVars /\ made' = made + 1 /\ step'[i].key = made'
             /\ \A j \in LaneIds \ {i} : step'[j] = step[j]
    <3>1. made \in Nat /\ \A j \in LaneIds : step[j].key \in Nat /\ step[j].key <= made
      BY DEF LaneTypes, ModuleTypes, LaneSessionTypes, CountsBound
    <3>2. \A j \in LaneIds : Holds(j)' => lanes'[j].key # step'[i].key
      <4> SUFFICES ASSUME NEW j \in LaneIds, Holds(j)' PROVE lanes'[j].key # step'[i].key
        OBVIOUS
      <4>1. Has(j) /\ lanes'[j] = lanes[j]
        BY <2>2 DEF Holds, Has, hostVars
      <4>2. lanes[j].key \in Nat /\ lanes[j].key <= made
        BY <4>1, LaneOfType DEF LaneRecords, LaneTypes, CountsBound
      <4> QED
        BY <2>2, <3>1, <4>1, <4>2
    <3>3. \A t \in work' : t.by = "flush" => t.key # step'[i].key
      <4> SUFFICES ASSUME NEW t \in work, t.by = "flush" PROVE t.key # step'[i].key
        BY <2>2 DEF hostVars
      <4>1. t.key \in Nat /\ t.key <= made
        BY TaskKinds DEF LaneTypes, FlushTasks, CountsBound
      <4> QED
        BY <2>2, <3>1, <4>1
    <3>4. \A j \in LaneIds : step'[j].at = "asked" /\ step'[j].key = step'[i].key => i = j
      BY <2>2, <3>1
    <3> QED
      BY <3>2, <3>3, <3>4
  <2> QED
    BY <1>2, <2>1, <2>2, AskedFrom
<1> QED
  BY <1>1, <1>2 DEF KeysApart, Holds, Has

(* A close that is under way was so before, or takes the record's lane now. *)
LEMMA ClosingFrom ==
  ASSUME LaneTypes, [LaneNext]_laneVars, NEW t \in work', Closing(t)
  PROVE  \/ t \in work
         \/ \E u \in work : /\ FlushBegins(u) /\ ClaimsClose(u) /\ t.key = u.key /\ u.id \in LaneIds
                            /\ work' = (work \ {u}) \cup {t}
         \/ \E u \in work : /\ ModuleCloses(u) /\ Closing(u) /\ t.key = u.key
                            /\ work' = (work \ {u}) \cup {t}
<1> USE DEF LaneTypes
<1>1. CASE Begins(t)
  BY <1>1 DEF Begins, Closing
<1>2. ASSUME NEW u \in work, AttachFollows(t, u) PROVE FALSE
  BY <1>2 DEF AttachFollows, Closing
<1>3. ASSUME NEW u \in work, CloseFollows(t, u)
      PROVE  \/ /\ FlushBegins(u) /\ ClaimsClose(u) /\ t.key = u.key /\ u.id \in LaneIds
                /\ work' = (work \ {u}) \cup {t}
             \/ ModuleCloses(u) /\ Closing(u) /\ t.key = u.key /\ work' = (work \ {u}) \cup {t}
  BY <1>3, TaskKinds DEF CloseFollows, Closing, FlushTasks
<1> QED
  BY <1>1, <1>2, <1>3, TasksComeFrom DEF ComesFrom

(* One close is under way for a lane, and its record knows.                 *)
LEMMA FlushesApartKept ==
  ASSUME LaneTypes, KeysApart, FlushesApart, [LaneNext]_laneVars
  PROVE  FlushesApart'
<1> USE DEF LaneTypes
<1>0. \A t \in work : Closing(t) => t.key \in Nat \ {0}
  BY TaskKinds DEF Closing, FlushTasks
<1>1. ASSUME NEW t \in work', Closing(t), NEW id \in LaneIds, Holds(id)', lanes'[id].key = t.key
      PROVE  lanes'[id].flushing
  <2>1. CASE Offered(id) /\ step[id].at = "asked" /\ lanes'[id] = Lane(step[id].key)
    <3>1. step[id].key = t.key
      BY <1>1, <2>1, NewLane
    <3>2. t \in work
      <4>1. ASSUME NEW u \in work, work' = (work \ {u}) \cup {t}, FlushBegins(u) \/ ModuleCloses(u), t.key = u.key
            PROVE  u.by = "drop"
        BY <2>1, <3>1, <4>1 DEF KeysApart, FlushBegins, ModuleCloses
      <4>2. ASSUME NEW u \in work, u.by = "drop" PROVE ~FlushBegins(u) /\ ~Closing(u)
        BY <4>2 DEF FlushBegins, Closing
      <4> QED
        BY <1>1, <4>1, <4>2, ClosingFrom
    <3> QED
      BY <1>1, <2>1, <3>1, <3>2 DEF KeysApart, Closing
  <2>2. ASSUME NEW m \in moving, Rekey, m[1] \in LaneIds, Holds(m[1]), lanes'[id] = lanes[m[1]]
        PROVE  lanes'[id].flushing
    <3>1. t \in work
      BY <1>1, <2>2 DEF Rekey
    <3> QED
      BY <1>1, <2>2, <3>1 DEF FlushesApart
  <2>3. CASE Holds(id) /\ lanes'[id].key = lanes[id].key
    <3>1. CASE t \in work
      <4>1. lanes[id].flushing
        BY <1>1, <2>3, <3>1 DEF FlushesApart
      <4>2. CASE ~Rekey /\ \A i \in LaneIds : ~Offer(i) /\ ~Offered(i)
        <5>1. lanes'[id].flushing \/ FlushOver(lanes[id].key)
          BY <1>1, <4>1, <4>2, RecordsStay DEF Stays, Holds, Has
        <5>2. ~FlushOver(lanes[id].key)
          BY <1>1, <2>3, <3>1 DEF FlushOver, FlushesApart
        <5> QED
          BY <5>1, <5>2
      <4>3. ASSUME NEW i \in LaneIds, Offer(i) \/ Offered(i) PROVE lanes'[id].flushing
        <5>1. CASE lanes'[id] = lanes[id]
          BY <4>1, <5>1
        <5>2. ASSUME NEW k, k # 0 => Offered(id) /\ step[id].at = "asked" /\ k = step[id].key, lanes'[id] = Lane(k)
              PROVE  lanes'[id].flushing
          <6>1. k # 0
            BY <1>1, <5>2, NewLane DEF Holds
          <6> QED
            BY <2>1, <5>2, <6>1
        <5> QED
          BY <4>3, <5>1, <5>2, CreatesRecord
      <4>4. CASE Rekey
        <5>1. PICK m \in moving :
                 /\ m[1] \in LaneIds /\ m[2] \in LaneIds
                 /\ ~Has(m[1]) => lanes' = lanes
                 /\ Has(m[1]) => /\ lanes'[m[2]] = lanes[m[1]] /\ (m[1] # m[2] => lanes'[m[1]] = Absent)
                                 /\ \A i \in LaneIds \ {m[1], m[2]} : lanes'[i] = lanes[i]
          BY <4>4, RekeyMoves
        <5>2. lanes'[id] = lanes[id] \/ (Has(m[1]) /\ lanes'[id] = lanes[m[1]])
          BY <1>1, <5>1 DEF Holds, Has, Absent
        <5> QED
          BY <1>1, <2>2, <4>1, <4>4, <5>1, <5>2 DEF Holds, Has
      <4> QED
        BY <4>2, <4>3, <4>4
    <3>2. ASSUME NEW u \in work, FlushBegins(u), ClaimsClose(u), t.key = u.key, u.id \in LaneIds
          PROVE  lanes'[id].flushing
      <4>1. id = u.id
        BY <1>1, <2>3, <3>2 DEF ClaimsClose, KeysApart, Holds
      <4>2. lanes[id] \in LaneRecords /\ lanes \in [LaneIds -> LaneRecords \cup {Absent}]
        BY <2>3, LaneOfType DEF Holds, HostTypes
      <4>3. lanes'[id] = [lanes[id] EXCEPT !.flushing = TRUE]
        BY <3>2, <4>1, <4>2 DEF FlushBegins
      <4> QED
        BY <4>2, <4>3 DEF LaneRecords
    <3>3. ASSUME NEW u \in work, ModuleCloses(u), Closing(u), t.key = u.key
          PROVE  lanes'[id].flushing
      BY <1>1, <2>3, <3>3 DEF ModuleCloses, FlushesApart
    <3> QED
      BY <1>1, <3>1, <3>2, <3>3, ClosingFrom
  <2> QED
    BY <1>1, <2>1, <2>2, <2>3, HoldsFrom
<1>2. ASSUME NEW s \in work', NEW t \in work', Closing(s), Closing(t), s.key = t.key PROVE s = t
  <2>1. ASSUME NEW a \in work', NEW b \in work', a.key = b.key, Closing(b),
               NEW u \in work, FlushBegins(u), ClaimsClose(u), a.key = u.key, u.id \in LaneIds,
               work' = (work \ {u}) \cup {a}
        PROVE  a = b
    <3>1. CASE b \in work
      <4>1. Holds(u.id) /\ lanes[u.id].key = b.key
        BY <1>0, <2>1, <3>1 DEF ClaimsClose, Holds
      <4> QED
        BY <2>1, <3>1, <4>1 DEF FlushesApart, ClaimsClose
    <3> QED
      BY <2>1, <3>1
  <2>2. ASSUME NEW a \in work', NEW b \in work', a.key = b.key, Closing(b),
               NEW u \in work, Closing(u), a.key = u.key, work' = (work \ {u}) \cup {a}
        PROVE  a = b
    BY <2>2 DEF FlushesApart
  <2>3. CASE s \in work /\ t \in work
    BY <1>2, <2>3 DEF FlushesApart
  <2>4. t.key = s.key
    BY <1>2
  <2> QED
    BY <1>2, <2>1, <2>2, <2>3, <2>4, ClosingFrom
<1> QED
  BY <1>1, <1>2 DEF FlushesApart, Holds, Has, Closing

(* What was closed is not opened again.                                     *)
LEMMA DoneIsDoneKept ==
  ASSUME LaneTypes, CountsBound, DoneIsDone, [LaneNext]_laneVars
  PROVE  DoneIsDone'
<1> SUFFICES ASSUME NEW t \in work', t.by = "flush", t.at = "done" PROVE t.key \notin known'
  BY DEF DoneIsDone
<1>1. CASE t \in work
  <2>1. t.key \notin known /\ t.key \in Nat /\ t.key <= made
    BY <1>1, TaskKinds DEF DoneIsDone, LaneTypes, FlushTasks, CountsBound
  <2>2. made \in Nat /\ made' \in Nat /\ made <= made'
        /\ known' \subseteq known \cup (IF made' = made THEN {} ELSE {made'})
    BY CountersGrow
  <2> QED
    BY <2>1, <2>2
<1>2. CASE Begins(t)
  BY <1>2 DEF Begins
<1>3. ASSUME NEW u \in work, AttachFollows(t, u) \/ CloseFollows(t, u) PROVE t.key \notin known'
  BY <1>3 DEF AttachFollows, CloseFollows
<1> QED
  BY <1>1, <1>2, <1>3, TasksComeFrom DEF ComesFrom

-----------------------------------------------------------------------------
(* No lane is forgotten *)

(* A create that is at something was so before, or is new.                  *)
LEMMA StepFrom ==
  ASSUME LaneTypes, [LaneNext]_laneVars, NEW id \in LaneIds
  PROVE  /\ step'[id].at # "no" => step[id].at # "no" \/ Offer(id)
         /\ step'[id].at = "offered" => \/ step[id].at = "offered"
                                        \/ Offer(id) \/ Offered(id)
         /\ step[id].at = "asked" => \/ step'[id] = step[id] \/ Offered(id) \/ RestartDriver
<1>1. step \in [LaneIds -> [at : {"no", "asked", "offered", "launched"}, key : Nat]]
  BY DEF LaneTypes, LaneSessionTypes
<1> DEFINE P == /\ step'[id].at # "no" => step[id].at # "no" \/ Offer(id)
                /\ step'[id].at = "offered" => \/ step[id].at = "offered"
                                               \/ Offer(id) \/ Offered(id)
                /\ step[id].at = "asked" => \/ step'[id] = step[id] \/ Offered(id) \/ RestartDriver
<1>2. ASSUME NEW i \in LaneIds, Offered(i) \/ Launch(i) \/ LaunchFails(i) \/ Launched(i) PROVE P
  <2>1. CASE i # id
    <3>1. step'[id] = step[id]
      BY <1>1, <1>2, <2>1 DEF Offered, Launch, LaunchFails, Launched
    <3> QED
      BY <3>1
  <2>2. CASE i = id
    BY <1>1, <1>2, <2>2 DEF Offered, Launch, LaunchFails, Launched, NoStep
  <2> QED
    BY <2>1, <2>2
<1>3. ASSUME NEW i \in LaneIds, Offer(i) PROVE P
  <2>1. CASE i # id
    <3>1. step'[id] = step[id]
      BY <1>1, <1>3, <2>1 DEF Offer
    <3> QED
      BY <3>1
  <2>2. CASE i = id
    BY <1>1, <1>3, <2>2 DEF Offer
  <2> QED
    BY <2>1, <2>2
<1>4. CASE RestartDriver
  BY <1>4 DEF RestartDriver, NoStep
<1>5. CASE step' = step
  BY <1>5
<1>6. P
  BY <1>2, <1>3, <1>4, <1>5
     DEF LaneNext, Requests, KillSession, RenameLane, Advance, Killed, LaneWorld, LaneSessionEnds,
         AgentReplaced, Degrade, Drops, ModuleDies, ModuleSuspect, ModuleReady, Rekey, Attaches, PollLooks, ModuleTakes,
         ModuleDoesNot, Apply, AskAttach, Shut, PassForgets, Closes, FlushBegins, DropBegins, ModuleCloses, CloseFails, FlushEnds,
         Readies, ReadyFlushes, ReadyReads, ReadyLists, PassLists, PassReads, laneVars, sessionVars
<1> QED
  BY <1>6

(* What is to be dropped stays so until the module knows, or does not hear. *)
LEMMA DropsStay ==
  ASSUME LaneTypes, [LaneNext]_laneVars, NEW t \in work, t.by = "drop"
  PROVE  \/ \E u \in work' : u.by = "drop" /\ u.key = t.key
         \/ t.key \notin known'
         \/ t.key \in stray'
<1> USE DEF LaneTypes
<1>1. t \in DropTasks
  BY TaskKinds
<1>2. CASE RestartDriver
  BY <1>2 DEF RestartDriver
<1>3. ASSUME NEW u \in work, Closes(u)
      PROVE  \/ \E v \in work' : v.by = "drop" /\ v.key = t.key
             \/ t.key \notin known' \/ t.key \in stray'
  <2>1. CASE u # t
    BY <1>3, <2>1 DEF Closes, FlushBegins, DropBegins, ModuleCloses, CloseFails, FlushEnds
  <2>2. CASE u = t /\ DropBegins(u)
    <3>1. [t EXCEPT !.at = "asked", !.via = mod.gen] \in work'
      BY <2>2 DEF DropBegins
    <3>2. [t EXCEPT !.at = "asked", !.via = mod.gen].by = "drop"
          /\ [t EXCEPT !.at = "asked", !.via = mod.gen].key = t.key
      BY <1>1 DEF DropTasks
    <3> QED
      BY <3>1, <3>2
  <2>3. CASE u = t /\ ~DropBegins(u)
    BY <1>3, <2>3 DEF Closes, FlushBegins, ModuleCloses, CloseFails, FlushEnds
  <2> QED
    BY <2>1, <2>2, <2>3
<1>4. CASE t \in work'
  BY <1>4
<1>5. ASSUME NEW u \in work, Attaches(u) \/ Readies(u) PROVE t \in work'
  BY <1>5 DEF Attaches, PollLooks, PollEnds, ModuleTakes, ModuleDoesNot, Replied, Apply, AskAttach, Shut, PassForgets, CloseLane,
              Readies, ReadyFlushes, ReadyReads
<1>6. ASSUME NEW id \in LaneIds, Offer(id) \/ Offered(id) \/ LaunchFails(id) \/ Launched(id) \/ Killed(id)
      PROVE  t \in work'
  BY <1>6 DEF Offer, Offered, Record, LaunchFails, Launched, Killed, CloseLane, hostVars
<1>7. CASE ReadyLists \/ PassReads \/ ModuleReady
  BY <1>7 DEF ReadyLists, PassReads, ModuleReady
<1> QED
  BY <1>2, <1>3, <1>4, <1>5, <1>6, <1>7
     DEF LaneNext, Requests, KillSession, RenameLane, Advance, Launch, LaneWorld, LaneSessionEnds,
         AgentReplaced, Degrade, Drops, ModuleDies, ModuleSuspect, Rekey, PassLists, laneVars, hostVars

(* A message that was lost stays lost.                                      *)
LEMMA StrayGrows == ASSUME LaneTypes, [LaneNext]_laneVars PROVE stray \subseteq stray'
<1>1. ASSUME NEW id \in LaneIds, Offered(id) PROVE stray \subseteq stray'
  BY <1>1 DEF Offered
<1>2. ASSUME NEW t \in work, CloseFails(t) PROVE stray \subseteq stray'
  BY <1>2 DEF CloseFails
<1>3. CASE RestartDriver
  BY <1>3 DEF RestartDriver
<1>4. CASE stray' = stray
  BY <1>4
<1> QED
  BY <1>1, <1>2, <1>3, <1>4
     DEF LaneNext, Requests, Offer, KillSession, RenameLane, Advance, Launch, LaunchFails, Launched,
         Killed, LaneWorld, LaneSessionEnds, AgentReplaced, Degrade, Drops, ModuleDies, ModuleSuspect,
         ModuleReady, Rekey, Attaches, PollLooks, ModuleTakes, ModuleDoesNot, Apply, AskAttach, Shut, PassForgets,
         Closes, FlushBegins, DropBegins, ModuleCloses, FlushEnds, Readies, ReadyFlushes,
         ReadyReads, ReadyLists, PassLists, PassReads, laneVars

RenamesAreAlone == ~(May("rename") /\ (May("reuse") \/ May("meanwhile")))

(* Renames stay apart from other requests.                                  *)
LEMMA MovesApartKept ==
  ASSUME LaneTypes, RenamesAreAlone, MovesApart, [LaneNext]_laneVars
  PROVE  MovesApart'
<1>0. \A what : May(what)' <=> May(what)
  BY ModuleIsTyped DEF May
<1>1. ASSUME NEW from \in LaneIds, NEW to \in LaneIds, RenameLane(from, to)
      PROVE  MovesApart'
  <2>1. /\ May("rename") /\ moving' = {<<from, to>>} /\ lanes' = lanes /\ step' = step /\ from # to
        /\ MayAct /\ (May("reuse") \/ LaneSettled(to))
    BY <1>1 DEF RenameLane, hostVars
  <2>2. LanesQuiet /\ ~Has(to)
    BY <2>1 DEF RenamesAreAlone, MayAct, LaneSettled
  <2>3. /\ \A m \in moving' : May("rename")' /\ ~Has(m[2])' /\ m[1] # m[2]
                             /\ \A id \in LaneIds : step'[id].at = "no"
        /\ \A m, n \in moving' : m = n
    BY <1>0, <2>1, <2>2 DEF LanesQuiet, Has
  <2> QED
    BY <2>3 DEF MovesApart, Has
<1>2. CASE moving' \subseteq moving
  <2>1. \A m, n \in moving' : m = n
    BY <1>2 DEF MovesApart
  <2>2. ASSUME NEW m \in moving' PROVE May("rename") /\ ~Has(m[2])' /\ m[1] # m[2]
                                       /\ \A id \in LaneIds : step'[id].at = "no"
    <3>1. /\ May("rename") /\ ~Has(m[2]) /\ m[1] # m[2] /\ m[2] \in LaneIds /\ moving # {}
          /\ \A id \in LaneIds : step[id].at = "no"
      BY <1>2, <2>2 DEF MovesApart, LaneTypes, LaneSessionTypes
    <3>2. ~Rekey
      BY <1>2, <2>1, <2>2 DEF Rekey, MovesApart
    <3>3. \A id \in LaneIds : ~Offer(id) /\ ~Offered(id)
      BY <3>1 DEF Offer, Offered, MayAct, LanesQuiet, RenamesAreAlone
    <3>4. ~Has(m[2])'
      BY <3>1, <3>2, <3>3, RecordsStay DEF Stays, Has
    <3>5. \A id \in LaneIds : step'[id].at = "no"
      BY <3>1, <3>3, StepFrom
    <3> QED
      BY <3>1, <3>4, <3>5
  <2> QED
    BY <1>0, <2>1, <2>2 DEF MovesApart, Has
<1> QED
  BY <1>1, <1>2, ZenonT(60)
     DEF LaneNext, Requests, Offer, KillSession, Advance, Offered, Launch, LaunchFails, Launched,
         Killed, LaneWorld, LaneSessionEnds, AgentReplaced, Degrade, Drops, ModuleDies, ModuleSuspect,
         ModuleReady, RestartDriver, Rekey, Attaches, PollLooks, ModuleTakes, ModuleDoesNot, Apply, AskAttach, Shut, PassForgets,
         Closes, FlushBegins, DropBegins, ModuleCloses, CloseFails, FlushEnds, Readies, ReadyFlushes,
         ReadyReads, ReadyLists, PassLists, PassReads, laneVars, sessionVars

(* A create gives up the lane of the record that it finds.                  *)
LEMMA CreateDrops ==
  ASSUME LaneTypes, NEW id \in LaneIds, Offer(id) \/ Offered(id), NEW i \in LaneIds, Holds(i)
  PROVE  \/ Holds(i)' /\ lanes'[i].key = lanes[i].key
         \/ \E t \in work' : t.by = "drop" /\ t.key = lanes[i].key
<1>1. Drop(lanes[i].key).by = "drop" /\ Drop(lanes[i].key).key = lanes[i].key
  BY DEF Drop
<1>2. lanes \in [LaneIds -> LaneRecords \cup {Absent}]
  BY DEF LaneTypes, HostTypes
<1>3. CASE lanes'[i] = lanes[i]
  BY <1>3 DEF Holds, Has
<1>4. CASE i # id
  <2>1. lanes'[i] = lanes[i]
    BY <1>4, CreatesRecord
  <2> QED
    BY <1>3, <2>1
<1>5. ASSUME NEW k, i = id, Record(id, k)
      PROVE  \/ Holds(i)' /\ lanes'[i].key = lanes[i].key
             \/ \E t \in work' : t.by = "drop" /\ t.key = lanes[i].key
  <2>1. CASE lanes[i].key # k
    <3>1. Drop(lanes[i].key) \in work'
      BY <1>5, <2>1 DEF Record
    <3> QED
      BY <1>1, <3>1
  <2>2. CASE lanes[i].key = k
    <3>1. lanes'[i] = Lane(k)
      BY <1>2, <1>5 DEF Record
    <3> QED
      BY <2>2, <3>1, NewLane DEF Holds, Has
  <2> QED
    BY <2>1, <2>2
<1>6. CASE i = id /\ Offer(id)
  BY <1>3, <1>5, <1>6 DEF Offer, hostVars
<1>7. CASE i = id /\ Offered(id)
  <2>1. CASE Record(id, step[id].key) \/ Record(id, 0)
    BY <1>5, <1>7, <2>1
  <2>2. CASE work' = work \cup {Drop(step[id].key)} \cup IF Holds(id) THEN {Drop(lanes[id].key)} ELSE {}
    BY <1>1, <1>7, <2>2
  <2> QED
    BY <1>7, <2>1, <2>2 DEF Offered
<1> QED
  BY <1>4, <1>6, <1>7

(* No lane of the module's is forgotten.                                    *)
LEMMA RememberedKept ==
  ASSUME LaneTypes, CountsBound, DoneIsDone, MovesApart, NothingToForget, Remembered, [LaneNext]_laneVars
  PROVE  Remembered'
<1> USE DEF LaneTypes
<1> DEFINE Kept(k) == \/ \E id \in LaneIds : Holds(id)' /\ lanes'[id].key = k
                      \/ \E id \in LaneIds : step'[id].at = "asked" /\ step'[id].key = k
                      \/ \E t \in work' : t.by = "drop" /\ t.key = k
<1> SUFFICES ASSUME NEW k \in known', k \notin stray' PROVE Kept(k)
  BY DEF Remembered, Holds, Has
<1>0. k \notin stray
  BY StrayGrows
<1>1. ASSUME NEW id \in LaneIds, Offer(id), UNCHANGED hostVars, made' # made, k \notin known PROVE Kept(k)
  <2>1. step'[id].at = "asked" /\ step'[id].key = made'
    BY <1>1 DEF Offer, LaneSessionTypes
  <2>2. k = made'
    BY <1>1, CountersGrow
  <2> QED
    BY <2>1, <2>2
<1>2. CASE k \notin known
  BY <1>1, <1>2, CountersGrow
<1>3. ASSUME NEW id \in LaneIds, Holds(id), lanes[id].key = k, k \in known PROVE Kept(k)
  <2>1. ASSUME NEW i \in LaneIds, Offer(i) \/ Offered(i) PROVE Kept(k)
    BY <1>3, <2>1, CreateDrops
  <2>2. CASE Rekey
    <3>1. PICK m \in moving :
             /\ m[1] \in LaneIds /\ m[2] \in LaneIds
             /\ ~Has(m[1]) => lanes' = lanes
             /\ Has(m[1]) => /\ lanes'[m[2]] = lanes[m[1]] /\ (m[1] # m[2] => lanes'[m[1]] = Absent)
                             /\ \A i \in LaneIds \ {m[1], m[2]} : lanes'[i] = lanes[i]
      BY <2>2, RekeyMoves
    <3>2. ~Has(m[2])
      BY DEF MovesApart
    <3>3. id # m[2]
      BY <1>3, <3>2 DEF Holds
    <3>4. CASE id = m[1]
      BY <1>3, <3>1, <3>4 DEF Holds, Has
    <3>5. CASE id # m[1]
      BY <1>3, <3>1, <3>3, <3>5 DEF Holds, Has
    <3> QED
      BY <3>4, <3>5
  <2>3. CASE ~Rekey /\ \A i \in LaneIds : ~Offer(i) /\ ~Offered(i)
    <3>1. ~\E t \in work : t.by = "flush" /\ t.at = "done" /\ t.key = k
      BY <1>3 DEF DoneIsDone
    <3>2. ~\E t \in work : t.at = "forget" /\ t.id = id
      BY <1>3 DEF NothingToForget
    <3>3. lanes'[id].there /\ lanes'[id].key = k
      BY <1>3, <2>3, <3>1, <3>2, RecordsStay DEF Stays
    <3> QED
      BY <1>3, <3>3 DEF Holds, Has
  <2> QED
    BY <2>1, <2>2, <2>3
<1>4. ASSUME NEW id \in LaneIds, step[id].at = "asked", step[id].key = k, k \in known PROVE Kept(k)
  <2>1. CASE Offered(id)
    <3>1. Drop(k).by = "drop" /\ Drop(k).key = k
      BY DEF Drop
    <3>2. k # 0
      BY <1>4 DEF LaneSessionTypes
    <3>3. CASE Record(id, k)
      <4>1. lanes'[id] = Lane(k)
        BY <3>3 DEF Record, HostTypes
      <4>2. lanes'[id].there = TRUE /\ lanes'[id].key = k
        BY <4>1, NewLane
      <4>3. Holds(id)'
        BY <3>2, <4>2 DEF Holds, Has
      <4> QED
        BY <4>2, <4>3
    <3>4. CASE Drop(k) \in work'
      BY <3>1, <3>4
    <3> QED
      BY <1>4, <2>1, <3>3, <3>4 DEF Offered
  <2>2. CASE RestartDriver
    BY <1>4, <2>2 DEF RestartDriver
  <2>3. CASE step'[id] = step[id]
    BY <1>4, <2>3
  <2> QED
    BY <1>4, <2>1, <2>2, <2>3, StepFrom
<1>5. ASSUME NEW t \in work, t.by = "drop", t.key = k PROVE Kept(k)
  BY <1>5, DropsStay
<1> QED
  BY <1>0, <1>2, <1>3, <1>4, <1>5 DEF Remembered

-----------------------------------------------------------------------------
(* A live lane was attached by the module that runs *)

(* Nothing begins for a name that has no record and no task.                *)
LEMMA SettledStays ==
  ASSUME LaneTypes, [LaneNext]_laneVars, NEW id \in LaneIds, LaneSettled(id)
  PROVE  \A t \in work' : t.id # id
<1> SUFFICES ASSUME NEW t \in work', t.id = id PROVE FALSE
  OBVIOUS
<1>1. ~Has(id) /\ \A u \in work : u.id # id
  BY DEF LaneSettled
<1>2. t.id # 0
  BY NameAssumption
<1>3. ~Begins(t)
  BY <1>1, <1>2 DEF Begins, Holds
<1>4. ASSUME NEW u \in work PROVE ~AttachFollows(t, u) /\ ~CloseFollows(t, u)
  BY <1>1, <1>2 DEF AttachFollows, CloseFollows, Holds
<1> QED
  BY <1>1, <1>3, <1>4, TasksComeFrom DEF ComesFrom

(* The names of new lanes stay clear.                                       *)
LEMMA NewNamesKept ==
  ASSUME LaneTypes, NamesAreApart, MovesApart, NewNamesAreClear, [LaneNext]_laneVars
  PROVE  NewNamesAreClear'
<1>0. ~May("reuse") /\ RenamesAreAlone
  BY DEF NamesAreApart, RenamesAreAlone
<1>1. ASSUME NEW id \in LaneIds, step'[id].at = "asked" PROVE LaneSettled(id)'
  <2>1. CASE step[id].at = "asked" /\ ~Offered(id) /\ ~Offer(id)
    <3>1. LaneSettled(id)
      BY <2>1 DEF NewNamesAreClear
    <3>2. ~Rekey
      BY <2>1 DEF Rekey, MovesApart
    <3>3. ~lanes'[id].there
      <4>1. CASE \E i \in LaneIds : Offer(i) \/ Offered(i)
        <5>1. PICK i \in LaneIds : Offer(i) \/ Offered(i)
          BY <4>1
        <5>2. lanes'[id] = lanes[id]
          BY <2>1, <5>1, CreatesRecord
        <5> QED
          BY <3>1, <5>2 DEF LaneSettled, Has
      <4>2. CASE ~\E i \in LaneIds : Offer(i) \/ Offered(i)
        BY <3>1, <3>2, <4>2, RecordsStay DEF Stays, LaneSettled
      <4> QED
        BY <4>1, <4>2
    <3> QED
      BY <3>1, <3>3, SettledStays DEF LaneSettled, Has
  <2>2. CASE Offer(id) /\ UNCHANGED hostVars
    <3>1. LaneSettled(id)
      BY <1>0, <2>2 DEF Offer
    <3> QED
      BY <2>2, <3>1 DEF LaneSettled, Has, hostVars
  <2> QED
    BY <1>1, <2>1, <2>2, AskedFrom
<1>2. ASSUME NEW m \in moving' PROVE LaneSettled(m[2])'
  <2>1. CASE m \in moving
    <3>1. LaneSettled(m[2]) /\ m[2] \in LaneIds
      BY <2>1 DEF NewNamesAreClear, LaneTypes, LaneSessionTypes
    <3>2. ~lanes'[m[2]].there
      BY <1>0, <1>2, MovesApartKept DEF MovesApart, Has
    <3> QED
      BY <3>1, <3>2, SettledStays DEF LaneSettled, Has
  <2>2. ASSUME NEW from \in LaneIds, NEW to \in LaneIds, RenameLane(from, to), m \notin moving
        PROVE  LaneSettled(m[2])'
    <3>1. m[2] = to /\ LaneSettled(to) /\ UNCHANGED hostVars
      BY <1>0, <1>2, <2>2 DEF RenameLane
    <3> QED
      BY <3>1 DEF LaneSettled, Has, hostVars
  <2>3. CASE moving' \subseteq moving
    BY <1>2, <2>1, <2>3
  <2> QED
    BY <2>1, <2>2, <2>3, ZenonT(60)
     DEF LaneNext, Requests, Offer, KillSession, Advance, Offered, Launch, LaunchFails, Launched,
         Killed, LaneWorld, LaneSessionEnds, AgentReplaced, Degrade, Drops, ModuleDies, ModuleSuspect,
         ModuleReady, RestartDriver, Rekey, Attaches, PollLooks, ModuleTakes, ModuleDoesNot, Apply, AskAttach, Shut, PassForgets,
         Closes, FlushBegins, DropBegins, ModuleCloses, CloseFails, FlushEnds, Readies, ReadyFlushes,
         ReadyReads, ReadyLists, PassLists, PassReads, laneVars, sessionVars
<1> QED
  BY <1>1, <1>2 DEF NewNamesAreClear, LaneSettled, Has

(* What was attached stays in the account.                                  *)
LEMMA LastedGrows == ASSUME [LaneNext]_laneVars PROVE lasted \subseteq lasted'
<1>1. ASSUME NEW t \in work, ModuleTakes(t) PROVE lasted \subseteq lasted'
  BY <1>1 DEF ModuleTakes
<1>2. CASE lasted' = lasted
  BY <1>2
<1> QED
  BY <1>1, <1>2
     DEF LaneNext, Requests, Offer, KillSession, RenameLane, Advance, Offered, Launch, LaunchFails, Launched,
         Killed, LaneWorld, LaneSessionEnds, AgentReplaced, Degrade, Drops, ModuleDies, ModuleSuspect,
         ModuleReady, RestartDriver, Rekey, Attaches, PollLooks, ModuleDoesNot, Apply, AskAttach, Shut, PassForgets,
         Closes, FlushBegins, DropBegins, ModuleCloses, CloseFails, FlushEnds, Readies, ReadyFlushes,
         ReadyReads, ReadyLists, PassLists, PassReads, laneVars

(* An answer stays about the lane of the record.                            *)
LEMMA AnswersKept ==
  ASSUME LaneTypes, MovesApart, NewNamesAreClear, AnswersAreOurs, [LaneNext]_laneVars
  PROVE  AnswersAreOurs'
<1> SUFFICES ASSUME NEW t \in work', Attaching(t), t.at \in {"rows", "due", "asked", "answered"}
             PROVE  /\ Holds(t.id)' => lanes'[t.id].key = t.key
                    /\ t.at = "answered" /\ t.res = "live" => <<t.key, t.via>> \in lasted'
  BY DEF AnswersAreOurs, Attaching, HasKey, Holds, Has
<1>0. t.by \in {"poll", "ready", "pass"}
  BY DEF Attaching
<1>1. /\ t.id \in LaneIds
      /\ Holds(t.id) => lanes[t.id].key = t.key
      /\ t.at = "answered" /\ t.res = "live" => <<t.key, t.via>> \in lasted'
  <2>1. CASE t \in work
    <3>1. t.id \in LaneIds
      BY <1>0, <2>1, TaskKinds DEF Attaching, AttachTasks, LaneTypes
    <3> QED
      BY <2>1, <3>1, LastedGrows DEF AnswersAreOurs
  <2>2. CASE Begins(t)
    BY <1>0, <2>2 DEF Begins, Attaching, HasKey
  <2>3. ASSUME NEW u \in work, AttachFollows(t, u)
        PROVE  /\ t.id \in LaneIds
               /\ Holds(t.id) => lanes[t.id].key = t.key
               /\ t.at = "answered" /\ t.res = "live" => <<t.key, t.via>> \in lasted'
    <3>1. HasKey(u) /\ u.by \in {"poll", "ready", "pass"} => u.id \in LaneIds
      BY TaskKinds DEF AttachTasks, LaneTypes
    <3>2. u.by = "poll" => HasKey(u)
      BY TaskKinds DEF LaneTypes
    <3> QED
      BY <2>3, <3>1, <3>2 DEF AttachFollows, AnswersAreOurs, Attaching, HasKey
  <2>4. ASSUME NEW u \in work, CloseFollows(t, u) PROVE FALSE
    BY <1>0, <2>4 DEF CloseFollows, Attaching, HasKey
  <2> QED
    BY <2>1, <2>2, <2>3, <2>4, TasksComeFrom DEF ComesFrom
<1>2. ASSUME Holds(t.id)' PROVE lanes'[t.id].key = t.key
  <2>1. CASE Holds(t.id) /\ lanes'[t.id].key = lanes[t.id].key
    BY <1>1, <2>1
  <2>2. CASE Offered(t.id) /\ step[t.id].at = "asked"
    BY <1>1, <2>2, SettledStays DEF NewNamesAreClear
  <2>3. ASSUME NEW m \in moving, m[2] = t.id PROVE FALSE
    BY <1>1, <2>3, SettledStays DEF NewNamesAreClear
  <2> QED
    BY <1>1, <1>2, <2>1, <2>2, <2>3, HoldsFrom
<1> QED
  BY <1>1, <1>2

(* What the pass is still to forget gets no lane in the meantime.           *)
LEMMA NothingToForgetKept ==
  ASSUME LaneTypes, RecordsAreApart, MovesApart, NothingToForget, ~May("meanwhile") => OneRequest,
         NamesAreApart => NewNamesAreClear, [LaneNext]_laneVars
  PROVE  NothingToForget'
<1> SUFFICES ASSUME NEW t \in work', t.at = "forget" PROVE t.by = "pass" /\ ~Holds(t.id)'
  BY DEF NothingToForget, Holds, Has
<1>1. /\ t.by = "pass" /\ t.id \in LaneIds /\ ~Holds(t.id)
      /\ t \in work \/ MayLook
  <2>1. CASE t \in work
    <3>1. t.by = "pass" /\ ~Holds(t.id)
      BY <2>1 DEF NothingToForget
    <3>2. t.id \in LaneIds
      BY <2>1, <3>1, TaskKinds DEF AttachTasks, LaneTypes
    <3> QED
      BY <2>1, <3>1, <3>2
  <2>2. CASE Begins(t)
    BY <2>2 DEF Begins
  <2>3. ASSUME NEW u \in work PROVE ~AttachFollows(t, u) /\ ~CloseFollows(t, u)
    BY DEF AttachFollows, CloseFollows
  <2> QED
    BY <2>1, <2>2, <2>3, TasksComeFrom DEF ComesFrom
<1>2. ASSUME ~May("meanwhile") PROVE LanesQuiet
  <2>1. CASE t \in work
    BY <1>1, <1>2, <2>1 DEF OneRequest, Looking
  <2>2. CASE MayLook
    BY <1>2, <2>2 DEF MayLook
  <2> QED
    BY <1>1, <2>1, <2>2
<1>3. ASSUME Holds(t.id)' PROVE FALSE
  <2>1. CASE Offered(t.id) /\ step[t.id].at = "asked"
    <3>1. May("meanwhile")
      BY <1>1, <1>2, <2>1 DEF LanesQuiet
    <3>2. LaneSettled(t.id)
      BY <1>1, <2>1, <3>1 DEF RecordsAreApart, NamesAreApart, NewNamesAreClear
    <3> QED
      BY <1>1, <3>2, SettledStays
  <2>2. ASSUME NEW m \in moving PROVE FALSE
    BY <1>2, <2>2 DEF MovesApart, RecordsAreApart, LanesQuiet
  <2> QED
    BY <1>1, <1>3, <2>1, <2>2, HoldsFrom
<1> QED
  BY <1>1, <1>3

(* A live lane was attached, by the life of the module that is on record.   *)
LEMMA LiveKept ==
  ASSUME LaneTypes, GensInOrder, AnswersAreOurs, LiveHasLasted, [LaneNext]_laneVars
  PROVE  LiveHasLasted'
<1> SUFFICES ASSUME NEW id \in LaneIds, lanes'[id].there, lanes'[id].key # 0, lanes'[id].live
             PROVE  <<lanes'[id].key, lanes'[id].gen>> \in lasted'
  BY DEF LiveHasLasted, Holds, Has
<1>1. ASSUME NEW i \in LaneIds, lanes'[id] = lanes[i] PROVE <<lanes'[id].key, lanes'[id].gen>> \in lasted'
  BY <1>1, LastedGrows DEF LiveHasLasted, Holds, Has
<1>2. ASSUME NEW i \in LaneIds, Offer(i) \/ Offered(i) PROVE <<lanes'[id].key, lanes'[id].gen>> \in lasted'
  <2>1. ASSUME NEW k, lanes'[id] = Lane(k) PROVE FALSE
    BY <2>1, NewLane
  <2> QED
    BY <1>1, <1>2, <2>1, CreatesRecord
<1>3. CASE Rekey
  <2>1. PICK m \in moving :
           /\ m[1] \in LaneIds /\ m[2] \in LaneIds
           /\ ~Has(m[1]) => lanes' = lanes
           /\ Has(m[1]) => /\ lanes'[m[2]] = lanes[m[1]] /\ (m[1] # m[2] => lanes'[m[1]] = Absent)
                           /\ \A i \in LaneIds \ {m[1], m[2]} : lanes'[i] = lanes[i]
    BY <1>3, RekeyMoves
  <2>2. \E i \in LaneIds : lanes'[id] = lanes[i]
    BY <2>1 DEF Absent
  <2> QED
    BY <1>1, <2>2
<1>4. CASE ~Rekey /\ \A i \in LaneIds : ~Offer(i) /\ ~Offered(i)
  <2>1. /\ Has(id) /\ lanes'[id].key = lanes[id].key
        /\ (lanes[id].live /\ lanes'[id].gen = lanes[id].gen) \/ LiveNow(id)
    BY <1>4, RecordsStay DEF Stays
  <2>2. CASE lanes[id].live /\ lanes'[id].gen = lanes[id].gen
    BY <2>1, <2>2, LastedGrows DEF LiveHasLasted, Holds
  <2>3. CASE LiveNow(id)
    <3>1. PICK t \in work : /\ Attaching(t) /\ t.at = "answered" /\ t.res = "live" /\ t.id = id
                            /\ lanes'[id].gen = t.gen /\ t.gen = mod.gen
      BY <2>3 DEF LiveNow
    <3>2. lanes[id].key = t.key /\ <<t.key, t.via>> \in lasted
      BY <2>1, <3>1 DEF AnswersAreOurs, Holds
    <3>3. t.gen <= t.via /\ t.via <= mod.gen
      BY <3>1 DEF GensInOrder, Attaching
    <3>4. t.gen \in Nat /\ t.via \in Nat /\ mod.gen \in Nat
      BY <3>1, TaskKinds DEF Attaching, AttachTasks, LaneTypes, ModuleTypes
    <3>5. t.via = lanes'[id].gen
      BY <3>1, <3>3, <3>4
    <3> QED
      BY <2>1, <3>2, <3>5, LastedGrows
  <2> QED
    BY <2>1, <2>2, <2>3
<1> QED
  BY <1>2, <1>3, <1>4

-----------------------------------------------------------------------------
(* A lane is given up for a reason *)

(* A session that is there was there, or is launched, or is given its name. *)
LEMMA RowsFrom ==
  ASSUME LaneTypes, [LaneNext]_laneVars, NEW id \in LaneIds, rows'[id] # 0
  PROVE  /\ \/ rows[id] # 0 /\ (rows'[id] = rows[id] \/ rows'[id] = pids + 1)
            \/ Launch(id)
            \/ \E from \in LaneIds : RenameLane(from, id)
         /\ rows' = rows \/ UNCHANGED hostVars
<1>1. rows \in [LaneIds -> Nat]
  BY DEF LaneTypes, LaneSessionTypes
<1> DEFINE P == /\ \/ rows[id] # 0 /\ (rows'[id] = rows[id] \/ rows'[id] = pids + 1)
                   \/ Launch(id)
                   \/ \E from \in LaneIds : RenameLane(from, id)
                /\ rows' = rows \/ UNCHANGED hostVars
<1>2. CASE rows' = rows
  BY <1>2
<1>3. ASSUME NEW i \in LaneIds, Launch(i) \/ KillSession(i) \/ LaneSessionEnds(i) \/ AgentReplaced(i) PROVE P
  <2>1. UNCHANGED hostVars
    BY <1>3 DEF Launch, KillSession, LaneSessionEnds, AgentReplaced
  <2>2. CASE i # id
    <3>1. rows'[id] = rows[id]
      BY <1>1, <1>3, <2>2 DEF Launch, KillSession, LaneSessionEnds, AgentReplaced
    <3> QED
      BY <2>1, <3>1
  <2>3. CASE i = id
    BY <1>1, <1>3, <2>1, <2>3 DEF KillSession, LaneSessionEnds, AgentReplaced
  <2> QED
    BY <2>2, <2>3
<1>4. ASSUME NEW i \in LaneIds, NEW to \in LaneIds, RenameLane(i, to) PROVE P
  <2>1. UNCHANGED hostVars
    BY <1>4 DEF RenameLane
  <2>2. id # to => rows'[id] = rows[id]
    BY <1>1, <1>4 DEF RenameLane
  <2> QED
    BY <1>4, <2>1, <2>2
<1>5. P
  BY <1>2, <1>3, <1>4
     DEF LaneNext, Requests, Offer, Advance, Offered, LaunchFails, Launched, Killed, LaneWorld, Degrade, Drops,
         ModuleDies, ModuleSuspect, ModuleReady, RestartDriver, Rekey, Attaches, PollLooks, ModuleTakes,
         ModuleDoesNot, Apply, AskAttach, Shut, PassForgets, Closes, FlushBegins, DropBegins, ModuleCloses, CloseFails, FlushEnds,
         Readies, ReadyFlushes, ReadyReads, ReadyLists, PassLists, PassReads, laneVars, sessionVars
<1> QED
  BY <1>5

(* Requests go on by themselves, and looks begin when there is none.        *)
LEMMA OneRequestKept ==
  ASSUME LaneTypes, ~May("meanwhile"), OneRequest, [LaneNext]_laneVars
  PROVE  OneRequest'
<1>0. (MayLook => LanesQuiet) /\ (MayAct => LanesQuiet /\ ~Looking)
  BY DEF MayLook, MayAct
<1> DEFINE Request(id) == Offer(id) \/ KillSession(id) \/ \E to \in LaneIds : RenameLane(id, to)
<1>1. ASSUME NEW id \in LaneIds, Request(id) PROVE OneRequest'
  <2>1. LanesQuiet /\ ~Looking
    BY <1>0, <1>1 DEF Offer, KillSession, RenameLane
  <2>2. glance' = glance
    BY <1>1 DEF Offer, KillSession, RenameLane, hostVars
  <2>3. ASSUME NEW t \in work', t.by \in {"ready", "pass"}, t.at \in {"rows", "shut", "forget"} PROVE FALSE
    <3>1. ~Begins(t)
      BY <2>1, <2>3 DEF Begins, Looking
    <3> QED
      BY <1>1, <2>1, <2>3, <3>1, RequestsBegin DEF Looking
  <2>4. ~Looking'
    BY <2>1, <2>2, <2>3 DEF Looking
  <2>5. (\E i \in LaneIds : step'[i].at # "no") => ending' = {} /\ moving' = {}
    <3>1. CASE Offer(id)
      BY <2>1, <3>1 DEF Offer, LanesQuiet
    <3>2. CASE KillSession(id) \/ \E to \in LaneIds : RenameLane(id, to)
      BY <2>1, <3>2 DEF KillSession, RenameLane, LanesQuiet
    <3> QED
      BY <1>1, <3>1, <3>2
  <2> QED
    BY <2>4, <2>5 DEF OneRequest
<1>2. CASE ~\E id \in LaneIds : Request(id)
  <2>1. ending' \subseteq ending /\ moving' \subseteq moving
    BY <1>2
       DEF LaneNext, Requests, Advance, Offered, Launch, LaunchFails, Launched,
           Killed, LaneWorld, LaneSessionEnds, AgentReplaced, Degrade, Drops, ModuleDies, ModuleSuspect,
           ModuleReady, RestartDriver, Rekey, Attaches, PollLooks, ModuleTakes, ModuleDoesNot, Apply, AskAttach, Shut, PassForgets,
           Closes, FlushBegins, DropBegins, ModuleCloses, CloseFails, FlushEnds, Readies, ReadyFlushes,
           ReadyReads, ReadyLists, PassLists, PassReads, laneVars, sessionVars
  <2>2. \A id \in LaneIds : step'[id].at # "no" => step[id].at # "no"
    BY <1>2, StepFrom
  <2>3. (\E id \in LaneIds : step'[id].at # "no") => ending' = {} /\ moving' = {}
    BY <2>1, <2>2 DEF OneRequest
  <2>4. LanesQuiet => LanesQuiet'
    BY <2>1, <2>2 DEF LanesQuiet
  <2>5. Looking' => LanesQuiet
    <3>1. ASSUME glance'.valid PROVE LanesQuiet
      <4>1. CASE PassLists
        BY <1>0, <4>1 DEF PassLists
      <4>2. CASE PassReads \/ RestartDriver
        BY <3>1, <4>2 DEF PassReads, RestartDriver, Unseen
      <4>3. CASE glance' = glance
        BY <3>1, <4>3 DEF OneRequest, Looking
      <4> QED
        BY <1>2, <4>1, <4>2, <4>3
           DEF LaneNext, Requests, Offer, Advance, Offered, LaunchFails, Launched, Killed, LaneWorld, Degrade, Drops,
               ModuleDies, ModuleSuspect, ModuleReady, Rekey, Attaches, PollLooks, ModuleTakes,
               ModuleDoesNot, Apply, AskAttach, Shut, PassForgets, Closes, FlushBegins, DropBegins, ModuleCloses, CloseFails,
               FlushEnds, Readies, ReadyFlushes, ReadyReads, ReadyLists, laneVars, hostVars, Launch, KillSession,
               LaneSessionEnds, AgentReplaced, RenameLane
    <3>2. ASSUME NEW t \in work', t.by \in {"ready", "pass"}, t.at \in {"rows", "shut", "forget"} PROVE LanesQuiet
      <4>1. CASE t \in work
        BY <3>2, <4>1 DEF OneRequest, Looking
      <4>2. CASE Begins(t)
        BY <1>0, <3>2, <4>2 DEF Begins
      <4>3. ASSUME NEW u \in work, AttachFollows(t, u) \/ CloseFollows(t, u) PROVE LanesQuiet
        BY <1>0, <3>2, <4>3 DEF AttachFollows, CloseFollows
      <4> QED
        BY <4>1, <4>2, <4>3, TasksComeFrom DEF ComesFrom
    <3> QED
      BY <3>1, <3>2 DEF Looking
  <2> QED
    BY <2>3, <2>4, <2>5 DEF OneRequest
<1> QED
  BY <1>1, <1>2

(* What a look found gone stays gone until it has been acted on.            *)
LEMMA GoneKept ==
  ASSUME LaneTypes, ~May("meanwhile"), CountsBound, OneRequest, GoneIsGone, [LaneNext]_laneVars
  PROVE  GoneIsGone'
<1>0. (MayLook => LanesQuiet) /\ (MayAct => LanesQuiet /\ ~Looking)
  BY DEF MayLook, MayAct
<1>1. ASSUME NEW id \in LaneIds, step'[id].at \in {"asked", "offered"} \/ id \in ending', rows'[id] # 0
      PROVE  FALSE
  <2>1. CASE rows[id] # 0
    <3>1. step[id].at \notin {"asked", "offered"} /\ id \notin ending
      BY <2>1 DEF GoneIsGone
    <3>2. ~Offer(id) /\ ~Offered(id)
      BY <2>1, <3>1 DEF Offer, Offered
    <3>3. step'[id].at \notin {"asked", "offered"}
      BY <3>1, <3>2, AskedFrom, StepFrom
    <3>4. CASE \E i \in LaneIds : KillSession(i)
      <4>1. PICK i \in LaneIds : KillSession(i)
        BY <3>4
      <4>2. i # id
        BY <1>1, <4>1 DEF KillSession, LaneTypes, LaneSessionTypes
      <4> QED
        BY <1>1, <3>1, <3>3, <4>1, <4>2 DEF KillSession
    <3>5. CASE ending' \subseteq ending
      BY <1>1, <3>1, <3>3, <3>5
    <3> QED
      BY <3>4, <3>5, ZenonT(60)
         DEF LaneNext, Requests, Offer, RenameLane, Advance, Offered, Launch, LaunchFails, Launched,
             Killed, LaneWorld, LaneSessionEnds, AgentReplaced, Degrade, Drops, ModuleDies, ModuleSuspect,
             ModuleReady, RestartDriver, Rekey, Attaches, PollLooks, ModuleTakes, ModuleDoesNot, Apply, AskAttach, Shut, PassForgets,
             Closes, FlushBegins, DropBegins, ModuleCloses, CloseFails, FlushEnds, Readies, ReadyFlushes,
             ReadyReads, ReadyLists, PassLists, PassReads, laneVars, sessionVars
  <2>2. CASE Launch(id)
    <3>1. step'[id].at = "launched" /\ ending' = ending
      BY <2>2 DEF Launch, LaneTypes, LaneSessionTypes
    <3>2. ending = {}
      BY <2>2 DEF Launch, OneRequest
    <3> QED
      BY <1>1, <3>1, <3>2
  <2>3. ASSUME NEW from \in LaneIds, RenameLane(from, id) PROVE FALSE
    BY <1>0, <1>1, <2>3 DEF RenameLane, LanesQuiet
  <2> QED
    BY <1>1, <2>1, <2>2, <2>3, RowsFrom
<1>2. ASSUME NEW id \in LaneIds, rows'[id] # 0, Looking
      PROVE  rows[id] # 0 /\ (rows'[id] = rows[id] \/ rows'[id] = pids + 1)
  <2>1. ~Launch(id)
    BY <1>2 DEF OneRequest, LanesQuiet, Launch
  <2>2. \A from \in LaneIds : ~RenameLane(from, id)
    BY <1>0, <1>2 DEF RenameLane
  <2> QED
    BY <1>2, <2>1, <2>2, RowsFrom
<1>3. ASSUME glance'.valid, glance'.ok, NEW id \in LaneIds, glance'.rows[id] = 0, rows'[id] # 0 PROVE FALSE
  <2>1. CASE PassLists
    BY <1>3, <2>1 DEF PassLists, sessionVars
  <2>2. CASE PassReads \/ RestartDriver
    BY <1>3, <2>2 DEF PassReads, RestartDriver, Unseen
  <2>3. CASE glance' = glance
    BY <1>2, <1>3, <2>3 DEF GoneIsGone, Looking
  <2> QED
    BY <2>1, <2>2, <2>3
       DEF LaneNext, Requests, Offer, Advance, Offered, LaunchFails, Launched, Killed, LaneWorld, Degrade, Drops,
           ModuleDies, ModuleSuspect, ModuleReady, Rekey, Attaches, PollLooks, ModuleTakes,
           ModuleDoesNot, Apply, AskAttach, Shut, PassForgets, Closes, FlushBegins, DropBegins, ModuleCloses, CloseFails,
           FlushEnds, Readies, ReadyFlushes, ReadyReads, ReadyLists, laneVars, hostVars, Launch, KillSession,
           LaneSessionEnds, AgentReplaced, RenameLane
<1>4. ASSUME NEW t \in work', t.at = "shut"
      PROVE  t.by \in {"ready", "pass"} /\ (rows'[t.id] = 0 \/ t.pid \notin {0, rows'[t.id]})
  <2>1. CASE t \in work
    <3>1. t.by \in {"ready", "pass"} /\ (rows[t.id] = 0 \/ t.pid \notin {0, rows[t.id]})
      BY <1>4, <2>1 DEF GoneIsGone
    <3>2. Looking
      BY <1>4, <2>1, <3>1 DEF Looking
    <3>3. t.id \in LaneIds /\ t.pid \in Nat /\ t.pid <= pids /\ pids \in Nat
      BY <1>4, <2>1, <3>1, TaskKinds DEF HasKey, Attaching, AttachTasks, CountsBound, LaneTypes, LaneSessionTypes
    <3> QED
      BY <1>2, <3>1, <3>2, <3>3
  <2>2. CASE t \notin work
    <3>0. rows' = rows
      <4>1. \/ rows' = rows
            \/ UNCHANGED hostVars
        <5>1. CASE \E id \in LaneIds : rows'[id] # 0
          BY <5>1, RowsFrom
        <5>2. CASE \A id \in LaneIds : rows'[id] = 0
          BY <5>2, ZenonT(60)
             DEF LaneNext, Requests, Offer, Advance, Offered, LaunchFails, Launched, Killed, LaneWorld, Degrade, Drops,
                 ModuleDies, ModuleSuspect, ModuleReady, RestartDriver, Rekey, Attaches, PollLooks, ModuleTakes,
                 ModuleDoesNot, Apply, AskAttach, Shut, PassForgets, Closes, FlushBegins, DropBegins, ModuleCloses, CloseFails,
                 FlushEnds, Readies, ReadyFlushes, ReadyReads, ReadyLists, PassLists, PassReads, laneVars, hostVars,
                 Launch, KillSession, LaneSessionEnds, AgentReplaced, RenameLane, sessionVars
        <5> QED
          BY <5>1, <5>2
      <4> QED
        BY <2>2, <4>1 DEF hostVars
    <3>1. CASE Begins(t)
      BY <1>4, <3>0, <3>1 DEF Begins, GoneFrom, GoneIsGone
    <3>2. ASSUME NEW u \in work, AttachFollows(t, u) \/ CloseFollows(t, u)
          PROVE  t.by \in {"ready", "pass"} /\ (rows'[t.id] = 0 \/ t.pid \notin {0, rows'[t.id]})
      BY <1>4, <3>0, <3>2 DEF AttachFollows, CloseFollows
    <3> QED
      BY <2>2, <3>1, <3>2, TasksComeFrom DEF ComesFrom
  <2> QED
    BY <2>1, <2>2
<1> QED
  BY <1>1, <1>3, <1>4 DEF GoneIsGone

(* A step that gives a lane up has cause.                                   *)
LEMMA GivesUpWithCause ==
  ASSUME LaneTypes, KeysApart, GoneIsGone, [LaneNext]_laneVars, NEW id \in LaneIds, GivesUpLane(id)
  PROVE  HasCause(id)
<1>0. /\ Holds(id) /\ ~lanes[id].closing
      /\ lanes'[id].there /\ lanes'[id].closing /\ lanes'[id].key = lanes[id].key
  BY DEF GivesUpLane
<1>1. ASSUME NEW i \in LaneIds, Has(i), lanes'[id] = lanes[i] PROVE FALSE
  BY <1>0, <1>1 DEF KeysApart, Holds
<1>2. ASSUME NEW i \in LaneIds, Offer(i) \/ Offered(i) PROVE FALSE
  <2>1. ASSUME NEW k, lanes'[id] = Lane(k) PROVE FALSE
    BY <1>0, <2>1, NewLane
  <2> QED
    BY <1>0, <1>1, <1>2, <2>1, CreatesRecord DEF Holds
<1>3. CASE Rekey
  <2>1. PICK m \in moving :
           /\ m[1] \in LaneIds /\ m[2] \in LaneIds
           /\ ~Has(m[1]) => lanes' = lanes
           /\ Has(m[1]) => /\ lanes'[m[2]] = lanes[m[1]] /\ (m[1] # m[2] => lanes'[m[1]] = Absent)
                           /\ \A i \in LaneIds \ {m[1], m[2]} : lanes'[i] = lanes[i]
    BY <1>3, RekeyMoves
  <2>2. lanes'[id] = lanes[id] \/ (Has(m[1]) /\ lanes'[id] = lanes[m[1]])
    BY <1>0, <2>1 DEF Absent
  <2> QED
    BY <1>0, <1>1, <2>1, <2>2 DEF Holds
<1>4. CASE ~Rekey /\ \A i \in LaneIds : ~Offer(i) /\ ~Offered(i)
  <2>1. \/ rows[id] = 0 \/ step[id].at = "offered" \/ id \in ending
        \/ \E t \in work : t.at = "shut" /\ t.id = id
    BY <1>0, <1>4, RecordsStay DEF Stays
  <2>2. CASE step[id].at = "offered" \/ id \in ending
    BY <2>2 DEF GoneIsGone, HasCause
  <2>3. ASSUME NEW t \in work, t.at = "shut", t.id = id PROVE HasCause(id)
    BY <2>3 DEF GoneIsGone, HasCause
  <2> QED
    BY <2>1, <2>2, <2>3 DEF HasCause
<1> QED
  BY <1>2, <1>3, <1>4

-----------------------------------------------------------------------------
(* The invariant and the theorems *)

(* The invariant holds at first.                                            *)
LEMMA LaneInvariantAtFirst == LaneInit => LaneInvariant
<1> SUFFICES ASSUME LaneInit PROVE LaneInvariant
  OBVIOUS
<1>1. LaneTypes
  BY LaneTypesAtFirst
<1>2. /\ \A id \in LaneIds : ~Has(id) /\ ~Holds(id) /\ step[id].at = "no" /\ step[id].key = 0
      /\ \A id \in LaneIds : rows[id] = 0 /\ glance.rows[id] = 0
      /\ work = {} /\ known = {} /\ moving = {} /\ ending = {} /\ ~glance.valid /\ made = 0 /\ pids = 0
  BY DEF LaneInit, Has, Holds, Absent, NoStep, Unseen
<1>3. CountsBound
  BY <1>2 DEF CountsBound
<1>4. GensInOrder /\ KeysApart /\ FlushesApart /\ DoneIsDone
  BY <1>2 DEF GensInOrder, KeysApart, FlushesApart, DoneIsDone
<1>5. MovesApart /\ NothingToForget /\ Remembered /\ NewNamesAreClear /\ AnswersAreOurs /\ LiveHasLasted
  BY <1>2 DEF MovesApart, NothingToForget, Remembered, NewNamesAreClear, AnswersAreOurs, LiveHasLasted
<1>6. OneRequest /\ GoneIsGone
  BY <1>2 DEF OneRequest, GoneIsGone, Looking
<1> QED
  BY <1>1, <1>3, <1>4, <1>5, <1>6 DEF LaneInvariant

(* It is kept.                                                              *)
LEMMA LaneInvariantKept == LaneInvariant /\ [LaneNext]_laneVars => LaneInvariant'
<1> SUFFICES ASSUME LaneInvariant, [LaneNext]_laneVars PROVE LaneInvariant'
  OBVIOUS
<1>1. LaneTypes /\ CountsBound /\ GensInOrder /\ KeysApart /\ FlushesApart /\ DoneIsDone
  BY DEF LaneInvariant
<1>2. (LaneTypes /\ CountsBound /\ GensInOrder /\ KeysApart /\ FlushesApart /\ DoneIsDone)'
  BY <1>1, LaneTypesKept, CountsKept, GensKept, KeysApartKept, FlushesApartKept, DoneIsDoneKept
<1>3. \A what : May(what)' <=> May(what)
  BY <1>1, ModuleIsTyped DEF May
<1>4. ASSUME RenamesAreAlone PROVE MovesApart'
  BY <1>1, <1>4, MovesApartKept DEF LaneInvariant, RenamesAreAlone
<1>5. ASSUME RecordsAreApart PROVE (NothingToForget /\ Remembered)'
  <2>1. MovesApart /\ NothingToForget /\ Remembered
    BY <1>5 DEF LaneInvariant, RecordsAreApart
  <2>2. (~May("meanwhile") => OneRequest) /\ (NamesAreApart => NewNamesAreClear)
    BY DEF LaneInvariant
  <2> QED
    BY <1>1, <1>5, <2>1, <2>2, NothingToForgetKept, RememberedKept
<1>6. ASSUME NamesAreApart PROVE (NewNamesAreClear /\ AnswersAreOurs /\ LiveHasLasted)'
  <2>1. MovesApart /\ NewNamesAreClear /\ AnswersAreOurs /\ LiveHasLasted
    BY <1>6 DEF LaneInvariant, NamesAreApart
  <2> QED
    BY <1>1, <1>6, <2>1, NewNamesKept, AnswersKept, LiveKept
<1>7. ASSUME ~May("meanwhile") PROVE (OneRequest /\ GoneIsGone)'
  <2>1. OneRequest /\ GoneIsGone
    BY <1>7 DEF LaneInvariant
  <2> QED
    BY <1>1, <1>7, <2>1, OneRequestKept, GoneKept
<1>8. (RenamesAreAlone' => RenamesAreAlone) /\ (NamesAreApart' => NamesAreApart)
      /\ (~May("meanwhile")' => ~May("meanwhile")) /\ (RecordsAreApart' => RecordsAreApart)
  BY <1>3 DEF RenamesAreAlone, NamesAreApart, RecordsAreApart
<1> QED
  BY <1>2, <1>4, <1>5, <1>6, <1>7, <1>8 DEF LaneInvariant, RenamesAreAlone

(* The inductive invariant of the lanes.                                    *)
LEMMA LaneInvariantHolds == LaneSpec => []LaneInvariant
  BY LaneInvariantAtFirst, LaneInvariantKept, PTL DEF LaneSpec

(* A lane that may be used was attached by the module that runs, while      *)
(* names are apart; none of the module's lanes is forgotten, while records  *)
(* are apart: no rename and no background pass meets another's record under *)
(* the name; and none is closed twice at once (usable, applyAttach,         *)
(* offerLane, rekey, lanePass, flushClose).                                 *)
THEOREM LanesAreAlwaysTrue == LaneSpec => []LanesAreTrue
<1>1. ASSUME LaneInvariant PROVE LanesAreTrue
  <2>1. LiveIsTrue
    BY <1>1 DEF LaneInvariant, LiveIsTrue, LiveHasLasted, Usable
  <2>2. NoLaneIsForgotten
    BY <1>1 DEF LaneInvariant, NoLaneIsForgotten, Remembered
  <2>3. ClosesOnce
    BY <1>1 DEF LaneInvariant, ClosesOnce, FlushesApart, Closing
  <2> QED
    BY <2>1, <2>2, <2>3 DEF LanesAreTrue
<1> QED
  BY <1>1, LaneInvariantHolds, PTL

(* A living session's lane is not given up (lanePass, reattachAll).         *)
THEOREM LivingAlwaysKeepTheirLane == LaneSpec => LivingKeepTheirLane
<1>1. ASSUME LaneInvariant, [LaneNext]_laneVars
      PROVE  [~May("meanwhile") => \A id \in LaneIds : GivesUpLane(id) => HasCause(id)]_laneVars
  BY <1>1, GivesUpWithCause DEF LaneInvariant
<1> QED
  BY <1>1, LaneInvariantHolds, PTL DEF LaneSpec, LivingKeepTheirLane

-----------------------------------------------------------------------------
(* SessionOwnership: the inductive invariant                                *)

(* Every unpinned name reaches the session of exactly that name, and no     *)
(* name is taken while somebody is about to act on it.                      *)
NamesHold ==
    /\ \A n \in Names : Reached(sessions, n) = Holding(sessions, n)
    /\ "race" \notin env.may

OneOfEach == \A s, t \in sessions : s.id = t.id => s = t
MarkedAreOurs == \A s \in sessions : s.managed => s.ours
ToldAreGone ==
    \A i \in Ids : told[i] # 0 => told[i] = 1 /\ i \in 1 .. started /\ \A s \in sessions : s.id # i

(* What a request holds under a name it has looked at is what it saw there. *)
LookHolds(a) ==
    LET k == call[a] IN
    /\ k.pc # "list" => k.rows = {} /\ k.todo = {}
    /\ k.todo \subseteq k.rows
    /\ k.pc \notin {"idle", "list"} => k.name \in Names
    /\ k.pc = "rename" => k.to \in Names
    /\ \A s \in sessions :
          /\ k.pc \in {"remain", "manage"} /\ s.name = k.name => s.ours
          /\ k.pc \in {"close", "rename"} /\ s.name = k.name => s.id = k.row
          /\ \A r \in k.rows : s.name = r[2] => s.id = r[1]
          /\ \A r \in k.todo : s.id = r[1] => s.dead /\ s.ours

OwnInv == TypeOK /\ OneOfEach /\ MarkedAreOurs /\ ToldAreGone /\ \A a \in Actors : LookHolds(a)

SessionTypes(n) ==
    [id : 1 .. n, name : Names, ours : BOOLEAN, dead : BOOLEAN, remain : BOOLEAN, managed : BOOLEAN]
CallTypes(n) ==
    [pc : {"idle", "launch", "remain", "manage", "close", "rename", "renamed", "list"},
     name : Names \union {NoName}, to : Names \union {NoName}, row : 0 .. n,
     rows : SUBSET ((1 .. n) \X Names), todo : SUBSET ((1 .. n) \X Names)]

(* A session that was there before, perhaps under a name that nobody looks  *)
(* at, or a new one under such a name.                                      *)
Follows(s, b) ==
    \/ \E t \in sessions : /\ s.id = t.id /\ s.ours = t.ours /\ (t.dead => s.dead)
                           /\ s.name = t.name \/ s.name \notin Claimed(b)
    \/ s.id \notin 1 .. started /\ s.name \notin Claimed(b)

-----------------------------------------------------------------------------
(* SessionOwnership: what a step keeps                                      *)

(* A set of numbers has a least one.                                        *)
LEMMA LeastNumber ==
  ASSUME NEW S \in SUBSET Nat, S # {}
  PROVE  Min(S) \in S
<1>1. PICK R : R = OpToRel(<, Nat)
  OBVIOUS
<1>2. IsWellFoundedOn(R, Nat)
  BY <1>1, NatLessThanWellFounded
<1>3. PICK x \in S : \A y \in S : ~(<<y, x>> \in R)
  BY <1>2, WFMin
<1>4. \A y \in S : x <= y
  <2> SUFFICES ASSUME NEW y \in S PROVE x <= y
    OBVIOUS
  <2>1. <<y, x>> \in R <=> y < x
    BY <1>1 DEF OpToRel
  <2> QED
    BY <1>3, <2>1
<1> QED
  BY <1>3, <1>4 DEF Min

(* The sessions and calls have the components of their records.             *)
LEMMA OwnTypes ==
  ASSUME TypeOK
  PROVE  /\ env \in Environments /\ env.actors \subseteq Actors /\ env.ours \subseteq Bases
         /\ env.other \subseteq Names /\ env.sessions \in Nat /\ started \in Nat /\ started <= env.sessions
         /\ sessions \subseteq SessionTypes(started) /\ call \in [Actors -> CallTypes(started)]
         /\ \A s, t \in sessions : s.name = t.name => s = t
         /\ observed \in [Names -> 0 .. started] /\ told \in [Ids -> Nat]
<1>1. env \in Environments
  BY DEF TypeOK
<1>2. env.sessions \in Nat
  BY <1>1, OwnershipAssumption
<1> QED
  BY <1>1, <1>2, OwnershipAssumption DEF TypeOK, SessionTypes, CallTypes

(* Types again, from what a step says of each variable.                     *)
LEMMA OwnTypesMade ==
  ASSUME TypeOK, env' = env, started' \in {started, started + 1}, started' <= env.sessions,
         sessions' \subseteq SessionTypes(started'), \A s, t \in sessions' : s.name = t.name => s = t,
         observed' \in [Names -> 0 .. started'], told' \in [Ids -> Nat],
         call' \in [Actors -> CallTypes(started')]
  PROVE  TypeOK'
<1>1. started \in Nat /\ env.sessions \in Nat
  BY OwnTypes
<1>2. started' \in 0 .. env'.sessions /\ Ids' = Ids
  BY <1>1 DEF Ids
<1> QED
  BY <1>1, <1>2 DEF TypeOK, SessionTypes, CallTypes

(* What an actor that does not move has seen still holds.                   *)
LEMMA LookStays ==
  ASSUME TypeOK, NEW b \in Actors, LookHolds(b), call'[b] = call[b],
         \A s \in sessions' : Follows(s, b)
  PROVE  LookHolds(b)'
<1>1. call[b] \in CallTypes(started)
  BY OwnTypes
<1>2. PICK k : k = call[b]
  OBVIOUS
<1>3. ASSUME NEW s \in sessions'
      PROVE  /\ k.pc \in {"remain", "manage"} /\ s.name = k.name => s.ours
             /\ k.pc \in {"close", "rename"} /\ s.name = k.name => s.id = k.row
             /\ \A r \in k.rows : s.name = r[2] => s.id = r[1]
             /\ \A r \in k.todo : s.id = r[1] => s.dead /\ s.ours
  <2>1. k.pc # "idle" => k.name \in Claimed(b) /\ \A r \in k.rows : r[2] \in Claimed(b)
    BY <1>2 DEF Claimed
  <2>2. k.pc = "idle" => k.rows = {} /\ k.todo = {}
    BY <1>2 DEF LookHolds
  <2>3. k.todo \subseteq k.rows /\ \A r \in k.rows : r[1] \in 1 .. started
    BY <1>1, <1>2 DEF CallTypes, LookHolds
  <2>4. CASE \E t \in sessions : /\ s.id = t.id /\ s.ours = t.ours /\ (t.dead => s.dead)
                                 /\ s.name = t.name \/ s.name \notin Claimed(b)
    <3>1. PICK t \in sessions : /\ s.id = t.id /\ s.ours = t.ours /\ (t.dead => s.dead)
                                /\ s.name = t.name \/ s.name \notin Claimed(b)
      BY <2>4
    <3>2. /\ k.pc \in {"remain", "manage"} /\ t.name = k.name => t.ours
          /\ k.pc \in {"close", "rename"} /\ t.name = k.name => t.id = k.row
          /\ \A r \in k.rows : t.name = r[2] => t.id = r[1]
          /\ \A r \in k.todo : t.id = r[1] => t.dead /\ t.ours
      BY <1>2 DEF LookHolds
    <3> QED
      BY <2>1, <2>2, <3>1, <3>2
  <2>5. CASE s.id \notin 1 .. started /\ s.name \notin Claimed(b)
    BY <2>1, <2>2, <2>3, <2>5
  <2> QED
    BY <1>3, <2>4, <2>5 DEF Follows
<1> QED
  BY <1>2, <1>3 DEF LookHolds

(* The invariant again, when one actor moves.                               *)
LEMMA ActorMoves ==
  ASSUME OwnInv, NEW a \in Actors, NEW k, call' = [call EXCEPT ![a] = k], TypeOK', OneOfEach',
         MarkedAreOurs', ToldAreGone', LookHolds(a)',
         \A b \in Actors : b # a => \A s \in sessions' : Follows(s, b)
  PROVE  OwnInv'
<1>1. call \in [Actors -> CallTypes(started)]
  BY OwnTypes DEF OwnInv
<1>2. ASSUME NEW b \in Actors PROVE LookHolds(b)'
  <2>1. CASE b = a
    BY <2>1
  <2>2. CASE b # a
    <3>1. call'[b] = call[b]
      BY <1>1, <2>2
    <3> QED
      BY <2>2, <3>1, LookStays DEF OwnInv
  <2> QED
    BY <2>1, <2>2
<1> QED
  BY <1>2 DEF OwnInv

(* The invariant again, when the world around the service moves.            *)
LEMMA WorldMoves ==
  ASSUME OwnInv, call' = call, TypeOK', OneOfEach', MarkedAreOurs', ToldAreGone',
         \A b \in Actors : \A s \in sessions' : Follows(s, b)
  PROVE  OwnInv'
<1>1. \A b \in Actors : LookHolds(b)'
  BY LookStays DEF OwnInv
<1> QED
  BY <1>1 DEF OwnInv

(* A session that stays follows itself.                                     *)
LEMMA StaysFollows == \A s \in sessions, b \in Actors : Follows(s, b)
  BY DEF Follows

(* A step that leaves the sessions alone, or removes some, and has an actor *)
(* go on.                                                                   *)
LEMMA ActorGoesOn ==
  ASSUME OwnInv, NEW a \in Actors, NEW k \in CallTypes(started), call' = [call EXCEPT ![a] = k],
         env' = env, started' = started, sessions' \subseteq sessions, told' = told,
         observed' \in [Names -> 0 .. started], LookHolds(a)'
  PROVE  OwnInv'
<1>1. /\ sessions \subseteq SessionTypes(started) /\ call \in [Actors -> CallTypes(started)]
      /\ \A s, t \in sessions : s.name = t.name => s = t
      /\ started <= env.sessions /\ told \in [Ids -> Nat]
  BY OwnTypes DEF OwnInv
<1>2. call' \in [Actors -> CallTypes(started)]
  BY <1>1
<1>3. TypeOK'
  BY <1>1, <1>2, OwnTypesMade DEF OwnInv
<1>4. Ids' = Ids
  BY DEF Ids
<1>5. OneOfEach' /\ MarkedAreOurs' /\ ToldAreGone'
  BY <1>4 DEF OwnInv, OneOfEach, MarkedAreOurs, ToldAreGone
<1>6. \A b \in Actors : b # a => \A s \in sessions' : Follows(s, b)
  BY StaysFollows
<1> QED
  BY <1>3, <1>5, <1>6, ActorMoves

(* An actor that is idle has seen nothing.                                  *)
LEMMA IdleHolds ==
  ASSUME NEW a \in Actors, call'[a] = Idle
  PROVE  LookHolds(a)'
  BY DEF LookHolds, Idle

(* It is a call, of no operation.                                           *)
LEMMA IdleIsCall ==
  ASSUME TypeOK
  PROVE  Idle \in CallTypes(started)
<1>1. started \in Nat
  BY OwnTypes
<1> QED
  BY <1>1 DEF Idle, CallTypes

(* An actor returns.                                                        *)
LEMMA ActorReturns ==
  ASSUME OwnInv, NEW a \in Actors, Return(a), env' = env, started' = started,
         sessions' \subseteq sessions, told' = told, observed' \in [Names -> 0 .. started]
  PROVE  OwnInv'
<1>1. call' = [call EXCEPT ![a] = Idle] /\ call \in [Actors -> CallTypes(started)]
  BY OwnTypes DEF Return, OwnInv
<1>2. LookHolds(a)'
  BY <1>1, IdleHolds
<1>3. Idle \in CallTypes(started)
  BY IdleIsCall DEF OwnInv
<1> QED
  BY <1>1, <1>2, <1>3, ActorGoesOn

-----------------------------------------------------------------------------
(* SessionOwnership: creates                                                *)

(* A create picks a free number for its name.                               *)
LEMMA ResolveNameKeeps ==
  ASSUME OwnInv, NEW a \in Actors, NEW base \in env.ours, ResolveName(a, base)
  PROVE  OwnInv'
<1>1. PICK free : free = FreeNumbers(NamesIn(sessions), base)
  OBVIOUS
<1>2. PICK k : k = [Idle EXCEPT !.pc = "launch", !.name = <<base, Min(free)>>]
  OBVIOUS
<1>3. /\ free # {} /\ call' = [call EXCEPT ![a] = k]
      /\ UNCHANGED <<env, sessions, started, observed, told>>
  BY <1>1, <1>2 DEF ResolveName
<1>4. free \subseteq 1 .. MaxNameAttempts /\ free \in SUBSET Nat
  BY <1>1, MultiplexerAssumption DEF FreeNumbers
<1>5. Min(free) \in 1 .. MaxNameAttempts
  BY <1>3, <1>4, LeastNumber
<1>6. base \in Bases /\ started \in Nat /\ call \in [Actors -> CallTypes(started)] /\ observed \in [Names -> 0 .. started]
  BY OwnTypes DEF OwnInv
<1>7. <<base, Min(free)>> \in Names
  BY <1>5, <1>6 DEF Names
<1>8. k = [pc |-> "launch", name |-> <<base, Min(free)>>, to |-> NoName, row |-> 0, rows |-> {}, todo |-> {}]
  BY <1>2 DEF Idle
<1>9. k \in CallTypes(started) /\ k.pc = "launch" /\ k.rows = {} /\ k.todo = {} /\ k.name \in Names
  BY <1>6, <1>7, <1>8 DEF CallTypes
<1>10. LookHolds(a)'
  BY <1>3, <1>6, <1>9 DEF LookHolds
<1> QED
  BY <1>3, <1>6, <1>9, <1>10, ActorGoesOn

(* One more session, under a name that nobody else looks at.                *)
LEMMA SessionStarts ==
  ASSUME OwnInv, NEW n, n \in SessionTypes(started'), n.id = started', n.name \notin NamesIn(sessions),
         n.managed = FALSE, started' = started + 1, sessions' = sessions \cup {n}, env' = env,
         told' = told, started < env.sessions, observed' = observed,
         call' \in [Actors -> CallTypes(started')]
  PROVE  TypeOK' /\ OneOfEach' /\ MarkedAreOurs' /\ ToldAreGone'
<1>1. /\ started \in Nat /\ env.sessions \in Nat /\ sessions \subseteq SessionTypes(started)
      /\ \A s, t \in sessions : s.name = t.name => s = t
      /\ observed \in [Names -> 0 .. started] /\ told \in [Ids -> Nat]
  BY OwnTypes DEF OwnInv
<1>2. SessionTypes(started) \subseteq SessionTypes(started') /\ \A s \in sessions : s.id \in 1 .. started
  BY <1>1 DEF SessionTypes
<1>3. \A s \in sessions : s.name # n.name /\ s.id # n.id
  BY <1>1, <1>2 DEF NamesIn
<1>4. sessions' \subseteq SessionTypes(started') /\ \A s, t \in sessions' : s.name = t.name => s = t
  BY <1>1, <1>2, <1>3
<1>5. observed' \in [Names -> 0 .. started'] /\ started' <= env.sessions
  BY <1>1
<1>6. TypeOK'
  BY <1>1, <1>4, <1>5, OwnTypesMade DEF OwnInv
<1>7. OneOfEach' /\ MarkedAreOurs'
  BY <1>3 DEF OwnInv, OneOfEach, MarkedAreOurs
<1>8. ToldAreGone'
  <2>1. Ids' = Ids
    BY DEF Ids
  <2>2. ASSUME NEW i \in Ids, told[i] # 0
        PROVE  told[i] = 1 /\ i \in 1 .. started' /\ \A s \in sessions' : s.id # i
    <3>1. told[i] = 1 /\ i \in 1 .. started /\ \A s \in sessions : s.id # i
      BY <2>2 DEF OwnInv, ToldAreGone
    <3> QED
      BY <1>1, <3>1
  <2> QED
    BY <2>1, <2>2 DEF ToldAreGone
<1> QED
  BY <1>6, <1>7, <1>8

(* The session is started, under a name that nobody has taken.              *)
LEMMA NewSessionKeeps ==
  ASSUME OwnInv, NamesHold, NEW a \in Actors, NewSession(a)
  PROVE  OwnInv'
<1>1. PICK n : n = Session(started', call[a].name, TRUE)
  OBVIOUS
<1>2. PICK k : k = [call[a] EXCEPT !.pc = "remain"]
  OBVIOUS
<1>3. /\ call[a].pc = "launch" /\ started < env.sessions /\ call[a].name \notin NamesIn(sessions)
      /\ \A b \in Actors \ {a} : call[a].name \notin Claimed(b)
      /\ started' = started + 1 /\ sessions' = sessions \cup {n} /\ call' = [call EXCEPT ![a].pc = "remain"]
      /\ UNCHANGED <<env, observed, told>>
  BY <1>1 DEF NewSession, MayTake, NamesHold, Goto
<1>4. started \in Nat /\ call \in [Actors -> CallTypes(started)]
  BY OwnTypes DEF OwnInv
<1>5. call[a].name \in Names /\ call[a].rows = {} /\ call[a].todo = {}
  BY <1>3 DEF OwnInv, LookHolds
<1>6. n = [id |-> started', name |-> call[a].name, ours |-> TRUE, dead |-> FALSE, remain |-> FALSE, managed |-> FALSE]
  BY <1>1 DEF Session
<1>7. n \in SessionTypes(started') /\ n.id = started' /\ n.name = call[a].name /\ n.managed = FALSE /\ n.ours
  BY <1>3, <1>4, <1>5, <1>6 DEF SessionTypes
<1>8. call[a] \in CallTypes(started) /\ \A c \in CallTypes(started) : c \in CallTypes(started')
  BY <1>3, <1>4 DEF CallTypes
<1>9. /\ k \in CallTypes(started') /\ k.pc = "remain" /\ k.name = call[a].name /\ k.rows = {} /\ k.todo = {}
      /\ call' = [call EXCEPT ![a] = k]
  BY <1>2, <1>3, <1>4, <1>5, <1>8 DEF CallTypes
<1>10. call' \in [Actors -> CallTypes(started')] /\ call'[a] = k
  BY <1>4, <1>8, <1>9
<1>11. TypeOK' /\ OneOfEach' /\ MarkedAreOurs' /\ ToldAreGone'
  BY <1>3, <1>7, <1>10, SessionStarts
<1>12. LookHolds(a)'
  BY <1>3, <1>5, <1>7, <1>9, <1>10 DEF LookHolds, NamesIn
<1>13. \A b \in Actors : b # a => \A s \in sessions' : Follows(s, b)
  BY <1>3, <1>4, <1>7, StaysFollows DEF Follows
<1> QED
  BY <1>9, <1>11, <1>12, <1>13, ActorMoves

(* An option is set on what the name holds.                                 *)
LEMMA MarksKeep ==
  ASSUME OwnInv, NamesHold, NEW a \in Actors, NEW option \in {"remain", "managed"},
         call[a].pc \in {"remain", "manage"}, sessions' = Marked(sessions, call[a].name, option),
         NEW k \in CallTypes(started), call' = [call EXCEPT ![a] = k],
         k = Idle \/ (k.pc = "manage" /\ k.name = call[a].name /\ k.rows = {} /\ k.todo = {}),
         UNCHANGED <<env, started, observed, told>>
  PROVE  OwnInv'
<1>1. /\ started \in Nat /\ sessions \subseteq SessionTypes(started) /\ call \in [Actors -> CallTypes(started)]
      /\ \A s, t \in sessions : s.name = t.name => s = t
      /\ started <= env.sessions /\ told \in [Ids -> Nat] /\ observed \in [Names -> 0 .. started]
  BY OwnTypes DEF OwnInv
<1>2. call[a].name \in Names /\ \A s \in sessions : s.name = call[a].name => s.ours
  BY DEF OwnInv, LookHolds
<1>3. ASSUME NEW s \in sessions'
      PROVE  /\ s \in SessionTypes(started)
             /\ \E t \in sessions : /\ s.id = t.id /\ s.name = t.name /\ s.ours = t.ours /\ s.dead = t.dead
                                    /\ s.managed => t.managed \/ t.ours
  <2>1. PICK t \in sessions : s = IF t \in Holding(sessions, call[a].name) THEN [t EXCEPT ![option] = TRUE] ELSE t
    BY <1>2 DEF Marked, NamesHold
  <2>2. t \in SessionTypes(started)
    BY <1>1
  <2>3. CASE t \notin Holding(sessions, call[a].name)
    BY <2>1, <2>2, <2>3
  <2>4. CASE t \in Holding(sessions, call[a].name)
    <3>1. s = [t EXCEPT ![option] = TRUE] /\ t.ours
      BY <1>2, <2>1, <2>4 DEF Holding
    <3>2. CASE option = "remain"
      BY <2>2, <3>1, <3>2 DEF SessionTypes
    <3>3. CASE option = "managed"
      BY <2>2, <3>1, <3>3 DEF SessionTypes
    <3> QED
      BY <3>2, <3>3
  <2> QED
    BY <2>3, <2>4
<1>4. ASSUME NEW s \in sessions', NEW t \in sessions', s.id = t.id \/ s.name = t.name PROVE s = t
  <2>1. PICK u \in sessions : s = IF u \in Holding(sessions, call[a].name) THEN [u EXCEPT ![option] = TRUE] ELSE u
    BY <1>2 DEF Marked, NamesHold
  <2>2. PICK v \in sessions : t = IF v \in Holding(sessions, call[a].name) THEN [v EXCEPT ![option] = TRUE] ELSE v
    BY <1>2 DEF Marked, NamesHold
  <2>3. u \in SessionTypes(started) /\ v \in SessionTypes(started)
    BY <1>1
  <2>4. s.id = u.id /\ s.name = u.name /\ t.id = v.id /\ t.name = v.name
    BY <2>1, <2>2, <2>3 DEF SessionTypes
  <2>5. u = v
    BY <1>1, <1>4, <2>4 DEF OwnInv, OneOfEach
  <2> QED
    BY <2>1, <2>2, <2>5
<1>5. sessions' \subseteq SessionTypes(started) /\ call' \in [Actors -> CallTypes(started)] /\ call'[a] = k
  BY <1>1, <1>3
<1>6. TypeOK'
  BY <1>1, <1>4, <1>5, OwnTypesMade DEF OwnInv
<1>7. OneOfEach' /\ MarkedAreOurs'
  BY <1>3, <1>4 DEF OwnInv, OneOfEach, MarkedAreOurs
<1>8. ToldAreGone'
  BY <1>3 DEF OwnInv, ToldAreGone, Ids
<1>9. LookHolds(a)'
  <2>1. \A s \in sessions' : s.name = call[a].name => s.ours
    BY <1>2, <1>3
  <2>2. CASE k = Idle
    BY <1>5, <2>2, IdleHolds
  <2>3. CASE k.pc = "manage" /\ k.name = call[a].name /\ k.rows = {} /\ k.todo = {}
    BY <1>2, <1>5, <2>1, <2>3 DEF LookHolds
  <2> QED
    BY <2>2, <2>3
<1>10. \A b \in Actors : b # a => \A s \in sessions' : Follows(s, b)
  BY <1>3 DEF Follows
<1> QED
  BY <1>6, <1>7, <1>8, <1>9, <1>10, ActorMoves

(* Every step of a create.                                                  *)
LEMMA CreateStepKeeps ==
  ASSUME OwnInv, NamesHold, NEW a \in Actors, CreateStep(a)
  PROVE  OwnInv'
<1>1. started \in Nat /\ call \in [Actors -> CallTypes(started)] /\ observed \in [Names -> 0 .. started]
  BY OwnTypes DEF OwnInv
<1>2. CASE \E base \in env.ours : ResolveName(a, base)
  BY <1>2, ResolveNameKeeps
<1>3. CASE NewSession(a)
  BY <1>3, NewSessionKeeps
<1>4. CASE NewSessionRefused(a)
  <2>1. Return(a) /\ UNCHANGED <<env, sessions, started, observed, told>>
    BY <1>4 DEF NewSessionRefused
  <2> QED
    BY <1>1, <2>1, ActorReturns
<1>5. CASE SetRemain(a)
  <2>1. PICK k : k = [call[a] EXCEPT !.pc = "manage"]
    OBVIOUS
  <2>2. /\ call[a].pc = "remain" /\ sessions' = Marked(sessions, call[a].name, "remain")
        /\ call' = [call EXCEPT ![a].pc = "manage"] /\ UNCHANGED <<env, started, observed, told>>
    BY <1>5 DEF SetRemain, Goto
  <2>3. call[a].rows = {} /\ call[a].todo = {} /\ call[a] \in CallTypes(started)
    BY <1>1, <2>2 DEF OwnInv, LookHolds
  <2>4. /\ k \in CallTypes(started) /\ k.pc = "manage" /\ k.name = call[a].name /\ k.rows = {} /\ k.todo = {}
        /\ call' = [call EXCEPT ![a] = k]
    BY <1>1, <2>1, <2>2, <2>3 DEF CallTypes
  <2> QED
    BY <2>2, <2>4, MarksKeep
<1>6. CASE SetManaged(a)
  <2>1. /\ call[a].pc = "manage" /\ sessions' = Marked(sessions, call[a].name, "managed")
        /\ call' = [call EXCEPT ![a] = Idle] /\ UNCHANGED <<env, started, observed, told>>
    BY <1>6 DEF SetManaged, Return
  <2>2. Idle \in CallTypes(started)
    BY IdleIsCall DEF OwnInv
  <2> QED
    BY <2>1, <2>2, MarksKeep
<1> QED
  BY <1>2, <1>3, <1>4, <1>5, <1>6 DEF CreateStep

-----------------------------------------------------------------------------
(* SessionOwnership: close and rename                                       *)

(* What the caller has seen is what the name holds.                         *)
LEMMA LookIsTrue ==
  ASSUME TypeOK, NEW name \in Names, NEW want \in 0 .. started,
         NEW row, row = IF want # 0 THEN want ELSE observed[name],
         \E s \in sessions : Corroborated(name, want, s)
  PROVE  row \in 0 .. started /\ \A s \in sessions : s.name = name => s.id = row
<1>1. PICK s \in sessions : s.name = name /\ s.id = row
  BY DEF Corroborated
<1>2. observed[name] \in 0 .. started /\ \A t \in sessions : t.name = name => t = s
  BY <1>1, OwnTypes
<1> QED
  BY <1>1, <1>2

(* A close looks, and kills what the name holds.                            *)
LEMMA CloseStepKeeps ==
  ASSUME OwnInv, NamesHold, NEW a \in Actors, CloseStep(a)
  PROVE  OwnInv'
<1>1. started \in Nat /\ call \in [Actors -> CallTypes(started)] /\ observed \in [Names -> 0 .. started]
  BY OwnTypes DEF OwnInv
<1>2. CASE \E name \in Names, want \in 0 .. started : CloseLook(a, name, want)
  <2>1. PICK name \in Names, want \in 0 .. started : CloseLook(a, name, want)
    BY <1>2
  <2>2. PICK row : row = IF want # 0 THEN want ELSE observed[name]
    OBVIOUS
  <2>3. PICK k : k = [Idle EXCEPT !.pc = "close", !.name = name, !.row = row]
    OBVIOUS
  <2>4. /\ \E s \in sessions : Corroborated(name, want, s)
        /\ call' = [call EXCEPT ![a] = k] /\ UNCHANGED <<env, sessions, started, observed, told>>
    BY <2>1, <2>2, <2>3 DEF CloseLook
  <2>5. row \in 0 .. started /\ \A s \in sessions : s.name = name => s.id = row
    BY <2>2, <2>4, LookIsTrue DEF OwnInv
  <2>6. k = [pc |-> "close", name |-> name, to |-> NoName, row |-> row, rows |-> {}, todo |-> {}]
    BY <2>3 DEF Idle
  <2>7. k \in CallTypes(started) /\ call'[a] = k
    BY <1>1, <2>4, <2>5, <2>6 DEF CallTypes
  <2>8. LookHolds(a)'
    BY <2>4, <2>5, <2>6, <2>7 DEF LookHolds
  <2> QED
    BY <1>1, <2>4, <2>7, <2>8, ActorGoesOn
<1>3. CASE CloseKill(a)
  <2>1. /\ call[a].pc = "close" /\ Return(a) /\ UNCHANGED <<env, started, told>>
        /\ sessions' \subseteq sessions
        /\ observed' \in {observed, [observed EXCEPT ![call[a].name] = 0]}
    BY <1>3 DEF CloseKill
  <2>2. observed' \in [Names -> 0 .. started]
    BY <1>1, <2>1
  <2> QED
    BY <2>1, <2>2, ActorReturns
<1> QED
  BY <1>2, <1>3 DEF CloseStep

(* The session gets its other name, which nobody looks at.                  *)
LEMMA RenameSessionKeeps ==
  ASSUME OwnInv, NamesHold, NEW a \in Actors, RenameSession(a)
  PROVE  OwnInv'
<1>1. PICK k : k = [call[a] EXCEPT !.pc = "renamed"]
  OBVIOUS
<1>2. PICK to : to = call[a].to
  OBVIOUS
<1>3. /\ call[a].pc = "rename" /\ to \notin NamesIn(sessions) /\ \A b \in Actors \ {a} : to \notin Claimed(b)
      /\ sessions' = {IF s.name = call[a].name THEN [s EXCEPT !.name = to] ELSE s : s \in sessions}
      /\ call' = [call EXCEPT ![a].pc = "renamed"] /\ UNCHANGED <<env, started, observed, told>>
  BY <1>2 DEF RenameSession, MayTake, NamesHold, Goto
<1>4. /\ started \in Nat /\ sessions \subseteq SessionTypes(started) /\ call \in [Actors -> CallTypes(started)]
      /\ \A s, t \in sessions : s.name = t.name => s = t
      /\ started <= env.sessions /\ told \in [Ids -> Nat] /\ observed \in [Names -> 0 .. started]
  BY OwnTypes DEF OwnInv
<1>5. call[a].name \in Names /\ to \in Names /\ call[a].rows = {} /\ call[a].todo = {}
  BY <1>2, <1>3 DEF OwnInv, LookHolds
<1>6. /\ k \in CallTypes(started) /\ k.pc = "renamed" /\ k.name = call[a].name /\ k.rows = {} /\ k.todo = {}
      /\ call' = [call EXCEPT ![a] = k]
  BY <1>1, <1>3, <1>4 , <1>5 DEF CallTypes
<1>7. ASSUME NEW s \in sessions'
      PROVE  /\ s \in SessionTypes(started)
             /\ \E t \in sessions : /\ s = IF t.name = call[a].name THEN [t EXCEPT !.name = to] ELSE t
                                    /\ s.id = t.id /\ s.ours = t.ours /\ s.dead = t.dead /\ s.managed = t.managed
                                    /\ s.name = IF t.name = call[a].name THEN to ELSE t.name
  <2>1. PICK t \in sessions : s = IF t.name = call[a].name THEN [t EXCEPT !.name = to] ELSE t
    BY <1>3
  <2>2. t \in SessionTypes(started)
    BY <1>4
  <2> QED
    BY <1>5, <2>1, <2>2 DEF SessionTypes
<1>8. ASSUME NEW s \in sessions', NEW t \in sessions', s.id = t.id \/ s.name = t.name PROVE s = t
  <2>1. PICK u \in sessions : /\ s = IF u.name = call[a].name THEN [u EXCEPT !.name = to] ELSE u
                              /\ s.id = u.id /\ s.name = IF u.name = call[a].name THEN to ELSE u.name
    BY <1>7
  <2>2. PICK v \in sessions : /\ t = IF v.name = call[a].name THEN [v EXCEPT !.name = to] ELSE v
                              /\ t.id = v.id /\ t.name = IF v.name = call[a].name THEN to ELSE v.name
    BY <1>7
  <2>3. u.name # to /\ v.name # to
    BY <1>3 DEF NamesIn
  <2>4. u = v
    BY <1>4, <1>8, <2>1, <2>2, <2>3 DEF OwnInv, OneOfEach
  <2> QED
    BY <2>1, <2>2, <2>4
<1>9. sessions' \subseteq SessionTypes(started) /\ call' \in [Actors -> CallTypes(started)] /\ call'[a] = k
  BY <1>4, <1>6, <1>7
<1>10. TypeOK'
  BY <1>3, <1>4, <1>8, <1>9, OwnTypesMade DEF OwnInv
<1>11. OneOfEach' /\ MarkedAreOurs'
  BY <1>7, <1>8 DEF OwnInv, OneOfEach, MarkedAreOurs
<1>12. ToldAreGone'
  BY <1>3, <1>7 DEF OwnInv, ToldAreGone, Ids
<1>13. LookHolds(a)'
  BY <1>5, <1>6, <1>9 DEF LookHolds
<1>14. \A b \in Actors : b # a => \A s \in sessions' : Follows(s, b)
  BY <1>3, <1>7 DEF Follows
<1> QED
  BY <1>6, <1>10, <1>11, <1>12, <1>13, <1>14, ActorMoves

(* A rename looks, renames and moves the driver's memory.                   *)
LEMMA RenameStepKeeps ==
  ASSUME OwnInv, NamesHold, NEW a \in Actors, RenameStep(a)
  PROVE  OwnInv'
<1>1. started \in Nat /\ call \in [Actors -> CallTypes(started)] /\ observed \in [Names -> 0 .. started]
  BY OwnTypes DEF OwnInv
<1>2. CASE \E name, to \in Names, want \in 0 .. started : RenameLook(a, name, to, want)
  <2>1. PICK name \in Names, to \in Names, want \in 0 .. started : RenameLook(a, name, to, want)
    BY <1>2
  <2>2. PICK row : row = IF want # 0 THEN want ELSE observed[name]
    OBVIOUS
  <2>3. PICK k : k = [Idle EXCEPT !.pc = "rename", !.name = name, !.to = to, !.row = row]
    OBVIOUS
  <2>4. /\ \E s \in sessions : Corroborated(name, want, s)
        /\ call' = [call EXCEPT ![a] = k] /\ UNCHANGED <<env, sessions, started, observed, told>>
    BY <2>1, <2>2, <2>3 DEF RenameLook
  <2>5. row \in 0 .. started /\ \A s \in sessions : s.name = name => s.id = row
    BY <2>2, <2>4, LookIsTrue DEF OwnInv
  <2>6. k = [pc |-> "rename", name |-> name, to |-> to, row |-> row, rows |-> {}, todo |-> {}]
    BY <2>3 DEF Idle
  <2>7. k \in CallTypes(started) /\ call'[a] = k
    BY <1>1, <2>4, <2>5, <2>6 DEF CallTypes
  <2>8. LookHolds(a)'
    BY <2>4, <2>5, <2>6, <2>7 DEF LookHolds
  <2> QED
    BY <1>1, <2>4, <2>7, <2>8, ActorGoesOn
<1>3. CASE RenameSession(a)
  BY <1>3, RenameSessionKeeps
<1>4. CASE RenameRefused(a)
  <2>1. Return(a) /\ UNCHANGED <<env, sessions, started, observed, told>>
    BY <1>4 DEF RenameRefused
  <2> QED
    BY <1>1, <2>1, ActorReturns
<1>5. CASE RenameNote(a)
  <2>1. /\ call[a].pc = "renamed" /\ Return(a) /\ UNCHANGED <<env, sessions, started, told>>
        /\ observed' = IF observed[call[a].name] = 0 THEN observed
                       ELSE [observed EXCEPT ![call[a].to] = observed[call[a].name], ![call[a].name] = 0]
    BY <1>5 DEF RenameNote
  <2>2. call[a].name \in Names
    BY <2>1 DEF OwnInv, LookHolds
  <2>3. observed[call[a].name] \in 0 .. started
    BY <1>1, <2>2
  <2>4. observed' \in [Names -> 0 .. started]
    <3>1. PICK f : f = [observed EXCEPT ![call[a].to] = observed[call[a].name]]
      OBVIOUS
    <3>2. f \in [Names -> 0 .. started]
      BY <1>1, <2>3, <3>1
    <3>3. [f EXCEPT ![call[a].name] = 0] \in [Names -> 0 .. started]
      <4>1. 0 \in 0 .. started
        BY <1>1
      <4> QED
        BY <3>2, <4>1
    <3>4. observed' = observed \/ observed' = [f EXCEPT ![call[a].name] = 0]
      BY <2>1, <3>1
    <3> QED
      BY <1>1, <3>3, <3>4
  <2> QED
    BY <2>1, <2>4, ActorReturns
<1> QED
  BY <1>2, <1>3, <1>4, <1>5 DEF RenameStep

-----------------------------------------------------------------------------
(* SessionOwnership: listings                                               *)

(* A listing sees the sessions, and which of them to reap.                  *)
LEMMA ListSessionsKeeps ==
  ASSUME OwnInv, NEW a \in Actors, ListSessions(a)
  PROVE  OwnInv'
<1>1. PICK k : k = [Idle EXCEPT !.pc = "list", !.rows = Rows(sessions), !.todo = Rows(Reapable(sessions))]
  OBVIOUS
<1>2. call' = [call EXCEPT ![a] = k] /\ UNCHANGED <<env, sessions, started, observed, told>>
  BY <1>1 DEF ListSessions
<1>3. /\ started \in Nat /\ sessions \subseteq SessionTypes(started) /\ call \in [Actors -> CallTypes(started)]
      /\ \A s, t \in sessions : s.name = t.name => s = t
      /\ observed \in [Names -> 0 .. started]
  BY OwnTypes DEF OwnInv
<1>4. Rows(sessions) \subseteq (1 .. started) \X Names /\ Rows(Reapable(sessions)) \subseteq Rows(sessions)
  BY <1>3 DEF Rows, SessionTypes, Reapable
<1>5. k = [pc |-> "list", name |-> NoName, to |-> NoName, row |-> 0, rows |-> Rows(sessions),
           todo |-> Rows(Reapable(sessions))]
  BY <1>1 DEF Idle
<1>6. k \in CallTypes(started) /\ call'[a] = k
  BY <1>2, <1>3, <1>4, <1>5 DEF CallTypes
<1>7. \A s \in sessions, r \in Rows(sessions) : s.name = r[2] => s.id = r[1]
  BY <1>3 DEF Rows
<1>8. \A s \in sessions, r \in Rows(Reapable(sessions)) : s.id = r[1] => s.dead /\ s.ours
  BY DEF Rows, Reapable, OwnInv, OneOfEach, MarkedAreOurs
<1>9. LookHolds(a)'
  BY <1>2, <1>4, <1>5, <1>6, <1>7, <1>8 DEF LookHolds
<1> QED
  BY <1>2, <1>3, <1>6, <1>9, ActorGoesOn

(* What a listing reaps is the session it listed, dead and the driver's.    *)
LEMMA ReapReaches ==
  ASSUME OwnInv, NamesHold, NEW a \in Actors, NEW r \in call[a].todo
  PROVE  /\ r \in (1 .. started) \X Names /\ r[1] \in Ids /\ r[2] \in Names
         /\ \A s \in Reached(sessions, r[2]) : s \in sessions /\ s.id = r[1] /\ s.dead /\ s.ours
<1>1. started \in Nat /\ call[a] \in CallTypes(started) /\ env.sessions \in Nat /\ started <= env.sessions
  BY OwnTypes DEF OwnInv
<1>2. r \in (1 .. started) \X Names /\ r \in call[a].rows
  BY <1>1 DEF CallTypes, OwnInv, LookHolds
<1>3. r[1] \in 1 .. started /\ r[2] \in Names
  BY <1>2
<1>4. r[1] \in Ids
  BY <1>1, <1>3 DEF Ids
<1>5. \A s \in Reached(sessions, r[2]) : s \in sessions /\ s.name = r[2]
  BY <1>3 DEF NamesHold, Holding
<1> QED
  BY <1>2, <1>3, <1>4, <1>5 DEF OwnInv, LookHolds

(* One of them is killed by name, and its exit queued.                      *)
LEMMA ReapKeeps ==
  ASSUME OwnInv, NamesHold, NEW a \in Actors, NEW r \in call[a].todo, Reap(a, r)
  PROVE  OwnInv'
<1>1. PICK k : k = [call[a] EXCEPT !.todo = @ \ {r}, !.rows = @ \ {r}]
  OBVIOUS
<1>2. /\ call[a].pc = "list" /\ Reached(sessions, r[2]) # {} /\ sessions' = sessions \ Reached(sessions, r[2])
      /\ observed' = [observed EXCEPT ![r[2]] = 0] /\ told' = [told EXCEPT ![r[1]] = @ + 1]
      /\ call' = [call EXCEPT ![a].todo = @ \ {r}, ![a].rows = @ \ {r}] /\ UNCHANGED <<env, started>>
  BY DEF Reap
<1>3. /\ started \in Nat /\ sessions \subseteq SessionTypes(started) /\ call \in [Actors -> CallTypes(started)]
      /\ \A s, t \in sessions : s.name = t.name => s = t
      /\ started <= env.sessions /\ told \in [Ids -> Nat] /\ observed \in [Names -> 0 .. started]
  BY OwnTypes DEF OwnInv
<1>4. /\ r \in (1 .. started) \X Names /\ r[1] \in Ids /\ r[2] \in Names
      /\ \A s \in Reached(sessions, r[2]) : s \in sessions /\ s.id = r[1] /\ s.dead /\ s.ours
  BY ReapReaches
<1>5. call[a] \in CallTypes(started)
  BY <1>3
<1>6. /\ k \in CallTypes(started) /\ k.pc = "list" /\ k.rows = call[a].rows \ {r} /\ k.todo = call[a].todo \ {r}
      /\ k.name = call[a].name /\ call' = [call EXCEPT ![a] = k]
  BY <1>1, <1>2, <1>3, <1>5 DEF CallTypes
<1>7. call' \in [Actors -> CallTypes(started)] /\ call'[a] = k
  BY <1>3, <1>6
<1>8. told' \in [Ids -> Nat] /\ observed' \in [Names -> 0 .. started]
  BY <1>2, <1>3, <1>4
<1>9. TypeOK'
  BY <1>2, <1>3, <1>7, <1>8, OwnTypesMade DEF OwnInv
<1>10. OneOfEach' /\ MarkedAreOurs'
  BY <1>2 DEF OwnInv, OneOfEach, MarkedAreOurs
<1>11. PICK s \in sessions : s \in Reached(sessions, r[2]) /\ s.id = r[1]
  BY <1>2, <1>4
<1>12. told[r[1]] = 0 /\ \A t \in sessions : t.id = r[1] => t = s
  BY <1>4, <1>11 DEF OwnInv, ToldAreGone, OneOfEach
<1>13. ToldAreGone'
  <2>1. ASSUME NEW i \in Ids, told'[i] # 0
        PROVE  told'[i] = 1 /\ i \in 1 .. started /\ \A t \in sessions' : t.id # i
    <3>1. CASE i = r[1]
      BY <1>2, <1>3, <1>4, <1>11, <1>12, <3>1
    <3>2. CASE i # r[1]
      <4>1. told'[i] = told[i]
        BY <1>2, <1>3, <3>2
      <4> QED
        BY <1>2, <2>1, <4>1 DEF OwnInv, ToldAreGone
    <3> QED
      BY <3>1, <3>2
  <2>2. Ids' = Ids /\ started' = started
    BY <1>2 DEF Ids
  <2> QED
    BY <2>1, <2>2 DEF ToldAreGone
<1>14. LookHolds(a)'
  <2>1. LookHolds(a)
    BY DEF OwnInv
  <2> QED
    BY <1>2, <1>6, <1>7, <2>1 DEF LookHolds
<1>15. \A b \in Actors : b # a => \A t \in sessions' : Follows(t, b)
  BY <1>2, StaysFollows
<1> QED
  BY <1>6, <1>9, <1>10, <1>13, <1>14, <1>15, ActorMoves

(* A listing reaps, and observes what is left.                              *)
LEMMA ListStepKeeps ==
  ASSUME OwnInv, NamesHold, NEW a \in Actors, ListStep(a)
  PROVE  OwnInv'
<1>1. started \in Nat /\ call \in [Actors -> CallTypes(started)] /\ observed \in [Names -> 0 .. started]
  BY OwnTypes DEF OwnInv
<1>2. CASE ListSessions(a)
  BY <1>2, ListSessionsKeeps
<1>3. ASSUME NEW r \in call[a].todo, Reap(a, r) PROVE OwnInv'
  BY <1>3, ReapKeeps
<1>4. ASSUME NEW r \in call[a].todo, ReapFails(a, r) PROVE OwnInv'
  <2>1. PICK k : k = [call[a] EXCEPT !.todo = @ \ {r}]
    OBVIOUS
  <2>2. call[a].pc = "list" /\ call' = [call EXCEPT ![a].todo = @ \ {r}] /\ UNCHANGED <<env, sessions, started, observed, told>>
    BY <1>4 DEF ReapFails
  <2>3. call[a] \in CallTypes(started)
    BY <1>1
  <2>4. /\ k \in CallTypes(started) /\ k.pc = "list" /\ k.rows = call[a].rows /\ k.todo = call[a].todo \ {r}
        /\ k.name = call[a].name /\ call' = [call EXCEPT ![a] = k]
    BY <1>1, <2>1, <2>2, <2>3 DEF CallTypes
  <2>5. call'[a] = k /\ LookHolds(a)
    BY <1>1, <2>4 DEF OwnInv
  <2>6. LookHolds(a)'
    BY <2>2, <2>4, <2>5 DEF LookHolds
  <2> QED
    BY <1>1, <2>2, <2>4, <2>6, ActorGoesOn
<1>5. CASE Observe(a)
  <2>1. /\ Return(a) /\ UNCHANGED <<env, sessions, started, told>>
        /\ observed' = [n \in Names |-> IF \E r \in call[a].rows : r[2] = n
                                        THEN (CHOOSE r \in call[a].rows : r[2] = n)[1] ELSE observed[n]]
    BY <1>5 DEF Observe
  <2>2. \A r \in call[a].rows : r[1] \in 0 .. started
    BY <1>1 DEF CallTypes
  <2>3. observed' \in [Names -> 0 .. started]
    <3>1. ASSUME NEW n \in Names, \E r \in call[a].rows : r[2] = n
          PROVE  (CHOOSE r \in call[a].rows : r[2] = n)[1] \in 0 .. started
      BY <2>2, <3>1
    <3> QED
      BY <1>1, <2>1, <3>1
  <2> QED
    BY <2>1, <2>3, ActorReturns
<1> QED
  BY <1>2, <1>3, <1>4, <1>5 DEF ListStep

-----------------------------------------------------------------------------
(* SessionOwnership: the machine around the service                         *)

(* A process exits.                                                         *)
LEMMA ExitKeeps ==
  ASSUME OwnInv, NEW x \in sessions, Exit(x)
  PROVE  OwnInv'
<1>1. PICK y : y = [x EXCEPT !.dead = TRUE]
  OBVIOUS
<1>2. /\ sessions' \in {sessions \ {x}, (sessions \ {x}) \cup {y}}
      /\ UNCHANGED <<env, started, observed, told, call>>
  BY <1>1 DEF Exit
<1>3. /\ started \in Nat /\ sessions \subseteq SessionTypes(started) /\ call \in [Actors -> CallTypes(started)]
      /\ \A s, t \in sessions : s.name = t.name => s = t
      /\ started <= env.sessions /\ told \in [Ids -> Nat] /\ observed \in [Names -> 0 .. started]
  BY OwnTypes DEF OwnInv
<1>4. x \in SessionTypes(started)
  BY <1>3
<1>5. /\ y \in SessionTypes(started) /\ y.id = x.id /\ y.name = x.name /\ y.ours = x.ours /\ y.dead
      /\ y.managed = x.managed
  BY <1>1, <1>4 DEF SessionTypes
<1>6. \A s, t \in sessions' : s.name = t.name \/ s.id = t.id => s = t
  BY <1>2, <1>3, <1>5 DEF OwnInv, OneOfEach
<1>7. sessions' \subseteq SessionTypes(started)
  BY <1>2, <1>3, <1>5
<1>8. TypeOK'
  BY <1>2, <1>3, <1>6, <1>7, OwnTypesMade DEF OwnInv
<1>9. OneOfEach' /\ MarkedAreOurs' /\ ToldAreGone'
  BY <1>2, <1>5, <1>6 DEF OwnInv, OneOfEach, MarkedAreOurs, ToldAreGone, Ids
<1>10. \A b \in Actors : \A s \in sessions' : Follows(s, b)
  BY <1>2, <1>5 DEF Follows
<1> QED
  BY <1>2, <1>8, <1>9, <1>10, WorldMoves

(* Somebody kills a session.                                                *)
LEMMA KillByHandKeeps ==
  ASSUME OwnInv, NEW x \in sessions, KillByHand(x)
  PROVE  OwnInv'
<1>1. sessions' = sessions \ {x} /\ UNCHANGED <<env, started, observed, told, call>>
  BY DEF KillByHand
<1>2. /\ started \in Nat /\ sessions \subseteq SessionTypes(started) /\ call \in [Actors -> CallTypes(started)]
      /\ \A s, t \in sessions : s.name = t.name => s = t
      /\ started <= env.sessions /\ told \in [Ids -> Nat] /\ observed \in [Names -> 0 .. started]
  BY OwnTypes DEF OwnInv
<1>3. TypeOK'
  BY <1>1, <1>2, OwnTypesMade DEF OwnInv
<1>4. OneOfEach' /\ MarkedAreOurs' /\ ToldAreGone'
  BY <1>1 DEF OwnInv, OneOfEach, MarkedAreOurs, ToldAreGone, Ids
<1>5. \A b \in Actors : \A s \in sessions' : Follows(s, b)
  BY <1>1, StaysFollows
<1> QED
  BY <1>1, <1>3, <1>4, <1>5, WorldMoves

(* Another tool starts a session.                                           *)
LEMMA OtherStartsKeeps ==
  ASSUME OwnInv, NamesHold, NEW name \in env.other, NEW remain \in BOOLEAN, OtherStarts(name, remain)
  PROVE  OwnInv'
<1>1. PICK n : n = [Session(started', name, FALSE) EXCEPT !.remain = remain]
  OBVIOUS
<1>2. /\ started < env.sessions /\ name \notin NamesIn(sessions) /\ \A b \in Actors : name \notin Claimed(b)
      /\ started' = started + 1 /\ sessions' = sessions \cup {n} /\ UNCHANGED <<env, observed, told, call>>
  BY <1>1 DEF OtherStarts, MayTake, NamesHold
<1>3. started \in Nat /\ call \in [Actors -> CallTypes(started)] /\ name \in Names
  BY OwnTypes DEF OwnInv
<1>4. n = [id |-> started', name |-> name, ours |-> FALSE, dead |-> FALSE, remain |-> remain, managed |-> FALSE]
  BY <1>1 DEF Session
<1>5. n \in SessionTypes(started') /\ n.id = started' /\ n.name = name /\ n.managed = FALSE
  BY <1>2, <1>3, <1>4 DEF SessionTypes
<1>6. CallTypes(started) \subseteq CallTypes(started')
  BY <1>2, <1>3 DEF CallTypes
<1>7. call' \in [Actors -> CallTypes(started')]
  BY <1>2, <1>3, <1>6
<1>8. TypeOK' /\ OneOfEach' /\ MarkedAreOurs' /\ ToldAreGone'
  BY <1>2, <1>5, <1>7, SessionStarts
<1>9. \A b \in Actors : \A s \in sessions' : Follows(s, b)
  BY <1>2, <1>3, <1>5, StaysFollows DEF Follows
<1> QED
  BY <1>2, <1>8, <1>9, WorldMoves

(* It holds at first.                                                       *)
LEMMA OwnInvInit == Init => OwnInv
<1> SUFFICES ASSUME Init PROVE OwnInv
  OBVIOUS
<1>1. /\ env \in Environments /\ sessions = {} /\ started = 0 /\ observed = [n \in Names |-> 0]
      /\ told = [i \in Ids |-> 0] /\ call = [a \in Actors |-> Idle]
  BY DEF Init
<1>2. env.sessions \in Nat
  BY <1>1, OwnershipAssumption
<1>3. Idle \in CallTypes(0)
  BY DEF Idle, CallTypes
<1>4. call \in [Actors -> CallTypes(0)]
  BY <1>1, <1>3
<1>5. TypeOK
  BY <1>1, <1>2, <1>4 DEF TypeOK, CallTypes
<1>6. \A a \in Actors : LookHolds(a)
  BY <1>1 DEF LookHolds, Idle
<1> QED
  BY <1>1, <1>5, <1>6 DEF OwnInv, OneOfEach, MarkedAreOurs, ToldAreGone

(* Every step keeps it.                                                     *)
LEMMA OwnInvStep == OwnInv /\ NamesHold /\ [Next]_vars => OwnInv'
<1> SUFFICES ASSUME OwnInv, NamesHold, [Next]_vars PROVE OwnInv'
  OBVIOUS
<1>1. env.actors \subseteq Actors
  BY OwnTypes DEF OwnInv
<1>2. ASSUME NEW a \in env.actors, CreateStep(a) \/ CloseStep(a) \/ RenameStep(a) \/ ListStep(a) PROVE OwnInv'
  BY <1>1, <1>2, CreateStepKeeps, CloseStepKeeps, RenameStepKeeps, ListStepKeeps
<1>3. ASSUME NEW s \in sessions, Exit(s) \/ KillByHand(s) PROVE OwnInv'
  BY <1>3, ExitKeeps, KillByHandKeeps
<1>4. ASSUME NEW n \in env.other, NEW r \in BOOLEAN, OtherStarts(n, r) PROVE OwnInv'
  BY <1>4, OtherStartsKeeps
<1>5. CASE UNCHANGED vars
  BY <1>5 DEF vars, OwnInv, TypeOK, OneOfEach, MarkedAreOurs, ToldAreGone, LookHolds, Ids
<1> QED
  BY <1>2, <1>3, <1>4, <1>5 DEF Next

-----------------------------------------------------------------------------
(* SessionOwnership: what it promises                                       *)

(* An actor that begins, returns or goes on with nothing to reap.           *)
LEMMA ActorChanges ==
  ASSUME call \in [Actors -> CallTypes(started)], NEW a \in Actors, call[a].todo = {},
         \/ call' = [call EXCEPT ![a] = Idle]
         \/ \E name : call' = [call EXCEPT ![a] = [Idle EXCEPT !.pc = "launch", !.name = name]]
         \/ \E name, row : call' = [call EXCEPT ![a] = [Idle EXCEPT !.pc = "close", !.name = name, !.row = row]]
         \/ \E name, to, row : call' = [call EXCEPT ![a] = [Idle EXCEPT !.pc = "rename", !.name = name, !.to = to,
                                                                      !.row = row]]
         \/ \E pc : call' = [call EXCEPT ![a].pc = pc]
  PROVE  call'[a].todo = {}
<1>1. call[a] \in CallTypes(started)
  OBVIOUS
<1>2. ASSUME NEW pc, call' = [call EXCEPT ![a].pc = pc] PROVE call'[a].todo = {}
  <2>1. call'[a] = [call[a] EXCEPT !.pc = pc]
    BY <1>2
  <2> QED
    BY <1>1, <2>1 DEF CallTypes
<1>3. ASSUME NEW k, call' = [call EXCEPT ![a] = k], k.todo = {} PROVE call'[a].todo = {}
  BY <1>3
<1>4. CASE call' = [call EXCEPT ![a] = Idle]
  BY <1>3, <1>4 DEF Idle
<1>5. ASSUME NEW name, call' = [call EXCEPT ![a] = [Idle EXCEPT !.pc = "launch", !.name = name]]
      PROVE  call'[a].todo = {}
  <2>1. PICK k : k = [Idle EXCEPT !.pc = "launch", !.name = name]
    OBVIOUS
  <2>2. k.todo = {} /\ call' = [call EXCEPT ![a] = k]
    BY <1>5, <2>1 DEF Idle
  <2> QED
    BY <1>3, <2>2
<1>6. ASSUME NEW name, NEW row,
             call' = [call EXCEPT ![a] = [Idle EXCEPT !.pc = "close", !.name = name, !.row = row]]
      PROVE  call'[a].todo = {}
  <2>1. PICK k : k = [Idle EXCEPT !.pc = "close", !.name = name, !.row = row]
    OBVIOUS
  <2>2. k.todo = {} /\ call' = [call EXCEPT ![a] = k]
    BY <1>6, <2>1 DEF Idle
  <2> QED
    BY <1>3, <2>2
<1>7. ASSUME NEW name, NEW to, NEW row,
             call' = [call EXCEPT ![a] = [Idle EXCEPT !.pc = "rename", !.name = name, !.to = to, !.row = row]]
      PROVE  call'[a].todo = {}
  <2>1. PICK k : k = [Idle EXCEPT !.pc = "rename", !.name = name, !.to = to, !.row = row]
    OBVIOUS
  <2>2. k.todo = {} /\ call' = [call EXCEPT ![a] = k]
    BY <1>7, <2>1 DEF Idle
  <2> QED
    BY <1>3, <2>2
<1> QED
  BY <1>2, <1>4, <1>5, <1>6, <1>7

(* Which session an acting request touches.                                 *)
LEMMA ActsOnItsOwn ==
  ASSUME OwnInv, NamesHold, Next, NEW a \in Actors, call'[a] # call[a]
  PROVE  /\ call[a].pc \in {"close", "rename"} => \A s \in Touched : s.id = call[a].row
         /\ call'[a].todo # call[a].todo => \A s \in Touched : s.dead /\ s.ours
<1>1. call \in [Actors -> CallTypes(started)] /\ env.actors \subseteq Actors
  BY OwnTypes DEF OwnInv
<1>2. ~\E s \in sessions : Exit(s) \/ KillByHand(s)
  BY DEF Exit, KillByHand
<1>3. ~\E n \in env.other, r \in BOOLEAN : OtherStarts(n, r)
  BY DEF OtherStarts
<1>4. PICK b \in env.actors : CreateStep(b) \/ CloseStep(b) \/ RenameStep(b) \/ ListStep(b)
  BY <1>2, <1>3 DEF Next
<1>5. \E k : call' = [call EXCEPT ![b] = k]
  <2>1. CASE CreateStep(b)
    BY <2>1 DEF CreateStep, ResolveName, NewSession, NewSessionRefused, SetRemain, SetManaged, Goto, Return
  <2>2. CASE CloseStep(b)
    BY <2>2 DEF CloseStep, CloseLook, CloseKill, Return
  <2>3. CASE RenameStep(b)
    BY <2>3 DEF RenameStep, RenameLook, RenameSession, RenameRefused, RenameNote, Goto, Return
  <2>4. CASE ListStep(b)
    BY <1>1, <2>4 DEF ListStep, ListSessions, Reap, ReapFails, Observe, Return
  <2> QED
    BY <1>4, <2>1, <2>2, <2>3, <2>4
<1>6. b = a
  BY <1>1, <1>5
<1>7. CASE CreateStep(a)
  <2>1. call[a].pc \in {"idle", "launch", "remain", "manage"}
    BY <1>7 DEF CreateStep, ResolveName, NewSession, NewSessionRefused, SetRemain, SetManaged
  <2>2. call[a].todo = {}
    BY <2>1 DEF OwnInv, LookHolds
  <2>3. \/ call' = [call EXCEPT ![a] = Idle]
        \/ \E name : call' = [call EXCEPT ![a] = [Idle EXCEPT !.pc = "launch", !.name = name]]
        \/ \E pc : call' = [call EXCEPT ![a].pc = pc]
    BY <1>7 DEF CreateStep, ResolveName, NewSession, NewSessionRefused, SetRemain, SetManaged, Goto, Return
  <2>4. call'[a].todo = {}
    BY <1>1, <2>2, <2>3, ActorChanges
  <2> QED
    BY <2>1, <2>2, <2>4
<1>8. CASE CloseStep(a) \/ RenameStep(a)
  <2>1. call[a].pc \in {"idle", "close", "rename", "renamed"} /\ call[a].todo = {}
    BY <1>8 DEF CloseStep, CloseLook, CloseKill, RenameStep, RenameLook, RenameSession, RenameRefused, RenameNote,
       OwnInv, LookHolds
  <2>4. \/ call' = [call EXCEPT ![a] = Idle]
        \/ \E name, row : call' = [call EXCEPT ![a] = [Idle EXCEPT !.pc = "close", !.name = name, !.row = row]]
        \/ \E name, to, row : call' = [call EXCEPT ![a] = [Idle EXCEPT !.pc = "rename", !.name = name, !.to = to,
                                                                     !.row = row]]
        \/ \E pc : call' = [call EXCEPT ![a].pc = pc]
    BY <1>8 DEF CloseStep, CloseLook, CloseKill, RenameStep, RenameLook, RenameSession, RenameRefused,
       RenameNote, Goto, Return
  <2>2. call'[a].todo = {}
    BY <1>1, <2>1, <2>4, ActorChanges
  <2>3. ASSUME call[a].pc \in {"close", "rename"}, NEW s \in Touched PROVE s.id = call[a].row
    <3>1. call[a].name \in Names /\ \A t \in sessions : t.name = call[a].name => t.id = call[a].row
      BY <2>3 DEF OwnInv, LookHolds
    <3>2. s \in sessions /\ s \notin sessions'
      BY DEF Touched
    <3>3. \/ sessions' = sessions \/ sessions' = sessions \ Reached(sessions, call[a].name)
          \/ sessions' = {IF t.name = call[a].name THEN [t EXCEPT !.name = call[a].to] ELSE t : t \in sessions}
      BY <1>8, <2>3 DEF CloseStep, CloseLook, CloseKill, RenameStep, RenameLook, RenameSession, RenameRefused,
         RenameNote
    <3>4. s.name = call[a].name
      BY <3>1, <3>2, <3>3 DEF NamesHold, Holding
    <3> QED
      BY <3>1, <3>2, <3>4
  <2> QED
    BY <2>1, <2>2, <2>3
<1>9. CASE ListStep(a)
  <2>1. call[a].pc \in {"idle", "list"}
    BY <1>9 DEF ListStep, ListSessions, Reap, ReapFails, Observe
  <2>2. ASSUME NEW s \in Touched PROVE s.dead /\ s.ours
    <3>1. s \in sessions /\ s \notin sessions'
      BY DEF Touched
    <3>2. PICK r \in call[a].todo : Reap(a, r)
      BY <1>9, <3>1 DEF ListStep, ListSessions, ReapFails, Observe
    <3>3. s \in Reached(sessions, r[2])
      BY <3>1, <3>2 DEF Reap
    <3> QED
      BY <3>3, ReapReaches
  <2> QED
    BY <2>1, <2>2
<1> QED
  BY <1>4, <1>6, <1>7, <1>8, <1>9

(* The inductive invariant.                                                 *)
LEMMA OwnInvariantHolds == Spec /\ []NamesHold => []OwnInv
  BY OwnInvInit, OwnInvStep, PTL DEF Spec

(* An exit is told at most once, and only of a session that is gone, where  *)
(* a name reaches what it names and nobody takes a name that is looked at.  *)
THEOREM ExitsAreTrue == Spec /\ []NamesHold => []ExitIsTrue
<1>1. ASSUME OwnInv PROVE ExitIsTrue
  <2>1. started \in Nat /\ env.sessions \in Nat /\ started <= env.sessions /\ told \in [Ids -> Nat]
        /\ sessions \subseteq SessionTypes(started)
    BY <1>1, OwnTypes DEF OwnInv
  <2>2. \A s \in sessions : s.id \in Ids
    BY <2>1 DEF SessionTypes, Ids
  <2>3. \A i \in Ids : told[i] \in Nat
    BY <2>1
  <2> QED
    BY <1>1, <2>2, <2>3 DEF OwnInv, ToldAreGone, ExitIsTrue
<1> QED
  BY <1>1, OwnInvariantHolds, PTL

(* There, close and rename touch what was corroborated for them, and a      *)
(* listing only dead sessions of the driver's own.                          *)
THEOREM ItsOwnAreTouched == Spec /\ []NamesHold => TouchesItsOwn
<1>1. ASSUME OwnInv, NamesHold, [Next]_vars
      PROVE  [\A a \in Actors : (call[a].pc \in {"close", "rename"} /\ call'[a] # call[a])
                                   => \A s \in Touched : s.id = call[a].row]_vars
  BY <1>1, ActsOnItsOwn
<1>2. ASSUME OwnInv, NamesHold, [Next]_vars
      PROVE  [\A a \in Actors : call'[a].todo # call[a].todo => \A s \in Touched : s.dead /\ s.ours]_vars
  BY <1>2, ActsOnItsOwn
<1> QED
  BY <1>1, <1>2, OwnInvariantHolds, PTL DEF Spec, TouchesItsOwn, HitsItsTarget, ReapsItsDead

==============================================================================
