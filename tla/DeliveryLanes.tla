--------------------------- MODULE DeliveryLanes ---------------------------
(***************************************************************************)
(* The lanes of a delivery module (internal/drivers/tmux/modulelane.go):   *)
(* the record of each session's lane, carried through create, attach,      *)
(* rename, restart and close, by requests, by attach polls, by the ready   *)
(* callback of the module and by the background pass, each of which reads  *)
(* the records, asks somebody, and acts on the records afterwards.         *)
(*                                                                         *)
(* There is one module.  Its lanes survive its restarts, its connections   *)
(* do not.  A record on disk is the record in memory without the fields    *)
(* that a start clears, as every change of another field is saved.         *)
(***************************************************************************)
EXTENDS Naturals, FiniteSets

CONSTANTS
    LaneIds,               \* the names of sessions
    LaneEnvironments   \* what may happen around the lanes, a set of records

(***************************************************************************)
(* Each behaviour has one environment:                                     *)
(*   may      others look while a create, a close or a rename is between   *)
(*            two of its steps ("meanwhile"), a name is used again before  *)
(*            its lane is settled ("reuse"), listings fail ("blind"), the  *)
(*            module refuses or answers unusably ("refuse"), its deadlines *)
(*            are missed ("slow"; of an attach, "late"), a create fails    *)
(*            ("fail"), agents are replaced ("replace"), sessions renamed  *)
(*            ("rename")                                                   *)
(*   names, keys, gens, pids, drops, restarts   bounds                     *)
(***************************************************************************)
ASSUME NameAssumption == 0 \notin LaneIds    \* the id of a task that has no name
ASSUME LaneAssumption ==
    \A e \in LaneEnvironments :
       /\ e.may \subseteq {"meanwhile", "reuse", "blind", "refuse", "slow", "late", "fail",
                           "replace", "rename"}
       /\ e.names \subseteq LaneIds
       /\ {e.keys, e.gens, e.pids, e.drops, e.restarts} \subseteq Nat

VARIABLES
    laneEnv,   \* the environment of this behaviour
    lanes,     \* moduleHost.lanes
    rows,      \* the process in each session, 0 is no session
    step,      \* what a create of each name is at
    ending,    \* names whose session was killed and whose closeLane is still due
    moving,    \* the renames in the multiplexer that rekey has not followed
    work,      \* what the goroutines of the host are at
    glance,    \* the rows a background pass has just enumerated
    mod,       \* the module: whether it runs and is usable, and its generation
    known, bound, conn,   \* its lanes, the process of each, those connected
    lasted,    \* the lanes attached so far, with the generation
    stray,     \* the lanes whose only message was lost: an offer that was not heard,
               \* or the close of a lane that is on no record
    made, pids, drops, restarts

hostVars == <<lanes, work, glance>>
sessionVars == <<rows, step, ending, moving, pids>>
moduleVars == <<mod, known, bound, conn, made, drops>>
laneVars == <<laneEnv, hostVars, sessionVars, moduleVars, lasted, stray, restarts>>

Keys == 1 .. laneEnv.keys
Absent == [there |-> FALSE]
Lane(k) == [there |-> TRUE, key |-> k, pid |-> 0, state |-> IF k = 0 THEN "" ELSE "prepared",
            live |-> FALSE, gen |-> 0, closing |-> FALSE, attaching |-> FALSE,
            flushing |-> FALSE]
NoStep == [at |-> "no", key |-> 0]
Unseen == [valid |-> FALSE, ok |-> FALSE, rows |-> [id \in LaneIds |-> 0]]
May(what) == what \in laneEnv.may

LaneInit ==
    /\ laneEnv \in LaneEnvironments
    /\ lanes = [id \in LaneIds |-> Absent]
    /\ rows = [id \in LaneIds |-> 0] /\ step = [id \in LaneIds |-> NoStep]
    /\ ending = {} /\ moving = {}
    /\ work = {} /\ glance = Unseen
    /\ mod = [runs |-> TRUE, usable |-> TRUE, gen |-> 1]
    /\ known = {} /\ bound = [k \in Keys |-> 0] /\ conn = {}
    /\ lasted = {} /\ stray = {}
    /\ made = 0 /\ pids = 0 /\ drops = 0 /\ restarts = 0

-----------------------------------------------------------------------------
(* The records *)

Has(id) == lanes[id].there
Holds(id) == Has(id) /\ lanes[id].key # 0

\* Mutant: a lane stays usable when another process of the module comes up.
UsableAcrossRestarts(id) ==
    /\ Holds(id) /\ ~lanes[id].closing /\ mod.usable
    /\ lanes[id].live /\ lanes[id].state \notin {"degraded", "gone"}
\* usableLocked: nothing stands between this record and a send.
Usable(id) ==
    /\ Holds(id) /\ ~lanes[id].closing
    /\ mod.usable
    /\ lanes[id].live /\ lanes[id].state \notin {"degraded", "gone"}
    /\ lanes[id].gen = mod.gen

\* Mutant: a degraded lane is not attached again.
RetryableUndegraded(state) == state \in {"", "prepared"}
\* retryableLaneState
Retryable(state) == state \in {"", "prepared", "degraded"}

\* No request is between two of its steps.
LanesQuiet == (\A id \in LaneIds : step[id].at = "no") /\ ending = {} /\ moving = {}
MayLook == May("meanwhile") \/ LanesQuiet
\* A look at the sessions has not been acted on yet.
Looking == glance.valid \/ \E t \in work : t.by \in {"ready", "pass"} /\ t.at \in {"rows", "shut", "forget"}
\* Nothing is left of an earlier lane of this name.
LaneSettled(id) == ~Has(id) /\ \A t \in work : t.id # id
MayAct == May("meanwhile") \/ (LanesQuiet /\ ~Looking)

Flush(id, k) == [by |-> "flush", id |-> id, key |-> k, at |-> "due", via |-> 0]
Drop(k) == [by |-> "drop", id |-> 0, key |-> k, at |-> "due", via |-> 0]
Attach(by, id, k, pid, gen, at) ==
    [by |-> by, id |-> id, key |-> k, pid |-> pid, gen |-> gen, at |-> at, via |-> 0, res |-> ""]

\* closeLane: the record, and the close that it sends if the module can be reached.
LaneClosed(id) ==
    IF ~Has(id) THEN Absent
    ELSE IF lanes[id].key = 0 THEN Absent
    ELSE [lanes[id] EXCEPT !.closing = TRUE, !.live = FALSE]
Told(id) == IF Holds(id) /\ mod.usable THEN {Flush(id, lanes[id].key)} ELSE {}

CloseLane(id, done) ==
    /\ lanes' = [lanes EXCEPT ![id] = LaneClosed(id)]
    /\ work' = (work \ done) \cup Told(id)

-----------------------------------------------------------------------------
(* Create: offerLane, launched, abandon *)

\* Mutant: the lane that a stale record held is not closed.
RecordForgets(id, k) ==
    /\ lanes' = [lanes EXCEPT ![id] = Lane(k)]
    /\ UNCHANGED work

\* offerLane's record, and the close of the lane that a stale record held.
Record(id, k) ==
    /\ lanes' = [lanes EXCEPT ![id] = Lane(k)]
    /\ work' = work \cup
         IF Holds(id) /\ lanes[id].key # k THEN {Drop(lanes[id].key)} ELSE {}

\* A create has the name and asks the module for a lane, or takes none.
Offer(id) ==
    /\ id \in laneEnv.names
    /\ step[id].at = "no" /\ rows[id] = 0 /\ pids < laneEnv.pids
    /\ MayAct
    /\ May("reuse") \/ LaneSettled(id)
    /\ \/ /\ mod.usable /\ made < laneEnv.keys
          /\ made' = made + 1 /\ known' = known \cup {made'}
          /\ step' = [step EXCEPT ![id] = [at |-> "asked", key |-> made']]
          /\ UNCHANGED hostVars
       \/ /\ ~mod.usable \/ May("refuse")
          /\ Record(id, 0)
          /\ step' = [step EXCEPT ![id] = [at |-> "offered", key |-> 0]]
          /\ UNCHANGED <<glance, made, known>>
    /\ UNCHANGED <<laneEnv, rows, ending, moving, pids, mod, bound, conn, drops, lasted, stray, restarts>>

\* The answer of prepare-launch is accepted, is not acceptable, or does not come.
Offered(id) ==
    /\ step[id].at = "asked"
    /\ LET k == step[id].key
       IN  \/ Record(id, k) /\ UNCHANGED stray
           \/ /\ May("refuse")
              /\ lanes' = [lanes EXCEPT ![id] = Lane(0)]
              /\ work' = work \cup {Drop(k)} \cup IF Holds(id) THEN {Drop(lanes[id].key)} ELSE {}
              /\ UNCHANGED stray
           \/ May("slow") /\ Record(id, 0) /\ stray' = stray \cup {k}
    /\ step' = [step EXCEPT ![id] = [@ EXCEPT !.at = "offered"]]
    /\ UNCHANGED <<laneEnv, glance, rows, ending, moving, pids, moduleVars, lasted, restarts>>

Launch(id) ==
    /\ step[id].at = "offered" /\ rows[id] = 0
    /\ pids' = pids + 1
    /\ rows' = [rows EXCEPT ![id] = pids']
    /\ step' = [step EXCEPT ![id] = [@ EXCEPT !.at = "launched"]]
    /\ UNCHANGED <<laneEnv, hostVars, ending, moving, moduleVars, lasted, stray, restarts>>

LaunchFails(id) ==
    /\ step[id].at = "offered" /\ May("fail")
    /\ CloseLane(id, {})
    /\ step' = [step EXCEPT ![id] = NoStep]
    /\ UNCHANGED <<laneEnv, glance, rows, ending, moving, pids, moduleVars, lasted, stray, restarts>>

\* launched: the poll of a fresh lane begins.
Launched(id) ==
    /\ step[id].at = "launched"
    /\ IF Holds(id) /\ ~lanes[id].closing /\ ~lanes[id].attaching
       THEN /\ lanes' = [lanes EXCEPT ![id] = [@ EXCEPT !.attaching = TRUE]]
            /\ work' = work \cup {Attach("poll", id, 0, 0, 0, "look")}
       ELSE UNCHANGED <<lanes, work>>
    /\ step' = [step EXCEPT ![id] = NoStep]
    /\ UNCHANGED <<laneEnv, glance, rows, ending, moving, pids, moduleVars, lasted, stray, restarts>>

-----------------------------------------------------------------------------
(* Close and rename; sessions and agents that end by themselves *)

KillSession(id) ==
    /\ rows[id] # 0 /\ step[id].at = "no" /\ id \notin ending /\ MayAct
    /\ rows' = [rows EXCEPT ![id] = 0] /\ ending' = ending \cup {id}
    /\ UNCHANGED <<laneEnv, hostVars, step, moving, pids, moduleVars, lasted, stray, restarts>>

\* killCorroborated's call of closeLane
Killed(id) ==
    /\ id \in ending
    /\ CloseLane(id, {}) /\ ending' = ending \ {id}
    /\ UNCHANGED <<laneEnv, glance, rows, step, moving, pids, moduleVars, lasted, stray, restarts>>

RenameLane(from, to) ==
    /\ May("rename") /\ moving = {} /\ MayAct /\ to \in laneEnv.names
    /\ rows[from] # 0 /\ rows[to] = 0 /\ step[from].at = "no" /\ step[to].at = "no"
    /\ May("reuse") \/ LaneSettled(to)
    /\ rows' = [rows EXCEPT ![from] = 0, ![to] = rows[from]]
    /\ moving' = {<<from, to>>}
    /\ UNCHANGED <<laneEnv, hostVars, step, ending, pids, moduleVars, lasted, stray, restarts>>

\* rekey: whatever the new name's record was is overwritten.
Rekey ==
    \E m \in moving :
       /\ moving' = moving \ {m}
       /\ lanes' = IF Has(m[1]) THEN [lanes EXCEPT ![m[1]] = Absent, ![m[2]] = lanes[m[1]]]
                   ELSE lanes
       /\ UNCHANGED <<laneEnv, work, glance, rows, step, ending, pids, moduleVars, lasted, stray, restarts>>

LaneSessionEnds(id) ==
    /\ rows[id] # 0 /\ step[id].at = "no"
    /\ rows' = [rows EXCEPT ![id] = 0]
    /\ UNCHANGED <<laneEnv, hostVars, step, ending, moving, pids, moduleVars, lasted, stray, restarts>>

AgentReplaced(id) ==
    /\ May("replace") /\ rows[id] # 0 /\ pids < laneEnv.pids
    /\ pids' = pids + 1 /\ rows' = [rows EXCEPT ![id] = pids']
    /\ UNCHANGED <<laneEnv, hostVars, step, ending, moving, moduleVars, lasted, stray, restarts>>

-----------------------------------------------------------------------------
(* The module *)

ModuleDies ==
    /\ mod.runs /\ mod.gen < laneEnv.gens
    /\ mod' = [mod EXCEPT !.runs = FALSE, !.usable = FALSE] /\ conn' = {}
    /\ UNCHANGED <<laneEnv, hostVars, sessionVars, known, bound, made, drops, lasted, stray, restarts>>

\* A missed deadline makes it suspect, a probe clears it.
ModuleSuspect ==
    /\ May("slow") /\ mod.runs
    /\ mod' = [mod EXCEPT !.usable = ~mod.usable]
    /\ UNCHANGED <<laneEnv, hostVars, sessionVars, known, bound, conn, made, drops, lasted, stray, restarts>>

\* A new process is ready: onReady begins, with the closes it missed.
ModuleReady ==
    /\ ~mod.runs
    /\ mod' = [runs |-> TRUE, usable |-> TRUE, gen |-> mod.gen + 1]
    /\ work' = work \cup {[by |-> "ready", id |-> 0, gen |-> mod'.gen, at |-> "flush"]}
    /\ UNCHANGED <<laneEnv, lanes, glance, sessionVars, known, bound, conn, made, drops, lasted, stray,
                   restarts>>

\* A connection is lost; the host hears of it from a send.
Drops(k) ==
    /\ k \in conn /\ drops < laneEnv.drops
    /\ conn' = conn \ {k} /\ drops' = drops + 1
    /\ UNCHANGED <<laneEnv, hostVars, sessionVars, mod, known, bound, made, lasted, stray, restarts>>

\* degrade, after a send that the module would not take or that got no answer.
Degrade(id) ==
    /\ Usable(id)
    /\ lanes[id].key \notin conn \/ May("slow")
    /\ lanes' = [lanes EXCEPT ![id] = [@ EXCEPT
                    !.live = FALSE, !.state = IF lanes[id].key \in known THEN "degraded" ELSE "gone"]]
    /\ UNCHANGED <<laneEnv, work, glance, sessionVars, moduleVars, lasted, stray, restarts>>

-----------------------------------------------------------------------------
(* attachPoll *)

PollEnds(t) ==
    /\ lanes' = IF Has(t.id) THEN [lanes EXCEPT ![t.id] = [@ EXCEPT !.attaching = FALSE]] ELSE lanes
    /\ work' = work \ {t}

\* One round of the poll: the record, the rows, the generation, and the request.
PollLooks(t) ==
    /\ t.by = "poll" /\ t.at = "look"
    /\ \/ /\ ~Holds(t.id) \/ (Holds(t.id) /\ lanes[t.id].closing) \/ ~mod.usable
          /\ PollEnds(t)
       \/ /\ Holds(t.id) /\ ~lanes[t.id].closing /\ mod.usable
          /\ rows[t.id] # 0
          /\ work' = (work \ {t}) \cup
               {[Attach("poll", t.id, lanes[t.id].key, rows[t.id], mod.gen, "asked")
                    EXCEPT !.via = mod.gen]}
          /\ UNCHANGED lanes
       \/ /\ rows[t.id] = 0     \* the window closes, or the poll looks again later
          /\ PollEnds(t)
    /\ UNCHANGED <<laneEnv, glance, sessionVars, moduleVars, lasted, stray, restarts>>

-----------------------------------------------------------------------------
(* An attach is answered, and the answer applied *)

Replied(t, res) == (work \ {t}) \cup {[t EXCEPT !.at = "answered", !.res = res]}

\* The module takes the lane; conn is what its process of this generation holds.
ModuleTakes(t) ==
    /\ t.by \in {"poll", "ready", "pass"} /\ t.at = "asked"
    /\ mod.runs /\ t.via = mod.gen
    /\ t.key \in known /\ bound[t.key] \in {0, t.pid} /\ \E id \in LaneIds : rows[id] = t.pid
    /\ bound' = [bound EXCEPT ![t.key] = t.pid] /\ conn' = conn \cup {t.key}
    /\ lasted' = lasted \cup {<<t.key, mod.gen>>}
    /\ work' = Replied(t, "live")
    /\ UNCHANGED <<laneEnv, lanes, glance, sessionVars, mod, known, made, drops, stray, restarts>>

\* It does not: the lane is lost or bound to another process, the agent is not
\* there or not ready, or the request fails with the process it went to.
ModuleDoesNot(t) ==
    /\ t.by \in {"poll", "ready", "pass"} /\ t.at = "asked"
    /\ \E res \in {"refused", "lost", "later", "no"} :
          /\ res = "refused" => /\ mod.runs /\ t.via = mod.gen /\ t.key \in known
                                /\ bound[t.key] \notin {0, t.pid}
          /\ res = "lost" => t.via # mod.gen \/ ~mod.runs \/ t.key \notin known \/ May("late")
          /\ res = "later" => /\ mod.runs /\ t.via = mod.gen /\ t.key \in known
                              /\ \A id \in LaneIds : rows[id] # t.pid
          /\ res = "no" => mod.runs /\ t.via = mod.gen /\ May("refuse")
          /\ work' = Replied(t, res)
    /\ UNCHANGED <<laneEnv, lanes, glance, sessionVars, moduleVars, lasted, stray, restarts>>

\* applyAttach returns early unless the answer is about this record and this process.
Applies(t) == Holds(t.id) /\ ~lanes[t.id].closing /\ mod.gen = t.gen

Replaced(t) == t.res = "refused" /\ t.pid # 0 /\ lanes[t.id].pid \notin {0, t.pid}

Applied(t) ==
    LET r == lanes[t.id]
        agent == IF t.pid # 0 /\ (r.pid = 0 \/ t.res = "live") THEN t.pid ELSE r.pid
    IN  CASE t.res = "live" ->
               [r EXCEPT !.pid = agent, !.live = TRUE, !.gen = t.gen, !.state = "live"]
          [] t.res = "refused" /\ Replaced(t) -> [r EXCEPT !.pid = agent, !.live = FALSE, !.state = "gone"]
          [] t.res \in {"lost", "refused"} /\ ~Replaced(t) -> [r EXCEPT !.pid = agent, !.live = FALSE]
          [] OTHER -> [r EXCEPT !.pid = agent, !.live = FALSE, !.state = "prepared"]

\* The poll goes on while the module says that the agent is not there yet.
GoesOn(t) == t.by = "poll" /\ t.res = "later"

Apply(t) ==
    /\ t.by \in {"poll", "ready", "pass"} /\ t.at = "answered"
    /\ LET after == IF Applies(t) THEN [lanes EXCEPT ![t.id] = Applied(t)] ELSE lanes
       IN  lanes' = IF t.by = "poll" /\ ~GoesOn(t) /\ Has(t.id)
                    THEN [after EXCEPT ![t.id] = [@ EXCEPT !.attaching = FALSE]] ELSE after
    /\ work' = (work \ {t}) \cup IF GoesOn(t) THEN {Attach("poll", t.id, 0, 0, 0, "look")} ELSE {}
    /\ UNCHANGED <<laneEnv, glance, sessionVars, moduleVars, lasted, stray, restarts>>

-----------------------------------------------------------------------------
(* flushClose, of a record; closeAsync, of a lane without one *)

\* Mutant: the place that notices second sends the close again.
ClaimsAnyway(t) == Has(t.id) /\ lanes[t.id].key = t.key
\* The several places that notice a closing lane send its close once.
ClaimsClose(t) == Has(t.id) /\ ~lanes[t.id].flushing /\ lanes[t.id].key = t.key

FlushBegins(t) ==
    /\ t.by = "flush" /\ t.at = "due"
    /\ IF ClaimsClose(t)
       THEN /\ lanes' = [lanes EXCEPT ![t.id] = [@ EXCEPT !.flushing = TRUE]]
            /\ work' = (work \ {t}) \cup {[t EXCEPT !.at = "asked", !.via = mod.gen]}
       ELSE work' = work \ {t} /\ UNCHANGED lanes
    /\ UNCHANGED <<laneEnv, glance, sessionVars, moduleVars, lasted, stray, restarts>>

DropBegins(t) ==
    /\ t.by = "drop" /\ t.at = "due"
    /\ work' = (work \ {t}) \cup {[t EXCEPT !.at = "asked", !.via = mod.gen]}
    /\ UNCHANGED <<laneEnv, lanes, glance, sessionVars, moduleVars, lasted, stray, restarts>>

\* The module closes the lane, or answers that it has none of that key.
ModuleCloses(t) ==
    /\ t.by \in {"flush", "drop"} /\ t.at = "asked" /\ mod.runs /\ t.via = mod.gen
    /\ known' = known \ {t.key} /\ conn' = conn \ {t.key}
    /\ work' = (work \ {t}) \cup IF t.by = "flush" THEN {[t EXCEPT !.at = "done"]} ELSE {}
    /\ UNCHANGED <<laneEnv, lanes, glance, sessionVars, mod, bound, made, drops, lasted, stray, restarts>>

Unflushed(t) ==
    IF Has(t.id) /\ lanes[t.id].key = t.key THEN [lanes EXCEPT ![t.id] = [@ EXCEPT !.flushing = FALSE]]
    ELSE lanes

\* Nobody answers: the record is kept and the close sent again later.
CloseFails(t) ==
    /\ t.by \in {"flush", "drop"} /\ t.at = "asked"
    /\ ~mod.runs \/ t.via # mod.gen \/ May("slow")
    /\ lanes' = IF t.by = "flush" THEN Unflushed(t) ELSE lanes
    /\ stray' = IF t.by = "drop" THEN stray \cup {t.key} ELSE stray
    /\ work' = work \ {t}
    /\ UNCHANGED <<laneEnv, glance, sessionVars, moduleVars, lasted, restarts>>

FlushEnds(t) ==
    /\ t.by = "flush" /\ t.at = "done"
    /\ lanes' = IF Has(t.id) /\ lanes[t.id].closing /\ lanes[t.id].key = t.key
                THEN [lanes EXCEPT ![t.id] = Absent] ELSE Unflushed(t)
    /\ work' = work \ {t}
    /\ UNCHANGED <<laneEnv, glance, sessionVars, moduleVars, lasted, stray, restarts>>

-----------------------------------------------------------------------------
(* onReady: flushClosing, then reattachAll, which reads the records, then the
   rows, and then takes the lanes in turn *)

ReadyFlushes(t) ==
    /\ t.by = "ready" /\ t.at = "flush" /\ MayLook
    /\ work' = (work \ {t}) \cup {[t EXCEPT !.at = "records"]}
         \cup {Flush(id, lanes[id].key) : id \in {i \in LaneIds : Holds(i) /\ lanes[i].closing}}
    /\ UNCHANGED <<laneEnv, lanes, glance, sessionVars, moduleVars, lasted, stray, restarts>>

ReadyReads(t) ==
    /\ t.by = "ready" /\ t.at = "records" /\ MayLook
    /\ work' = (work \ {t}) \cup
         {Attach("ready", id, lanes[id].key, lanes[id].pid, t.gen, "rows") :
             id \in {i \in LaneIds : Holds(i) /\ ~lanes[i].closing}}
    /\ UNCHANGED <<laneEnv, lanes, glance, sessionVars, moduleVars, lasted, stray, restarts>>

\* A lane whose session is gone, or whose agent was replaced, is to be closed.
Sorted(t, seen) ==
    IF seen /\ (rows[t.id] = 0 \/ (t.pid # 0 /\ rows[t.id] # t.pid))
    THEN [t EXCEPT !.at = "shut"]
    ELSE [t EXCEPT !.at = "due", !.pid = IF seen THEN rows[t.id] ELSE t.pid]

ReadyLists ==
    LET waiting == {t \in work : t.by = "ready" /\ t.at = "rows"}
    IN  /\ waiting # {} /\ MayLook
        /\ \E seen \in {TRUE} \cup (IF May("blind") THEN {FALSE} ELSE {}) :
              work' = (work \ waiting) \cup {Sorted(t, seen) : t \in waiting}
        /\ UNCHANGED <<laneEnv, lanes, glance, sessionVars, moduleVars, lasted, stray, restarts>>

\* closeLane, of a lane that a look found without its session
Shut(t) ==
    /\ t.by \in {"ready", "pass"} /\ t.at = "shut"
    /\ CloseLane(t.id, {t})
    /\ UNCHANGED <<laneEnv, glance, sessionVars, moduleVars, lasted, stray, restarts>>

\* The attach of one lane; a background pass leaves it when the module is not usable.
AskAttach(t) ==
    /\ t.by \in {"ready", "pass"} /\ t.at = "due"
    /\ work' = (work \ {t}) \cup
         IF t.by = "pass" /\ ~mod.usable THEN {}
         ELSE {[t EXCEPT !.at = "asked", !.via = mod.gen,
                         !.gen = IF t.by = "pass" THEN mod.gen ELSE t.gen]}
    /\ UNCHANGED <<laneEnv, lanes, glance, sessionVars, moduleVars, lasted, stray, restarts>>

-----------------------------------------------------------------------------
(* lanePass: the rows, then the records, then each lane in turn *)

PassLists ==
    /\ ~glance.valid /\ MayLook
    /\ ~\E t \in work : t.by = "pass"
    /\ \E seen \in {TRUE} \cup (IF May("blind") THEN {FALSE} ELSE {}) :
          glance' = [valid |-> TRUE, ok |-> seen, rows |-> IF seen THEN rows ELSE [id \in LaneIds |-> 0]]
    /\ UNCHANGED <<laneEnv, lanes, work, sessionVars, moduleVars, lasted, stray, restarts>>

\* Mutant: a listing that failed is taken for an empty one.
GoneFromAnything(id) == glance.rows[id] = 0
\* A listing that failed shows no session gone.
GoneFrom(id) == glance.ok /\ glance.rows[id] = 0

\* Mutant: the pass leaves the lanes that are being closed alone.
PassItemSkips(id) ==
    LET r == lanes[id]
        pid == IF glance.rows[id] # 0 THEN glance.rows[id] ELSE r.pid
    IN  IF ~Has(id) \/ r.closing THEN {}
        ELSE IF r.key = 0 THEN IF GoneFrom(id) THEN {Attach("pass", id, 0, 0, 0, "forget")} ELSE {}
        ELSE IF GoneFrom(id) THEN {Attach("pass", id, r.key, 0, 0, "shut")}
        ELSE IF ~r.live /\ ~r.attaching /\ Retryable(r.state) /\ pid # 0
        THEN {Attach("pass", id, r.key, pid, 0, "due")}
        ELSE {}
\* The pass's switch: what is to be done about this record.
PassItem(id) ==
    LET r == lanes[id]
        pid == IF glance.rows[id] # 0 THEN glance.rows[id] ELSE r.pid
    IN  IF ~Has(id) THEN {}
        ELSE IF r.key = 0 THEN IF GoneFrom(id) THEN {Attach("pass", id, 0, 0, 0, "forget")} ELSE {}
        ELSE IF r.closing THEN IF mod.usable THEN {Flush(id, r.key)} ELSE {}
        ELSE IF GoneFrom(id) THEN {Attach("pass", id, r.key, 0, 0, "shut")}
        ELSE IF ~r.live /\ ~r.attaching /\ Retryable(r.state) /\ pid # 0
        THEN {Attach("pass", id, r.key, pid, 0, "due")}
        ELSE {}

PassReads ==
    /\ glance.valid /\ MayLook
    /\ glance' = Unseen
    /\ work' = work \cup UNION {PassItem(id) : id \in LaneIds}
    /\ UNCHANGED <<laneEnv, lanes, sessionVars, moduleVars, lasted, stray, restarts>>

\* The record without a module that the pass saw goes, and whatever has taken its
\* place since: the delete is by id, and does not look again.
PassForgets(t) ==
    /\ t.by = "pass" /\ t.at = "forget"
    /\ lanes' = [lanes EXCEPT ![t.id] = Absent]
    /\ work' = work \ {t}
    /\ UNCHANGED <<laneEnv, glance, sessionVars, moduleVars, lasted, stray, restarts>>

-----------------------------------------------------------------------------
(* A restart of the service: initModules, ReconcileLanes *)

Reloaded(r, vanished) ==
    IF ~r.there \/ (r.key = 0 /\ (r.closing \/ vanished)) THEN Absent
    ELSE [r EXCEPT !.live = FALSE, !.state = "", !.gen = 0, !.attaching = FALSE,
                   !.flushing = FALSE, !.closing = r.closing \/ vanished]

RestartDriver ==
    /\ restarts < laneEnv.restarts /\ MayLook
    /\ restarts' = restarts + 1
    /\ \E gone \in SUBSET {id \in LaneIds : rows[id] = 0} :
          lanes' = [id \in LaneIds |-> Reloaded(lanes[id], id \in gone)]
    /\ work' = {} /\ glance' = Unseen
    /\ step' = [id \in LaneIds |-> NoStep] /\ ending' = {} /\ moving' = {}
    /\ mod' = [mod EXCEPT !.runs = FALSE, !.usable = FALSE] /\ conn' = {}
    /\ UNCHANGED <<laneEnv, rows, pids, known, bound, made, drops, lasted>>
    /\ stray' = stray \cup {t.key : t \in {x \in work : x.by = "drop"}}
                \cup {step[id].key : id \in {i \in LaneIds : step[i].at = "asked"}}

-----------------------------------------------------------------------------
Requests == \E id \in LaneIds : Offer(id) \/ KillSession(id) \/ \E to \in LaneIds : RenameLane(id, to)
Advance == \E id \in LaneIds : Offered(id) \/ Launch(id) \/ LaunchFails(id) \/ Launched(id) \/ Killed(id)
LaneWorld == \/ \E id \in LaneIds : LaneSessionEnds(id) \/ AgentReplaced(id) \/ Degrade(id)
         \/ \E k \in Keys : Drops(k)
         \/ ModuleDies \/ ModuleSuspect \/ ModuleReady \/ RestartDriver
Attaches(t) == PollLooks(t) \/ ModuleTakes(t) \/ ModuleDoesNot(t) \/ Apply(t) \/ AskAttach(t) \/ Shut(t)
               \/ PassForgets(t)
Closes(t) == FlushBegins(t) \/ DropBegins(t) \/ ModuleCloses(t) \/ CloseFails(t) \/ FlushEnds(t)
Readies(t) == ReadyFlushes(t) \/ ReadyReads(t)

LaneNext ==
    \/ Requests \/ Advance \/ Rekey \/ LaneWorld
    \/ \E t \in work : Attaches(t) \/ Closes(t) \/ Readies(t)
    \/ ReadyLists \/ PassLists \/ PassReads

LaneSpec == LaneInit /\ [][LaneNext]_laneVars

(***************************************************************************)
(* Goroutines of the host go on, requests to the module are answered or    *)
(* fail with their deadline, and the background pass has a ticker.  A      *)
(* module that is asked again and again for a lane takes it in the end, as *)
(* a listing that is asked for again and again succeeds in the end.        *)
(***************************************************************************)
LaneFairness ==
    /\ WF_laneVars(Advance) /\ WF_laneVars(Rekey)
    /\ SF_laneVars(PassLists /\ glance'.ok) /\ WF_laneVars(PassReads) /\ WF_laneVars(ReadyLists)
    /\ WF_laneVars(\E t \in work : Readies(t))
    /\ \A id \in LaneIds :
         /\ WF_laneVars(\E t \in work : t.id = id /\ (PollLooks(t) \/ Apply(t) \/ AskAttach(t) \/ Shut(t)))
         /\ WF_laneVars(\E t \in work : t.id = id /\ PassForgets(t))
         /\ WF_laneVars(\E t \in work : t.id = id /\ ModuleDoesNot(t))
         /\ SF_laneVars(\E t \in work : t.id = id /\ ModuleTakes(t))
         /\ WF_laneVars(\E t \in work : t.id = id /\ (FlushEnds(t) \/ CloseFails(t)))
         /\ WF_laneVars(\E t \in work : t.id = id /\ FlushBegins(t))
         /\ SF_laneVars(\E t \in work : t.id = id /\ ModuleCloses(t))

LaneFairSpec == LaneSpec /\ LaneFairness

-----------------------------------------------------------------------------
(* What each variable holds *)

LaneRecords == [there : {TRUE}, key : Nat, pid : Nat, state : {"", "prepared", "live", "degraded", "gone"},
                live : BOOLEAN, gen : Nat, closing : BOOLEAN, attaching : BOOLEAN, flushing : BOOLEAN]
FlushTasks == [by : {"flush"}, id : LaneIds, key : Nat \ {0}, at : {"due", "asked", "done"}, via : Nat]
DropTasks == [by : {"drop"}, id : {0}, key : Nat \ {0}, at : {"due", "asked"}, via : Nat]
AttachTasks == [by : {"poll", "ready", "pass"}, id : LaneIds, key : Nat, pid : Nat, gen : Nat, via : Nat,
                at : {"look", "rows", "due", "shut", "forget", "asked", "answered"},
                res : {"", "live", "refused", "lost", "later", "no"}]
ReadyTasks == [by : {"ready"}, id : {0}, gen : Nat, at : {"flush", "records"}]
Tasks == FlushTasks \cup DropTasks \cup AttachTasks \cup ReadyTasks

HostTypes ==
    /\ lanes \in [LaneIds -> LaneRecords \cup {Absent}]
    /\ work \subseteq Tasks
    /\ glance \in [valid : BOOLEAN, ok : BOOLEAN, rows : [LaneIds -> Nat]]
LaneSessionTypes ==
    /\ rows \in [LaneIds -> Nat]
    /\ step \in [LaneIds -> [at : {"no", "asked", "offered", "launched"}, key : Nat]]
    /\ \A id \in LaneIds : step[id].at = "asked" => step[id].key # 0
    /\ ending \subseteq LaneIds /\ moving \subseteq LaneIds \X LaneIds
    /\ pids \in Nat
ModuleTypes ==
    /\ mod \in [runs : BOOLEAN, usable : BOOLEAN, gen : Nat]
    /\ known \subseteq Nat \ {0} /\ conn \subseteq known /\ bound \in [Keys -> Nat]
    /\ {made, drops} \subseteq Nat
LaneTypes ==
    /\ laneEnv \in LaneEnvironments
    /\ HostTypes /\ LaneSessionTypes /\ ModuleTypes
    /\ lasted \subseteq Nat \X Nat /\ stray \subseteq Nat /\ restarts \in Nat

-----------------------------------------------------------------------------
(* Properties *)

\* No name is used again while its lane is not settled, and no rename runs beside
\* another request, which may take the new name before rekey has come to it.
NamesAreApart == ~May("reuse") /\ ~(May("rename") /\ May("meanwhile"))

\* A lane that a send may use was attached by the module process that runs now
\* (applyAttach, usableLocked), whatever answers were under way when it restarted:
\* here, for names not used again while an answer about their last lane is due.
LiveIsTrue ==
    NamesAreApart => \A id \in LaneIds : Usable(id) => <<lanes[id].key, mod.gen>> \in lasted

\* No create takes a name that the background pass is still to forget, and no rename
\* goes to a name that has a record: of renames, names used again and requests beside
\* a look, there is at most one.
RecordsAreApart ==
    /\ ~(May("rename") /\ (May("reuse") \/ May("meanwhile")))
    /\ ~(May("reuse") /\ May("meanwhile"))

\* A lane the module holds is on a record, or somebody is about to close it
\* (offerLane, rekey, flushClose), or the only message about it was lost: a record
\* never goes away before the module has answered its close.  Here, while names are
\* kept apart: rekey overwrites the record of the new name, and lanePass deletes by
\* name a record that it saw earlier, which a create may have replaced since.
NoLaneIsForgotten ==
    RecordsAreApart => \A k \in known \ stray :
       \/ \E id \in LaneIds : Holds(id) /\ lanes[id].key = k
       \/ \E id \in LaneIds : step[id].at = "asked" /\ step[id].key = k
       \/ \E t \in work : t.by \in {"flush", "drop"} /\ t.key = k

\* Two closes of one lane are never under way at once (flushing).
ClosesOnce ==
    \A s, t \in work :
       s.by = "flush" /\ t.by = "flush" /\ s.at = "asked" /\ t.at = "asked" /\ s.key = t.key => s = t

GivesUpLane(id) ==
    /\ Holds(id) /\ ~lanes[id].closing
    /\ lanes'[id].there /\ lanes'[id].closing /\ lanes'[id].key = lanes[id].key
\* Its agent is not the one of the record, or of the record as it was looked at.
HasCause(id) ==
    \/ rows[id] = 0
    \/ lanes[id].pid \notin {0, rows[id]}
    \/ \E t \in work : t.at = "shut" /\ t.id = id /\ t.pid \notin {0, rows[id]}

\* A lane is given up only when its session is gone, its agent was replaced, or
\* somebody closes it, whatever listing fails and whichever answer is late
\* (lanePass, reattachAll, ReconcileLanes): here, while no request runs beside a look.
LivingKeepTheirLane ==
    [][~May("meanwhile") => \A id \in LaneIds : GivesUpLane(id) => HasCause(id)]_laneVars

LanesAreTrue == LiveIsTrue /\ NoLaneIsForgotten /\ ClosesOnce

Deserves(id) ==
    /\ mod.usable /\ Holds(id) /\ ~lanes[id].closing /\ lanes[id].state # "gone"
    /\ rows[id] # 0 /\ bound[lanes[id].key] \in {0, rows[id]}

\* A session that goes on, with a lane that was not refused and a module that stays,
\* gets its lane back (attachPoll, reattachAll, lanePass): "a lane that is not live is
\* worth attaching again on the background pass" (retryableLaneState).
LaneComesBack == \A id \in LaneIds : <>[]Deserves(id) => []<>Usable(id)

\* The module hears of every lane that was closed, if only it stays.
ClosedIsTold == <>[](mod.usable) => []<>(\A id \in LaneIds : Holds(id) => ~lanes[id].closing)

-----------------------------------------------------------------------------
(* Why they hold *)

HasKey(t) == t.at \notin {"flush", "records"}
Attaching(t) == t.by \in {"poll", "ready", "pass"} /\ HasKey(t)

\* The module's lanes, processes and lives are counted.
CountsBound ==
    /\ known \subseteq 1 .. made
    /\ \A id \in LaneIds : step[id].key <= made /\ (Has(id) => lanes[id].key <= made /\ lanes[id].pid <= pids)
    /\ \A t \in work : HasKey(t) => t.key <= made
    /\ \A id \in LaneIds : rows[id] <= pids /\ glance.rows[id] <= pids
    /\ \A t \in work : Attaching(t) => t.pid <= pids
\* An attach is asked of the life that it is for, or of a later one.
GensInOrder ==
    \A t \in work : t.by \in {"poll", "ready", "pass"} =>
       /\ t.gen <= mod.gen
       /\ t.at \in {"asked", "answered"} => t.gen <= t.via /\ t.via <= mod.gen

\* A key is on one record, and one flush is under way for it, which the record knows.
KeysApart ==
    /\ \A i, j \in LaneIds : Holds(i) /\ Holds(j) /\ lanes[i].key = lanes[j].key => i = j
    /\ \A i \in LaneIds : step[i].at = "asked" =>
          /\ \A j \in LaneIds : Holds(j) => lanes[j].key # step[i].key
          /\ \A j \in LaneIds : step[j].at = "asked" /\ step[j].key = step[i].key => i = j
          /\ \A t \in work : t.by = "flush" => t.key # step[i].key
Closing(t) == t.by = "flush" /\ t.at \in {"asked", "done"}
FlushesApart ==
    /\ \A t \in work : Closing(t) =>
          \A id \in LaneIds : Holds(id) /\ lanes[id].key = t.key => lanes[id].flushing
    /\ \A s, t \in work : Closing(s) /\ Closing(t) /\ s.key = t.key => s = t
\* What was closed is not opened again.
DoneIsDone == \A t \in work : t.by = "flush" /\ t.at = "done" => t.key \notin known

\* A lane of the module's is on a record or on its way to one, or it is being dropped.
Remembered ==
    \A k \in known \ stray :
       \/ \E id \in LaneIds : Holds(id) /\ lanes[id].key = k
       \/ \E id \in LaneIds : step[id].at = "asked" /\ step[id].key = k
       \/ \E t \in work : t.by = "drop" /\ t.key = k

\* What the pass is still to forget has no lane.
NothingToForget == \A t \in work : t.at = "forget" => t.by = "pass" /\ ~Holds(t.id)

\* A rename is alone, and goes to a name without a lane; so does a create, if names
\* are not used again.
MovesApart ==
    /\ \A m \in moving : /\ May("rename") /\ ~Has(m[2]) /\ m[1] # m[2]
                         /\ \A id \in LaneIds : step[id].at = "no"
    /\ \A m, n \in moving : m = n
NewNamesAreClear ==
    /\ \A id \in LaneIds : step[id].at = "asked" => LaneSettled(id)
    /\ \A m \in moving : LaneSettled(m[2])
\* An answer is about the lane that is on the record, and a live lane was answered so.
AnswersAreOurs ==
    \A t \in work : Attaching(t) /\ t.at \in {"rows", "due", "asked", "answered"} =>
       /\ Holds(t.id) => lanes[t.id].key = t.key
       /\ t.at = "answered" /\ t.res = "live" => <<t.key, t.via>> \in lasted
LiveHasLasted == \A id \in LaneIds : Holds(id) /\ lanes[id].live => <<lanes[id].key, lanes[id].gen>> \in lasted

\* Nobody starts a session while there is a look that has not been acted on, and what
\* the look found gone is gone.
OneRequest ==
    /\ (\E id \in LaneIds : step[id].at # "no") => ending = {} /\ moving = {}
    /\ Looking => LanesQuiet
GoneIsGone ==
    /\ \A id \in LaneIds : step[id].at \in {"asked", "offered"} \/ id \in ending => rows[id] = 0
    /\ glance.valid /\ glance.ok => \A id \in LaneIds : glance.rows[id] = 0 => rows[id] = 0
    /\ \A t \in work : t.at = "shut" =>
          t.by \in {"ready", "pass"} /\ (rows[t.id] = 0 \/ t.pid \notin {0, rows[t.id]})

\* What holds whatever may happen, and what holds of names that are kept apart.
LaneInvariant ==
    /\ LaneTypes /\ CountsBound /\ GensInOrder /\ KeysApart /\ FlushesApart /\ DoneIsDone
    /\ ~(May("rename") /\ (May("reuse") \/ May("meanwhile"))) => MovesApart
    /\ RecordsAreApart => NothingToForget /\ Remembered
    /\ NamesAreApart => NewNamesAreClear /\ AnswersAreOurs /\ LiveHasLasted
    /\ ~May("meanwhile") => OneRequest /\ GoneIsGone
=============================================================================
