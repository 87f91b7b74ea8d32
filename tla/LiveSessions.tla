---------------------------- MODULE LiveSessions ----------------------------
(***************************************************************************)
(* The sessions of one machine as the service's two record keepers meet    *)
(* them: SessionHistory (internal/service/history.go) and SessionLabels    *)
(* (internal/service/labels.go) extend this module.                        *)
(*                                                                         *)
(* A run is one life of a session: an id names one run at a time, a rename *)
(* gives a run another id, and an id whose run ended may be used again.    *)
(* What a record keeper learns about runs reaches it late, in two ways:    *)
(*                                                                         *)
(*   - an HTTP handler calls the driver first and tells the record keepers *)
(*     afterwards: "owed" holds what it has still to tell them;            *)
(*   - Service.ListSessions notes the time, asks the driver for a listing  *)
(*     and hands it to the record keepers: "list" holds, for each listing  *)
(*     under way, how far it is and what it will report.                   *)
(*                                                                         *)
(* The driver's part of a listing is the tmux driver's: it takes one       *)
(* enumeration and then kills every managed session whose process has      *)
(* exited (reapDeadRows), leaving those out of its answer and queueing     *)
(* their exits for the next DrainExits, whoever makes that call.           *)
(***************************************************************************)
EXTENDS Naturals, FiniteSets

CONSTANTS
    Ids,        \* session ids
    Runs,       \* runs; each is started at most once
    None,       \* no run at an id, no record
    Lister,     \* requests that call ListSessions
    StartOf,    \* run -> its startedAt, to the second
    Environments \* what may happen around the service, a set of records (see below)

(***************************************************************************)
(* Each behaviour has one environment: the ids, runs and listers that take *)
(* part, and                                                               *)
(*   gap      the handlers between whose driver's answer and note others   *)
(*            may come                                                     *)
(*   lag      may sessions change between an enumeration and its use?      *)
(*   narrow   are some listings filtered, or answered in part?             *)
(*   outside  what people do past the service: "start", "rename"           *)
(***************************************************************************)
ASSUME LiveAssumption ==
    /\ None \notin Runs \cup Ids
    /\ DOMAIN StartOf = Runs
    /\ \A e \in Environments :
          /\ e.ids \subseteq Ids /\ e.runs \subseteq Runs /\ e.listers \subseteq Lister
          /\ {e.lag, e.narrow} \subseteq BOOLEAN
          /\ e.gap \subseteq {"create", "close", "rename", "label"}
          /\ e.outside \subseteq {"start", "rename"}

VARIABLES
    env,        \* the environment of this behaviour
    at,         \* id -> the run it names, or None
    born,       \* the runs started so far
    ours,       \* those this service created: managed, and kept after their exit
    dead,       \* managed runs whose process exited and whose pane still stands
    owed,       \* what handlers have still to tell the record keepers
    list,       \* lister -> its listing
    captured    \* exits captured and not drained yet

live == <<env, at, born, ours, dead, owed, list, captured>>

Idle == [phase |-> "idle", items |-> {}, complete |-> FALSE, exits |-> {}]

Items == [id : Ids, run : Runs]

Notes == [op : {"create", "close", "label"}, id : Ids, run : Runs]
             \cup [op : {"rename"}, id : Ids, to : Ids, run : Runs]

LiveTypeOK ==
    /\ env \in Environments
    /\ at \in [Ids -> Runs \cup {None}]
    /\ {born, ours, dead} \subseteq SUBSET Runs
    /\ owed \subseteq Notes
    /\ list \in [Lister -> [phase : {"idle", "asked", "listed", "reaped", "ready"},
                            items : SUBSET Items, complete : BOOLEAN,
                            exits : SUBSET Items]]
    /\ captured \subseteq Items

LiveInit ==
    /\ env \in Environments
    /\ at = [id \in Ids |-> None]
    /\ born = {} /\ ours = {} /\ dead = {}
    /\ owed = {}
    /\ list = [l \in Lister |-> Idle]
    /\ captured = {}

-----------------------------------------------------------------------------
\* The listings under way.
Active == {l \in Lister : list[l].phase # "idle"}

\* A handler that is not in env.gap makes its note at once.
NothingOwed == \A n \in owed : n.op \in env.gap

\* Without lag the sessions stand still while a listing is on its way from
\* the enumeration to the record keepers.
Settled == NothingOwed /\ (env.lag \/ Active \subseteq {l \in Lister : list[l].phase = "asked"})

-----------------------------------------------------------------------------
(* What happens to sessions.                                               *)

Start(id, r) ==
    /\ Settled
    /\ id \in env.ids
    /\ at[id] = None
    /\ r \in env.runs \ born
    /\ at' = [at EXCEPT ![id] = r]
    /\ born' = born \cup {r}
    /\ UNCHANGED <<env, dead, list, captured>>

\* handleCreate: the driver has created the session.
DriverCreates(id, r) ==
    /\ Start(id, r)
    /\ ours' = ours \cup {r}
    /\ owed' = owed \cup {[op |-> "create", id |-> id, run |-> r]}

\* Someone starts a session past the service.
Appears(id, r) ==
    /\ "start" \in env.outside
    /\ Start(id, r)
    /\ UNCHANGED <<ours, owed>>

\* handleClose: the driver has accepted, and the session is gone.
DriverCloses(id) ==
    /\ Settled
    /\ at[id] # None
    /\ at' = [at EXCEPT ![id] = None]
    /\ dead' = dead \ {at[id]}
    /\ owed' = owed \cup {[op |-> "close", id |-> id, run |-> at[id]]}
    /\ UNCHANGED <<env, born, ours, list, captured>>

Move(from, to) ==
    /\ Settled
    /\ at[from] # None
    /\ to \in env.ids
    /\ at[to] = None
    /\ at' = [at EXCEPT ![from] = None, ![to] = at[from]]
    /\ UNCHANGED <<env, born, ours, dead, list, captured>>

\* handleRename: the driver has renamed the session.
DriverRenames(from, to) ==
    /\ Move(from, to)
    /\ owed' = owed \cup {[op |-> "rename", id |-> from, to |-> to, run |-> at[from]]}

\* Someone renames a session past the service.
Moves(from, to) ==
    /\ "rename" \in env.outside
    /\ Move(from, to)
    /\ UNCHANGED owed

\* The process of a managed session exits; remain-on-exit keeps its pane.
Exits(id) ==
    /\ Settled
    /\ at[id] \in ours \ dead
    /\ dead' = dead \cup {at[id]}
    /\ UNCHANGED <<env, at, born, ours, owed, list, captured>>

\* A session vanishes: an unmanaged one ends, or someone kills it.
Vanishes(id) ==
    /\ Settled
    /\ at[id] # None
    /\ at' = [at EXCEPT ![id] = None]
    /\ dead' = dead \ {at[id]}
    /\ UNCHANGED <<env, born, ours, owed, list, captured>>

\* A listing the driver answers to someone else (a read of one session, its
\* own event stream): it removes exited sessions and queues their exits too.
ListedElsewhere ==
    LET gone == {i \in Items : at[i.id] = i.run /\ i.run \in dead} IN
    /\ Settled
    /\ at' = [id \in Ids |-> IF at[id] \in dead THEN None ELSE at[id]]
    /\ dead' = {}
    /\ captured' = captured \cup gone
    /\ UNCHANGED <<env, born, ours, owed, list>>

\* handleLabels: the driver's listing has shown the session.
DriverShows(id) ==
    /\ Settled
    /\ at[id] \notin dead \cup {None}
    /\ owed' = owed \cup {[op |-> "label", id |-> id, run |-> at[id]]}
    /\ UNCHANGED <<env, at, born, ours, dead, list, captured>>

-----------------------------------------------------------------------------
(* ListSessions, up to the point where the record keepers take over.       *)

\* The request's listedAt is taken here.
Ask(l) ==
    /\ NothingOwed
    /\ l \in env.listers
    /\ list[l].phase = "idle"
    /\ list' = [list EXCEPT ![l] = [Idle EXCEPT !.phase = "asked"]]
    /\ UNCHANGED <<env, at, born, ours, dead, owed, captured>>

\* The driver's enumeration.
Enumerate(l) ==
    /\ Settled
    /\ list[l].phase = "asked"
    /\ list' = [list EXCEPT ![l] = [@ EXCEPT !.phase = "listed",
                                             !.items = {i \in Items : at[i.id] = i.run}]]
    /\ UNCHANGED <<env, at, born, ours, dead, owed, captured>>

\* reapDeadRows, then the filter. kill-session is addressed by id, so it
\* removes whatever holds the id by now; when nothing does, the row stays in
\* the answer. A filtered listing, or one a source answered in part, reports
\* any part of what is left and is not complete.
Reap(l) ==
    LET rows == {i \in list[l].items : i.run \in dead}
        killed == {i \in rows : at[i.id] # None}
        left == list[l].items \ killed
    IN
    /\ NothingOwed
    /\ list[l].phase = "listed"
    /\ at' = [id \in Ids |-> IF \E i \in killed : i.id = id THEN None ELSE at[id]]
    /\ dead' = dead \ {at[i.id] : i \in killed}
    /\ captured' = captured \cup killed
    /\ \E items \in IF env.narrow THEN SUBSET left ELSE {left} :
          \E complete \in IF env.narrow THEN {FALSE, items = left} ELSE {TRUE} :
             list' = [list EXCEPT ![l] = [@ EXCEPT !.phase = "reaped", !.items = items,
                                                   !.complete = complete]]
    /\ UNCHANGED <<env, born, ours, owed>>

\* DrainExits, called once the driver's List has returned: it takes what any
\* listing has queued.
Drain(l) ==
    /\ NothingOwed
    /\ list[l].phase = "reaped"
    /\ list' = [list EXCEPT ![l].phase = "ready", ![l].exits = captured]
    /\ captured' = {}
    /\ UNCHANGED <<env, at, born, ours, dead, owed>>

Answered(l) == list' = [list EXCEPT ![l] = Idle]

=============================================================================
