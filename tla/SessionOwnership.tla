-------------------------- MODULE SessionOwnership --------------------------
(***************************************************************************)
(* Which session of the multiplexer a command of the driver reaches        *)
(* (internal/drivers/tmux/tmux.go).  The driver addresses sessions by      *)
(* name, in commands of their own, after a listing that told it what the   *)
(* name held: Create marks what it started, Close and Rename corroborate   *)
(* what they are about to touch, List reaps the panes whose process has    *)
(* exited.  Between the listing and the command a process may exit,        *)
(* another tool or another request may act, and a name may change hands.   *)
(*                                                                         *)
(* A session's start time identifies it: it is modelled by its "id", the   *)
(* order in which sessions were started.                                   *)
(***************************************************************************)
EXTENDS Multiplexer

CONSTANTS
    Actors,       \* requests the service may serve at the same time
    Environments  \* what may happen around the driver, a set of records

(***************************************************************************)
(* Each behaviour has one environment:                                     *)
(*   actors    the requests served at the same time                        *)
(*   ours      the names creates ask for                                   *)
(*   other     the names another tool gives its sessions                   *)
(*   may       what may happen: somebody kills one of the driver's sessions*)
(*             by hand ("kill"), a name is taken between the listing that  *)
(*             showed it and the command that follows it ("race")          *)
(*   sessions  bound: sessions ever started                                *)
(***************************************************************************)
ASSUME OwnershipAssumption ==
    \A e \in Environments :
        /\ e.actors \subseteq Actors
        /\ e.ours \subseteq Bases /\ e.other \subseteq Names
        /\ e.sessions \in Nat
        /\ e.may \subseteq {"kill", "race"}

VARIABLES
    env,        \* the environment of this behaviour
    sessions,   \* the multiplexer's sessions
    started,    \* how many sessions were ever started
    observed,   \* Driver.observed: the start time last seen under a name (0: none)
    told,       \* how often an exit was queued for each session
    call        \* what each actor is doing

vars == <<env, sessions, started, observed, told, call>>

Ids == 1 .. env.sessions

Session(id, name, ours) ==
    [id |-> id, name |-> name, ours |-> ours,
     dead |-> FALSE, remain |-> FALSE, managed |-> FALSE]

NoName == <<>>

(***************************************************************************)
(* "row" is the session Close and Rename decided to touch, "rows" what     *)
(* List reports and "todo" what it has yet to reap, as <<id, name>>.       *)
(***************************************************************************)
Idle == [pc |-> "idle", name |-> NoName, to |-> NoName, row |-> 0, rows |-> {}, todo |-> {}]
Rows(S) == {<<s.id, s.name>> : s \in S}

Init ==
    /\ env \in Environments
    /\ sessions = {}
    /\ started = 0
    /\ observed = [n \in Names |-> 0]
    /\ told = [i \in Ids |-> 0]
    /\ call = [a \in Actors |-> Idle]

\* An option set on whatever session the unpinned name reaches.
Marked(S, name, option) ==
    {IF s \in Reached(S, name) THEN [s EXCEPT ![option] = TRUE] ELSE s : s \in S}

(***************************************************************************)
(* Without "race" nobody takes a name that a request of somebody else has  *)
(* looked at and is about to act on.                                       *)
(***************************************************************************)
Claimed(a) == IF call[a].pc = "idle" THEN {} ELSE {call[a].name} \union {r[2] : r \in call[a].rows}

MayTake(name, others) == "race" \in env.may \/ \A a \in others : name \notin Claimed(a)

Goto(a, pc) == call' = [call EXCEPT ![a].pc = pc]
Return(a) == call' = [call EXCEPT ![a] = Idle]

-----------------------------------------------------------------------------
(* Create                                                                  *)

ResolveName(a, base) ==
    LET free == FreeNumbers(NamesIn(sessions), base) IN
    /\ call[a].pc = "idle"
    /\ free # {}
    /\ call' = [call EXCEPT ![a] = [Idle EXCEPT !.pc = "launch", !.name = <<base, Min(free)>>]]
    /\ UNCHANGED <<env, sessions, started, observed, told>>

NewSession(a) ==
    /\ call[a].pc = "launch"
    /\ started < env.sessions
    /\ call[a].name \notin NamesIn(sessions)
    /\ MayTake(call[a].name, Actors \ {a})
    /\ started' = started + 1
    /\ sessions' = sessions \union {Session(started', call[a].name, TRUE)}
    /\ Goto(a, "remain")
    /\ UNCHANGED <<env, observed, told>>

\* The multiplexer refuses the name (taken meanwhile) or cannot start anything.
NewSessionRefused(a) ==
    /\ call[a].pc = "launch"
    /\ Return(a)
    /\ UNCHANGED <<env, sessions, started, observed, told>>

\* set-option remain-on-exit, then set-option of the managed marker, each
\* with an unpinned target and each best-effort.
SetRemain(a) ==
    /\ call[a].pc = "remain"
    /\ sessions' = Marked(sessions, call[a].name, "remain")
    /\ Goto(a, "manage")
    /\ UNCHANGED <<env, started, observed, told>>

SetManaged(a) ==
    /\ call[a].pc = "manage"
    /\ sessions' = Marked(sessions, call[a].name, "managed")
    /\ Return(a)
    /\ UNCHANGED <<env, started, observed, told>>

-----------------------------------------------------------------------------
(* Close and Rename: look, corroborate, act.                               *)

\* Mutant: the name is enough, whatever the caller had seen under it.
CorroboratedByName(name, want, s) == s.name = name

(***************************************************************************)
(* "want" is the start time the caller saw (0: it gave none, and the       *)
(* driver's own last sighting must agree).                                 *)
(***************************************************************************)
Corroborated(name, want, s) ==
    s.name = name /\ s.id = IF want # 0 THEN want ELSE observed[name]

CloseLook(a, name, want) ==
    /\ call[a].pc = "idle"
    /\ \E s \in sessions :
          /\ Corroborated(name, want, s)
          /\ call' = [call EXCEPT ![a] = [Idle EXCEPT !.pc = "close", !.name = name,
                                          !.row = IF want # 0 THEN want ELSE observed[name]]]
    /\ UNCHANGED <<env, sessions, started, observed, told>>

\* killCorroborated: kill-session with an unpinned target; an error changes nothing.
CloseKill(a) ==
    LET hit == Reached(sessions, call[a].name) IN
    /\ call[a].pc = "close"
    /\ sessions' = sessions \ hit
    /\ observed' = IF hit = {} THEN observed ELSE [observed EXCEPT ![call[a].name] = 0]
    /\ Return(a)
    /\ UNCHANGED <<env, started, told>>

RenameLook(a, name, to, want) ==
    /\ call[a].pc = "idle"
    /\ to # name
    /\ to \notin NamesIn(sessions)
    /\ \E s \in sessions :
          /\ Corroborated(name, want, s)
          /\ call' = [call EXCEPT ![a] = [Idle EXCEPT !.pc = "rename", !.name = name, !.to = to,
                                          !.row = IF want # 0 THEN want ELSE observed[name]]]
    /\ UNCHANGED <<env, sessions, started, observed, told>>

\* rename-session with the target pinned ("=name").
RenameSession(a) ==
    /\ call[a].pc = "rename"
    /\ Holding(sessions, call[a].name) # {}
    /\ call[a].to \notin NamesIn(sessions)
    /\ MayTake(call[a].to, Actors \ {a})
    /\ sessions' = {IF s.name = call[a].name THEN [s EXCEPT !.name = call[a].to] ELSE s :
                       s \in sessions}
    /\ Goto(a, "renamed")
    /\ UNCHANGED <<env, started, observed, told>>

RenameRefused(a) ==
    /\ call[a].pc = "rename"
    /\ Holding(sessions, call[a].name) = {} \/ call[a].to \in NamesIn(sessions)
    /\ Return(a)
    /\ UNCHANGED <<env, sessions, started, observed, told>>

\* The driver's own memory moves to the new name.
RenameNote(a) ==
    LET from == call[a].name
        to == call[a].to
    IN
    /\ call[a].pc = "renamed"
    /\ observed' = IF observed[from] = 0 THEN observed
                   ELSE [observed EXCEPT ![to] = observed[from], ![from] = 0]
    /\ Return(a)
    /\ UNCHANGED <<env, sessions, started, told>>

-----------------------------------------------------------------------------
(* List                                                                    *)

\* Mutant: a marked row is reaped whether or not its process has exited.
ReapableManaged(S) == {s \in S : s.managed}

\* reapDeadRows: the rows of the listing that are dead and marked.
Reapable(S) == {s \in S : s.dead /\ s.managed}

ListSessions(a) ==
    /\ call[a].pc = "idle"
    /\ call' = [call EXCEPT ![a] = [Idle EXCEPT !.pc = "list", !.rows = Rows(sessions),
                                                !.todo = Rows(Reapable(sessions))]]
    /\ UNCHANGED <<env, sessions, started, observed, told>>

\* Each is killed by name; its exit is queued once the kill has succeeded.
Reap(a, r) ==
    /\ call[a].pc = "list"
    /\ r \in call[a].todo
    /\ Reached(sessions, r[2]) # {}
    /\ sessions' = sessions \ Reached(sessions, r[2])
    /\ observed' = [observed EXCEPT ![r[2]] = 0]
    /\ told' = [told EXCEPT ![r[1]] = @ + 1]
    /\ call' = [call EXCEPT ![a].todo = @ \ {r}, ![a].rows = @ \ {r}]
    /\ UNCHANGED <<env, started>>

\* Mutant: an exit is queued whether or not the kill landed.
ReapFailsTells(a, r) ==
    /\ call[a].pc = "list"
    /\ r \in call[a].todo
    /\ told' = [told EXCEPT ![r[1]] = @ + 1]
    /\ call' = [call EXCEPT ![a].todo = @ \ {r}]
    /\ UNCHANGED <<env, sessions, started, observed>>

\* A kill that fails leaves the row where it was, for the next List.
ReapFails(a, r) ==
    /\ call[a].pc = "list"
    /\ r \in call[a].todo
    /\ call' = [call EXCEPT ![a].todo = @ \ {r}]
    /\ UNCHANGED <<env, sessions, started, observed, told>>

\* What the listing still reports is what the driver has now observed.
Observe(a) ==
    /\ call[a].pc = "list"
    /\ call[a].todo = {}
    /\ observed' = [n \in Names |->
                       IF \E r \in call[a].rows : r[2] = n
                       THEN (CHOOSE r \in call[a].rows : r[2] = n)[1]
                       ELSE observed[n]]
    /\ Return(a)
    /\ UNCHANGED <<env, sessions, started, told>>

-----------------------------------------------------------------------------
(* The machine around the service.                                         *)

\* The process in the pane exits: the session goes with it unless remain-on-exit.
Exit(s) ==
    /\ ~s.dead
    /\ sessions' = (sessions \ {s}) \union
                       (IF s.remain THEN {[s EXCEPT !.dead = TRUE]} ELSE {})
    /\ UNCHANGED <<env, started, observed, told, call>>

\* Another tool starts a session, with or without remain-on-exit of its own.
OtherStarts(name, remain) ==
    /\ started < env.sessions
    /\ name \notin NamesIn(sessions)
    /\ MayTake(name, Actors)
    /\ started' = started + 1
    /\ sessions' = sessions \union {[Session(started', name, FALSE) EXCEPT !.remain = remain]}
    /\ UNCHANGED <<env, observed, told, call>>

KillByHand(s) ==
    /\ s.ours => "kill" \in env.may
    /\ sessions' = sessions \ {s}
    /\ UNCHANGED <<env, started, observed, told, call>>

CreateStep(a) ==
    \/ \E base \in env.ours : ResolveName(a, base)
    \/ NewSession(a) \/ NewSessionRefused(a) \/ SetRemain(a) \/ SetManaged(a)

CloseStep(a) ==
    \/ \E name \in Names, want \in 0 .. started : CloseLook(a, name, want)
    \/ CloseKill(a)

RenameStep(a) ==
    \/ \E name, to \in Names, want \in 0 .. started : RenameLook(a, name, to, want)
    \/ RenameSession(a) \/ RenameRefused(a) \/ RenameNote(a)

ListStep(a) ==
    \/ ListSessions(a)
    \/ \E r \in call[a].todo : Reap(a, r) \/ ReapFails(a, r)
    \/ Observe(a)

Next ==
    \/ \E a \in env.actors : CreateStep(a) \/ CloseStep(a) \/ RenameStep(a) \/ ListStep(a)
    \/ \E s \in sessions : Exit(s) \/ KillByHand(s)
    \/ \E n \in env.other, r \in BOOLEAN : OtherStarts(n, r)

Spec == Init /\ [][Next]_vars
-----------------------------------------------------------------------------
(* Properties.                                                             *)

TypeOK ==
    /\ env \in Environments
    /\ started \in 0 .. env.sessions
    /\ sessions \subseteq [id : 1 .. started, name : Names, ours : BOOLEAN,
                          dead : BOOLEAN, remain : BOOLEAN, managed : BOOLEAN]
    /\ \A s, t \in sessions : s.name = t.name => s = t
    /\ observed \in [Names -> 0 .. started]
    /\ told \in [Ids -> Nat]
    /\ call \in [Actors ->
                   [pc : {"idle", "launch", "remain", "manage", "close", "rename", "renamed", "list"},
                    name : Names \union {NoName}, to : Names \union {NoName},
                    row : 0 .. started, rows : SUBSET ((1 .. started) \X Names),
                    todo : SUBSET ((1 .. started) \X Names)]]

\* The sessions a step closed, renamed or marked.
Touched == sessions \ sessions'

(***************************************************************************)
(* Close and Rename touch the session they corroborated, and no other,     *)
(* however long ago the listing was (the "=" pin of Rename; section 5.4).  *)
(***************************************************************************)
HitsItsTarget ==
    [][\A a \in Actors :
          (call[a].pc \in {"close", "rename"} /\ call'[a] # call[a])
              => \A s \in Touched : s.id = call[a].row]_vars

(***************************************************************************)
(* A listing removes only sessions whose process has exited and which this *)
(* driver started: reapDeadRows kills by name, long after it saw the row,  *)
(* and the marker it goes by was set by name too.                          *)
(***************************************************************************)
ReapsItsDead ==
    [][\A a \in Actors :
          call'[a].todo # call[a].todo => \A s \in Touched : s.dead /\ s.ours]_vars

(***************************************************************************)
(* A command reaches the session that was corroborated for it, and a       *)
(* listing removes only dead sessions that this driver started: both go by *)
(* name, long after the row was seen (tmux.go: Close, Rename, reapDeadRows). *)
(***************************************************************************)
TouchesItsOwn == HitsItsTarget /\ ReapsItsDead

\* An exit is reported at most once, and only of a session that is gone.
ExitIsTrue ==
    /\ \A i \in Ids : told[i] <= 1
    /\ \A s \in sessions : told[s.id] = 0
=============================================================================
