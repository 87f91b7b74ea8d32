------------------------- MODULE CreateIdempotency -------------------------
(***************************************************************************)
(* Driver.Create of internal/drivers/tmux and the durable table of         *)
(* idempotency keys behind it (idempotency.go).  A caller that lost an     *)
(* answer repeats its create with the same key; the driver may crash       *)
(* between any two steps and restart with what the file held.              *)
(*                                                                         *)
(* One step of a call is one critical section of the store or one          *)
(* multiplexer command.  What follows the launch (options, records about   *)
(* the session, its prompt) is left out: see SessionOwnership.             *)
(***************************************************************************)
EXTENDS Multiplexer

CONSTANTS
    Keys,          \* the idempotency keys
    Callers,       \* the clients; each keeps to one key
    KeyOf,         \* [Callers -> Keys]
    BaseOf,        \* [Keys -> Bases], the name the request asks for
    CwdOf,         \* [Keys -> Cwds], the working directory it asks for
    Cwds,
    NoKey,         \* the key of a session no create of the driver made
    None,          \* no record, no name
    Environments   \* what may happen around the driver, a set of records

(***************************************************************************)
(* Each behaviour has one environment:                                     *)
(*   callers   the clients that take part                                  *)
(*   outside   where somebody else may start a session by hand             *)
(*   faults    what may fail: a listing of the sessions ("list"), the      *)
(*             answer of a new-session that did start the session          *)
(*             ("reply"), saving the table ("disk")                        *)
(*   sessions, crashes   bounds: sessions ever started, restarts of the    *)
(*             service                                                     *)
(***************************************************************************)
ASSUME CreateAssumption ==
    /\ KeyOf \in [Callers -> Keys]
    /\ BaseOf \in [Keys -> Bases]
    /\ CwdOf \in [Keys -> Cwds]
    /\ NoKey \notin Keys
    /\ \A e \in Environments :
          /\ e.callers \subseteq Callers
          /\ e.outside \subseteq Cwds
          /\ e.faults \subseteq {"list", "reply", "disk"}
          /\ {e.sessions, e.crashes} \subseteq Nat

VARIABLES
    env,        \* the environment of this behaviour
    keys,       \* idemStore.keys, in memory
    file,       \* the table as last saved
    sessions,   \* the multiplexer's sessions, dead panes included
    started,    \* how many sessions were ever started
    call,       \* the create each client has in progress, or its last one
    crashes

vars == <<env, keys, file, sessions, started, call, crashes>>

\* "old": the record was written longer ago than the retention.
Pending(name, cwd) == [phase |-> "pending", name |-> name, cwd |-> cwd, old |-> FALSE]
\* complete keeps no working directory.
Completed(name) == [phase |-> "complete", name |-> name, cwd |-> None, old |-> FALSE]

Records == [phase : {"pending"}, name : Names, cwd : Cwds, old : BOOLEAN]
               \union [phase : {"complete"}, name : Names, cwd : {None}, old : BOOLEAN]

ASSUME NoneAssumption == None \notin Records

Session(id, name, cwd, key) ==
    [id |-> id, name |-> name, cwd |-> cwd, key |-> key, dead |-> FALSE]

\* The answers a create may give: three of them hand a session to the client.
Answers == {"none", "error", "ended", "created", "replayed", "adopted"}

Idle == [pc |-> "idle", rec |-> None, name |-> None, answer |-> "none", got |-> 0]

Init ==
    /\ env \in Environments
    /\ keys = [k \in Keys |-> None]
    /\ file = keys
    /\ sessions = {}
    /\ started = 0
    /\ call = [c \in Callers |-> Idle]
    /\ crashes = 0

\* store.Save: the whole table, atomically, or nothing at all.
Saved(table, ok) == IF ok THEN table ELSE file
SaveOutcomes == IF "disk" \in env.faults THEN BOOLEAN ELSE {TRUE}

Goto(c, pc) == call' = [call EXCEPT ![c].pc = pc]
AnswerWith(c, answer, id) ==
    call' = [call EXCEPT ![c] = [Idle EXCEPT !.pc = "done", !.answer = answer, !.got = id]]
Answer(c, answer) == AnswerWith(c, answer, 0)

\* sweepLocked
Swept(table) ==
    [k \in Keys |-> IF table[k] # None /\ table[k].old THEN None ELSE table[k]]

-----------------------------------------------------------------------------
(* Create, for the client c. *)

Lookup(c) ==
    LET rec == Swept(keys)[KeyOf[c]] IN
    /\ c \in env.callers
    /\ call[c].pc = "idle"
    /\ keys' = Swept(keys)
    /\ call' = [call EXCEPT ![c] = [@ EXCEPT !.rec = rec,
                                             !.pc = IF rec = None THEN "name"
                                                    ELSE IF rec.phase = "complete" THEN "replay"
                                                    ELSE "resolve"]]
    /\ UNCHANGED <<env, file, sessions, started, crashes>>

\* sessionLive: a completed key is replayed if some session bears its name.
ReplayLive(c) ==
    /\ call[c].pc = "replay"
    /\ \E s \in Holding(sessions, call[c].rec.name) : AnswerWith(c, "replayed", s.id)
    /\ UNCHANGED <<env, keys, file, sessions, started, crashes>>

ReplayEnded(c) ==
    /\ call[c].pc = "replay"
    /\ Holding(sessions, call[c].rec.name) = {}
    /\ Answer(c, "ended")
    /\ UNCHANGED <<env, keys, file, sessions, started, crashes>>

\* A listing that failed is not an observation: the record is left alone.
ReplayUnknown(c) ==
    /\ "list" \in env.faults
    /\ call[c].pc = "replay"
    /\ Answer(c, "error")
    /\ UNCHANGED <<env, keys, file, sessions, started, crashes>>

\* Mutant: a name is taken for an identity.
MatchingByName(rec) == Holding(sessions, rec.name)

\* The sessions resolvePending takes for what an interrupted create started.
Matching(rec) == {s \in Holding(sessions, rec.name) : s.cwd = rec.cwd}

ResolveAdopts(c) ==
    /\ call[c].pc = "resolve"
    /\ \E s \in Matching(call[c].rec), ok \in SaveOutcomes :
          /\ keys' = [keys EXCEPT ![KeyOf[c]] = Completed(s.name)]
          /\ file' = Saved(keys', ok)
          /\ AnswerWith(c, "adopted", s.id)
    /\ UNCHANGED <<env, sessions, started, crashes>>

\* Mutant: a pending record nothing matches is left for the next call.
ResolveGivesUp(c) ==
    /\ call[c].pc = "resolve"
    /\ "list" \in env.faults \/ Matching(call[c].rec) = {}
    /\ Answer(c, "error")
    /\ UNCHANGED <<env, keys, file, sessions, started, crashes>>

\* Nothing matches, or the listing failed: both come back as "not found".
ResolveFindsNothing(c) ==
    /\ call[c].pc = "resolve"
    /\ "list" \in env.faults \/ Matching(call[c].rec) = {}
    /\ Goto(c, "release")
    /\ UNCHANGED <<env, keys, file, sessions, started, crashes>>

Release(c) ==
    /\ call[c].pc = "release"
    /\ keys' = [keys EXCEPT ![KeyOf[c]] = None]
    /\ \E ok \in SaveOutcomes : file' = Saved(keys', ok)
    /\ Goto(c, "name")
    /\ UNCHANGED <<env, sessions, started, crashes>>

\* resolveName: the first free number, or the bare name if the listing failed.
ResolveName(c) ==
    LET base == BaseOf[KeyOf[c]]
        free == FreeNumbers(NamesIn(sessions), base)
    IN
    /\ call[c].pc = "name"
    /\ \/ \E n \in free :
             /\ \A m \in free : n <= m
             /\ call' = [call EXCEPT ![c] = [@ EXCEPT !.pc = "reserve", !.name = <<base, n>>]]
       \/ /\ free = {}
          /\ Answer(c, "error")
       \/ /\ "list" \in env.faults
          /\ call' = [call EXCEPT ![c] = [@ EXCEPT !.pc = "reserve", !.name = <<base, 1>>]]
    /\ UNCHANGED <<env, keys, file, sessions, started, crashes>>

\* Create's validation refuses: a bad pin, a conversation already on record, ...
Refuse(c) ==
    /\ call[c].pc = "reserve"
    /\ Answer(c, "error")
    /\ UNCHANGED <<env, keys, file, sessions, started, crashes>>

\* Mutant: the intent is held in memory and saved with the result.
ReserveUnsaved(c) ==
    LET k == KeyOf[c] IN
    /\ call[c].pc = "reserve"
    /\ keys' = [keys EXCEPT ![k] = Pending(call[c].name, CwdOf[k])]
    /\ Goto(c, "launch")
    /\ UNCHANGED <<env, file, sessions, started, crashes>>

\* reserve: memory is changed even when the save fails.
Reserve(c) ==
    LET k == KeyOf[c] IN
    /\ call[c].pc = "reserve"
    /\ keys' = [keys EXCEPT ![k] = Pending(call[c].name, CwdOf[k])]
    /\ \E ok \in SaveOutcomes :
          /\ file' = Saved(keys', ok)
          /\ IF ok THEN Goto(c, "launch") ELSE Answer(c, "error")
    /\ UNCHANGED <<env, sessions, started, crashes>>

\* new-session starts the session; its answer may still be lost.
Launch(c) ==
    LET k == KeyOf[c] IN
    /\ call[c].pc = "launch"
    /\ started < env.sessions
    /\ call[c].name \notin NamesIn(sessions)
    /\ started' = started + 1
    /\ sessions' = sessions \union {Session(started', call[c].name, CwdOf[k], k)}
    /\ \E ok \in IF "reply" \in env.faults THEN BOOLEAN ELSE {TRUE} :
          Goto(c, IF ok THEN "complete" ELSE "failed")
    /\ UNCHANGED <<env, keys, file, crashes>>

\* Staging the environment failed, the name was taken or the multiplexer refused.
LaunchRefused(c) ==
    /\ call[c].pc = "launch"
    /\ Goto(c, "failed")
    /\ UNCHANGED <<env, keys, file, sessions, started, crashes>>

LaunchFailed(c) ==
    /\ call[c].pc = "failed"
    /\ keys' = [keys EXCEPT ![KeyOf[c]] = None]
    /\ \E ok \in SaveOutcomes : file' = Saved(keys', ok)
    /\ Answer(c, "error")
    /\ UNCHANGED <<env, sessions, started, crashes>>

\* Mutant: the name that was asked for is recorded, not the one that was free.
CompleteAsRequested(c) ==
    LET k == KeyOf[c] IN
    /\ call[c].pc = "complete"
    /\ keys' = [keys EXCEPT ![k] = Completed(<<BaseOf[k], 1>>)]
    /\ file' = keys'
    /\ Answer(c, "created")
    /\ UNCHANGED <<env, sessions, started, crashes>>

\* complete, whatever has become of the session since it was started.
Complete(c) ==
    LET k == KeyOf[c] IN
    /\ call[c].pc = "complete"
    /\ keys' = [keys EXCEPT ![k] = Completed(call[c].name)]
    /\ \E ok \in SaveOutcomes :
          /\ file' = Saved(keys', ok)
          /\ Answer(c, IF ok THEN "created" ELSE "error")
    /\ UNCHANGED <<env, sessions, started, crashes>>

\* The client repeats its create, whatever it heard or did not hear.
Retry(c) ==
    /\ call[c].pc = "done"
    /\ call' = [call EXCEPT ![c] = Idle]
    /\ UNCHANGED <<env, keys, file, sessions, started, crashes>>

-----------------------------------------------------------------------------
(* The service and the machine around it. *)

\* Mutant: a restart takes a pending create for one that never started.
CrashForgetsPending ==
    /\ crashes < env.crashes
    /\ crashes' = crashes + 1
    /\ keys' = [k \in Keys |-> IF file[k] # None /\ file[k].phase = "pending"
                              THEN None ELSE file[k]]
    /\ file' = keys'
    /\ call' = [c \in Callers |-> [Idle EXCEPT !.pc = "done"]]
    /\ UNCHANGED <<env, sessions, started>>

\* Memory is lost; newIdemStore loads the file, sweeps it and saves it again.
CrashAndRestart ==
    /\ crashes < env.crashes
    /\ crashes' = crashes + 1
    /\ keys' = Swept(file)
    /\ file' = keys'
    /\ call' = [c \in Callers |-> [Idle EXCEPT !.pc = "done"]]
    /\ UNCHANGED <<env, sessions, started>>

Aged(table, k) ==
    [table EXCEPT ![k] = IF @ = None THEN None ELSE [@ EXCEPT !.old = TRUE]]

(***************************************************************************)
(* The retention of a key's record ends, never while a call on the key is  *)
(* running: a call is bounded by seconds, the retention is half an hour.   *)
(* From then on the driver promises nothing about what the key started, so *)
(* its sessions no longer count as the key's.                              *)
(***************************************************************************)
Age(k) ==
    /\ \/ keys[k] # None /\ ~keys[k].old
       \/ file[k] # None /\ ~file[k].old
    /\ \A c \in Callers : KeyOf[c] = k => call[c].pc \in {"idle", "done"}
    /\ keys' = Aged(keys, k)
    /\ file' = Aged(file, k)
    /\ sessions' = {IF s.key = k THEN [s EXCEPT !.key = NoKey] ELSE s : s \in sessions}
    /\ UNCHANGED <<env, started, call, crashes>>

\* The process exits and its pane stays (remain-on-exit).
Die(s) ==
    /\ ~s.dead
    /\ sessions' = (sessions \ {s}) \union {[s EXCEPT !.dead = TRUE]}
    /\ UNCHANGED <<env, keys, file, started, call, crashes>>

\* The session is closed, reaped or gone with its process.
Vanish(s) ==
    /\ sessions' = sessions \ {s}
    /\ UNCHANGED <<env, keys, file, started, call, crashes>>

\* Somebody starts a session of their own.
StartOutside(name, cwd) ==
    /\ started < env.sessions
    /\ name \notin NamesIn(sessions)
    /\ started' = started + 1
    /\ sessions' = sessions \union {Session(started', name, cwd, NoKey)}
    /\ UNCHANGED <<env, keys, file, call, crashes>>

Step(c) ==
    \/ Lookup(c)
    \/ ReplayLive(c) \/ ReplayEnded(c) \/ ReplayUnknown(c)
    \/ ResolveAdopts(c) \/ ResolveFindsNothing(c)
    \/ Release(c) \/ ResolveName(c) \/ Refuse(c) \/ Reserve(c)
    \/ Launch(c) \/ LaunchRefused(c) \/ LaunchFailed(c) \/ Complete(c)

Next ==
    \/ \E c \in Callers : Step(c) \/ Retry(c)
    \/ CrashAndRestart
    \/ \E k \in Keys : Age(k)
    \/ \E s \in sessions : Die(s) \/ Vanish(s)
    \/ \E n \in Names, d \in env.outside : StartOutside(n, d)

Spec == Init /\ [][Next]_vars

\* Every call runs on to its answer, and every client asks again.
FairSpec == Spec /\ \A c \in Callers : WF_vars(Step(c)) /\ WF_vars(Retry(c))
-----------------------------------------------------------------------------
(* Properties. *)

Steps == {"idle", "replay", "resolve", "release", "name", "reserve", "launch",
          "complete", "failed", "done"}

TypeOK ==
    /\ env \in Environments
    /\ keys \in [Keys -> Records \union {None}]
    /\ file \in [Keys -> Records \union {None}]
    /\ started \in 0 .. env.sessions
    /\ sessions \subseteq [id : 1 .. started, name : Names, cwd : Cwds,
                          key : Keys \union {NoKey}, dead : BOOLEAN]
    /\ call \in [Callers -> [pc : Steps, rec : Records \union {None},
                             name : Names \union {None}, answer : Answers,
                             got : 0 .. started]]
    /\ crashes \in 0 .. env.crashes

\* The multiplexer tells the truth: listings succeed, and a new-session that
\* reports an error started nothing. README.md says what happens otherwise.
Truthful == env.faults \subseteq {"disk"}

\* Each client that takes part has a key of its own, and asks for one create at a time.
KeysOfTheirOwn == \A c, d \in env.callers : KeyOf[c] = KeyOf[d] => c = d

\* Two keys ask for different names or directories, and nobody else works in either.
PlacesOfTheirOwn ==
    /\ \A c \in env.callers : CwdOf[KeyOf[c]] \notin env.outside
    /\ \A c, d \in env.callers :
          KeyOf[c] # KeyOf[d] =>
             \/ BaseOf[KeyOf[c]] # BaseOf[KeyOf[d]] \/ CwdOf[KeyOf[c]] # CwdOf[KeyOf[d]]

(***************************************************************************)
(* One key, one agent: however often a create is repeated and wherever the *)
(* service was interrupted, no two running sessions come from the same key *)
(* within its retention (session-abstraction.md section 10; Create).       *)
(***************************************************************************)
OneLiveSession ==
    Truthful /\ KeysOfTheirOwn => \A s, t \in sessions :
        (s.key \in Keys /\ s.key = t.key /\ ~s.dead /\ ~t.dead) => s = t

(***************************************************************************)
(* Intent first: a session a create started is on file under its key from  *)
(* before it exists until it is gone, so no crash finds a session nobody   *)
(* remembers asking for (Create, idempotency.go).                          *)
(***************************************************************************)
LaunchIsRecorded ==
    Truthful /\ KeysOfTheirOwn => \A s \in sessions :
        s.key \in Keys => file[s.key] # None /\ file[s.key].name = s.name

(***************************************************************************)
(* A client told that its key's session has ended is told so only when no  *)
(* session that key started is running (Create's replay of an ended one).  *)
(***************************************************************************)
EndedMeansEnded ==
    Truthful /\ KeysOfTheirOwn => \A c \in Callers :
        call[c].answer = "ended" => \A s \in sessions : s.key = KeyOf[c] => s.dead

(* Repeated creates under one key have one running session between them,   *)
(* a session that was launched is on record before anyone may create again *)
(* after a crash, and a key that reads as ended has none that runs         *)
(* (tmux.go: Create; idempotency.go: reserve, complete, release).          *)
CreatesAreOnce == OneLiveSession /\ LaunchIsRecorded /\ EndedMeansEnded

Answered(c, answer) == call'[c].answer = answer /\ call[c].answer # answer

AdoptedIsItsOwn ==
    Truthful /\ KeysOfTheirOwn /\ PlacesOfTheirOwn =>
    \A c \in Callers, s \in sessions :
       Answered(c, "adopted") /\ s.id = call'[c].got => s.key = KeyOf[c]

\* What an interrupted create is found to have started is what it started:
\* a client is never handed somebody else's session by adoption.
AdoptsItsOwn == [][AdoptedIsItsOwn]_vars

(***************************************************************************)
(* A retry is not blocked by a record of something that never happened:    *)
(* a client that keeps asking gets its pending record settled (release).   *)
(***************************************************************************)
PendingIsSettled ==
    \A k \in Keys :
        (keys[k] # None /\ keys[k].phase = "pending")
            ~> (keys[k] = None \/ keys[k].phase = "complete")
=============================================================================
