---------------------- MODULE CreateIdempotencyProofs ------------------------
(***************************************************************************)
(* Theorems about CreateIdempotency, for any clients, keys and names, any  *)
(* number of restarts, and a table that may fail to be saved at any time.  *)
(***************************************************************************)
EXTENDS CreateIdempotency, TLAPS

-----------------------------------------------------------------------------
(* Types *)

Tables == [Keys -> Records \cup {None}]
SessionRecords(n) ==
    [id : 1 .. n, name : Names, cwd : Cwds, key : Keys \cup {NoKey}, dead : BOOLEAN]
\* From the moment a name is found, a call has one.
Named == {"reserve", "launch", "complete"}
CallRecords(n) ==
    {r \in [pc : Steps, rec : Records \cup {None}, name : Names \cup {None}, answer : Answers,
            got : 0 .. n] :
        r.pc \in Named => r.name \in Names}

TableTypes == keys \in Tables /\ file \in Tables
SessionTypes == started \in 0 .. env.sessions /\ sessions \subseteq SessionRecords(started)
CallTypes == call \in [Callers -> CallRecords(started)]
BoundTypes == env \in Environments /\ crashes \in 0 .. env.crashes

Typed == BoundTypes /\ TableTypes /\ SessionTypes /\ CallTypes

(* TypeOK in parts, which a step changes apart; a call that needs a name has one. *)
LEMMA TypesSplit == Typed => TypeOK
  BY DEF Typed, TypeOK, BoundTypes, TableTypes, SessionTypes, CallTypes, Tables, SessionRecords, CallRecords

(* The records that are written are of their types.                         *)
LEMMA RecordsWritten ==
  ASSUME NEW name \in Names, NEW k \in Keys
  PROVE  Pending(name, CwdOf[k]) \in Records /\ Completed(name) \in Records
<1>1. CwdOf[k] \in Cwds
  BY CreateAssumption DEF CreateAssumption
<1> QED
  BY <1>1 DEF Pending, Completed, Records

(* Whatever is done to a table leaves a table.                              *)
LEMMA TablesWritten ==
  ASSUME NEW table \in Tables, NEW k \in Keys, NEW r \in Records \cup {None}
  PROVE  /\ [table EXCEPT ![k] = r] \in Tables
         /\ Swept(table) \in Tables
         /\ Aged(table, k) \in Tables
<1>1. [table EXCEPT ![k] = r] \in Tables /\ Swept(table) \in Tables
  BY DEF Tables, Swept
<1>2. ASSUME NEW q \in Records PROVE [q EXCEPT !.old = TRUE] \in Records
  BY DEF Records
<1>3. Aged(table, k) \in Tables
  BY <1>2 DEF Tables, Aged
<1> QED
  BY <1>1, <1>3

(* A write that is refused leaves a table of keys, as one that is done      *)
(* does.                                                                    *)
LEMMA SavedIsTable ==
  ASSUME TableTypes, NEW table \in Tables, NEW ok PROVE Saved(table, ok) \in Tables
  BY DEF Saved, TableTypes

(* A call that goes on is of its type.                                      *)
LEMMA CallOfType ==
  ASSUME Typed, NEW c \in Callers
  PROVE  /\ call[c] \in CallRecords(started) /\ started \in Nat /\ KeyOf[c] \in Keys
         /\ call[c].pc \in Steps /\ call[c].rec \in Records \cup {None}
         /\ call[c].name \in Names \cup {None} /\ call[c].answer \in Answers
         /\ call[c].pc \in Named => call[c].name \in Names
<1>1. call[c] \in CallRecords(started) /\ started \in 0 .. env.sessions
  BY DEF Typed, CallTypes, SessionTypes
<1>2. started \in Nat /\ KeyOf[c] \in Keys
  BY <1>1, CreateAssumption DEF CreateAssumption
<1> QED
  BY <1>1, <1>2 DEF CallRecords

(* What a call may become is of its type.                                   *)
LEMMA CallGoesOn ==
  ASSUME Typed, NEW c \in Callers
  PROVE  /\ \A pc \in Steps :
               (pc \in Named => call[c].pc \in Named) =>
               [call[c] EXCEPT !.pc = pc] \in CallRecords(started)
         /\ \A pc \in Steps \ Named, rec \in Records \cup {None} :
               [call[c] EXCEPT !.rec = rec, !.pc = pc] \in CallRecords(started)
         /\ \A pc \in Steps, name \in Names :
               [call[c] EXCEPT !.pc = pc, !.name = name] \in CallRecords(started)
         /\ \A answer \in Answers, id \in 0 .. started :
               [Idle EXCEPT !.pc = "done", !.answer = answer, !.got = id] \in CallRecords(started)
         /\ Idle \in CallRecords(started)
<1>1. call[c] \in CallRecords(started) /\ started \in Nat
  BY CallOfType
<1>2. Idle \in CallRecords(started)
  BY <1>1 DEF Idle, CallRecords, Steps, Answers, Named
<1> QED
  BY <1>1, <1>2 DEF CallRecords, Steps, Named

(* The state is well typed at first. *)
LEMMA TypesAtFirst == Init => Typed
<1> SUFFICES ASSUME Init PROVE Typed
  OBVIOUS
<1>1. BoundTypes /\ SessionTypes
  BY CreateAssumption DEF CreateAssumption, Init, BoundTypes, SessionTypes, SessionRecords
<1>2. TableTypes
  BY DEF Init, TableTypes, Tables
<1>3. CallTypes
  BY <1>1 DEF Init, CallTypes, Idle, CallRecords, Steps, Answers, Named
<1> QED
  BY <1>1, <1>2, <1>3 DEF Typed

(* The steps of a call that write no table and start no session.            *)
LEMMA TalkingIsTyped ==
  ASSUME Typed, NEW c \in Callers,
         \/ Lookup(c) \/ ReplayLive(c) \/ ReplayEnded(c) \/ ReplayUnknown(c)
         \/ ResolveFindsNothing(c) \/ ResolveName(c) \/ Refuse(c) \/ LaunchRefused(c) \/ Retry(c)
  PROVE  Typed'
<1>1. BoundTypes /\ TableTypes /\ SessionTypes /\ CallTypes
  BY DEF Typed
<1>2. ASSUME NEW r \in CallRecords(started), call' = [call EXCEPT ![c] = r], UNCHANGED started
      PROVE  CallTypes'
  BY <1>1, <1>2 DEF CallTypes
<1>3. UNCHANGED <<env, file, sessions, started, crashes>>
  BY DEF Lookup, ReplayLive, ReplayEnded, ReplayUnknown,
     ResolveFindsNothing, ResolveName, Refuse, LaunchRefused, Retry
<1>4. keys' \in Tables
  <2>1. keys \in Tables /\ KeyOf[c] \in Keys
    BY <1>1, CallOfType DEF TableTypes
  <2>2. keys' = keys \/ keys' = Swept(keys)
    BY DEF Lookup, ReplayLive, ReplayEnded, ReplayUnknown,
       ResolveFindsNothing, ResolveName, Refuse, LaunchRefused, Retry
  <2> QED
    BY <2>1, <2>2, TablesWritten
<1>5. CallTypes'
  <2>1. CASE Lookup(c)
    <3>1. PICK pc \in {"name", "replay", "resolve"} :
            call' = [call EXCEPT ![c] = [@ EXCEPT !.rec = Swept(keys)[KeyOf[c]], !.pc = pc]]
      BY <2>1 DEF Lookup
    <3>2. Swept(keys)[KeyOf[c]] \in Records \cup {None}
      BY <1>1, CallOfType, TablesWritten DEF TableTypes, Tables
    <3> QED
      BY <1>2, <1>3, <3>1, <3>2, CallGoesOn DEF Steps, Named
  <2>2. CASE ResolveName(c)
    <3>1. CASE Answer(c, "error")
      <4>1. 0 \in 0 .. started
        BY CallOfType
      <4> QED
        BY <1>2, <1>3, <3>1, <4>1, CallGoesOn DEF Answer, AnswerWith, Answers
    <3>2. CASE \E n \in 1 .. MaxNameAttempts :
                 call' = [call EXCEPT ![c] = [@ EXCEPT !.pc = "reserve", !.name = <<BaseOf[KeyOf[c]], n>>]]
      <4>1. PICK n \in 1 .. MaxNameAttempts :
              call' = [call EXCEPT ![c] = [@ EXCEPT !.pc = "reserve", !.name = <<BaseOf[KeyOf[c]], n>>]]
        BY <3>2
      <4>2. <<BaseOf[KeyOf[c]], n>> \in Names
        BY CallOfType, CreateAssumption DEF CreateAssumption, Names
      <4> QED
        BY <1>2, <1>3, <4>1, <4>2, CallGoesOn DEF Steps
    <3> QED
      <4>1. 1 \in 1 .. MaxNameAttempts
        BY MultiplexerAssumption DEF MultiplexerAssumption
      <4>2. FreeNumbers(NamesIn(sessions), BaseOf[KeyOf[c]]) \subseteq 1 .. MaxNameAttempts
        BY DEF FreeNumbers
      <4> QED
        BY <2>2, <3>1, <3>2, <4>1, <4>2 DEF ResolveName
  <2>3. CASE Retry(c)
    BY <1>2, <1>3, <2>3, CallGoesOn DEF Retry
  <2>4. ASSUME NEW pc \in Steps \ Named, Goto(c, pc) PROVE CallTypes'
    BY <1>2, <1>3, <2>4, CallGoesOn DEF Goto
  <2>5. ASSUME NEW answer \in Answers, NEW id \in 0 .. started, AnswerWith(c, answer, id)
        PROVE  CallTypes'
    BY <1>2, <1>3, <2>5, CallGoesOn DEF AnswerWith
  <2>6. CASE ResolveFindsNothing(c) \/ LaunchRefused(c)
    BY <2>4, <2>6 DEF ResolveFindsNothing, LaunchRefused, Steps, Named
  <2>7. CASE ReplayLive(c)
    <3>1. \A s \in sessions : s.id \in 0 .. started
      BY <1>1 DEF SessionTypes, SessionRecords
    <3> QED
      BY <2>5, <2>7, <3>1 DEF ReplayLive, Holding, Answers
  <2>8. CASE ReplayEnded(c) \/ ReplayUnknown(c) \/ Refuse(c)
    <3>1. 0 \in 0 .. started
      BY CallOfType
    <3> QED
      BY <2>5, <2>8, <3>1 DEF ReplayEnded, ReplayUnknown, Refuse, Answer, Answers
  <2> QED
    BY <2>1, <2>2, <2>3, <2>6, <2>7, <2>8
<1> QED
  BY <1>1, <1>3, <1>4, <1>5 DEF Typed, BoundTypes, TableTypes, SessionTypes

(* The steps of a call that write the table.                                *)
LEMMA RecordingIsTyped ==
  ASSUME Typed, NEW c \in Callers,
         ResolveAdopts(c) \/ Release(c) \/ Reserve(c) \/ LaunchFailed(c) \/ Complete(c)
  PROVE  Typed'
<1>1. BoundTypes /\ TableTypes /\ SessionTypes /\ CallTypes
  BY DEF Typed
<1>2. UNCHANGED <<env, sessions, started, crashes>>
  BY DEF ResolveAdopts, Release, Reserve, LaunchFailed, Complete
<1>3. KeyOf[c] \in Keys /\ 0 \in 0 .. started
  BY CallOfType
<1>4. PICK r \in Records \cup {None}, ok \in BOOLEAN :
        keys' = [keys EXCEPT ![KeyOf[c]] = r] /\ file' = Saved(keys', ok)
  <2>1. CASE ResolveAdopts(c)
    <3>1. PICK s \in sessions, ok \in BOOLEAN :
            /\ keys' = [keys EXCEPT ![KeyOf[c]] = Completed(s.name)]
            /\ file' = Saved(keys', ok)
      BY <2>1 DEF ResolveAdopts, Matching, Holding, SaveOutcomes
    <3>2. Completed(s.name) \in Records
      BY <1>1, <1>3, RecordsWritten DEF SessionTypes, SessionRecords
    <3> QED
      BY <3>1, <3>2
  <2>2. CASE Release(c) \/ LaunchFailed(c)
    BY <2>2 DEF Release, LaunchFailed, SaveOutcomes
  <2>3. CASE Reserve(c)
    <3>1. Pending(call[c].name, CwdOf[KeyOf[c]]) \in Records
      BY <1>3, <2>3, CallOfType, RecordsWritten DEF Reserve, Named
    <3> QED
      BY <2>3, <3>1 DEF Reserve, SaveOutcomes
  <2>4. CASE Complete(c)
    <3>1. Completed(call[c].name) \in Records
      BY <1>3, <2>4, CallOfType, RecordsWritten DEF Complete, Named
    <3> QED
      BY <2>4, <3>1 DEF Complete, SaveOutcomes
  <2> QED
    BY <2>1, <2>2, <2>3, <2>4
<1>5. TableTypes'
  <2>1. keys' \in Tables
    BY <1>1, <1>3, <1>4, TablesWritten DEF TableTypes
  <2>2. file' \in Tables
    BY <1>1, <1>4, <2>1, SavedIsTable
  <2> QED
    BY <2>1, <2>2 DEF TableTypes
<1>6. PICK q \in CallRecords(started) : call' = [call EXCEPT ![c] = q]
  <2>1. ASSUME NEW answer \in Answers, NEW id \in 0 .. started, AnswerWith(c, answer, id)
        PROVE  \E q \in CallRecords(started) : call' = [call EXCEPT ![c] = q]
    BY <2>1, CallGoesOn DEF AnswerWith
  <2>2. CASE ResolveAdopts(c)
    <3>1. \A s \in sessions : s.id \in 0 .. started
      BY <1>1 DEF SessionTypes, SessionRecords
    <3> QED
      BY <2>1, <2>2, <3>1 DEF ResolveAdopts, Matching, Holding, Answers
  <2>3. CASE Release(c)
    BY <2>3, CallGoesOn DEF Release, Goto, Steps, Named
  <2>4. CASE Reserve(c)
    <3>1. CASE Goto(c, "launch")
      BY <2>4, <3>1, CallGoesOn DEF Reserve, Goto, Steps, Named
    <3>2. CASE Answer(c, "error")
      BY <1>3, <2>1, <3>2 DEF Answer, Answers
    <3> QED
      BY <2>4, <3>1, <3>2 DEF Reserve
  <2>5. CASE LaunchFailed(c)
    BY <1>3, <2>1, <2>5 DEF LaunchFailed, Answer, Answers
  <2>6. CASE Complete(c)
    <3>1. PICK answer \in {"created", "error"} : Answer(c, answer)
      BY <2>6 DEF Complete
    <3> QED
      BY <1>3, <2>1, <3>1 DEF Answer, Answers
  <2> QED
    BY <2>2, <2>3, <2>4, <2>5, <2>6
<1>7. CallTypes'
  BY <1>1, <1>2, <1>6 DEF CallTypes
<1> QED
  BY <1>1, <1>2, <1>5, <1>7 DEF Typed, BoundTypes, SessionTypes

(* A session that is started, by the driver or by hand.                     *)
LEMMA StartingIsTyped ==
  ASSUME Typed, NEW name \in Names, NEW cwd \in Cwds, NEW key \in Keys \cup {NoKey},
         started < env.sessions, started' = started + 1, UNCHANGED env,
         sessions' = sessions \cup {Session(started', name, cwd, key)}
  PROVE  SessionTypes' /\ CallRecords(started) \subseteq CallRecords(started')
<1>1. SessionTypes /\ started \in Nat /\ env.sessions \in Nat
  BY CreateAssumption DEF CreateAssumption, Typed, SessionTypes, BoundTypes
<1>2. started' \in 0 .. env.sessions /\ 1 .. started \subseteq 1 .. started' /\ started' \in 1 .. started'
  BY <1>1
<1>3. Session(started', name, cwd, key) \in SessionRecords(started')
  BY <1>2 DEF Session, SessionRecords
<1>4. SessionRecords(started) \subseteq SessionRecords(started')
  BY <1>2 DEF SessionRecords
<1>5. CallRecords(started) \subseteq CallRecords(started')
  BY <1>1 DEF CallRecords
<1> QED
  BY <1>1, <1>2, <1>3, <1>4, <1>5 DEF SessionTypes

(* A launch, of a session that is new.                                      *)
LEMMA LaunchIsTyped ==
  ASSUME Typed, NEW c \in Callers, Launch(c)
  PROVE  Typed'
<1>1. BoundTypes /\ TableTypes /\ SessionTypes /\ CallTypes
  BY DEF Typed
<1>2. UNCHANGED <<env, keys, file, crashes>>
  BY DEF Launch
<1>3. SessionTypes' /\ CallRecords(started) \subseteq CallRecords(started')
  <2>1. call[c].name \in Names /\ KeyOf[c] \in Keys /\ CwdOf[KeyOf[c]] \in Cwds
    BY CallOfType, CreateAssumption DEF CreateAssumption, Launch, Named
  <2> QED
    BY <1>2, <2>1, StartingIsTyped DEF Launch
<1>4. PICK pc \in {"complete", "failed"} : Goto(c, pc)
  BY DEF Launch
<1>5. [call[c] EXCEPT !.pc = pc] \in CallRecords(started)
  BY CallGoesOn DEF Launch, Steps, Named
<1>6. CallTypes'
  BY <1>1, <1>3, <1>4, <1>5 DEF Goto, CallTypes
<1> QED
  BY <1>1, <1>2, <1>3, <1>6 DEF Typed, BoundTypes, TableTypes

(* What happens around the calls.                                           *)
LEMMA AroundIsTyped ==
  ASSUME Typed,
         \/ CrashAndRestart
         \/ \E k \in Keys : Age(k)
         \/ \E s \in sessions : Die(s) \/ Vanish(s)
         \/ \E n \in Names, d \in env.outside : StartOutside(n, d)
  PROVE  Typed'
<1>1. BoundTypes /\ TableTypes /\ SessionTypes /\ CallTypes
  BY DEF Typed
<1>2. CASE CrashAndRestart
  <2>1. UNCHANGED <<env, sessions, started>> /\ crashes' \in 0 .. env.crashes
    BY <1>1, <1>2, CreateAssumption DEF CreateAssumption, CrashAndRestart, BoundTypes
  <2>2. TableTypes'
    <3>1. keys' = Swept(file) /\ file' = Swept(file)
      BY <1>2 DEF CrashAndRestart
    <3>2. Swept(file) \in Tables
      BY <1>1 DEF Tables, TableTypes, Swept
    <3> QED
      BY <3>1, <3>2 DEF TableTypes
  <2>3. CallTypes'
    <3>1. [Idle EXCEPT !.pc = "done"] \in CallRecords(started)
      <4>1. started \in Nat
        BY <1>1 DEF SessionTypes
      <4> QED
        BY <4>1 DEF Idle, CallRecords, Steps, Answers, Named
    <3> QED
      BY <1>2, <2>1, <3>1 DEF CrashAndRestart, CallTypes
  <2> QED
    BY <1>1, <2>1, <2>2, <2>3 DEF Typed, BoundTypes, SessionTypes
<1>3. ASSUME NEW k \in Keys, Age(k)
      PROVE  Typed'
  <2>1. UNCHANGED <<env, started, call, crashes>>
    BY <1>3 DEF Age
  <2>2. TableTypes'
    BY <1>1, <1>3, TablesWritten DEF Age, TableTypes
  <2>3. SessionTypes'
    <3>1. ASSUME NEW s \in SessionRecords(started)
          PROVE  [s EXCEPT !.key = NoKey] \in SessionRecords(started)
      BY DEF SessionRecords
    <3> QED
      BY <1>1, <1>3, <2>1, <3>1 DEF Age, SessionTypes
  <2> QED
    BY <1>1, <2>1, <2>2, <2>3 DEF Typed, BoundTypes, CallTypes
<1>4. ASSUME NEW s \in sessions, Die(s) \/ Vanish(s)
      PROVE  Typed'
  <2>1. UNCHANGED <<env, keys, file, started, call, crashes>>
    BY <1>4 DEF Die, Vanish
  <2>2. [s EXCEPT !.dead = TRUE] \in SessionRecords(started)
    BY <1>1 DEF SessionTypes, SessionRecords
  <2>3. SessionTypes'
    BY <1>1, <1>4, <2>1, <2>2 DEF Die, Vanish, SessionTypes
  <2> QED
    BY <1>1, <2>1, <2>3 DEF Typed, BoundTypes, CallTypes, TableTypes
<1>5. ASSUME NEW n \in Names, NEW d \in env.outside, StartOutside(n, d)
      PROVE  Typed'
  <2>1. UNCHANGED <<env, keys, file, call, crashes>>
    BY <1>5 DEF StartOutside
  <2>2. d \in Cwds
    BY <1>1, CreateAssumption DEF CreateAssumption, BoundTypes
  <2>3. SessionTypes' /\ CallRecords(started) \subseteq CallRecords(started')
    BY <1>5, <2>1, <2>2, StartingIsTyped DEF StartOutside
  <2>4. CallTypes'
    BY <1>1, <2>1, <2>3 DEF CallTypes
  <2> QED
    BY <1>1, <2>1, <2>3, <2>4 DEF Typed, BoundTypes, TableTypes
<1> QED
  BY <1>2, <1>3, <1>4, <1>5

(* Every step keeps the types.                                              *)
LEMMA TypesKept == Typed /\ [Next]_vars => Typed'
<1> SUFFICES ASSUME Typed, [Next]_vars PROVE Typed'
  OBVIOUS
<1>1. CASE UNCHANGED vars
  BY <1>1 DEF vars, Typed, BoundTypes, TableTypes, SessionTypes, CallTypes
<1>2. ASSUME NEW c \in Callers, Step(c) \/ Retry(c)
      PROVE  Typed'
  BY <1>2, TalkingIsTyped, RecordingIsTyped, LaunchIsTyped DEF Step
<1> QED
  BY <1>1, <1>2, AroundIsTyped DEF Next

(* Every state of every behaviour is type-correct.                          *)
THEOREM CreateTypeCorrect == Spec => []TypeOK
  BY TypesAtFirst, TypesKept, TypesSplit, PTL DEF Spec

-----------------------------------------------------------------------------
(* What holds of each key and each call when the multiplexer tells the truth *)
(* and each client has a key of its own.                                     *)

NoneOf(k) == \A s \in sessions : s.key # k

\* A record that still stands, and what a record of the key says.
Standing(r, name) == r # None /\ ~r.old /\ r.name = name
SaysWhere(r, k) == r # None /\ r.phase = "pending" => r.cwd = CwdOf[k]

\* A session of the key is the only one, and on record in memory and on disk.
KeySafe(k) ==
    /\ \A s, t \in sessions : s.key = k /\ t.key = k => s = t
    /\ \A s \in sessions :
          s.key = k => s.cwd = CwdOf[k] /\ Standing(keys[k], s.name) /\ Standing(file[k], s.name)
    /\ SaysWhere(keys[k], k) /\ SaysWhere(file[k], k)

\* A call that may start a session knows that there is none, one that reads a record has
\* the one in memory, and from the launch on its record is on disk.
CallSafe(c) ==
    /\ call[c].pc \notin {"idle", "done"} => c \in env.callers
    /\ call[c].answer = "ended" => call[c].pc = "done" /\ c \in env.callers /\ NoneOf(KeyOf[c])
    /\ call[c].pc \in {"release", "name", "reserve", "launch", "failed"} => NoneOf(KeyOf[c])
    /\ call[c].pc \in {"replay", "resolve"} =>
          /\ call[c].rec = keys[KeyOf[c]] /\ call[c].rec # None /\ ~call[c].rec.old
          /\ call[c].rec.phase = IF call[c].pc = "replay" THEN "complete" ELSE "pending"
    /\ call[c].pc \in {"launch", "complete"} =>
          /\ keys[KeyOf[c]] = Pending(call[c].name, CwdOf[KeyOf[c]])
          /\ file[KeyOf[c]] = Pending(call[c].name, CwdOf[KeyOf[c]])

CreateSafe == (\A k \in Keys : KeySafe(k)) /\ (\A c \in Callers : CallSafe(c))

-----------------------------------------------------------------------------
(* The adoption of what an interrupted create left. *)

\* A pending record that stands names only sessions of its key, in its directory.
NamesItsOwn(r, k) ==
    r # None =>
       /\ \E c \in env.callers : KeyOf[c] = k
       /\ r.name[1] = BaseOf[k]
       /\ r.phase = "pending" /\ ~r.old =>
             \A s \in sessions : s.name = r.name /\ s.cwd = CwdOf[k] => s.key = k

NameSafe(c) ==
    call[c].pc \in Named =>
       /\ call[c].name[1] = BaseOf[KeyOf[c]]
       /\ \A s \in sessions :
             s.name = call[c].name /\ s.cwd = CwdOf[KeyOf[c]] => s.key = KeyOf[c]

AdoptionSafe ==
    /\ \A s, t \in sessions : s.id = t.id => s = t
    /\ \A k \in Keys : NamesItsOwn(keys[k], k) /\ NamesItsOwn(file[k], k)
    /\ \A c \in Callers : NameSafe(c)

-----------------------------------------------------------------------------
(* A step of one call *)

(* The keys and calls that are not c's, when a step of c writes its own     *)
(* record, sweeps what is old, saves the table or starts a session.         *)
LEMMA OthersStand ==
  ASSUME Typed, CreateSafe, KeysOfTheirOwn, NEW c \in Callers, c \in env.callers,
         UNCHANGED env,
         \A k \in Keys \ {KeyOf[c]} :
            /\ keys'[k] = keys[k] \/ (keys[k] # None /\ keys[k].old /\ keys'[k] = None)
            /\ file'[k] = file[k] \/ file'[k] = keys'[k],
         \A s \in sessions' : s \in sessions \/ s.key = KeyOf[c],
         \A d \in Callers \ {c} : call'[d] = call[d],
         KeySafe(KeyOf[c])', CallSafe(c)'
  PROVE  CreateSafe'
<1>1. ASSUME NEW k \in Keys \ {KeyOf[c]} PROVE KeySafe(k)'
  <2>1. KeySafe(k)
    BY DEF CreateSafe
  <2>2. \A s \in sessions' : s.key = k => s \in sessions
    OBVIOUS
  <2>3. SaysWhere(keys[k], k)' /\ SaysWhere(file[k], k)'
    BY <2>1 DEF KeySafe, SaysWhere
  <2>4. ASSUME NEW s \in sessions, s.key = k
        PROVE  Standing(keys[k], s.name)' /\ Standing(file[k], s.name)'
    BY <2>1, <2>4 DEF KeySafe, Standing
  <2> QED
    BY <2>1, <2>2, <2>3, <2>4 DEF KeySafe
<1>2. ASSUME NEW d \in Callers \ {c} PROVE CallSafe(d)'
  <2>1. CallSafe(d) /\ KeyOf[d] \in Keys
    BY CallOfType DEF CreateSafe
  <2>2. d \in env.callers => KeyOf[d] # KeyOf[c]
    BY DEF KeysOfTheirOwn
  <2>3. d \in env.callers /\ NoneOf(KeyOf[d]) => NoneOf(KeyOf[d])'
    BY <2>2 DEF NoneOf
  <2>4. \A n \in Names \cup {None}, k \in Keys : ~Pending(n, CwdOf[k]).old
    BY DEF Pending
  <2>5. call[d].name \in Names \cup {None}
    BY CallOfType
  <2> QED
    BY <2>1, <2>2, <2>3, <2>4, <2>5 DEF CallSafe
<1> QED
  BY <1>1, <1>2 DEF CreateSafe

(* What becomes of the call that steps.                                     *)
LEMMA Went ==
  ASSUME Typed, NEW c \in Callers, NEW pc, Goto(c, pc)
  PROVE  /\ call'[c].pc = pc /\ call'[c].name = call[c].name /\ call'[c].rec = call[c].rec
         /\ call'[c].answer = call[c].answer
         /\ \A d \in Callers \ {c} : call'[d] = call[d]
<1>1. call \in [Callers -> CallRecords(started)]
  BY DEF Typed, CallTypes
<1> QED
  BY <1>1 DEF Goto, CallRecords

(* A call that is answered is done, and no other call is disturbed.         *)
LEMMA WasAnswered ==
  ASSUME Typed, NEW c \in Callers, NEW answer, NEW id, AnswerWith(c, answer, id)
  PROVE  /\ call'[c].pc = "done" /\ call'[c].answer = answer /\ call'[c].got = id
         /\ \A d \in Callers \ {c} : call'[d] = call[d]
<1>1. call \in [Callers -> CallRecords(started)]
  BY DEF Typed, CallTypes
<1> QED
  BY <1>1 DEF AnswerWith, Idle

(* One who is answered, other than "ended", has nothing to know any more.   *)
LEMMA AnsweredIsSafe ==
  ASSUME Typed, NEW c \in Callers, c \in env.callers, NEW answer, answer # "ended", NEW id,
         AnswerWith(c, answer, id), UNCHANGED env
  PROVE  CallSafe(c)'
  BY WasAnswered DEF CallSafe

(* The steps that only read the keys.                                       *)
LEMMA TalkingIsSafe ==
  ASSUME Typed, CreateSafe, Truthful, KeysOfTheirOwn, NEW c \in Callers,
         \/ Lookup(c) \/ ReplayLive(c) \/ ReplayEnded(c) \/ ReplayUnknown(c)
         \/ ResolveFindsNothing(c) \/ ResolveName(c) \/ Refuse(c) \/ LaunchRefused(c)
  PROVE  CreateSafe'
<1> DEFINE k == KeyOf[c]
<1>1. k \in Keys /\ CallSafe(c) /\ KeySafe(k)
  BY CallOfType DEF CreateSafe
<1>2. c \in env.callers
  BY <1>1 DEF CallSafe, Lookup, ReplayLive, ReplayEnded, ReplayUnknown,
     ResolveFindsNothing, ResolveName, Refuse, LaunchRefused
<1>3. UNCHANGED <<env, file, sessions>> /\ (keys' = keys \/ Lookup(c))
  BY DEF Lookup, ReplayLive, ReplayEnded, ReplayUnknown,
     ResolveFindsNothing, ResolveName, Refuse, LaunchRefused
<1>4. keys \in Tables
  BY DEF Typed, TableTypes
<1>5. \A j \in Keys :
        keys'[j] = keys[j] \/ (keys[j] # None /\ keys[j].old /\ keys'[j] = None)
  BY <1>3, <1>4 DEF Lookup, Swept, Tables
<1>6. KeySafe(k)'
  BY <1>1, <1>3, <1>5 DEF KeySafe, Standing, SaysWhere
<1>7. ASSUME NEW pc, Goto(c, pc), CallSafe(c)' PROVE CreateSafe'
  BY <1>2, <1>3, <1>5, <1>6, <1>7, Went, OthersStand
<1>8. ASSUME NEW answer, NEW id, AnswerWith(c, answer, id), CallSafe(c)' PROVE CreateSafe'
  BY <1>2, <1>3, <1>5, <1>6, <1>8, WasAnswered, OthersStand
<1>9. CASE ReplayLive(c) \/ ReplayUnknown(c) \/ Refuse(c)
  <2>1. \E answer, id : answer # "ended" /\ AnswerWith(c, answer, id)
    BY <1>9 DEF ReplayLive, ReplayUnknown, Refuse, Answer
  <2> QED
    BY <1>2, <1>3, <1>8, <2>1, AnsweredIsSafe
<1>10. CASE ReplayEnded(c)
  <2>1. AnswerWith(c, "ended", 0) /\ call[c].pc = "replay"
    BY <1>10 DEF ReplayEnded, Answer
  <2>2. NoneOf(k)
    <3>1. call[c].rec = keys[k] /\ Holding(sessions, call[c].rec.name) = {}
      BY <1>1, <1>10, <2>1 DEF CallSafe, ReplayEnded
    <3> QED
      BY <1>1, <3>1 DEF KeySafe, Standing, NoneOf, Holding
  <2>3. NoneOf(k)'
    BY <1>3, <2>2 DEF NoneOf
  <2>4. CallSafe(c)'
    BY <1>2, <1>3, <2>1, <2>3, WasAnswered DEF CallSafe
  <2> QED
    BY <1>8, <2>1, <2>4
<1>11. CASE ResolveFindsNothing(c)
  <2>1. Goto(c, "release") /\ call[c].pc = "resolve" /\ Matching(call[c].rec) = {}
    BY <1>11 DEF ResolveFindsNothing, Truthful
  <2>2. NoneOf(k)
    <3>1. call[c].rec = keys[k] /\ keys[k].cwd = CwdOf[k]
      BY <1>1, <2>1 DEF CallSafe, KeySafe, SaysWhere
    <3> QED
      BY <1>1, <2>1, <3>1 DEF KeySafe, Standing, NoneOf, Matching, Holding
  <2>3. NoneOf(k)'
    BY <1>3, <2>2 DEF NoneOf
  <2>4. CallSafe(c)'
    BY <1>1, <1>2, <1>3, <2>1, <2>3, Went DEF CallSafe
  <2> QED
    BY <1>7, <2>1, <2>4
<1>12. CASE LaunchRefused(c)
  <2>1. Goto(c, "failed") /\ call[c].pc = "launch" /\ NoneOf(k)'
    BY <1>1, <1>3, <1>12 DEF LaunchRefused, CallSafe, NoneOf
  <2>2. CallSafe(c)'
    BY <1>1, <1>2, <1>3, <2>1, Went DEF CallSafe
  <2> QED
    BY <1>7, <2>1, <2>2
<1>13. CASE ResolveName(c)
  <2>1. NoneOf(k)'
    BY <1>1, <1>3, <1>13 DEF ResolveName, CallSafe, NoneOf
  <2>2. CASE Answer(c, "error")
    BY <1>2, <1>3, <1>8, <2>2, AnsweredIsSafe DEF Answer
  <2>3. CASE \E n : call' = [call EXCEPT ![c] = [@ EXCEPT !.pc = "reserve", !.name = <<BaseOf[k], n>>]]
    <3>1. call \in [Callers -> CallRecords(started)]
      BY DEF Typed, CallTypes
    <3>2. /\ call'[c].pc = "reserve" /\ call'[c].answer = call[c].answer
          /\ \A d \in Callers \ {c} : call'[d] = call[d]
      BY <2>3, <3>1 DEF CallRecords
    <3>3. CallSafe(c)'
      BY <1>1, <1>2, <1>3, <1>13, <2>1, <3>2 DEF CallSafe, ResolveName
    <3> QED
      BY <1>2, <1>3, <1>5, <1>6, <3>2, <3>3, OthersStand
  <2> QED
    BY <1>13, <2>2, <2>3 DEF ResolveName
<1>14. CASE Lookup(c)
  <2> DEFINE rec == Swept(keys)[k]
  <2>1. call \in [Callers -> CallRecords(started)]
    BY DEF Typed, CallTypes
  <2>2. /\ call'[c].rec = rec /\ keys'[k] = rec /\ call'[c].answer = call[c].answer
        /\ call'[c].pc = IF rec = None THEN "name"
                         ELSE IF rec.phase = "complete" THEN "replay" ELSE "resolve"
        /\ \A d \in Callers \ {c} : call'[d] = call[d]
    BY <1>14, <2>1 DEF Lookup, CallRecords
  <2>3. rec \in Records \cup {None} /\ (rec # None => ~rec.old)
    BY <1>1, <1>4 DEF Swept, Tables
  <2>4. rec # None => rec.phase \in {"pending", "complete"}
    BY <2>3 DEF Records
  <2>5. rec = None => NoneOf(k)'
    BY <1>1, <1>3, <1>4 DEF Swept, Tables, KeySafe, Standing, NoneOf
  <2>6. call[c].answer # "ended"
    BY <1>1, <1>14 DEF CallSafe, Lookup
  <2>7. CallSafe(c)'
    BY <1>2, <1>3, <2>2, <2>3, <2>4, <2>5, <2>6 DEF CallSafe
  <2> QED
    BY <1>2, <1>3, <1>5, <1>6, <2>2, <2>7, OthersStand
<1> QED
  BY <1>9, <1>10, <1>11, <1>12, <1>13, <1>14

(* The steps that change the keys.                                          *)
LEMMA RecordingIsSafe ==
  ASSUME Typed, CreateSafe, Truthful, KeysOfTheirOwn, NEW c \in Callers,
         ResolveAdopts(c) \/ Release(c) \/ Reserve(c) \/ LaunchFailed(c) \/ Complete(c)
  PROVE  CreateSafe'
<1> DEFINE k == KeyOf[c]
<1>1. k \in Keys /\ CallSafe(c) /\ KeySafe(k)
  BY CallOfType DEF CreateSafe
<1>2. c \in env.callers /\ UNCHANGED <<env, sessions>>
  BY <1>1 DEF CallSafe, ResolveAdopts, Release, Reserve, LaunchFailed, Complete
<1>3. keys \in Tables
  BY DEF Typed, TableTypes
\* What the record is, and whether it was saved.
<1>4. ASSUME NEW r, NEW ok, keys' = [keys EXCEPT ![k] = r], file' = Saved(keys', ok),
             \A d \in Callers \ {c} : call'[d] = call[d],
             SaysWhere(r, k), \A s \in sessions : s.key = k => Standing(r, s.name), CallSafe(c)'
      PROVE  CreateSafe'
  <2>1. keys'[k] = r /\ \A j \in Keys \ {k} : keys'[j] = keys[j]
    BY <1>1, <1>3, <1>4 DEF Tables
  <2>2. \A j \in Keys : file'[j] = file[j] \/ file'[j] = keys'[j]
    BY <1>4 DEF Saved
  <2>3. KeySafe(k)'
    <3>1. SaysWhere(keys[k], k)' /\ SaysWhere(file[k], k)'
      BY <1>1, <1>4, <2>1, <2>2 DEF KeySafe, SaysWhere
    <3>2. \A s \in sessions : s.key = k => Standing(keys[k], s.name)' /\ Standing(file[k], s.name)'
      BY <1>1, <1>4, <2>1, <2>2, ZenonT(60) DEF KeySafe
    <3> QED
      BY <1>1, <1>2, <3>1, <3>2 DEF KeySafe
  <2> QED
    BY <1>2, <1>4, <2>1, <2>2, <2>3, OthersStand
<1>5. CASE ResolveAdopts(c)
  <2>1. PICK s \in Matching(call[c].rec), ok \in SaveOutcomes :
          /\ keys' = [keys EXCEPT ![k] = Completed(s.name)] /\ file' = Saved(keys', ok)
          /\ AnswerWith(c, "adopted", s.id)
    BY <1>5 DEF ResolveAdopts
  <2>2. call[c].rec = keys[k] /\ s.name = keys[k].name
    BY <1>1, <1>5, <2>1 DEF ResolveAdopts, CallSafe, Matching, Holding
  <2>3. /\ SaysWhere(Completed(s.name), k)
        /\ \A t \in sessions : t.key = k => Standing(Completed(s.name), t.name)
    <3>1. Completed(s.name) # None
      <4>1. s.name \in Names
        BY DEF Matching, Holding, Typed, SessionTypes, SessionRecords
      <4> QED
        BY <1>1, <4>1, RecordsWritten, NoneAssumption DEF NoneAssumption
    <3> QED
      BY <1>1, <2>2, <3>1 DEF SaysWhere, Standing, KeySafe, Completed
  <2> QED
    BY <1>2, <1>4, <2>1, <2>3, WasAnswered, AnsweredIsSafe
<1>6. CASE Release(c)
  <2>1. NoneOf(k) /\ Goto(c, "name") /\ call[c].pc = "release"
    BY <1>1, <1>6 DEF Release, CallSafe
  <2>2. CallSafe(c)'
    BY <1>1, <1>2, <2>1, Went DEF CallSafe, NoneOf
  <2>3. PICK ok \in SaveOutcomes : keys' = [keys EXCEPT ![k] = None] /\ file' = Saved(keys', ok)
    BY <1>6 DEF Release
  <2> QED
    BY <1>4, <2>1, <2>2, <2>3, Went DEF SaysWhere, NoneOf
<1>7. CASE LaunchFailed(c)
  <2>1. NoneOf(k) /\ AnswerWith(c, "error", 0)
    BY <1>1, <1>7 DEF LaunchFailed, CallSafe, Answer
  <2>2. PICK ok \in SaveOutcomes : keys' = [keys EXCEPT ![k] = None] /\ file' = Saved(keys', ok)
    BY <1>7 DEF LaunchFailed
  <2> QED
    BY <1>2, <1>4, <2>1, <2>2, WasAnswered, AnsweredIsSafe DEF SaysWhere, NoneOf
<1>8. CASE Reserve(c)
  <2> DEFINE r == Pending(call[c].name, CwdOf[k])
  <2>1. NoneOf(k) /\ call[c].pc = "reserve"
    BY <1>1, <1>8 DEF Reserve, CallSafe
  <2>2. SaysWhere(r, k)
    BY DEF SaysWhere, Pending
  <2>3. PICK ok \in SaveOutcomes :
          /\ keys' = [keys EXCEPT ![k] = r] /\ file' = Saved(keys', ok)
          /\ IF ok THEN Goto(c, "launch") ELSE AnswerWith(c, "error", 0)
    BY <1>8 DEF Reserve, Answer
  <2>4. CASE ok
    <3>1. /\ keys'[k] = r /\ file' = keys' /\ call'[c].name = call[c].name /\ call'[c].pc = "launch"
          /\ call'[c].answer = call[c].answer
      BY <1>1, <1>3, <2>3, <2>4, Went DEF Saved, Tables
    <3>2. CallSafe(c)'
      BY <1>1, <1>2, <2>1, <3>1 DEF CallSafe, NoneOf
    <3> QED
      BY <1>4, <2>1, <2>2, <2>3, <2>4, <3>2, Went DEF NoneOf
  <2>5. CASE ~ok
    BY <1>2, <1>4, <2>1, <2>2, <2>3, <2>5, WasAnswered, AnsweredIsSafe DEF NoneOf
  <2> QED
    BY <2>4, <2>5
<1>9. CASE Complete(c)
  <2> DEFINE r == Completed(call[c].name)
  <2>1. keys[k] = Pending(call[c].name, CwdOf[k]) /\ call[c].name \in Names
    BY <1>1, <1>9, CallOfType DEF Complete, CallSafe, Named
  <2>2. r # None
    BY <1>1, <2>1, RecordsWritten, NoneAssumption DEF NoneAssumption
  <2>3. SaysWhere(r, k) /\ \A s \in sessions : s.key = k => Standing(r, s.name)
    BY <1>1, <2>1, <2>2 DEF SaysWhere, Standing, KeySafe, Completed, Pending
  <2>4. PICK ok \in SaveOutcomes, answer \in {"created", "error"} :
          /\ keys' = [keys EXCEPT ![k] = r] /\ file' = Saved(keys', ok)
          /\ AnswerWith(c, answer, 0)
    BY <1>9 DEF Complete, Answer
  <2> QED
    BY <1>2, <1>4, <2>3, <2>4, WasAnswered, AnsweredIsSafe
<1> QED
  BY <1>5, <1>6, <1>7, <1>8, <1>9

(* A session that the key's only call starts is the key's only session.     *)
LEMMA LaunchIsSafe ==
  ASSUME Typed, CreateSafe, Truthful, KeysOfTheirOwn, NEW c \in Callers, Launch(c)
  PROVE  CreateSafe'
<1> DEFINE k == KeyOf[c]
<1>1. k \in Keys /\ CallSafe(c) /\ KeySafe(k)
  BY CallOfType DEF CreateSafe
<1>2. c \in env.callers /\ NoneOf(k) /\ UNCHANGED <<env, keys, file>>
  BY <1>1 DEF CallSafe, Launch
<1>3. Goto(c, "complete")
  BY DEF Launch, Truthful
<1>4. PICK id : sessions' = sessions \cup {Session(id, call[c].name, CwdOf[k], k)}
  BY DEF Launch
<1>a. PICK new : new = Session(id, call[c].name, CwdOf[k], k)
  OBVIOUS
<1>5. new.name = call[c].name /\ new.cwd = CwdOf[k] /\ new.key = k
  BY <1>a DEF Session
<1>6. call[c].pc = "launch" /\ call[c].name \in Names
  BY CallOfType DEF Launch, Named
<1>7. /\ keys[k] = Pending(call[c].name, CwdOf[k])
      /\ file[k] = Pending(call[c].name, CwdOf[k])
  BY <1>1, <1>6 DEF CallSafe
<1>8. Pending(call[c].name, CwdOf[k]) # None
  BY <1>1, <1>6, RecordsWritten, NoneAssumption DEF NoneAssumption
<1>9. Standing(keys[k], new.name) /\ Standing(file[k], new.name)
  BY <1>5, <1>7, <1>8 DEF Standing, Pending
<1>10. \A s \in sessions' : s.key = k => s = new
  BY <1>2, <1>4, <1>a DEF NoneOf
<1>11. KeySafe(k)'
  BY <1>1, <1>2, <1>5, <1>9, <1>10 DEF KeySafe
<1>12. CallSafe(c)'
  BY <1>1, <1>2, <1>3, <1>6, Went DEF CallSafe
<1> QED
  BY <1>2, <1>3, <1>4, <1>5, <1>a, <1>11, <1>12, Went, OthersStand

-----------------------------------------------------------------------------
(* Around the calls *)

(* A client that asks again knows nothing.                                  *)
LEMMA RetryIsSafe ==
  ASSUME Typed, CreateSafe, NEW c \in Callers, Retry(c)
  PROVE  CreateSafe'
<1>1. UNCHANGED <<env, keys, file, sessions>>
  BY DEF Retry
<1>2. /\ call'[c].pc = "idle" /\ call'[c].answer = "none"
      /\ \A d \in Callers \ {c} : call'[d] = call[d]
  BY DEF Retry, Idle, Typed, CallTypes
<1>3. \A k \in Keys : KeySafe(k)'
  BY <1>1 DEF CreateSafe, KeySafe
<1>4. \A d \in Callers : CallSafe(d)'
  BY <1>1, <1>2 DEF CreateSafe, CallSafe, NoneOf
<1> QED
  BY <1>3, <1>4 DEF CreateSafe

(* What is on disk survives a crash, unless it is old: it tells of every    *)
(* session.                                                                 *)
LEMMA CrashIsSafe ==
  ASSUME Typed, CreateSafe, CrashAndRestart
  PROVE  CreateSafe'
<1>1. UNCHANGED <<env, sessions>> /\ keys' = Swept(file) /\ file' = Swept(file)
  BY DEF CrashAndRestart
<1>2. \A d \in Callers : call'[d].pc = "done" /\ call'[d].answer = "none"
  BY DEF CrashAndRestart, Idle
<1>3. \A k \in Keys : KeySafe(k)'
  <2> TAKE k \in Keys
  <2>1. KeySafe(k)
    BY DEF CreateSafe
  <2>2. Swept(file)[k] = IF file[k] # None /\ file[k].old THEN None ELSE file[k]
    BY DEF Swept
  <2>3. SaysWhere(Swept(file)[k], k)
    BY <2>1, <2>2 DEF KeySafe, SaysWhere
  <2>4. \A s \in sessions : s.key = k => Standing(Swept(file)[k], s.name)
    BY <2>1, <2>2 DEF KeySafe, Standing
  <2> QED
    BY <1>1, <2>1, <2>3, <2>4 DEF KeySafe
<1>4. \A d \in Callers : CallSafe(d)'
  BY <1>1, <1>2 DEF CreateSafe, CallSafe
<1> QED
  BY <1>3, <1>4 DEF CreateSafe

(* A key that is too old is forgotten, with the sessions it stood for.      *)
LEMMA AgeIsSafe ==
  ASSUME Typed, CreateSafe, NEW k \in Keys, Age(k)
  PROVE  CreateSafe'
<1>1. UNCHANGED <<env, call>> /\ keys' = Aged(keys, k) /\ file' = Aged(file, k)
  BY DEF Age
<1>2. keys \in Tables /\ file \in Tables
  BY DEF Typed, TableTypes
<1>3. \A s \in sessions' : s.key \in Keys => s \in sessions /\ s.key # k
  <2>1. sessions' = {IF s.key = k THEN [s EXCEPT !.key = NoKey] ELSE s : s \in sessions}
    BY DEF Age
  <2>2. \A s \in sessions : [s EXCEPT !.key = NoKey].key = NoKey
    BY DEF Typed, SessionTypes, SessionRecords
  <2> QED
    BY <2>1, <2>2, CreateAssumption DEF CreateAssumption
<1>4. ASSUME NEW table \in Tables
      PROVE  /\ \A j \in Keys \ {k} : Aged(table, k)[j] = table[j]
             /\ SaysWhere(table[k], k) => SaysWhere(Aged(table, k)[k], k)
  <2>1. Aged(table, k)[k] = IF table[k] = None THEN None ELSE [table[k] EXCEPT !.old = TRUE]
    BY DEF Aged, Tables
  <2>2. table[k] # None => /\ [table[k] EXCEPT !.old = TRUE].phase = table[k].phase
                           /\ [table[k] EXCEPT !.old = TRUE].cwd = table[k].cwd
    BY DEF Tables, Records
  <2> QED
    BY <2>1, <2>2 DEF Aged, Tables, SaysWhere
<1>5. \A j \in Keys : KeySafe(j)'
  <2> TAKE j \in Keys
  <2>1. KeySafe(j)
    BY DEF CreateSafe
  <2>2. CASE j # k
    <3>1. keys'[j] = keys[j] /\ file'[j] = file[j]
      BY <1>1, <1>2, <1>4, <2>2
    <3> QED
      BY <1>3, <2>1, <3>1 DEF KeySafe
  <2>3. CASE j = k
    <3>1. SaysWhere(keys[k], k)' /\ SaysWhere(file[k], k)'
      BY <1>1, <1>2, <1>4, <2>1, <2>3 DEF KeySafe
    <3> QED
      BY <1>3, <2>3, <3>1 DEF KeySafe
  <2> QED
    BY <2>2, <2>3
<1>6. \A d \in Callers : CallSafe(d)'
  <2> TAKE d \in Callers
  <2>1. CallSafe(d) /\ KeyOf[d] \in Keys
    BY CallOfType DEF CreateSafe
  <2>2. NoneOf(KeyOf[d]) => NoneOf(KeyOf[d])'
    BY <1>3, <2>1 DEF NoneOf
  <2>3. CASE KeyOf[d] # k
    <3>1. keys'[KeyOf[d]] = keys[KeyOf[d]] /\ file'[KeyOf[d]] = file[KeyOf[d]]
      BY <1>1, <1>2, <1>4, <2>1, <2>3
    <3> QED
      BY <1>1, <2>1, <2>2, <3>1 DEF CallSafe
  <2>4. CASE KeyOf[d] = k
    <3>1. call[d].pc \in {"idle", "done"}
      BY <2>4 DEF Age
    <3> QED
      BY <1>1, <2>1, <2>2, <3>1 DEF CallSafe
  <2> QED
    BY <2>3, <2>4
<1> QED
  BY <1>5, <1>6 DEF CreateSafe

(* Sessions that die, go, or are started by hand.                           *)
LEMMA SessionsAreSafe ==
  ASSUME Typed, CreateSafe,
         \/ \E s \in sessions : Die(s) \/ Vanish(s)
         \/ \E n \in Names, d \in env.outside : StartOutside(n, d)
  PROVE  CreateSafe'
<1>1. UNCHANGED <<env, keys, file, call>>
  BY DEF Die, Vanish, StartOutside
\* Whoever is there with a key was there, once, with the same name and place.
<1>2. ASSUME NEW k \in Keys,
             \A s, t \in sessions' : s.key = k /\ t.key = k => s = t,
             \A s \in sessions' : s.key = k =>
                \E t \in sessions : t.key = k /\ t.name = s.name /\ t.cwd = s.cwd
      PROVE  KeySafe(k)'
  BY <1>1, <1>2 DEF CreateSafe, KeySafe
<1>3. ASSUME \A k \in Keys :
                /\ \A s, t \in sessions' : s.key = k /\ t.key = k => s = t
                /\ \A s \in sessions' : s.key = k =>
                      \E t \in sessions : t.key = k /\ t.name = s.name /\ t.cwd = s.cwd
      PROVE  CreateSafe'
  <2>1. \A d \in Callers : NoneOf(KeyOf[d]) => NoneOf(KeyOf[d])'
    BY <1>3, CallOfType DEF NoneOf
  <2>2. \A d \in Callers : CallSafe(d)'
    BY <1>1, <2>1 DEF CreateSafe, CallSafe
  <2> QED
    BY <1>2, <1>3, <2>2 DEF CreateSafe
<1>4. \A k \in Keys, s, t \in sessions : s.key = k /\ t.key = k => s = t
  BY DEF CreateSafe, KeySafe
<1>5. ASSUME NEW s \in sessions, Vanish(s) PROVE CreateSafe'
  BY <1>3, <1>4, <1>5 DEF Vanish
<1>6. ASSUME NEW s \in sessions, Die(s) PROVE CreateSafe'
  <2>1. PICK t : t = [s EXCEPT !.dead = TRUE]
    OBVIOUS
  <2>2. t.key = s.key /\ t.name = s.name /\ t.cwd = s.cwd
    BY <2>1 DEF Typed, SessionTypes, SessionRecords
  <2>3. sessions' = (sessions \ {s}) \cup {t}
    BY <1>6, <2>1 DEF Die
  <2> QED
    BY <1>3, <1>4, <2>2, <2>3
<1>7. ASSUME NEW n \in Names, NEW d \in env.outside, StartOutside(n, d) PROVE CreateSafe'
  <2>1. PICK id : sessions' = sessions \cup {Session(id, n, d, NoKey)}
    BY <1>7 DEF StartOutside
  <2>2. Session(id, n, d, NoKey).key \notin Keys
    BY CreateAssumption DEF CreateAssumption, Session
  <2> QED
    BY <1>3, <1>4, <2>1, <2>2
<1> QED
  BY <1>5, <1>6, <1>7

-----------------------------------------------------------------------------
(* One key, one session *)

(* No key stands for a session at first.                                    *)
LEMMA SafeAtFirst == Init => CreateSafe
<1> SUFFICES ASSUME Init PROVE CreateSafe
  OBVIOUS
<1>1. \A k \in Keys : KeySafe(k)
  BY DEF Init, KeySafe, SaysWhere
<1>2. \A c \in Callers : CallSafe(c)
  BY DEF Init, CallSafe, Idle
<1> QED
  BY <1>1, <1>2 DEF CreateSafe

(* The environment never changes.                                           *)
LEMMA EnvironmentStays ==
  ASSUME [Next]_vars PROVE UNCHANGED env
  BY DEF Next, Step, vars, Lookup, ReplayLive, ReplayEnded, ReplayUnknown, ResolveAdopts,
     ResolveFindsNothing, Release, ResolveName, Refuse, Reserve, Launch, LaunchRefused,
     LaunchFailed, Complete, Retry, CrashAndRestart, Age, Die, Vanish, StartOutside

(* Every step keeps one session to one key.                                 *)
LEMMA SafeKept ==
  ASSUME Typed, CreateSafe, Truthful, KeysOfTheirOwn, [Next]_vars
  PROVE  CreateSafe'
<1>1. CASE UNCHANGED vars
  <2>1. UNCHANGED <<env, keys, file, sessions, call>>
    BY <1>1 DEF vars
  <2> QED
    BY <2>1 DEF CreateSafe, KeySafe, CallSafe, NoneOf
<1>2. ASSUME NEW c \in Callers, Step(c) \/ Retry(c) PROVE CreateSafe'
  BY <1>2, TalkingIsSafe, RecordingIsSafe, LaunchIsSafe, RetryIsSafe DEF Step
<1> QED
  BY <1>1, <1>2, CrashIsSafe, AgeIsSafe, SessionsAreSafe DEF Next

SafeInvariant == Typed /\ (Truthful /\ KeysOfTheirOwn => CreateSafe)

(* The inductive invariant, in every state of every behaviour.              *)
LEMMA SafeInvariantHolds == Spec => []SafeInvariant
<1>1. Init => SafeInvariant
  BY TypesAtFirst, SafeAtFirst DEF SafeInvariant
<1>2. SafeInvariant /\ [Next]_vars => SafeInvariant'
  BY TypesKept, EnvironmentStays, SafeKept DEF SafeInvariant, Truthful, KeysOfTheirOwn
<1> QED
  BY <1>1, <1>2, PTL DEF Spec

(* One key has one running session however often its create is repeated and *)
(* wherever the service was cut off; a session that was launched is on disk *)
(* until it is gone; and a client told that its session has ended has none. *)
THEOREM CreatesAreAlwaysOnce == Spec => []CreatesAreOnce
<1>1. SafeInvariant => CreatesAreOnce
  <2> SUFFICES ASSUME SafeInvariant, Truthful, KeysOfTheirOwn
               PROVE  CreatesAreOnce
    BY DEF CreatesAreOnce, OneLiveSession, LaunchIsRecorded, EndedMeansEnded
  <2>1. OneLiveSession
    BY DEF SafeInvariant, CreateSafe, KeySafe, OneLiveSession
  <2>2. LaunchIsRecorded
    BY DEF SafeInvariant, CreateSafe, KeySafe, Standing, LaunchIsRecorded
  <2>3. EndedMeansEnded
    BY DEF SafeInvariant, CreateSafe, CallSafe, NoneOf, EndedMeansEnded
  <2> QED
    BY <2>1, <2>2, <2>3 DEF CreatesAreOnce
<1> QED
  BY <1>1, SafeInvariantHolds, PTL

-----------------------------------------------------------------------------
(* Adoption *)

(* The records and names, when one call steps and no session comes or goes. *)
LEMMA NamesStand ==
  ASSUME AdoptionSafe, NEW c \in Callers, NEW r, NamesItsOwn(r, KeyOf[c]),
         UNCHANGED <<env, sessions>>,
         \A k \in Keys : keys'[k] \in {keys[k], None} \/ (k = KeyOf[c] /\ keys'[k] = r),
         \A k \in Keys : file'[k] \in {file[k], keys'[k]},
         \A d \in Callers \ {c} : call'[d] = call[d],
         NameSafe(c)'
  PROVE  AdoptionSafe'
<1>1. \A q, k : NamesItsOwn(q, k) => NamesItsOwn(q, k)'
  BY DEF NamesItsOwn
<1>2. \A k : NamesItsOwn(None, k)
  BY DEF NamesItsOwn
<1>3. ASSUME NEW k \in Keys PROVE NamesItsOwn(keys'[k], k) /\ NamesItsOwn(file'[k], k)
  BY <1>2 DEF AdoptionSafe
<1>4. ASSUME NEW k \in Keys PROVE NamesItsOwn(keys[k], k)' /\ NamesItsOwn(file[k], k)'
  BY <1>3 DEF NamesItsOwn
<1>5. \A d \in Callers : NameSafe(d)'
  BY DEF AdoptionSafe, NameSafe
<1> QED
  BY <1>4, <1>5 DEF AdoptionSafe

(* A call without a name of its own claims none.                            *)
LEMMA CallsKeepNames ==
  ASSUME Typed, CreateSafe, AdoptionSafe, Truthful, NEW c \in Callers,
         Step(c) \/ Retry(c), ~Launch(c)
  PROVE  AdoptionSafe'
<1> DEFINE k == KeyOf[c]
<1>1. /\ k \in Keys /\ CallSafe(c) /\ NameSafe(c) /\ keys \in Tables
      /\ NamesItsOwn(keys[k], k)
  BY CallOfType DEF CreateSafe, AdoptionSafe, Typed, TableTypes
<1>2. UNCHANGED <<env, sessions>>
  BY DEF Step, Lookup, ReplayLive, ReplayEnded, ReplayUnknown, ResolveAdopts,
     ResolveFindsNothing, Release, ResolveName, Refuse, Reserve, Launch, LaunchRefused,
     LaunchFailed, Complete, Retry
\* What is written for the key is r, and may be saved.
<1>3. ASSUME NEW r, NEW ok, NamesItsOwn(r, k), keys' = [keys EXCEPT ![k] = r],
             file' = Saved(keys', ok), \A d \in Callers \ {c} : call'[d] = call[d], NameSafe(c)'
      PROVE  AdoptionSafe'
  <2>1. \A j \in Keys : keys'[j] \in {keys[j], None} \/ (j = KeyOf[c] /\ keys'[j] = r)
    BY <1>1, <1>3 DEF Tables
  <2>2. \A j \in Keys : file'[j] \in {file[j], keys'[j]}
    BY <1>3 DEF Saved
  <2> QED
    BY <1>2, <1>3, <2>1, <2>2, NamesStand
<1>4. ASSUME \A j \in Keys : keys'[j] \in {keys[j], None}, UNCHANGED file,
             \A d \in Callers \ {c} : call'[d] = call[d], NameSafe(c)'
      PROVE  AdoptionSafe'
  BY <1>1, <1>2, <1>4, NamesStand
<1>5. ASSUME call'[c].pc \notin Named PROVE NameSafe(c)'
  BY <1>5 DEF NameSafe
<1>6. ASSUME NEW answer, NEW id, AnswerWith(c, answer, id)
      PROVE  NameSafe(c)' /\ \A d \in Callers \ {c} : call'[d] = call[d]
  BY <1>5, <1>6, WasAnswered DEF Named
<1>7. ASSUME NEW pc, pc \notin Named, Goto(c, pc)
      PROVE  NameSafe(c)' /\ \A d \in Callers \ {c} : call'[d] = call[d]
  BY <1>5, <1>7, Went
<1>8. CASE Lookup(c)
  <2>1. /\ call'[c].pc \in {"name", "replay", "resolve"}
        /\ \A d \in Callers \ {c} : call'[d] = call[d]
    BY <1>8 DEF Lookup, Typed, CallTypes, CallRecords
  <2>2. \A j \in Keys : keys'[j] \in {keys[j], None}
    BY <1>8 DEF Lookup, Swept
  <2> QED
    BY <1>4, <1>5, <1>8, <2>1, <2>2 DEF Lookup, Named
<1>9. CASE ReplayLive(c) \/ ReplayEnded(c) \/ ReplayUnknown(c) \/ Refuse(c)
  BY <1>4, <1>6, <1>9 DEF ReplayLive, ReplayEnded, ReplayUnknown, Refuse, Answer
<1>10. CASE ResolveFindsNothing(c) \/ LaunchRefused(c)
  BY <1>4, <1>7, <1>10 DEF ResolveFindsNothing, LaunchRefused, Named
<1>11. CASE Retry(c)
  <2>1. call'[c].pc = "idle" /\ \A d \in Callers \ {c} : call'[d] = call[d]
    BY <1>11 DEF Retry, Idle, Typed, CallTypes
  <2> QED
    BY <1>4, <1>5, <1>11, <2>1 DEF Retry, Named
<1>12. CASE Release(c) \/ LaunchFailed(c)
  <2>1. NamesItsOwn(None, k)
    BY DEF NamesItsOwn
  <2>2. NameSafe(c)' /\ \A d \in Callers \ {c} : call'[d] = call[d]
    BY <1>6, <1>7, <1>12 DEF Release, LaunchFailed, Answer, Named
  <2>3. \E ok : keys' = [keys EXCEPT ![k] = None] /\ file' = Saved(keys', ok)
    BY <1>12 DEF Release, LaunchFailed
  <2> QED
    BY <1>3, <2>1, <2>2, <2>3
<1>13. CASE ResolveName(c)
  <2>1. CASE Answer(c, "error")
    BY <1>4, <1>6, <1>13, <2>1 DEF ResolveName, Answer
  <2>2. CASE \E n \in FreeNumbers(NamesIn(sessions), BaseOf[k]) :
               call' = [call EXCEPT ![c] = [@ EXCEPT !.pc = "reserve", !.name = <<BaseOf[k], n>>]]
    <3>1. PICK n \in FreeNumbers(NamesIn(sessions), BaseOf[k]) :
            call' = [call EXCEPT ![c] = [@ EXCEPT !.pc = "reserve", !.name = <<BaseOf[k], n>>]]
      BY <2>2
    <3>2. call'[c].name = <<BaseOf[k], n>> /\ \A d \in Callers \ {c} : call'[d] = call[d]
      BY <3>1 DEF Typed, CallTypes, CallRecords
    <3>3. \A s \in sessions : s.name # <<BaseOf[k], n>>
      BY DEF FreeNumbers, NamesIn
    <3>4. NameSafe(c)'
      BY <1>2, <3>2, <3>3 DEF NameSafe
    <3> QED
      BY <1>4, <1>13, <3>2, <3>4 DEF ResolveName
  <2> QED
    BY <1>13, <2>1, <2>2 DEF ResolveName, Truthful
<1>14. CASE Reserve(c)
  <2> DEFINE r == Pending(call[c].name, CwdOf[k])
  <2>1. call[c].pc = "reserve" /\ c \in env.callers
    BY <1>1, <1>14 DEF Reserve, CallSafe
  <2>2. NamesItsOwn(r, k)
    BY <1>1, <2>1 DEF NamesItsOwn, NameSafe, Named, Pending
  <2>3. PICK ok \in SaveOutcomes :
          /\ keys' = [keys EXCEPT ![k] = r] /\ file' = Saved(keys', ok)
          /\ IF ok THEN Goto(c, "launch") ELSE AnswerWith(c, "error", 0)
    BY <1>14 DEF Reserve, Answer
  <2>4. CASE Goto(c, "launch")
    <3>1. call'[c].name = call[c].name /\ \A d \in Callers \ {c} : call'[d] = call[d]
      BY <2>4, Went
    <3>2. NameSafe(c)'
      BY <1>1, <1>2, <2>1, <3>1 DEF NameSafe, Named
    <3> QED
      BY <1>3, <2>2, <2>3, <3>1, <3>2
  <2> QED
    BY <1>3, <1>6, <2>2, <2>3, <2>4
<1>15. CASE Complete(c)
  <2> DEFINE r == Completed(call[c].name)
  <2>1. call[c].pc = "complete" /\ c \in env.callers
    BY <1>1, <1>15 DEF Complete, CallSafe
  <2>2. NamesItsOwn(r, k)
    BY <1>1, <2>1 DEF NamesItsOwn, NameSafe, Named, Completed
  <2>3. \E ok, answer : /\ keys' = [keys EXCEPT ![k] = r] /\ file' = Saved(keys', ok)
                        /\ AnswerWith(c, answer, 0)
    BY <1>15 DEF Complete, Answer
  <2> QED
    BY <1>3, <1>6, <2>2, <2>3
<1>16. CASE ResolveAdopts(c)
  <2>1. PICK s \in Matching(call[c].rec) :
          \E ok : /\ keys' = [keys EXCEPT ![k] = Completed(s.name)] /\ file' = Saved(keys', ok)
                  /\ AnswerWith(c, "adopted", s.id)
    BY <1>16 DEF ResolveAdopts
  <2>2. s.name = keys[k].name /\ keys[k] # None
    BY <1>1, <1>16 DEF ResolveAdopts, CallSafe, Matching, Holding
  <2>3. NamesItsOwn(Completed(s.name), k)
    BY <1>1, <2>2 DEF NamesItsOwn, Completed
  <2> QED
    BY <1>3, <1>6, <2>1, <2>3
<1> QED
  BY <1>8, <1>9, <1>10, <1>11, <1>12, <1>13, <1>14, <1>15, <1>16 DEF Step

(* A session that starts: of a key, in its directory and under a name from  *)
(* its base; or of nobody, in a directory that no key asks for.             *)
LEMMA NewcomersStandApart ==
  ASSUME Typed, CreateSafe, AdoptionSafe, PlacesOfTheirOwn, NEW id, NEW name, NEW cwd, NEW key,
         id = started + 1, sessions' = sessions \cup {Session(id, name, cwd, key)},
         UNCHANGED <<env, keys, file>>,
         \/ /\ \E c \in env.callers : key = KeyOf[c]
            /\ key \in Keys /\ cwd = CwdOf[key] /\ name[1] = BaseOf[key]
         \/ cwd \in env.outside,
         \A d \in Callers : call'[d].pc \in Named =>
            call'[d].name = call[d].name /\ call[d].pc \in Named
  PROVE  AdoptionSafe'
<1>1. PICK new : new = Session(id, name, cwd, key)
  OBVIOUS
<1>2. new.id = id /\ new.name = name /\ new.cwd = cwd /\ new.key = key
  BY <1>1 DEF Session
<1>3. sessions' = sessions \cup {new}
  BY <1>1
<1>4. \A s, t \in sessions' : s.id = t.id => s = t
  <2>1. started \in Nat /\ \A s \in sessions : s.id \in 1 .. started
    BY DEF Typed, SessionTypes, SessionRecords
  <2>2. \A s \in sessions : s.id # id
    BY <2>1
  <2> QED
    BY <1>2, <1>3, <2>2 DEF AdoptionSafe
\* Nobody else's name and directory.
<1>5. ASSUME NEW k \in Keys, \E c \in env.callers : KeyOf[c] = k, NEW n, n[1] = BaseOf[k],
             new.name = n, new.cwd = CwdOf[k]
      PROVE  new.key = k
  BY <1>2, <1>5 DEF PlacesOfTheirOwn
<1>6. ASSUME NEW k \in Keys, NEW r, NamesItsOwn(r, k)
      PROVE  NamesItsOwn(r, k)'
  BY <1>3, <1>5, <1>6 DEF NamesItsOwn
<1>7. ASSUME NEW k \in Keys
      PROVE  NamesItsOwn(keys[k], k)' /\ NamesItsOwn(file[k], k)'
  <2>1. NamesItsOwn(keys[k], k) /\ NamesItsOwn(file[k], k)
    BY DEF AdoptionSafe
  <2> QED
    BY <1>3, <1>5, <2>1 DEF NamesItsOwn
<1>8. ASSUME NEW d \in Callers PROVE NameSafe(d)'
  <2>1. call[d].pc \in Named => d \in env.callers /\ KeyOf[d] \in Keys
    BY CallOfType DEF CreateSafe, CallSafe, Named
  <2> QED
    BY <1>3, <1>5, <2>1 DEF AdoptionSafe, NameSafe
<1> QED
  BY <1>4, <1>7, <1>8 DEF AdoptionSafe

(* Sessions that go, die, or are no longer their key's.                     *)
LEMMA LeaversStandApart ==
  ASSUME Typed, AdoptionSafe, UNCHANGED <<env, keys, file, call>>,
         \E s \in sessions : Die(s) \/ Vanish(s)
  PROVE  AdoptionSafe'
<1>1. \A s \in sessions' : \E t \in sessions :
        t.id = s.id /\ t.name = s.name /\ t.cwd = s.cwd /\ t.key = s.key
  BY DEF Die, Vanish, Typed, SessionTypes, SessionRecords
<1>2. \A s, t \in sessions' : s.id = t.id => s = t
  <2>1. ASSUME NEW u \in sessions, Vanish(u) PROVE \A s, t \in sessions' : s.id = t.id => s = t
    BY <2>1 DEF Vanish, AdoptionSafe
  <2>2. ASSUME NEW u \in sessions, Die(u) PROVE \A s, t \in sessions' : s.id = t.id => s = t
    <3>1. PICK v : v = [u EXCEPT !.dead = TRUE]
      OBVIOUS
    <3>2. v.id = u.id
      BY <3>1 DEF Typed, SessionTypes, SessionRecords
    <3>3. sessions' = (sessions \ {u}) \cup {v}
      BY <2>2, <3>1 DEF Die
    <3> QED
      BY <3>2, <3>3 DEF AdoptionSafe
  <2> QED
    BY <2>1, <2>2
<1>3. ASSUME NEW k \in Keys
      PROVE  NamesItsOwn(keys[k], k)' /\ NamesItsOwn(file[k], k)'
  <2>1. NamesItsOwn(keys[k], k) /\ NamesItsOwn(file[k], k)
    BY DEF AdoptionSafe
  <2> QED
    BY <1>1, <2>1 DEF NamesItsOwn
<1>4. \A d \in Callers : NameSafe(d)'
  BY <1>1 DEF AdoptionSafe, NameSafe
<1> QED
  BY <1>2, <1>3, <1>4 DEF AdoptionSafe

(* A key whose record is old no longer asks for its sessions.               *)
LEMMA AgedStandApart ==
  ASSUME Typed, AdoptionSafe, NEW k \in Keys, Age(k)
  PROVE  AdoptionSafe'
<1>1. UNCHANGED <<env, call>> /\ keys' = Aged(keys, k) /\ file' = Aged(file, k)
  BY DEF Age
<1>2. keys \in Tables /\ file \in Tables
  BY DEF Typed, TableTypes
<1>3. \A s \in sessions' : \E t \in sessions :
        /\ t.id = s.id /\ t.name = s.name /\ t.cwd = s.cwd
        /\ s = IF t.key = k THEN [t EXCEPT !.key = NoKey] ELSE t
  BY DEF Age, Typed, SessionTypes, SessionRecords
<1>4. \A s, t \in sessions' : s.id = t.id => s = t
  BY <1>3 DEF AdoptionSafe
<1>5. ASSUME NEW j \in Keys \ {k}, NEW n, NEW w,
             \A s \in sessions : s.name = n /\ s.cwd = w => s.key = j
      PROVE  \A s \in sessions' : s.name = n /\ s.cwd = w => s.key = j
  BY <1>3, <1>5
<1>6. ASSUME NEW table \in Tables, NEW j \in Keys, NamesItsOwn(table[j], j)
      PROVE  NamesItsOwn(Aged(table, k)[j], j)'
  <2>1. CASE j # k
    <3>1. Aged(table, k)[j] = table[j]
      BY <2>1 DEF Aged, Tables
    <3>2. ASSUME NEW q, NamesItsOwn(q, j) PROVE NamesItsOwn(q, j)'
      BY <1>1, <1>5, <2>1, <3>2 DEF NamesItsOwn
    <3> QED
      BY <1>6, <3>1, <3>2
  <2>2. CASE j = k
    <3>1. Aged(table, k)[k] = IF table[k] = None THEN None ELSE [table[k] EXCEPT !.old = TRUE]
      BY DEF Aged, Tables
    <3>2. table[k] # None => /\ [table[k] EXCEPT !.old = TRUE].name = table[k].name
                             /\ [table[k] EXCEPT !.old = TRUE].old
      BY DEF Tables, Records
    <3> QED
      BY <1>1, <1>6, <2>2, <3>1, <3>2 DEF NamesItsOwn
  <2> QED
    BY <2>1, <2>2
<1>7. ASSUME NEW j \in Keys
      PROVE  NamesItsOwn(keys[j], j)' /\ NamesItsOwn(file[j], j)'
  BY <1>1, <1>2, <1>6 DEF AdoptionSafe
<1>8. ASSUME NEW d \in Callers PROVE NameSafe(d)'
  <2>1. KeyOf[d] = k => call[d].pc \notin Named
    BY DEF Age, Named
  <2>2. KeyOf[d] \in Keys /\ NameSafe(d)
    BY CallOfType DEF AdoptionSafe
  <2> QED
    BY <1>1, <1>5, <2>1, <2>2 DEF NameSafe
<1> QED
  BY <1>4, <1>7, <1>8 DEF AdoptionSafe

(* A restart of the service reads what was written, and no call survives    *)
(* it.                                                                      *)
LEMMA RestartStandsApart ==
  ASSUME AdoptionSafe, CrashAndRestart
  PROVE  AdoptionSafe'
<1>1. UNCHANGED <<env, sessions>> /\ keys' = Swept(file) /\ file' = Swept(file)
  BY DEF CrashAndRestart
<1>2. \A d \in Callers : call'[d].pc = "done"
  BY DEF CrashAndRestart, Idle
<1>3. ASSUME NEW k \in Keys
      PROVE  NamesItsOwn(keys[k], k)' /\ NamesItsOwn(file[k], k)'
  <2>1. Swept(file)[k] \in {None, file[k]}
    BY DEF Swept
  <2> QED
    BY <1>1, <2>1 DEF AdoptionSafe, NamesItsOwn
<1>4. \A d \in Callers : NameSafe(d)'
  BY <1>2 DEF NameSafe, Named
<1> QED
  BY <1>1, <1>3, <1>4 DEF AdoptionSafe

(* Every step keeps the sessions that are adopted those of their own keys.  *)
LEMMA AdoptionKept ==
  ASSUME Typed, CreateSafe, AdoptionSafe, Truthful, PlacesOfTheirOwn, [Next]_vars
  PROVE  AdoptionSafe'
<1>1. CASE UNCHANGED vars
  <2>1. UNCHANGED <<env, keys, file, sessions, call>>
    BY <1>1 DEF vars
  <2> QED
    BY <2>1 DEF AdoptionSafe, NamesItsOwn, NameSafe
<1>2. ASSUME NEW c \in Callers, Launch(c) PROVE AdoptionSafe'
  <2>1. call[c].pc = "launch" /\ c \in env.callers /\ KeyOf[c] \in Keys
    BY <1>2, CallOfType DEF CreateSafe, CallSafe, Launch
  <2>2. call[c].name[1] = BaseOf[KeyOf[c]]
    BY <2>1 DEF AdoptionSafe, NameSafe, Named
  <2>3. PICK pc \in {"complete", "failed"} : Goto(c, pc)
    BY <1>2 DEF Launch
  <2>4. \A d \in Callers : call'[d].pc \in Named =>
           call'[d].name = call[d].name /\ call[d].pc \in Named
    BY <2>1, <2>3, Went DEF Named
  <2>5. /\ sessions' = sessions \cup {Session(started + 1, call[c].name, CwdOf[KeyOf[c]], KeyOf[c])}
        /\ UNCHANGED <<env, keys, file>>
    BY <1>2 DEF Launch
  <2> QED
    BY <2>1, <2>2, <2>4, <2>5, NewcomersStandApart
<1>3. ASSUME NEW n \in Names, NEW d \in env.outside, StartOutside(n, d) PROVE AdoptionSafe'
  <2>1. /\ sessions' = sessions \cup {Session(started + 1, n, d, NoKey)}
        /\ UNCHANGED <<env, keys, file, call>>
    BY <1>3 DEF StartOutside
  <2> QED
    BY <2>1, NewcomersStandApart
<1>4. ASSUME NEW c \in Callers, Step(c) \/ Retry(c) PROVE AdoptionSafe'
  BY <1>2, <1>4, CallsKeepNames
<1>5. ASSUME NEW s \in sessions, Die(s) \/ Vanish(s) PROVE AdoptionSafe'
  BY <1>5, LeaversStandApart DEF Die, Vanish
<1> QED
  BY <1>1, <1>3, <1>4, <1>5, AgedStandApart, RestartStandsApart DEF Next

(* Nobody is answered "adopted" but by the adoption, of a session that has  *)
(* the name and the directory of the record: it is the key's own.           *)
LEMMA AdoptsOwn ==
  ASSUME Typed, CreateSafe, AdoptionSafe, Truthful, [Next]_vars
  PROVE  \A c \in Callers, s \in sessions :
            Answered(c, "adopted") /\ s.id = call'[c].got => s.key = KeyOf[c]
<1> SUFFICES ASSUME NEW c \in Callers, NEW s \in sessions, Answered(c, "adopted"),
                    s.id = call'[c].got
             PROVE  s.key = KeyOf[c]
  OBVIOUS
<1>1. ResolveAdopts(c)
  <2>1. call'[c].answer = "adopted" /\ call'[c].answer # call[c].answer
    BY DEF Answered
  <2>2. call' # call
    BY <2>1
  <2>3. \A d \in Callers : (\E pc : Goto(d, pc)) => call'[c].answer = call[c].answer
    BY Went
  <2>4. \A answer, id : \A d \in Callers :
          AnswerWith(d, answer, id) => d = c /\ answer = "adopted"
    BY <2>1, WasAnswered
  <2>5. PICK d \in Callers : Step(d) \/ Retry(d)
    BY <2>1, <2>2 DEF Next, vars, CrashAndRestart, Idle, Age, Die, Vanish, StartOutside
  <2>6. ~Retry(d)
    BY <2>1 DEF Retry, Idle, Typed, CallTypes
  <2>7. ~Lookup(d)
    <3>1. ASSUME NEW r, NEW pc, call' = [call EXCEPT ![d] = [@ EXCEPT !.rec = r, !.pc = pc]]
          PROVE  call'[c].answer = call[c].answer
      BY <3>1 DEF Typed, CallTypes, CallRecords
    <3>2. ASSUME Lookup(d)
          PROVE  \E pc \in {"name", "replay", "resolve"} :
                    call' = [call EXCEPT ![d] = [@ EXCEPT !.rec = Swept(keys)[KeyOf[d]], !.pc = pc]]
      BY <3>2 DEF Lookup
    <3> QED
      BY <2>1, <3>1, <3>2
  <2>8. ~ReplayLive(d) /\ ~ReplayEnded(d) /\ ~ReplayUnknown(d) /\ ~Refuse(d) /\ ~LaunchFailed(d)
    BY <2>4 DEF ReplayLive, ReplayEnded, ReplayUnknown, Refuse, LaunchFailed, Answer
  <2>9. ~ResolveFindsNothing(d) /\ ~Release(d) /\ ~Launch(d) /\ ~LaunchRefused(d)
    BY <2>1, <2>3 DEF ResolveFindsNothing, Release, Launch, LaunchRefused
  <2>10. ~Reserve(d)
    BY <2>1, <2>3, <2>4 DEF Reserve, Answer
  <2>11. ~Complete(d)
    BY <2>4 DEF Complete, Answer
  <2>12. ~ResolveName(d)
    <3>1. ASSUME NEW n, call' = [call EXCEPT ![d] = [@ EXCEPT !.pc = "reserve", !.name = n]]
          PROVE  call'[c].answer = call[c].answer
      BY <3>1 DEF Typed, CallTypes, CallRecords
    <3>2. ~Answer(d, "error")
      BY <2>4 DEF Answer
    <3>3. ASSUME ResolveName(d)
          PROVE  \E n : call' = [call EXCEPT ![d] = [@ EXCEPT !.pc = "reserve", !.name = n]]
      BY <3>2, <3>3 DEF ResolveName
    <3> QED
      BY <2>1, <3>1, <3>3
  <2>13. ResolveAdopts(d)
    BY <2>5, <2>6, <2>7, <2>8, <2>9, <2>10, <2>11, <2>12 DEF Step
  <2> QED
    BY <2>4, <2>13 DEF ResolveAdopts
<1>2. PICK t \in Matching(call[c].rec) : AnswerWith(c, "adopted", t.id)
  BY <1>1 DEF ResolveAdopts
<1>3. t \in sessions /\ t.id = s.id
  BY <1>2, WasAnswered DEF Matching, Holding
<1>4. t = s
  BY <1>3 DEF AdoptionSafe
<1>5. KeyOf[c] \in Keys /\ call[c].pc = "resolve" /\ CallSafe(c)
  BY <1>1, CallOfType DEF CreateSafe, ResolveAdopts
<1>6. /\ call[c].rec = keys[KeyOf[c]] /\ keys[KeyOf[c]] # None
      /\ ~keys[KeyOf[c]].old /\ keys[KeyOf[c]].phase = "pending"
  BY <1>5 DEF CallSafe
<1>7. keys[KeyOf[c]].cwd = CwdOf[KeyOf[c]]
  BY <1>5, <1>6 DEF CreateSafe, KeySafe, SaysWhere
<1> QED
  BY <1>2, <1>4, <1>5, <1>6, <1>7 DEF AdoptionSafe, NamesItsOwn, Matching, Holding

AdoptionInvariant ==
    SafeInvariant /\ (Truthful /\ KeysOfTheirOwn /\ PlacesOfTheirOwn => AdoptionSafe)

(* A client is never handed, by adoption, a session its key did not start.  *)
THEOREM NeverAdoptsAnothers == Spec => AdoptsItsOwn
<1>1. Init => AdoptionInvariant
  <2>1. Init => AdoptionSafe
    BY DEF Init, AdoptionSafe, NamesItsOwn, NameSafe, Named, Idle
  <2> QED
    BY <2>1, TypesAtFirst, SafeAtFirst DEF AdoptionInvariant, SafeInvariant
<1>2. AdoptionInvariant /\ [Next]_vars => AdoptionInvariant'
  BY TypesKept, EnvironmentStays, SafeKept, AdoptionKept
     DEF AdoptionInvariant, SafeInvariant, Truthful, KeysOfTheirOwn, PlacesOfTheirOwn
<1>3. AdoptionInvariant /\ [Next]_vars => [AdoptedIsItsOwn]_vars
  BY AdoptsOwn DEF AdoptionInvariant, SafeInvariant, AdoptedIsItsOwn
<1> QED
  BY <1>1, <1>2, <1>3, PTL DEF Spec, AdoptsItsOwn
==============================================================================
