--------------------------- MODULE SessionHistory ---------------------------
(***************************************************************************)
(* Closed-session records: internal/service/history.go, with the parts of  *)
(* ListSessions and of the HTTP handlers that feed it.                     *)
(*                                                                         *)
(* The store keeps one seen record per session it has met and turns it     *)
(* into a tombstone when it learns, in one of several ways, that the       *)
(* session ended. Every entry below is one critical section of             *)
(* historyStore.mu.                                                        *)
(*                                                                         *)
(* A record's LastSeen is compared only with the listedAt of a listing     *)
(* under way, so a record holds the listings that were under way when it   *)
(* was last sighted: those requested before its LastSeen.                  *)
(***************************************************************************)
EXTENDS LiveSessions, Bags

CONSTANTS
    Sweep       \* the lister that is the service's own sweep

(***************************************************************************)
(* An environment also has                                                 *)
(*   surprises  what a session may meet or be: a new session an earlier    *)
(*              run's "dated" or "undated" record under its id, a renamed  *)
(*              one either ("renamed"); a session on record without its    *)
(*              startedAt may be renamed past the service or closed in     *)
(*              vain ("early")                                             *)
(*   accepts    bound: closes that are accepted and do not take            *)
(*   crashes    bound: restarts of the service                             *)
(***************************************************************************)
ASSUME HistoryAssumption ==
    /\ Sweep \in Lister
    /\ \A e \in Environments :
          /\ e.surprises \subseteq {"dated", "undated", "renamed", "early"}
          /\ {e.accepts, e.crashes} \subseteq Nat

VARIABLES
    seen,       \* id -> its record, or None
    closed,     \* the tombstones, a bag
    watched,    \* the ids the driver's event stream last read
    stirred,    \* the multiplexer has notified the stream of a change
    streamTold, \* the stream has a session.closed event the service has not drained
    again,      \* sweepAgain
    accepts,    \* closes that did not take so far
    crashes     \* restarts so far

store == <<seen, closed>>
feed == <<watched, stirred, streamTold, again>>
historyVars == <<live, store, feed, accepts, crashes>>

\* known: the record has its run's startedAt.
Records == [run : Runs, known : BOOLEAN, after : SUBSET Lister]

\* run is the run the tombstone describes and "of" the one whose end it was
\* written for; dated: it carries startedAt.
Tombstones == [id : Ids, run : Runs, of : Runs, by : {"close", "absent", "exit"},
               dated : BOOLEAN]

HistoryTypeOK ==
    /\ LiveTypeOK
    /\ seen \in [Ids -> Records \cup {None}]
    /\ BagToSet(closed) \subseteq Tombstones
    /\ watched \subseteq Ids
    /\ {stirred, streamTold, again} \subseteq BOOLEAN
    /\ accepts \in 0..env.accepts
    /\ crashes \in 0..env.crashes

HistoryInit ==
    /\ LiveInit
    /\ seen = [id \in Ids |-> None]
    /\ closed = EmptyBag
    /\ watched = {} /\ stirred = FALSE
    /\ streamTold = FALSE
    /\ again = TRUE     \* cmd/muster sweeps at start-up
    /\ accepts = 0 /\ crashes = 0

-----------------------------------------------------------------------------
\* A sighting, now: every listing under way was requested before.
Sighted(r, known) == [run |-> r, known |-> known, after |-> Active]

\* Mutant: the start times are not compared.
SameAny(r, s) == TRUE

Same(r, s) == StartOf[r] = StartOf[s]

\* sightLocked: a record takes the start time it is shown, and keeps its own
\* when it is shown none.
Sight(rec, r, known) ==
    IF rec = None \/ (known /\ ~(rec.known /\ Same(rec.run, r)))
    THEN Sighted(r, known)
    ELSE Sighted(rec.run, rec.known)

\* tombstoneLocked and tombstoneExitLocked, for the end of run r under id; a
\* session with no record gets an empty one.
Stone(rec, id, r, by) ==
    IF rec = None
    THEN [id |-> id, run |-> r, of |-> r, by |-> by, dated |-> FALSE]
    ELSE [id |-> id, run |-> rec.run, of |-> r, by |-> by, dated |-> rec.known]

\* Mutant: no tombstone is taken back.
NeverWithdrawn(id, r) == {}

\* withdrawLocked: the tombstone a sighting of run r under id takes back.
Withdrawn(id, r) ==
    LET false == {t \in BagToSet(closed) :
                     /\ t.by = "close" /\ t.dated
                     /\ t.id = id
                     /\ Same(t.run, r)}
    IN  IF false = {} THEN {} ELSE {CHOOSE t \in false : TRUE}

\* carryIndex, over all the missing records of one listing: a record goes with
\* the only newly listed session that has its start time; of several records
\* that could go with one, one does, in no fixed order.
Carries(missing, rec, fresh) ==
    LET can == {id \in missing :
                   /\ rec[id].known
                   /\ Cardinality({i \in fresh : Same(i.run, rec[id].run)}) = 1}
    IN  {c \in SUBSET can :
            /\ \A a, b \in c : Same(rec[a].run, rec[b].run) => a = b
            /\ \A a \in can : \E b \in c : Same(rec[a].run, rec[b].run)}

-----------------------------------------------------------------------------
(* What happens to sessions, and the driver's word of it. The multiplexer  *)
(* notifies the stream when a session comes, goes or changes its name; a   *)
(* process that exits under remain-on-exit is not notified.                *)

Notified == stirred' = TRUE /\ UNCHANGED <<watched, streamTold, again, store, accepts, crashes>>

\* A new session may meet the record of a run that held its id before.
Reusable(id) ==
    seen[id] # None => (IF seen[id].known THEN "dated" ELSE "undated") \in env.surprises

Free(id) == seen[id] # None => "renamed" \in env.surprises

Dated(id) == "early" \in env.surprises \/ (seen[id] # None => seen[id].known)

Create(id, r) ==
    /\ Reusable(id)
    /\ DriverCreates(id, r)
    /\ Notified

Appear(id, r) == Reusable(id) /\ Appears(id, r) /\ Notified

Close(id) == DriverCloses(id) /\ Notified

\* The driver accepts a close and the session stays.
CloseInVain(id) ==
    /\ Dated(id)
    /\ accepts < env.accepts
    /\ Settled
    /\ at[id] # None
    /\ owed' = owed \cup {[op |-> "close", id |-> id, run |-> at[id]]}
    /\ accepts' = accepts + 1
    /\ UNCHANGED <<env, at, born, ours, dead, list, captured, store, feed, crashes>>

RenameSession(from, to) == Free(to) /\ DriverRenames(from, to) /\ Notified

MoveAside(from, to) == Free(to) /\ Dated(from) /\ Moves(from, to) /\ Notified

Exit(id) == Exits(id) /\ UNCHANGED <<store, feed, accepts, crashes>>

Vanish(id) == Vanishes(id) /\ Notified

\* A read of one session, which asks the driver for a listing.
OtherListing == ListedElsewhere /\ dead # {} /\ Notified

\* eventStream.run: after a notification, one listing, compared by id with
\* the one before. What that listing removes is notified in its turn.
StreamRead ==
    LET now == {id \in Ids : at[id] \notin dead \cup {None}} IN
    /\ stirred
    /\ ListedElsewhere
    /\ watched' = now
    /\ streamTold' = (streamTold \/ watched \ now # {})
    /\ stirred' = (dead # {})
    /\ UNCHANGED <<again, store, accepts, crashes>>

-----------------------------------------------------------------------------
(* The handlers' notes.                                                    *)

Tell(n) ==
    /\ n \in owed
    /\ owed' = owed \ {n}
    /\ UNCHANGED <<env, at, born, ours, dead, list, captured, feed, accepts, crashes>>

\* created: no driver's Create reports startedAt.
NoteCreated(n) ==
    /\ n.op = "create"
    /\ Tell(n)
    /\ seen' = [seen EXCEPT ![n.id] = Sight(@, n.run, FALSE)]
    /\ UNCHANGED closed

\* renamed
NoteRenamed(n) ==
    /\ n.op = "rename"
    /\ Tell(n)
    /\ seen' = IF seen[n.id] = None THEN seen
               ELSE [seen EXCEPT ![n.id] = None, ![n.to] = seen[n.id]]
    /\ UNCHANGED closed

\* Mutant: the record of the closed session stays.
NoteClosedKeeps(n) ==
    /\ n.op = "close"
    /\ Tell(n)
    /\ closed' = closed (+) SetToBag({Stone(seen[n.id], n.id, n.run, "close")})
    /\ UNCHANGED seen

\* closedByRequest
NoteClosed(n) ==
    /\ n.op = "close"
    /\ Tell(n)
    /\ seen' = [seen EXCEPT ![n.id] = None]
    /\ closed' = closed (+) SetToBag({Stone(seen[n.id], n.id, n.run, "close")})

Note(n) == NoteCreated(n) \/ NoteRenamed(n) \/ NoteClosed(n)

-----------------------------------------------------------------------------
(* Listings.                                                               *)

Asks(l) ==
    /\ Ask(l)
    /\ seen' = [id \in Ids |-> IF seen[id] = None THEN None
                               ELSE [seen[id] EXCEPT !.after = @ \ {l}]]
    /\ UNCHANGED <<closed, watched, stirred, accepts, crashes>>

\* A caller's GET /v1/sessions.
Request(l) == l # Sweep /\ Asks(l) /\ UNCHANGED <<streamTold, again>>

\* Mutant: an event that arrives while a sweep runs asks for nothing.
RequestSweepOnce ==
    /\ streamTold
    /\ streamTold' = FALSE
    /\ IF list[Sweep].phase = "idle" /\ ~again
       THEN Asks(Sweep) /\ UNCHANGED again
       ELSE UNCHANGED <<live, store, watched, stirred, again, accepts, crashes>>

\* requestSweep, for one drained session.closed event: one sweep at a time,
\* and one more when an event arrives while it runs.
RequestSweep ==
    /\ streamTold
    /\ streamTold' = FALSE
    /\ IF list[Sweep].phase = "idle" /\ ~again
       THEN Asks(Sweep) /\ UNCHANGED again
       ELSE /\ again' = TRUE
            /\ UNCHANGED <<live, store, watched, stirred, accepts, crashes>>

SweepAgain ==
    /\ again
    /\ Asks(Sweep)
    /\ again' = FALSE
    /\ UNCHANGED streamTold

Listing(l) ==
    /\ Enumerate(l) \/ Drain(l)
    /\ UNCHANGED <<store, feed, accepts, crashes>>

Reaping(l) ==
    /\ Reap(l)
    /\ stirred' = (stirred \/ at' # at)
    /\ UNCHANGED <<watched, streamTold, again, store, accepts, crashes>>

\* The record of every id after the captured exits and the listed items, and
\* before absence is looked at; "late" are the sessions listed under an id
\* that a run with another start time had.
AfterExits(l) ==
    [id \in Ids |-> IF \E e \in list[l].exits : e.id = id THEN None ELSE seen[id]]

Fresh(l) == {i \in list[l].items : AfterExits(l)[i.id] = None}

Late(l) == {i \in list[l].items \ Fresh(l) :
               LET rec == AfterExits(l)[i.id] IN rec.known /\ ~Same(rec.run, i.run)}

AfterItems(l) ==
    [id \in Ids |->
        IF \E i \in list[l].items \ Fresh(l) : i.id = id
        THEN Sight(AfterExits(l)[id], (CHOOSE i \in list[l].items : i.id = id).run, TRUE)
        ELSE AfterExits(l)[id]]

\* Mutant: a listing that is not complete makes a record missing.
MissingFromAny(l) ==
    {id \in Ids :
        /\ AfterItems(l)[id] # None
        /\ ~\E i \in list[l].items : i.id = id
        /\ l \notin AfterItems(l)[id].after}

\* Only a complete listing makes a record missing, and only one last sighted
\* before the listing was requested.
Missing(l) ==
    {id \in Ids :
        /\ list[l].complete
        /\ AfterItems(l)[id] # None
        /\ ~\E i \in list[l].items : i.id = id
        /\ l \notin AfterItems(l)[id].after}

\* Of two exits captured under one id, the first takes the record.
ExitStones(l) ==
    {LET rec == IF e = CHOOSE x \in list[l].exits : x.id = e.id THEN seen[e.id] ELSE None
     IN  Stone(rec, e.id, e.run, "exit") : e \in list[l].exits}

\* observe
ObserveListing(l) ==
    LET rec == AfterItems(l)
        fresh == Fresh(l)
        missing == Missing(l)
        heir(id) == CHOOSE i \in fresh : Same(i.run, rec[id].run)
        back == UNION {Withdrawn(i.id, i.run) : i \in list[l].items}
    IN
    /\ NothingOwed
    /\ list[l].phase = "ready"
    /\ \E carry \in Carries(missing, rec, fresh) :
          LET taken == {heir(id) : id \in carry}
              lost == {Stone(rec[id], id, rec[id].run, "absent") : id \in missing \ carry}
              replaced == {LET old == AfterExits(l)[i.id] IN Stone(old, i.id, old.run, "absent") :
                                 i \in Late(l)}
          IN  /\ seen' =
                    [id \in Ids |->
                        IF \E c \in carry : heir(c).id = id
                        THEN rec[CHOOSE c \in carry : heir(c).id = id]
                        ELSE IF \E i \in fresh \ taken : i.id = id
                        THEN Sighted((CHOOSE i \in fresh : i.id = id).run, TRUE)
                        ELSE IF id \in missing THEN None ELSE rec[id]]
              /\ closed' = (closed (-) SetToBag(back))
                              (+) SetToBag(ExitStones(l)) (+) SetToBag(replaced \cup lost)
    /\ Answered(l)
    /\ UNCHANGED <<env, at, born, ours, dead, owed, captured, feed, accepts, crashes>>

-----------------------------------------------------------------------------
\* Mutant: the seen records are not persisted.
RestartForgets ==
    /\ NothingOwed
    /\ crashes < env.crashes
    /\ crashes' = crashes + 1
    /\ owed' = {}
    /\ list' = [l \in Lister |-> Idle]
    /\ captured' = {}
    /\ seen' = [id \in Ids |-> None]
    /\ watched' = {id \in Ids : at[id] # None}
    /\ stirred' = FALSE
    /\ streamTold' = FALSE
    /\ again' = TRUE
    /\ UNCHANGED <<env, at, born, ours, dead, closed, accepts>>

\* The service restarts: what it was doing and the exits the driver had not
\* handed over are lost; the document is not. The new stream starts from what
\* it finds, and cmd/muster sweeps once.
RestartService ==
    /\ NothingOwed
    /\ crashes < env.crashes
    /\ crashes' = crashes + 1
    /\ owed' = {}
    /\ list' = [l \in Lister |-> Idle]
    /\ captured' = {}
    /\ seen' = [id \in Ids |-> IF seen[id] = None THEN None
                               ELSE [seen[id] EXCEPT !.after = {}]]
    /\ watched' = {id \in Ids : at[id] # None}
    /\ stirred' = FALSE
    /\ streamTold' = FALSE
    /\ again' = TRUE
    /\ UNCHANGED <<env, at, born, ours, dead, closed, accepts>>

HistoryNext ==
    \/ \E id \in Ids, r \in Runs : Create(id, r) \/ Appear(id, r)
    \/ \E id \in Ids : Close(id) \/ CloseInVain(id) \/ Exit(id) \/ Vanish(id)
    \/ \E from, to \in Ids : RenameSession(from, to) \/ MoveAside(from, to)
    \/ OtherListing
    \/ StreamRead
    \/ \E n \in owed : Note(n)
    \/ \E l \in Lister : Request(l) \/ Listing(l) \/ Reaping(l) \/ ObserveListing(l)
    \/ RequestSweep
    \/ SweepAgain
    \/ RestartService

HistorySpec == HistoryInit /\ [][HistoryNext]_historyVars

\* What the service and the driver do on their own account goes on; nobody has
\* to ask for a listing, and a stream is open: somebody is subscribed.
HistoryFairness ==
    /\ WF_historyVars(StreamRead)
    /\ WF_historyVars(RequestSweep)
    /\ WF_historyVars(SweepAgain)
    /\ WF_historyVars(Listing(Sweep))
    /\ WF_historyVars(Reaping(Sweep))
    /\ WF_historyVars(ObserveListing(Sweep))
    /\ WF_historyVars(\E n \in owed : Note(n))

HistoryFairSpec == HistorySpec /\ HistoryFairness

-----------------------------------------------------------------------------
(* Properties                                                              *)

Stands(r) == \E id \in Ids : at[id] = r

\* Nobody renames past the service, no new session meets an old record, no
\* close is accepted in vain and no listing is overtaken. README.md says, for
\* each, what the code does to the properties that ask for it.
Orderly ==
    "rename" \notin env.outside /\ env.surprises = {} /\ env.accepts = 0 /\ ~env.lag

Written(r) == {t \in BagToSet(closed) : t.of = r}

\* "one tombstone per closed session" (docs/adr/179, "one record per local
\* session that ended" in api-http.md): however an end is learned, and from
\* however many sides, it is recorded once.
OneRecord ==
    Orderly /\ env.gap = {} => \A r \in Runs :
                  /\ Cardinality(Written(r)) <= 1
                  /\ \A t \in Written(r) : CopiesIn(t, closed) = 1

\* A tombstone describes the session whose end it was written for.
RightRun == Orderly => \A t \in BagToSet(closed) : t.run = t.of

\* A session that is there has no record of its end: not one of its absence,
\* whether it was renamed, or created while a listing that does not show it was
\* on its way, or left out by a filtered or partial listing; and no other one
\* either, if nobody renames past the service and no close is accepted in vain.
\* Where listings are overtaken, there is one id: see README.md on renames.
LivingHaveNone ==
    \A t \in BagToSet(closed) :
        /\ env.gap \subseteq {"close"}
        /\ env.lag => Cardinality(env.ids) = 1
        /\ t.by = "absent" \/ ("rename" \notin env.outside /\ env.accepts = 0)
        => ~Stands(t.run)

\* A tombstone is withdrawn only for a session that is running, and the record
\* of a close that did not take does not outlive a listing that shows the
\* session.
WithdrawnForTheLiving ==
    [][~env.lag =>
          /\ \A t \in BagToSet(closed) \ BagToSet(closed') : Stands(t.of)
          /\ \A l \in Lister :
                list[l].phase = "ready" /\ ObserveListing(l)
                   => \A i \in list[l].items, t \in BagToSet(closed') :
                          t.by = "close" /\ t.id = i.id => t.of # i.run]_historyVars

\* A record of a session gives way only to its tombstone: the session does not
\* drop out of the history when its id is reused, when it is renamed, when
\* the service restarts.
NoneForgotten ==
    [][\A r \in Runs :
          (\E id \in Ids : seen[id] # None /\ seen[id].run = r)
             => \/ \E id \in Ids : seen'[id] # None /\ seen'[id].run = r
                \/ \E t \in BagToSet(closed') : t.run = r]_historyVars

OnRecord(r, ids) == \E id \in ids : seen[id] # None /\ seen[id].run = r

\* An end is recorded without anyone asking, as long as a stream is open: a
\* session on record that the stream has read gets its tombstone.
EndIsRecorded ==
    \A r \in Runs : (~Stands(r) /\ OnRecord(r, watched)) ~> Written(r) # {}

=============================================================================
