---------------------------- MODULE SessionLabels ----------------------------
(***************************************************************************)
(* Session labels: internal/service/labels.go, with the parts of           *)
(* ListSessions and of the HTTP handlers that use it.                      *)
(*                                                                         *)
(* A record is kept per id and carries its session's startedAt when that   *)
(* was known at the time it was written; a record and a session contradict *)
(* each other only when both have one and the two differ. Every entry      *)
(* below is one critical section of labelStore.mu.                         *)
(*                                                                         *)
(* A record's labels are abstracted to the runs they were given to, and    *)
(* its UpdatedAt to the listings that were under way at that time.         *)
(***************************************************************************)
EXTENDS LiveSessions

(***************************************************************************)
(* An environment also has                                                 *)
(*   surprises  <<how a session comes to an id, which record of an earlier *)
(*              run it may find there>>, and <<"move", "undated">>: a      *)
(*              session on record without its startedAt may be renamed     *)
(*              past the service                                           *)
(***************************************************************************)
ASSUME LabelsAssumption ==
    \A e \in Environments :
       e.surprises \subseteq {"create", "appear", "rename", "move"} \X {"dated", "undated"}

Records == [run : Runs, known : BOOLEAN, of : (SUBSET Runs) \ {{}}, after : SUBSET Lister]

ASSUME LabelRecordAssumption == None \notin Records

VARIABLES
    recs,       \* id -> its record, or None
    tagged,     \* runs that were given labels and not relieved of them
    served      \* <<run, owner>>: a reader of run's labels was given owner's

labelVars == <<live, recs, tagged, served>>

LabelsTypeOK ==
    /\ LiveTypeOK
    /\ recs \in [Ids -> Records \cup {None}]
    /\ tagged \subseteq Runs
    /\ served \subseteq Runs \X Runs

LabelsInit ==
    /\ LiveInit
    /\ recs = [id \in Ids |-> None]
    /\ tagged = {}
    /\ served = {}

-----------------------------------------------------------------------------
Same(r, s) == StartOf[r] = StartOf[s]

\* findLocked: the record of a session that started at run r's time, or, when
\* that time is not known, whatever record the id has. A record that
\* contradicts the session is deleted: StillKept is what is left of the store.
Find(id, r, known) ==
    LET rec == recs[id] IN
    IF rec # None /\ rec.known /\ known /\ ~Same(rec.run, r) THEN None ELSE rec

StillKept(id, r, known) == [recs EXCEPT ![id] = Find(id, r, known)]

Owners(rec) == IF rec = None THEN {} ELSE rec.of

Serve(pairs) == served' = served \cup pairs

New(r, known) == [run |-> r, known |-> known, of |-> {r}, after |-> Active]

-----------------------------------------------------------------------------
(* What happens to sessions.                                               *)

Free(how, id) ==
    recs[id] # None => <<how, IF recs[id].known THEN "dated" ELSE "undated">> \in env.surprises

Elsewhere == UNCHANGED <<recs, tagged, served>>

Create(id, r) == Free("create", id) /\ DriverCreates(id, r) /\ Elsewhere
Appear(id, r) == Free("appear", id) /\ Appears(id, r) /\ Elsewhere
Close(id) == DriverCloses(id) /\ Elsewhere
Rename(from, to) == Free("rename", to) /\ DriverRenames(from, to) /\ Elsewhere
MoveAside(from, to) ==
    /\ Free("rename", to)
    /\ <<"move", "undated">> \in env.surprises \/ (recs[from] # None => recs[from].known)
    /\ Moves(from, to)
    /\ Elsewhere
Exit(id) == Exits(id) /\ Elsewhere
Vanish(id) == Vanishes(id) /\ Elsewhere
OtherListing == ListedElsewhere /\ dead # {} /\ Elsewhere

-----------------------------------------------------------------------------
(* The handlers' notes.                                                    *)

Tell(n) ==
    /\ n \in owed
    /\ owed' = owed \ {n}
    /\ UNCHANGED <<env, at, born, ours, dead, list, captured>>

\* setIfAbsent: the create's own labels, unless the id has a record; the
\* create is answered with what is on record. No driver's Create reports
\* startedAt.
NoteCreated(n, labelled) ==
    LET found == Find(n.id, n.run, FALSE) IN
    /\ n.op = "create"
    /\ Tell(n)
    /\ recs' = IF found = None /\ labelled
               THEN [recs EXCEPT ![n.id] = New(n.run, FALSE)]
               ELSE StillKept(n.id, n.run, FALSE)
    /\ tagged' = IF found = None /\ labelled THEN tagged \cup {n.run} ELSE tagged
    /\ Serve({n.run} \X Owners(found))

\* rekey
NoteRenamed(n) ==
    /\ n.op = "rename"
    /\ Tell(n)
    /\ recs' = IF recs[n.id] = None THEN recs
               ELSE [recs EXCEPT ![n.id] = None,
                                 ![n.to] = [recs[n.id] EXCEPT !.after = Active]]
    /\ UNCHANGED <<tagged, served>>

\* remove
NoteClosed(n) ==
    /\ n.op = "close"
    /\ Tell(n)
    /\ recs' = [recs EXCEPT ![n.id] = None]
    /\ UNCHANGED <<tagged, served>>

-----------------------------------------------------------------------------
(* POST .../labels: the session is read from a listing, with its start     *)
(* time, and its record is written afterwards.                             *)

ReadForLabels(id) == DriverShows(id) /\ Elsewhere

\* A record goes with its last label.
Without(id, rec) == [recs EXCEPT ![id] = None]

\* merge: a patch adds labels, or removes all of them. A record that had no
\* start time takes the session's.
Merge(n, adds) ==
    LET found == Find(n.id, n.run, TRUE) IN
    /\ n.op = "label"
    /\ Tell(n)
    /\ IF adds
       THEN /\ recs' = [recs EXCEPT ![n.id] =
                           IF found = None THEN New(n.run, TRUE)
                           ELSE [found EXCEPT !.run = IF found.known THEN @ ELSE n.run,
                                              !.known = TRUE,
                                              !.of = @ \cup {n.run},
                                              !.after = Active]]
            /\ tagged' = tagged \cup {n.run}
            /\ Serve({n.run} \X Owners(found))
       ELSE /\ recs' = Without(n.id, found)
            /\ tagged' = tagged \ {n.run}
            /\ UNCHANGED served

-----------------------------------------------------------------------------
(* Listings.                                                               *)

Request(l) ==
    /\ Ask(l)
    /\ recs' = [id \in Ids |-> IF recs[id] = None THEN None
                               ELSE [recs[id] EXCEPT !.after = @ \ {l}]]
    /\ UNCHANGED <<tagged, served>>

Listing(l) == Enumerate(l) /\ Elsewhere
Reaping(l) == Reap(l) /\ Elsewhere

\* Mutant: a record written after the listing was requested is an orphan too.
OrphansLater(l) ==
    {id \in Ids : list[l].complete /\ recs[id] # None /\ ~\E i \in list[l].items : i.id = id}

\* Only a complete listing orphans a record, and only one last written before
\* the listing was requested.
Orphans(l) ==
    {id \in Ids :
        /\ list[l].complete
        /\ recs[id] # None
        /\ ~\E i \in list[l].items : i.id = id
        /\ l \notin recs[id].after}

\* Where an orphaned record may go: the sessions with its start time.
Homes(l, id) == {i \in list[l].items : recs[id].known /\ Same(i.run, recs[id].run)}

\* retain, and then DrainExits: an orphan goes to the first session listed with
\* its start time if no record is there yet, and is dropped otherwise.
Retain(l) ==
    LET orphans == Orphans(l)
        homeless == {id \in orphans : Homes(l, id) = {}}
    IN
    /\ Drain(l)
    /\ \E home \in [orphans \ homeless -> list[l].items] :
          /\ \A id \in DOMAIN home : home[id] \in Homes(l, id)
          /\ \E won \in SUBSET DOMAIN home :
                /\ \A id \in DOMAIN home :
                      LET target == home[id].id IN
                      IF recs[target] # None THEN id \notin won
                      ELSE Cardinality({o \in won : home[o].id = target}) = 1
                /\ recs' = [id \in Ids |->
                               IF \E o \in won : home[o].id = id
                               THEN recs[CHOOSE o \in won : home[o].id = id]
                               ELSE IF id \in orphans THEN None ELSE recs[id]]
    /\ UNCHANGED <<tagged, served>>

\* Mutant: the record of an id is attached whatever run has it.
GetsAny(l) ==
    /\ NothingOwed
    /\ list[l].phase = "ready"
    /\ Serve(UNION {{i.run} \X Owners(recs[i.id]) : i \in list[l].items})
    /\ Answered(l)
    /\ UNCHANGED <<env, at, born, ours, dead, owed, captured, recs, tagged>>

\* get, for every item of the answer.
Get(l) ==
    /\ NothingOwed
    /\ list[l].phase = "ready"
    /\ Serve(UNION {{i.run} \X Owners(Find(i.id, i.run, TRUE)) : i \in list[l].items})
    /\ recs' = [id \in Ids |->
                   IF \E i \in list[l].items : i.id = id
                   THEN Find(id, (CHOOSE i \in list[l].items : i.id = id).run, TRUE)
                   ELSE recs[id]]
    /\ Answered(l)
    /\ UNCHANGED <<env, at, born, ours, dead, owed, captured, tagged>>

-----------------------------------------------------------------------------
LabelsNext ==
    \/ \E id \in Ids, r \in Runs : Create(id, r) \/ Appear(id, r)
    \/ \E id \in Ids : Close(id) \/ Exit(id) \/ Vanish(id) \/ ReadForLabels(id)
    \/ \E from, to \in Ids : Rename(from, to) \/ MoveAside(from, to)
    \/ OtherListing
    \/ \E n \in owed : NoteRenamed(n) \/ NoteClosed(n)
    \/ \E n \in owed, labelled \in BOOLEAN : NoteCreated(n, labelled)
    \/ \E n \in owed, adds \in BOOLEAN : Merge(n, adds)
    \/ \E l \in Lister :
          Request(l) \/ Listing(l) \/ Reaping(l) \/ Retain(l) \/ Get(l)

LabelsSpec == LabelsInit /\ [][LabelsNext]_labelVars

-----------------------------------------------------------------------------
(* Properties                                                              *)

Stands(r) == \E id \in Ids : at[id] = r

\* "A new session under an old id must not inherit somebody else's labels"
\* (labels.go:25-26): no answer shows one session's labels as another's.
NoStrangers == \A p \in served : p[1] = p[2]

\* A session that is there keeps the labels it was given until it is relieved
\* of them: renames, listings that were under way and reused ids lose none,
\* if nobody comes between a create or a rename and its note.
LabelsAreKept ==
    env.gap \subseteq {"close", "label"} =>
    \A r \in tagged : Stands(r) => \E id \in Ids : r \in Owners(recs[id])

\* No answer shows one session's labels as another's, and a session keeps the
\* labels it was given over renames, listings and reused ids, if nobody comes
\* between a create or a rename and its note (labels.go).
LabelsAreTrue == NoStrangers /\ LabelsAreKept
=============================================================================
