---------------------------- MODULE ScreenReadings ----------------------------
(***************************************************************************)
(* What a reading of the screens says of a session, and since when (List,  *)
(* State, enumerate and stampSinceLocked in tmux.go, resolveAmbiguity in   *)
(* classify.go, noteStatuses in reconcile.go).  Some screens cannot be     *)
(* told apart from a turn that has just begun: they are read as idle only  *)
(* when an earlier reading saw the very same screen.  The time a status    *)
(* was first seen is kept in memory and, by a listing, on disk.            *)
(***************************************************************************)
EXTENDS Naturals, Sequences, FiniteSets

CONSTANTS
    ReadNames,           \* names of sessions
    ReadEnvironments     \* what may happen, a set of records

(***************************************************************************)
(*   may       time passes between a capture and its result ("slow"); some *)
(*             screens are not captured ("miss"); the service restarts     *)
(*             ("restart"); a session goes without being closed here       *)
(*             ("vanish"), and its name is used again ("reuse")            *)
(*   kinds     the readings, "list" and "state"                            *)
(*   store     sessions have records on disk                               *)
(*   screens   the screens a session can show                              *)
(*   readings, changes, starts, ticks    bounds                            *)
(***************************************************************************)
ScreenKinds == {"working", "quiet", "typed", "menu", "card"}
ASSUME ReadAssumption ==
    \A e \in ReadEnvironments :
       /\ e.may \subseteq {"slow", "miss", "restart", "vanish", "reuse"}
       /\ e.kinds \subseteq {"list", "state"} /\ e.store \in BOOLEAN
       /\ e.screens \subseteq (ScreenKinds \X Nat)
       /\ {e.readings, e.changes, e.starts, e.ticks} \subseteq Nat

VARIABLES
    readEnv,     \* the environment of this behaviour
    clock,       \* one tick is spinnerPaintGrace
    panes,       \* by name: the run that has it, 0 is none, and its screen
    count,       \* starts, changes and readings so far
    reads,       \* readings under way, with what they captured
    observed,    \* the driver's memory, by name
    onDisk,      \* the status part of the session records, by name
    said         \* what was last answered about each run, and what was true of it

readVars == <<readEnv, clock, panes, count, reads, observed, onDisk, said>>

ReadMay(what) == what \in readEnv.may
Listed == {n \in ReadNames : panes[n].run # 0}
Nowhere == [run |-> 0, screen |-> <<"none", 0>>]
Unobserved == [status |-> "none", since |-> 0, digest |-> <<"none", 0>>, digestSince |-> 0,
               restored |-> FALSE, run |-> 0, shotAt |-> 0]
NotOnDisk == [run |-> 0, status |-> "none", since |-> 0]
NoDigest == <<"none", 0>>

ReadInit ==
    /\ readEnv \in ReadEnvironments
    /\ clock = 1 /\ reads = <<>> /\ said = <<>>
    /\ panes = [n \in ReadNames |-> Nowhere]
    /\ count = [starts |-> 0, changes |-> 0, readings |-> 0]
    /\ observed = [n \in ReadNames |-> Unobserved]
    /\ onDisk = [n \in ReadNames |-> NotOnDisk]

-----------------------------------------------------------------------------
(* Sessions *)

SessionComes(n, screen) ==
    /\ panes[n].run = 0 /\ count.starts < readEnv.starts
    /\ observed[n].run # 0 \/ (\E r \in DOMAIN reads : n \in DOMAIN reads[r].shots) => ReadMay("reuse")
    /\ panes' = [panes EXCEPT ![n] = [run |-> count.starts + 1, screen |-> screen]]
    /\ count' = [count EXCEPT !.starts = @ + 1]
    /\ said' = Append(said, [status |-> "none", since |-> clock, other |-> clock, restored |-> FALSE, still |-> TRUE])
    /\ UNCHANGED <<readEnv, clock, reads, observed, onDisk>>

ScreenMoves(n, screen) ==
    /\ panes[n].run # 0 /\ panes[n].screen # screen /\ count.changes < readEnv.changes
    /\ panes' = [panes EXCEPT ![n].screen = screen]
    /\ count' = [count EXCEPT !.changes = @ + 1]
    /\ UNCHANGED <<readEnv, clock, reads, observed, onDisk, said>>

(* A close by this service clears what it remembers of the name.           *)
SessionGoes(n) ==
    /\ panes[n].run # 0
    /\ panes' = [panes EXCEPT ![n] = Nowhere]
    /\ \/ observed' = [observed EXCEPT ![n] = Unobserved]
       \/ ReadMay("vanish") /\ UNCHANGED observed
    /\ UNCHANGED <<readEnv, clock, count, reads, onDisk, said>>

Ticks ==
    /\ clock < readEnv.ticks /\ (reads # <<>> => ReadMay("slow"))
    /\ clock' = clock + 1
    /\ UNCHANGED <<readEnv, panes, count, reads, observed, onDisk, said>>

ReadsRestart ==
    /\ ReadMay("restart")
    /\ observed' = [n \in ReadNames |-> Unobserved] /\ reads' = <<>>
    /\ UNCHANGED <<readEnv, clock, panes, count, onDisk, said>>

-----------------------------------------------------------------------------
(* A reading *)

(* enumerate: the listing and its captures.  A screen that could not be    *)
(* captured leaves its session in the listing.                             *)
Shot(n, missed) == [run |-> panes[n].run, at |-> clock,
                    screen |-> IF n \in missed THEN NoDigest ELSE panes[n].screen]
Enumerates(kind, about) ==
    /\ count.readings < readEnv.readings /\ kind \in readEnv.kinds
    /\ \E missed \in SUBSET Listed :
          /\ missed # {} => ReadMay("miss")
          /\ reads' = Append(reads, [about |-> about \cap Listed, kind |-> kind,
                                     shots |-> [n \in Listed |-> Shot(n, missed)]])
    /\ count' = [count EXCEPT !.readings = @ + 1]
    /\ UNCHANGED <<readEnv, clock, panes, observed, onDisk, said>>

(* resolveAmbiguity: whether the screen has been this one for long enough. *)
Held(n, shot) ==
    /\ observed[n].digest # NoDigest /\ observed[n].digest = shot.screen
    /\ clock - observed[n].digestSince >= 1
Promoted(n, shot) == shot.screen[1] \in {"quiet", "typed", "menu"} /\ Held(n, shot)
Classified(n, shot) ==
    LET kind == shot.screen[1] IN
    CASE kind = "working" -> "working"
      [] kind = "card" -> "waiting_input"
      [] kind = "quiet" /\ Promoted(n, shot) -> "idle"
      [] kind \in {"typed", "menu"} /\ Promoted(n, shot) -> "waiting_input"
      [] OTHER -> "unknown"

(* stampSinceLocked: from memory, else from the record, else now.          *)
Stamp(since, restored) == [since |-> since, restored |-> restored]
StampedSinceEver(n, status, disk) ==
    CASE observed[n].status # "none" -> Stamp(observed[n].since, observed[n].restored)
      [] observed[n].status = "none" /\ disk[n].status = status -> Stamp(disk[n].since, TRUE)
      [] OTHER -> Stamp(clock, FALSE)
Stamped(n, status, disk) ==
    CASE observed[n].status = status -> Stamp(observed[n].since, observed[n].restored)
      [] observed[n].status # status /\ disk[n].status = status -> Stamp(disk[n].since, TRUE)
      [] OTHER -> Stamp(clock, FALSE)

(* digestSinceLocked.  "shotAt" is when the screen was really captured.    *)
SameDigest(n, shot) == shot.screen # NoDigest /\ observed[n].digest = shot.screen
DigestSinceEver(n, shot) == IF observed[n].run # 0 THEN observed[n].digestSince ELSE clock
DigestSince(n, shot) == IF SameDigest(n, shot) THEN observed[n].digestSince ELSE clock

Observation(n, shot, disk) ==
    LET status == Classified(n, shot)  stamp == Stamped(n, status, disk) IN
    [status |-> status, since |-> stamp.since, restored |-> stamp.restored,
     digest |-> shot.screen, digestSince |-> DigestSince(n, shot), run |-> shot.run,
     shotAt |-> IF SameDigest(n, shot) /\ observed[n].run = shot.run THEN observed[n].shotAt ELSE shot.at]

(* noteSessionSet, as far as the status goes: a record of a name that has  *)
(* gone is dropped, and one of another run starts anew.                    *)
Renewed(shots) ==
    [n \in ReadNames |->
       IF n \notin DOMAIN shots \/ ~readEnv.store THEN NotOnDisk
       ELSE IF onDisk[n].run = shots[n].run THEN onDisk[n]
       ELSE [NotOnDisk EXCEPT !.run = shots[n].run]]

(* noteStatuses.                                                           *)
Saved(disk, seen) ==
    [n \in ReadNames |-> IF disk[n].run = 0 \/ seen[n].status = "none" THEN disk[n]
                         ELSE [disk[n] EXCEPT !.status = seen[n].status, !.since = seen[n].since]]

Answer(n, shot, seen) ==
    LET before == said[shot.run] IN
    [status |-> seen[n].status, since |-> seen[n].since, restored |-> seen[n].restored,
     other |-> IF before.status \in {"none", seen[n].status} THEN before.other ELSE clock,
     still |-> Promoted(n, shot) => observed[n].run = shot.run /\ shot.at - observed[n].shotAt >= 1]

Lands(r) ==
    LET read == reads[r]
        disk == IF read.kind = "list" THEN Renewed(read.shots) ELSE onDisk
        seen == [n \in ReadNames |-> IF n \in read.about THEN Observation(n, read.shots[n], disk) ELSE observed[n]]
    IN /\ observed' = seen
       /\ onDisk' = IF read.kind = "list" THEN Saved(disk, seen) ELSE disk
       /\ said' = [run \in DOMAIN said |->
                     IF \E n \in read.about : read.shots[n].run = run
                     THEN LET n == CHOOSE n \in read.about : read.shots[n].run = run
                          IN Answer(n, read.shots[n], seen)
                     ELSE said[run]]
       /\ reads' = [i \in 1..(Len(reads) - 1) |-> IF i < r THEN reads[i] ELSE reads[i + 1]]
       /\ UNCHANGED <<readEnv, clock, panes, count>>

ReadNext ==
    \/ \E n \in ReadNames, s \in readEnv.screens : SessionComes(n, s) \/ ScreenMoves(n, s)
    \/ \E n \in ReadNames : SessionGoes(n)
    \/ Ticks \/ ReadsRestart
    \/ Enumerates("list", ReadNames)
    \/ \E n \in ReadNames : Enumerates("state", {n})
    \/ \E r \in DOMAIN reads : Lands(r)

ReadSpec == ReadInit /\ [][ReadNext]_readVars

-----------------------------------------------------------------------------
(* Properties *)

(* A session that is said to be idle, or to wait for a person, because its *)
(* screen stood still was captured twice with that screen, far enough      *)
(* apart for a turn to have painted something.                             *)
StillIsStill == \A run \in DOMAIN said : said[run].still

(* The time since when a status holds is not before the session, and not   *)
(* before an answer that said another status.                              *)
SinceIsTrue == \A run \in DOMAIN said : said[run].since >= said[run].other
=============================================================================
