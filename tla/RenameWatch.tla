----------------------------- MODULE RenameWatch -----------------------------
(***************************************************************************)
(* Corroboration of renames (internal/service/rename_corroboration.go): a  *)
(* rename is announced when it is accepted and watched for an hour in the  *)
(* events of the machine's own stream, and one follow-up event says what   *)
(* became of it.  The watch never asks the machine; it only hears          *)
(* session.created and session.closed, which the stream derives from two   *)
(* listings (drivers/tmux/subscribe.go), and the gaps that the pump        *)
(* announces (service/events.go).                                          *)
(*                                                                         *)
(* A session is a positive number, which stands for its startedAt.         *)
(***************************************************************************)
EXTENDS Naturals, Sequences, FiniteSets, SequencesExt

CONSTANTS
    WatchIds,            \* the ids of sessions
    WatchEnvironments    \* what may happen around the watches, a set of records

(***************************************************************************)
(*   may      a rename may come before the stream has published the        *)
(*            session's creation or revert before the stream has seen it,  *)
(*            and the stream may publish while a rename is announced       *)
(*            ("early"), the window may end while the stream is behind and *)
(*            its callback be overtaken ("behind"), the stream may fail    *)
(*            ("gap"), or stop for a while as nobody listens ("idle"), an  *)
(*            id may be taken again while it is watched, or between two    *)
(*            listings ("reuse")                                         *)
(*   sessions, renames, gaps   bounds                                      *)
(***************************************************************************)
ASSUME WatchAssumption ==
    \A e \in WatchEnvironments :
       /\ e.may \subseteq {"early", "behind", "gap", "idle", "reuse"}
       /\ {e.sessions, e.renames, e.gaps} \subseteq Nat

VARIABLES
    watchEnv,    \* the environment of this behaviour
    names,       \* the session under each id, 0 is none
    begun,       \* the sessions so far
    tap,         \* what the pump of the machine is at
    listed,      \* the stream's last listing: known in run
    events,      \* the events the stream has derived and the pump not published
    accepted,    \* the renames accepted so far, in order
    phase,       \* what the handler of each of them is at
    watches,     \* hub.rename.pending, by the id that is watched
    timers,      \* the renames whose timer runs
    due,         \* those whose timer has fired and whose callback waits for the lock
    verdicts,    \* the follow-ups published so far, each with whether the session had
                 \* returned to its old id when it was drawn up
    returned,    \* the renames whose session was under its old id again
    gaps         \* failures of the stream so far

watchVars == <<watchEnv, names, begun, tap, listed, events, accepted, phase, watches,
               timers, due, verdicts, returned, gaps>>

Renames == 1 .. Len(accepted)
Unwatched == [n |-> 0, from |-> "", started |-> 0, saw |-> FALSE, gap |-> FALSE, open |-> FALSE]
WatchMay(what) == what \in watchEnv.may

WatchInit ==
    /\ watchEnv \in WatchEnvironments
    /\ names = [id \in WatchIds |-> 0] /\ begun = 0
    /\ tap \in (IF WatchMay("idle") THEN {"off", "on"} ELSE {"on"})
    /\ listed = names /\ events = <<>>
    /\ accepted = <<>> /\ phase = <<>>
    /\ watches = [id \in WatchIds |-> Unwatched]
    /\ timers = {} /\ due = {} /\ verdicts = {} /\ returned = {} /\ gaps = 0

-----------------------------------------------------------------------------
(* The watches: what the hub does with what it hears *)

\* Mutant: a watch with a gap is given up.
GivenUp == [id \in WatchIds |-> [watches[id] EXCEPT !.open = FALSE]]

\* markRenameGap
Marked == [id \in WatchIds |->
             IF watches[id].open THEN [watches[id] EXCEPT !.gap = TRUE] ELSE watches[id]]

\* Mutant: the old id alone is taken for the session that was renamed.
StartedAtIgnored(want, got) == TRUE

\* startedAtMatches: a session whose start is not known matches none.
StartedAtMatches(want, got) == want # 0 /\ want = got

\* session.created: the old id is back, with the start of the session renamed.
Saw(ev) == [id \in WatchIds |->
              LET w == watches[id]
              IN IF w.open /\ w.from = ev.id /\ StartedAtMatches(w.started, ev.session)
                 THEN [w EXCEPT !.saw = TRUE] ELSE w]

\* finalizeRenameLocked
Finalize(id, verdict) ==
    /\ watches' = [watches EXCEPT ![id].open = FALSE]
    /\ timers' = timers \ {watches[id].n}
    /\ verdicts' = verdicts \cup {[n |-> watches[id].n, is |-> verdict,
                                   back |-> watches[id].n \in returned]}

\* observeRenameCorroboration, on the session events; publish calls it.
Observe(ev) ==
    \/ /\ ev.kind = "created"
       /\ watches' = Saw(ev)
       /\ UNCHANGED <<timers, verdicts>>
    \/ /\ ev.kind = "closed" /\ watches[ev.id].open
       /\ Finalize(ev.id, IF watches[ev.id].saw THEN "contested" ELSE "unconfirmed")
    \/ /\ ev.kind = "closed" /\ ~watches[ev.id].open
       /\ UNCHANGED <<watches, timers, verdicts>>

\* watchRename, which the handler calls once the acceptance is published.
WatchRename(n) ==
    LET r == accepted[n]
        old == watches[r.to]
    IN /\ phase[n] = "announced"
       /\ phase' = [phase EXCEPT ![n] = "watched"]
       /\ watches' = [watches EXCEPT ![r.to] =
             [n |-> n, from |-> r.from, started |-> r.started,
              saw |-> FALSE, gap |-> FALSE, open |-> TRUE]]
       /\ timers' = (timers \ {old.n}) \cup {n}
       /\ UNCHANGED <<watchEnv, names, begun, tap, listed, events, accepted, due, verdicts,
                      returned, gaps>>

\* The window is long: it does not end while the stream has a change or a gap to report.
CaughtUp == tap # "off" => tap = "on" /\ events = <<>> /\ listed = names

WindowEnds(n) ==
    /\ n \in timers
    /\ WatchMay("behind") \/ CaughtUp
    /\ timers' = timers \ {n} /\ due' = due \cup {n}
    /\ UNCHANGED <<watchEnv, names, begun, tap, listed, events, accepted, phase, watches,
                   verdicts, returned, gaps>>

\* resolveRenameWindow finds its watch by the id alone.
ResolveRenameWindow(n) ==
    LET id == accepted[n].to
    IN /\ n \in due
       /\ due' = due \ {n}
       /\ \/ /\ watches[id].open
             /\ Finalize(id, IF watches[id].gap THEN "unconfirmed" ELSE "corroborated")
          \/ /\ ~watches[id].open
             /\ UNCHANGED <<watches, timers, verdicts>>
       /\ UNCHANGED <<watchEnv, names, begun, tap, listed, events, accepted, phase, returned,
                      gaps>>

-----------------------------------------------------------------------------
(* The sessions *)

\* A rename may come as soon as a session runs, or only after its creation was published.
NoMoreRenames(id) == listed[id] = names[id] /\ events = <<>>

\* An id may be taken again before the stream has seen that it was free, or while it is
\* still watched.
NameFree(id) == names[id] = 0 /\ (WatchMay("reuse") \/ (listed[id] = 0 /\ ~watches[id].open))

StartSession(id) ==
    /\ NameFree(id) /\ begun < watchEnv.sessions
    /\ begun' = begun + 1
    /\ names' = [names EXCEPT ![id] = begun + 1]
    /\ UNCHANGED <<watchEnv, tap, listed, events, accepted, phase, watches, timers, due,
                   verdicts, returned, gaps>>

Kill(id) ==
    /\ names[id] # 0
    /\ names' = [names EXCEPT ![id] = 0]
    /\ UNCHANGED <<watchEnv, begun, tap, listed, events, accepted, phase, watches, timers,
                   due, verdicts, returned, gaps>>

\* The renames that took this session away from this id.
BackUnder(id, session) ==
    {n \in Renames : accepted[n].from = id /\ accepted[n].session = session}

\* handleRename, up to the driver's acknowledgement; the caller may not know the start.
SessionRenamed(from, to) ==
    /\ names[from] # 0 /\ NameFree(to) /\ Len(accepted) < watchEnv.renames
    /\ WatchMay("early") \/ NoMoreRenames(from)
    /\ \E started \in {0, names[from]} :
          accepted' = Append(accepted, [from |-> from, to |-> to, session |-> names[from],
                                        started |-> started])
    /\ phase' = Append(phase, "renamed")
    /\ names' = [names EXCEPT ![from] = 0, ![to] = names[from]]
    /\ returned' = returned \cup BackUnder(to, names[from])
    /\ UNCHANGED <<watchEnv, begun, tap, listed, events, watches, timers, due, verdicts, gaps>>

\* publishRename announces the acceptance first.
Announce(n) ==
    /\ phase[n] = "renamed"
    /\ phase' = [phase EXCEPT ![n] = "announced"]
    /\ UNCHANGED <<watchEnv, names, begun, tap, listed, events, accepted, watches, timers, due,
                   verdicts, returned, gaps>>

\* A rename does not last: the session is under its old id again.
Revert(n) ==
    LET r == accepted[n]
    IN /\ names[r.to] = r.session /\ NameFree(r.from)
       /\ WatchMay("early") \/ (NoMoreRenames(r.to) /\ phase[n] = "watched")
       /\ names' = [names EXCEPT ![r.to] = 0, ![r.from] = r.session]
       /\ returned' = returned \cup BackUnder(r.from, r.session)
       /\ UNCHANGED <<watchEnv, begun, tap, listed, events, accepted, phase, watches, timers,
                      due, verdicts, gaps>>

-----------------------------------------------------------------------------
(* The stream of the machine and its pump *)

Ev(kind, id, session) == [kind |-> kind, id |-> id, session |-> session]

\* run lists, and compares the ids listed with those it knew: first what is new, then
\* what has gone.
Read ==
    LET fresh == {id \in WatchIds : names[id] # 0 /\ listed[id] = 0}
        gone  == {id \in WatchIds : names[id] = 0 /\ listed[id] # 0}
    IN /\ tap = "on" /\ listed # names /\ Len(events) <= 1
       /\ \E s \in SetToSeqs({Ev("created", id, names[id]) : id \in fresh}),
             t \in SetToSeqs({Ev("closed", id, listed[id]) : id \in gone}) :
             events' = events \o s \o t
       /\ listed' = names
       /\ UNCHANGED <<watchEnv, names, begun, tap, accepted, phase, watches, timers, due,
                      verdicts, returned, gaps>>

\* drainStream publishes the next event.
Forward ==
    /\ tap = "on" /\ events # <<>>
    /\ WatchMay("early") \/ \A n \in Renames : phase[n] = "watched"
    /\ Observe(Head(events))
    /\ events' = Tail(events)
    /\ UNCHANGED <<watchEnv, names, begun, tap, listed, accepted, phase, due, returned, gaps>>

\* The stream ends by itself, with what it had to say.
StreamEnds ==
    /\ tap = "on" /\ WatchMay("gap") /\ gaps < watchEnv.gaps
    /\ tap' = "ended" /\ gaps' = gaps + 1 /\ events' = <<>>
    /\ UNCHANGED <<watchEnv, names, begun, listed, accepted, phase, watches, timers, due, verdicts,
                   returned>>

\* announceFeedGap
AnnounceFeedGap ==
    /\ tap = "ended"
    /\ tap' = "gap" /\ watches' = Marked
    /\ UNCHANGED <<watchEnv, names, begun, listed, events, accepted, phase, timers, due, verdicts,
                   returned, gaps>>

\* Subscribe takes a listing to compare the next one with.
Resubscribe ==
    /\ tap = "gap"
    /\ tap' = "seeded" /\ listed' = names
    /\ UNCHANGED <<watchEnv, names, begun, events, accepted, phase, watches, timers, due, verdicts,
                   returned, gaps>>

\* announceFeedRestored, a control.resync
AnnounceFeedRestored ==
    /\ tap = "seeded"
    /\ tap' = "on" /\ watches' = Marked
    /\ UNCHANGED <<watchEnv, names, begun, listed, events, accepted, phase, timers, due, verdicts,
                   returned, gaps>>

\* ensureStream stops the stream once nobody listens and starts it for the next listener;
\* neither is announced.
StreamStops ==
    /\ tap = "on" /\ WatchMay("idle") /\ gaps < watchEnv.gaps
    /\ tap' = "off" /\ gaps' = gaps + 1 /\ events' = <<>>
    /\ UNCHANGED <<watchEnv, names, begun, listed, accepted, phase, watches, timers, due, verdicts,
                   returned>>

StreamStarts ==
    /\ tap = "off"
    /\ tap' = "on" /\ listed' = names
    /\ UNCHANGED <<watchEnv, names, begun, events, accepted, phase, watches, timers, due, verdicts,
                   returned, gaps>>

StreamSteps ==
    Read \/ Forward \/ StreamEnds \/ AnnounceFeedGap \/ Resubscribe \/ AnnounceFeedRestored
         \/ StreamStops \/ StreamStarts

WatchNext ==
    \/ \E n \in Renames : ResolveRenameWindow(n)
    \/ /\ due = {} \/ WatchMay("behind")
       /\ \/ \E id \in WatchIds : StartSession(id) \/ Kill(id)
          \/ \E from, to \in WatchIds : SessionRenamed(from, to)
          \/ \E n \in Renames : Announce(n) \/ WatchRename(n) \/ WindowEnds(n) \/ Revert(n)
          \/ StreamSteps

WatchSpec == WatchInit /\ [][WatchNext]_watchVars

(***************************************************************************)
(* A handler that was acknowledged goes on, a timer fires and its callback *)
(* gets the lock, and the stream lists and publishes what it notices.      *)
(* Nothing says that a rename is ever asked for or that a session ends.    *)
(***************************************************************************)
HandlerSteps == \E n \in Renames : Announce(n) \/ WatchRename(n)
TimerSteps == \E n \in Renames : WindowEnds(n) \/ ResolveRenameWindow(n)

WatchFairSpec ==
    /\ WatchSpec
    /\ WF_watchVars(HandlerSteps) /\ WF_watchVars(TimerSteps) /\ WF_watchVars(StreamSteps)

-----------------------------------------------------------------------------
(* Properties *)

\* A follow-up is true, and a rename has at most one: a contested rename did return to its
\* old id, and a corroborated one did not, whatever sessions came and went under either id.
FollowUpsAreTrue ==
    /\ \A v \in verdicts : v.is = "contested" => v.back
    /\ \A v \in verdicts : v.is = "corroborated" => ~v.back
    /\ \A v, w \in verdicts : v.n = w.n => v = w

\* A rename that was announced is followed by what became of it, whatever happens to the
\* session and to the stream.
FollowUpComes ==
    []<>(\A n \in Renames : phase[n] # "renamed" => \E v \in verdicts : v.n = n)
=============================================================================
