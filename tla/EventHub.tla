------------------------------ MODULE EventHub ------------------------------
(***************************************************************************)
(* The event plane (internal/service/events.go, with Events in service.go  *)
(* and the two transports of http.go): one subscription to the drivers,    *)
(* whose events are stamped, retained in a window and fanned out, and the  *)
(* clients that keep a mirror of the sessions from a listing and a watch.  *)
(*                                                                         *)
(* A change of a session is its place in happened.  A driver delivers every   *)
(* change after its Subscribe returned, in order (driver.Driver).  SSE and *)
(* the long poll are one client here, which receives an event at a time    *)
(* and may hang up after each: a batch is received as its events are.      *)
(* Events that were stamped are sets, their cursors say in which order.    *)
(***************************************************************************)
EXTENDS Naturals, Sequences, FiniteSets

CONSTANTS
    Clients,
    Sessions,
    HubEnvironments  \* what may happen around the hub, a set of records

(***************************************************************************)
(* Each behaviour has one environment:                                     *)
(*   clients    the clients that take part                                 *)
(*   filter     the sessions each client asks for                          *)
(*   local      the clients that ask with scope=local                      *)
(*   remote     the sessions that live on the peer                         *)
(*   retention  hub.retention                                              *)
(*   chan       the capacity of subscriber.ch                              *)
(*   may        what may happen: the last client stays away for longer     *)
(*              than linger ("linger"), two requests are inside            *)
(*              ensureStream at once ("race"), clients list before the     *)
(*              drivers are subscribed ("early") and do not send the epoch *)
(*              of their cursor ("noEpoch"), and there is a state          *)
(*              directory ("durable")                                      *)
(*   changes, failures, streams, crashes   bounds                          *)
(***************************************************************************)
ASSUME HubAssumption ==
    \A e \in HubEnvironments :
       /\ e.clients \subseteq Clients /\ e.local \subseteq Clients
       /\ e.remote \subseteq Sessions
       /\ e.filter \in [Clients -> SUBSET Sessions]
       /\ {e.retention, e.chan} \subseteq Nat \ {0}
       /\ e.may \subseteq {"linger", "race", "early", "noEpoch", "durable"}
       /\ {e.changes, e.failures, e.streams, e.crashes} \subseteq Nat

VARIABLES
    hubEnv,     \* the environment of this behaviour
    happened,   \* the sessions that changed, in order
    cursor, epoch, ring, subs,       \* of the hub
    ch,         \* subscriber.ch of each client
    missed,     \* the clients of whose channels one was ever full (history variable)
    on, cur, gen,                    \* streamOn, streamFilter, whose streamCancel
    lingering,  \* lingerTimer is armed
    launched, cancelled,             \* the streams so far; those cancelled
    pumps,      \* the pump goroutines
    pc, saw,    \* each client's request in ensureStream, and what it read there
    backlog,    \* what add returned for it
    since, of,  \* the client's cursor and its epoch; 0 is none
    reflects,   \* the changes its mirror reflects
    stale,      \* it knows that it has to list
    listedAt,   \* the feed position of its listing in progress
    failures, hubCrashes

eventVars == <<cursor, epoch, ring, subs, ch, missed>>
streamVars == <<on, cur, gen, lingering, launched, cancelled>>
requestVars == <<pc, saw>>
mirrorVars == <<since, of, reflects, stale, listedAt>>
hubVars == <<hubEnv, happened, eventVars, streamVars, pumps, requestVars, backlog, mirrorVars,
             failures, hubCrashes>>

NoView == [want |-> {}, listened |-> FALSE, on |-> FALSE, cur |-> {}, gen |-> 0]
NoPosition == [on |-> FALSE, cursor |-> 0, epoch |-> 0]

\* An event is about the sessions of this machine, or of the peer (remote).
Change(n) == [kind |-> "change", what |-> n, remote |-> happened[n] \in hubEnv.remote]
Status(remote) == [kind |-> "status", what |-> 0, remote |-> remote]
Resync(remote) == [kind |-> "resync", what |-> 0, remote |-> remote]

HubInit ==
    /\ hubEnv \in HubEnvironments
    /\ happened = <<>> /\ cursor = 0 /\ epoch = 1 /\ ring = {} /\ subs = {}
    /\ ch = [c \in Clients |-> {}] /\ backlog = [c \in Clients |-> {}] /\ missed = {}
    /\ on = FALSE /\ cur = {} /\ gen = 0 /\ lingering = FALSE
    /\ launched = 0 /\ cancelled = {} /\ pumps = {}
    /\ pc = [c \in Clients |-> "away"] /\ saw = [c \in Clients |-> NoView]
    /\ since = [c \in Clients |-> 0] /\ of = [c \in Clients |-> 0]
    /\ reflects = [c \in Clients |-> {}] /\ stale = [c \in Clients |-> TRUE]
    /\ listedAt = [c \in Clients |-> NoPosition]
    /\ failures = 0 /\ hubCrashes = 0

-----------------------------------------------------------------------------
(* The hub: publish and add *)

Wants(c, s) == s \in hubEnv.filter[c] /\ (c \in hubEnv.local => s \notin hubEnv.remote)

\* matchesEvent: a status is sent to all.
Matches(c, e) == e.kind = "change" => happened[e.what] \in hubEnv.filter[c]
\* The test of publish, which looks at the scope too.
Reaches(c, e) == Matches(c, e) /\ (c \in hubEnv.local => ~e.remote)

Retained(stamped, newest) == {e \in stamped : e.cursor + hubEnv.retention > newest}
\* What the channel of c takes of new, in order, and what it holds then.
Enqueued(c, new) ==
    {e \in new : Cardinality(ch[c]) + Cardinality({d \in new : d.cursor <= e.cursor}) <= hubEnv.chan}

(***************************************************************************)
(* publish, of a few events in a row.  What does not fit into a channel is *)
(* not delivered, and dropped, which publish then sets, is not read.       *)
(***************************************************************************)
Publish(events) ==
    LET stamped == {[cursor |-> cursor + i, event |-> events[i]] : i \in 1 .. Len(events)}
        For(c) == {e \in stamped : Reaches(c, e.event)}
    IN  /\ cursor' = cursor + Len(events)
        /\ ring' = Retained(ring \cup stamped, cursor + Len(events))
        /\ ch' = [c \in Clients |-> IF c \in subs THEN ch[c] \cup Enqueued(c, For(c)) ELSE ch[c]]
        /\ missed' = missed \cup {c \in subs : Enqueued(c, For(c)) # For(c)}

\* from fell off the retained window, or was never stamped.
Lacks(from) == from > cursor \/ (ring # {} /\ \A e \in ring : from + 1 < e.cursor)

\* The epoch a request carries; handleEvents and handleWatchSessions fill in their own.
Sent(c) == IF "noEpoch" \in hubEnv.may /\ since[c] > 0 THEN epoch ELSE of[c]
IsFresh(c) == since[c] = 0 /\ Sent(c) = 0

\* Mutant: the epoch is not looked at.
NeedsResyncByCursor(c) == ~IsFresh(c) /\ Lacks(since[c])
NeedsResync(c) == ~IsFresh(c) /\ (Sent(c) # epoch \/ Lacks(since[c]))

Connect(c) ==
    /\ c \in hubEnv.clients /\ pc[c] = "away" /\ listedAt[c] = NoPosition /\ launched < hubEnv.streams
    /\ "race" \in hubEnv.may \/ \A d \in Clients : pc[d] \in {"away", "open"}
    /\ subs' = subs \union {c}
    /\ backlog' = [backlog EXCEPT ![c] =
                     IF IsFresh(c) \/ NeedsResync(c) THEN {}
                     ELSE {e \in ring : e.cursor > since[c] /\ Matches(c, e.event)}]
    /\ stale' = [stale EXCEPT ![c] = @ \/ IsFresh(c) \/ NeedsResync(c)]
    /\ pc' = [pc EXCEPT ![c] = "union"]
    /\ UNCHANGED <<hubEnv, happened, cursor, epoch, ring, ch, missed, streamVars, pumps, saw, since, of,
                   reflects, listedAt, failures, hubCrashes>>

-----------------------------------------------------------------------------
(* ensureStream, run by every request when it comes and when it goes *)

\* unionFilter: nobody, and whoever asks for everything, is given all.
unionFilter == IF subs = {} THEN Sessions ELSE UNION {hubEnv.filter[d] : d \in subs}

\* Its three reads, each under a lock of its own.
Union(c) ==
    /\ pc[c] = "union"
    /\ saw' = [saw EXCEPT ![c] = [@ EXCEPT !.want = unionFilter]]
    /\ pc' = [pc EXCEPT ![c] = "count"]
    /\ UNCHANGED <<hubEnv, happened, eventVars, streamVars, pumps, backlog, mirrorVars,
                   failures, hubCrashes>>

Count(c) ==
    /\ pc[c] = "count"
    /\ saw' = [saw EXCEPT ![c] = [@ EXCEPT !.listened = subs # {}]]
    /\ pc' = [pc EXCEPT ![c] = "look"]
    /\ UNCHANGED <<hubEnv, happened, eventVars, streamVars, pumps, backlog, mirrorVars,
                   failures, hubCrashes>>

Look(c) ==
    /\ pc[c] = "look"
    /\ saw' = [saw EXCEPT ![c] = [@ EXCEPT !.on = on, !.cur = cur, !.gen = gen]]
    /\ pc' = [pc EXCEPT ![c] = "act"]
    /\ UNCHANGED <<hubEnv, happened, eventVars, streamVars, pumps, backlog, mirrorVars,
                   failures, hubCrashes>>

\* ensureStream returns: an arriving request goes on to its stream, a leaving one is gone.
Done(c) ==
    /\ pc' = [pc EXCEPT ![c] = IF c \in subs THEN "open" ELSE "away"]
    /\ saw' = [saw EXCEPT ![c] = NoView]

\* armLinger
NoRequest(c) ==
    /\ pc[c] = "act" /\ ~saw[c].listened
    /\ lingering' = (lingering \/ saw[c].on)
    /\ Done(c)
    /\ UNCHANGED <<hubEnv, happened, eventVars, on, cur, gen, launched, cancelled, pumps,
                   backlog, mirrorVars, failures, hubCrashes>>

\* Mutant: a stream that is there is good enough.
CoversAny(c) == saw[c].on

\* sameFilter
Covers(c) == saw[c].on /\ saw[c].cur = saw[c].want

\* disarmLinger, and nothing to change.
Keep(c) ==
    /\ pc[c] = "act" /\ saw[c].listened /\ Covers(c)
    /\ lingering' = FALSE
    /\ Done(c)
    /\ UNCHANGED <<hubEnv, happened, eventVars, on, cur, gen, launched, cancelled, pumps,
                   backlog, mirrorVars, failures, hubCrashes>>

\* disarmLinger, and a stream is to be started.
Disarm(c) ==
    /\ pc[c] = "act" /\ saw[c].listened /\ ~Covers(c)
    /\ lingering' = FALSE
    /\ pc' = [pc EXCEPT ![c] = "launch"]
    /\ UNCHANGED <<hubEnv, happened, eventVars, on, cur, gen, launched, cancelled, pumps,
                   saw, backlog, mirrorVars, failures, hubCrashes>>

NewPump(g, remote, filter) ==
    [gen |-> g, remote |-> remote, filter |-> filter, open |-> FALSE, pos |-> 0, gap |-> FALSE]

\* Mutant: the stream it replaces is left running.
CancelsNone(c) == cancelled

Cancels(c) == IF saw[c].on THEN cancelled \union {saw[c].gen} ELSE cancelled

\* The stream it saw is cancelled, the new one set and its local pump started.
LaunchPump(c) ==
    /\ pc[c] = "launch"
    /\ cancelled' = Cancels(c)
    /\ launched' = launched + 1
    /\ on' = TRUE /\ cur' = saw[c].want /\ gen' = launched + 1
    /\ pumps' = pumps \union {NewPump(launched + 1, FALSE, saw[c].want)}
    /\ saw' = [saw EXCEPT ![c] = [@ EXCEPT !.gen = launched + 1]]
    /\ pc' = [pc EXCEPT ![c] = "peers"]
    /\ UNCHANGED <<hubEnv, happened, eventVars, lingering, backlog, mirrorVars,
                   failures, hubCrashes>>

\* wantsPeers
LaunchPeers(c) ==
    /\ pc[c] = "peers"
    /\ pumps' = IF hubEnv.remote # {} /\ subs \ hubEnv.local # {}
                THEN pumps \union {NewPump(saw[c].gen, TRUE, saw[c].want)} ELSE pumps
    /\ Done(c)
    /\ UNCHANGED <<hubEnv, happened, eventVars, streamVars, backlog, mirrorVars,
                   failures, hubCrashes>>

\* lingerExpired
LingerExpires ==
    /\ "linger" \in hubEnv.may /\ lingering
    /\ lingering' = FALSE
    /\ \/ subs # {} /\ UNCHANGED <<on, cur, gen, cancelled>>
       \/ /\ subs = {}
          /\ on' = FALSE /\ gen' = 0 /\ cancelled' = (cancelled \union {gen}) \ {0}
          /\ UNCHANGED cur
    /\ UNCHANGED <<hubEnv, happened, eventVars, launched, pumps, requestVars, backlog,
                   mirrorVars, failures, hubCrashes>>

Ensure(c) ==
    Union(c) \/ Count(c) \/ Look(c) \/ NoRequest(c) \/ Keep(c) \/ Disarm(c) \/ LaunchPump(c)
      \/ LaunchPeers(c)
-----------------------------------------------------------------------------
(* pump, and drainStream *)

With(p, q) == (pumps \ {p}) \union {q}
Live(p) == p.gen \notin cancelled

\* Subscribe's baseline is taken before it returns.
Subscribed(p) ==
    [gen |-> p.gen, remote |-> p.remote, filter |-> p.filter, open |-> TRUE, pos |-> Len(happened), gap |-> FALSE]

\* Mutant: the status alone.
RestoredStatus(remote) == <<Status(remote)>>
Restored(remote) == <<Status(remote), Resync(remote)>>

Subscribe(p) ==
    /\ Live(p) /\ ~p.open
    /\ Publish(IF p.gap THEN Restored(p.remote) ELSE <<>>)
    /\ pumps' = With(p, Subscribed(p))
    /\ UNCHANGED <<hubEnv, happened, epoch, subs, streamVars, requestVars, backlog, mirrorVars, failures,
                   hubCrashes>>

\* Mutant: the pump returns on the first error.
FailsForGood(p) ==
    /\ Live(p) /\ failures < hubEnv.failures
    /\ Publish(IF p.gap THEN <<>> ELSE <<Status(p.remote)>>)
    /\ pumps' = pumps \ {p}
    /\ failures' = failures + 1
    /\ UNCHANGED <<hubEnv, happened, epoch, subs, streamVars, requestVars, backlog, mirrorVars, hubCrashes>>

\* Subscribe fails, or the stream ends.
Fails(p) ==
    /\ Live(p) /\ failures < hubEnv.failures
    /\ Publish(IF p.gap THEN <<>> ELSE <<Status(p.remote)>>)
    /\ pumps' = With(p, [p EXCEPT !.open = FALSE, !.gap = TRUE])
    /\ failures' = failures + 1
    /\ UNCHANGED <<hubEnv, happened, epoch, subs, streamVars, requestVars, backlog, mirrorVars, hubCrashes>>

\* The changes that p's stream still has to deliver.
Ahead(p) ==
    {n \in p.pos + 1 .. Len(happened) :
        happened[n] \in p.filter /\ (happened[n] \in hubEnv.remote <=> p.remote)}

\* An event of a cancelled stream may still be taken: Next chooses between ctx and the event.
ForwardEvent(p) ==
    /\ p.open
    /\ \E n \in Ahead(p) :
         /\ \A k \in Ahead(p) : n <= k
         /\ Publish(<<Change(n)>>)
         /\ pumps' = With(p, [p EXCEPT !.pos = n])
    /\ UNCHANGED <<hubEnv, happened, epoch, subs, streamVars, requestVars, backlog, mirrorVars, failures,
                   hubCrashes>>

PumpExits(p) ==
    /\ ~Live(p)
    /\ pumps' = pumps \ {p}
    /\ UNCHANGED <<hubEnv, happened, eventVars, streamVars, requestVars, backlog,
                   mirrorVars, failures, hubCrashes>>

-----------------------------------------------------------------------------
(* The client *)

ApplyEvent(c, e) ==
    /\ since' = [since EXCEPT ![c] = e.cursor]
    /\ of' = [of EXCEPT ![c] = epoch]
    /\ reflects' = [reflects EXCEPT ![c] = IF e.event.kind = "change" THEN @ \union {e.event.what} ELSE @]
    /\ stale' = [stale EXCEPT ![c] = @ \/ e.event.kind = "resync"]

\* The backlog is written before the channel is read.
Receive(c) ==
    /\ pc[c] = "open"
    /\ \E e \in IF backlog[c] # {} THEN backlog[c] ELSE ch[c] :
         /\ \A d \in IF backlog[c] # {} THEN backlog[c] ELSE ch[c] : e.cursor <= d.cursor
         /\ ApplyEvent(c, e)
         /\ backlog' = [backlog EXCEPT ![c] = @ \ {e}]
         /\ ch' = [ch EXCEPT ![c] = IF backlog[c] # {} THEN @ ELSE @ \ {e}]
    /\ UNCHANGED <<hubEnv, happened, cursor, epoch, ring, subs, missed, streamVars, pumps, requestVars,
                   listedAt, failures, hubCrashes>>

\* The request ends (its deadline, the client or the network): remove, and ensureStream.
Disconnect(c) ==
    /\ pc[c] = "open"
    /\ "race" \in hubEnv.may \/ \A d \in Clients : pc[d] \in {"away", "open"}
    /\ subs' = subs \ {c}
    /\ ch' = [ch EXCEPT ![c] = {}] /\ backlog' = [backlog EXCEPT ![c] = {}]
    /\ pc' = [pc EXCEPT ![c] = "union"]
    /\ UNCHANGED <<hubEnv, happened, cursor, epoch, ring, missed, streamVars, pumps, saw, mirrorVars, failures,
                   hubCrashes>>

\* Each driver of the stream has been subscribed, or its gap announced.
Feeding ==
    /\ \A p \in pumps : Live(p) => p.open \/ p.gap
    /\ \A c \in Clients : pc[c] # "peers"

\* handleListSessions reads the feed position first, and then enumerates.
Position(c) ==
    /\ c \in hubEnv.clients /\ stale[c] /\ pc[c] \in {"away", "open"} /\ listedAt[c] = NoPosition
    /\ on /\ ("early" \notin hubEnv.may => Feeding)
    /\ listedAt' = [listedAt EXCEPT ![c] = [on |-> on, cursor |-> cursor, epoch |-> epoch]]
    /\ UNCHANGED <<hubEnv, happened, eventVars, streamVars, pumps, requestVars, backlog,
                   since, of, reflects, stale, failures, hubCrashes>>

\* A client that is connected goes on from its stream, another one from the listing.
List(c) ==
    /\ listedAt[c].on
    /\ reflects' = [reflects EXCEPT ![c] = 1 .. Len(happened)]
    /\ stale' = [stale EXCEPT ![c] = FALSE]
    /\ \/ pc[c] = "open" /\ UNCHANGED <<since, of>>
       \/ /\ pc[c] # "open"
          /\ since' = [since EXCEPT ![c] = listedAt[c].cursor]
          /\ of' = [of EXCEPT ![c] = listedAt[c].epoch]
    /\ listedAt' = [listedAt EXCEPT ![c] = NoPosition]
    /\ UNCHANGED <<hubEnv, happened, eventVars, streamVars, pumps, requestVars, backlog,
                   failures, hubCrashes>>

-----------------------------------------------------------------------------
\* A session of some machine changes.
Changes(s) ==
    /\ Len(happened) < hubEnv.changes
    /\ happened' = Append(happened, s)
    /\ UNCHANGED <<hubEnv, eventVars, streamVars, pumps, requestVars, backlog,
                   mirrorVars, failures, hubCrashes>>

\* The service restarts: NewWithState keeps the sequence, and the window is never kept.
Crash ==
    /\ hubCrashes < hubEnv.crashes
    /\ hubCrashes' = hubCrashes + 1
    /\ \/ "durable" \in hubEnv.may /\ UNCHANGED <<cursor, epoch>>
       \/ "durable" \notin hubEnv.may /\ cursor' = 0 /\ epoch' = epoch + 1
    /\ ring' = {} /\ subs' = {}
    /\ ch' = [c \in Clients |-> {}] /\ backlog' = [c \in Clients |-> {}]
    /\ on' = FALSE /\ cur' = {} /\ gen' = 0 /\ lingering' = FALSE
    /\ cancelled' = 1 .. launched /\ pumps' = {}
    /\ pc' = [c \in Clients |-> "away"] /\ saw' = [c \in Clients |-> NoView]
    /\ listedAt' = [c \in Clients |-> NoPosition]
    /\ UNCHANGED <<hubEnv, happened, missed, launched, since, of, reflects, stale, failures>>

ClientSteps(c) == Connect(c) \/ Disconnect(c) \/ Receive(c) \/ Position(c) \/ List(c)
Feed(p) == Subscribe(p) \/ ForwardEvent(p) \/ PumpExits(p)

HubNext ==
    \/ \E c \in Clients : ClientSteps(c) \/ Ensure(c)
    \/ \E p \in pumps : Feed(p) \/ Fails(p)
    \/ \E s \in Sessions : Changes(s)
    \/ LingerExpires \/ Crash

HubSpec == HubInit /\ [][HubNext]_hubVars

(***************************************************************************)
(* Requests in ensureStream are running, an open stream is read, and pump  *)
(* retries a subscription, which fails only a bounded number of times.      *)
(***************************************************************************)
HubFairSpec ==
    /\ HubSpec
    /\ \A c \in Clients : WF_hubVars(Ensure(c)) /\ WF_hubVars(Receive(c))
    /\ WF_hubVars(\E p \in pumps : Feed(p))
-----------------------------------------------------------------------------
(* What each variable holds. *)

HubEvents == [kind : {"change", "status", "resync"}, what : Nat, remote : BOOLEAN]
Stamped == [cursor : Nat \ {0}, event : HubEvents]
Pumps == [gen : 1 .. launched, remote : BOOLEAN, filter : SUBSET Sessions, open : BOOLEAN,
          pos : 0 .. Len(happened), gap : BOOLEAN]
Views == [want : SUBSET Sessions, listened : BOOLEAN, on : BOOLEAN, cur : SUBSET Sessions,
          gen : 0 .. launched]
RequestPlaces == {"away", "union", "count", "look", "act", "launch", "peers", "open"}

EventTypes ==
    /\ happened \in Seq(Sessions) /\ cursor \in Nat /\ epoch \in Nat \ {0}
    /\ ring \subseteq Stamped
    /\ subs \subseteq hubEnv.clients /\ missed \subseteq Clients
    /\ ch \in [Clients -> SUBSET Stamped] /\ backlog \in [Clients -> SUBSET Stamped]
    /\ \A c \in Clients \ subs : ch[c] = {} /\ backlog[c] = {}
FeedTypes ==
    /\ on \in BOOLEAN /\ cur \subseteq Sessions /\ lingering \in BOOLEAN
    /\ launched \in Nat /\ gen \in 0 .. launched /\ cancelled \subseteq 1 .. launched
    /\ pumps \subseteq Pumps
    /\ pc \in [Clients -> RequestPlaces] /\ saw \in [Clients -> Views]
    /\ on => gen # 0
    /\ \A c \in Clients : saw[c].on \/ pc[c] = "peers" => saw[c].gen # 0
MirrorTypes ==
    /\ since \in [Clients -> Nat] /\ of \in [Clients -> Nat]
    /\ reflects \in [Clients -> SUBSET (1 .. Len(happened))]
    /\ stale \in [Clients -> BOOLEAN]
    /\ listedAt \in [Clients -> [on : BOOLEAN, cursor : Nat, epoch : Nat]]
    /\ failures \in Nat /\ hubCrashes \in Nat
HubTypes == hubEnv \in HubEnvironments /\ EventTypes /\ FeedTypes /\ MirrorTypes

\* The properties that ask for it hold if nothing of "what" may happen; README.md
\* says what the code does otherwise.
MayNot(what) == hubEnv.may \cap what = {}

\* All clients ask for the same, so that the stream is never started again for another union.
OneFilter ==
    /\ MayNot({"race", "linger", "early", "noEpoch", "durable"})
    /\ \A c, d \in hubEnv.clients : hubEnv.filter[c] = hubEnv.filter[d]

OfOneMachine(m, n) == happened[m] \in hubEnv.remote <=> happened[n] \in hubEnv.remote

\* A mirror that reflects a change also reflects every earlier one of that machine, or its
\* client was told to list again.
MirrorIsWhole(c) ==
    ~stale[c] => \A n \in reflects[c] : \A m \in 1 .. n :
       Wants(c, happened[m]) /\ OfOneMachine(m, n) => m \in reflects[c]

(***************************************************************************)
(* "Announced gaps are recoverable; silent ones are not" (events.go): no   *)
(* mirror has a gap that its client does not know of, whatever fails or    *)
(* restarts and wherever a client takes up its stream again, unless an     *)
(* event was dropped for it.                                               *)
(***************************************************************************)
NoSilentGap == OneFilter => \A c \in Clients \ missed : MirrorIsWhole(c)

(***************************************************************************)
(* A client whose channel is full "refetches rather than continuing with a *)
(* hole it has no way to notice" (events.go: publish).                     *)
(***************************************************************************)
SlowAreTold == OneFilter => \A c \in Clients : MirrorIsWhole(c)

(***************************************************************************)
(* A service does not deliver peer events to a scope=local subscription    *)
(* (session-abstraction.md 13.1).  publish keeps to it; what add replays   *)
(* to a client that resumes does not, so that no run claims it.            *)
(***************************************************************************)
LocalStaysLocal == \A c \in hubEnv.local : \A e \in backlog[c] \cup ch[c] : ~e.event.remote

(***************************************************************************)
(* "The hub keeps ONE driver subscription": two would deliver one change   *)
(* as two events.                                                          *)
(***************************************************************************)
OneStream == MayNot({"race"}) => \A p, q \in pumps : Live(p) /\ Live(q) => p.gen = q.gen

(***************************************************************************)
(* Whatever a connected client asked for is watched by a pump: the union   *)
(* of what the clients want and the peers, if one of them wants the fleet; *)
(* when a stream is started again, the peers are watched last.  It needs   *)
(* clients that do not differ in their scope.                              *)
(***************************************************************************)
OneScope == hubEnv.remote = {} \/ hubEnv.local = {} \/ hubEnv.clients \subseteq hubEnv.local
Watched ==
  MayNot({"race"}) /\ OneScope =>
    \A c \in subs : pc[c] = "open" =>
      \A s \in Sessions : Wants(c, s) =>
        \/ \E p \in pumps : Live(p) /\ s \in p.filter /\ (s \in hubEnv.remote <=> p.remote)
        \/ s \in hubEnv.remote /\ \E d \in Clients : pc[d] = "peers"

(***************************************************************************)
(* There is one driver stream at a time, and it watches everything that a  *)
(* connected client asks for, whoever came or went meanwhile (events.go:   *)
(* ensureStream).                                                          *)
(***************************************************************************)
StreamServesAll == OneStream /\ Watched

(***************************************************************************)
(* A client that stays connected learns of every change, from its event or *)
(* by being told to list again (ensureStream, pump, publish).              *)
(***************************************************************************)
Arrives ==
    []<>(\A c \in Clients : \A n \in 1 .. Len(happened) :
           Wants(c, happened[n]) => n \in reflects[c] \/ stale[c] \/ pc[c] # "open")

-----------------------------------------------------------------------------
(* Why they hold: the stream, when requests come to it one at a time *)

InEnsure(c) == pc[c] \notin {"away", "open"}
OneInEnsure == \A c, d \in Clients : InEnsure(c) /\ InEnsure(d) => c = d
SubscribersAreKnown == \A c \in Clients : (pc[c] = "away" => c \notin subs) /\ (pc[c] = "open" => c \in subs)

\* What a request has read in ensureStream still holds when it acts.
ViewsAreFresh ==
    \A c \in Clients :
       /\ pc[c] \in {"count", "look", "act", "launch", "peers"} => saw[c].want = unionFilter
       /\ pc[c] \in {"look", "act"} => saw[c].listened = (subs # {})
       /\ pc[c] \in {"launch", "peers"} => subs # {}
       /\ pc[c] \in {"act", "launch"} /\ subs # {} =>
             saw[c].on = on /\ saw[c].cur = cur /\ saw[c].gen = gen
       /\ pc[c] = "launch" => ~Covers(c)
       /\ pc[c] = "peers" => /\ on /\ cur = saw[c].want /\ saw[c].gen = gen
                             /\ \A p \in pumps : p.gen = gen => ~p.remote

\* The pumps that live are the current stream's, and watch what it is for.
StreamIsCurrent ==
    /\ on => gen \in (1 .. launched) \ cancelled
    /\ \A p \in pumps : Live(p) => on /\ p.gen = gen /\ p.filter = cur
    /\ on => \E p \in pumps : p.gen = gen /\ ~p.remote
    /\ on /\ hubEnv.remote # {} /\ hubEnv.local = {} /\ (\A c \in Clients : pc[c] # "peers") =>
          \E p \in pumps : p.gen = gen /\ p.remote
SubscribersAreServed == \A c \in subs : pc[c] = "open" => on /\ hubEnv.filter[c] \subseteq cur

FeedInvariant ==
    OneInEnsure /\ SubscribersAreKnown /\ ViewsAreFresh /\ StreamIsCurrent /\ SubscribersAreServed

-----------------------------------------------------------------------------
(* Why they hold: the events, when all clients ask for the same *)

\* An event is about a change that happened.
IsReal(e) ==
    e.event.kind = "change" =>
       /\ e.event.what \in 1 .. Len(happened)
       /\ e.event.remote = (happened[e.event.what] \in hubEnv.remote)
EventsAreReal ==
    /\ \A e \in ring : IsReal(e)
    /\ \A c \in Clients : \A e \in backlog[c] \cup ch[c] : IsReal(e)

CursorsInOrder ==
    /\ \A e \in ring : e.cursor <= cursor /\ cursor < e.cursor + hubEnv.retention
    /\ \A d, e \in ring : d.cursor = e.cursor => d = e
    /\ \A c \in Clients : of[c] <= epoch /\ (of[c] = epoch /\ c \notin missed => since[c] <= cursor)

\* The stream is started once, and has a pump for each machine.
StreamStaysOn ==
    /\ on => \A c \in hubEnv.clients : hubEnv.filter[c] = cur
    /\ \A p \in pumps : Live(p)
    /\ \A p, q \in pumps : p.remote = q.remote => p = q
    /\ \A c \in Clients : pc[c] = "launch" => ~on

\* A client lists, and believes its mirror, only while every driver is watched or its gap is known.
Fed == on /\ Feeding
ListsAreFed ==
    /\ \A c \in Clients :
          listedAt[c].on => /\ c \in hubEnv.clients /\ Fed
                            /\ listedAt[c].epoch = epoch /\ listedAt[c].cursor <= cursor
                            /\ (c \in subs => pc[c] = "open")
    /\ \A c \in Clients :
          ~stale[c] => c \in hubEnv.clients /\ (c \in subs \/ of[c] = epoch => Fed)

\* What a client has yet to receive; one that is away will get it when it comes back in time.
ToCome(c) == IF c \in subs THEN backlog[c] \cup ch[c]
             ELSE {e \in ring : e.cursor > since[c] /\ Matches(c, e.event)}
CanResume(c) == of[c] = epoch /\ ~Lacks(since[c])
UpToDate(c) == ~stale[c] /\ (c \in subs \/ CanResume(c))

\* A subscriber's events are those of the window that are newer than its cursor, and then
\* any older ones that the window has lost.
EventsAreComplete(c) ==
    /\ \A e \in ToCome(c), d \in ring : Reaches(c, d.event) /\ d.cursor > e.cursor => d \in ToCome(c)
    /\ CanResume(c) => \A d \in ring : Reaches(c, d.event) /\ d.cursor > since[c] => d \in ToCome(c)
EventsInOrder(c) ==
    /\ \A e \in ToCome(c) : e.cursor <= cursor /\ Matches(c, e.event) /\ (of[c] = epoch => e.cursor > since[c])
    /\ \A e \in ToCome(c) : e \in ring \/ (ring # {} /\ \A d \in ring : e.cursor < d.cursor)
    /\ \A d, e \in ToCome(c) : d.cursor = e.cursor => d = e
    /\ \A d \in backlog[c], e \in ch[c] : d.cursor < e.cursor
ChannelsAreExact == \A c \in subs \ missed : EventsAreComplete(c) /\ EventsInOrder(c)

\* A change that a client asked for is in its mirror, or comes, or a resync does.
Tells(e, m) == e.event.kind = "resync" \/ (e.event.kind = "change" /\ e.event.what = m)
NothingIsSkipped(c) ==
    /\ \A e \in ToCome(c) : e.event.kind = "change" =>
          \A m \in 1 .. e.event.what : Wants(c, happened[m]) /\ OfOneMachine(m, e.event.what) =>
             m \in reflects[c] \/ \E d \in ToCome(c) : d.cursor <= e.cursor /\ Tells(d, m)
    /\ \A p \in pumps : \A m \in 1 .. p.pos :
          Wants(c, happened[m]) /\ (happened[m] \in hubEnv.remote <=> p.remote) =>
             m \in reflects[c] \/ \E d \in ToCome(c) : Tells(d, m)
MirrorsAreWhole ==
    \A c \in Clients \ missed : MirrorIsWhole(c) /\ (UpToDate(c) => NothingIsSkipped(c))

GapInvariant ==
    CursorsInOrder /\ StreamStaysOn /\ ListsAreFed /\ ChannelsAreExact /\ MirrorsAreWhole

HubInvariant ==
    /\ HubTypes /\ EventsAreReal
    /\ MayNot({"race"}) => FeedInvariant
    /\ OneFilter => GapInvariant
=============================================================================
