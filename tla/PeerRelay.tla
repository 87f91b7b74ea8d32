----------------------------- MODULE PeerRelay ------------------------------
(***************************************************************************)
(* What the peer driver does with a peer that is not down: relaying an     *)
(* operation (internal/drivers/remote/remote.go) and following the peer's  *)
(* events (internal/drivers/remote/subscribe.go).  PeerDown has the state  *)
(* in which it does neither.                                               *)
(*                                                                         *)
(* A peer may run another build, and a build ignores the fields it does    *)
(* not know.  So a create with such a field asks the peer's health first,  *)
(* unless a cached answer says yes; background refreshes of that cache and *)
(* other calls write it at any time, each with an answer the peer gave     *)
(* earlier.                                                                *)
(*                                                                         *)
(* The event stream is one goroutine that reads a connection into a        *)
(* bounded channel, remembers the last cursor it read, and offers it when  *)
(* it connects again.  The peer is this program too: its hub has a bounded *)
(* channel for each subscriber, leaves out what finds that one full, and   *)
(* its handler writes the rest to the connection (events.go, http.go).     *)
(* The events are those the subscription asks for, numbered among          *)
(* themselves.                                                             *)
(***************************************************************************)
EXTENDS Integers, Sequences, FiniteSets

CONSTANTS
    RelayEnvironments   \* what may happen to the peer and the network, a set of records

(***************************************************************************)
(*   ops      the operations that are called                               *)
(*   may      the peer gets a newer ("upgrade") or an older ("downgrade")  *)
(*            build, a call loses its answer ("lost"), a request arrives   *)
(*            after the caller was told ("late"), another session takes    *)
(*            the name ("reuse"), the caller has no credential             *)
(*            ("anonymous"), the peer is down or refuses ("refuse"), a     *)
(*            discard names the run it is for ("pin"), the peer restarts   *)
(*            ("restart") and has a state directory that keeps its epoch   *)
(*            and cursor ("durable"), the refresh at start-up is under way *)
(*            ("boot")                                                     *)
(*   calls, events, cuts   bounds: calls, events of the peer, connections  *)
(*            lost                                                         *)
(*   window, places   of the peer: the events it retains, the places in    *)
(*            the channel of its subscriber                                *)
(*   outbox   places in the channel here                                   *)
(***************************************************************************)
ASSUME RelayAssumption ==
    \A e \in RelayEnvironments :
       /\ e.ops \subseteq {"create", "send", "interrupt", "respond", "state", "close", "rename",
                           "keys", "labels", "discard", "list", "closed"}
       /\ e.may \subseteq {"upgrade", "downgrade", "lost", "late", "reuse", "anonymous",
                           "refuse", "pin", "restart", "durable", "boot"}
       /\ {e.calls, e.events, e.cuts} \subseteq Nat
       /\ {e.window, e.places, e.outbox} \subseteq Nat \ {0}

VARIABLES
    relayEnv,    \* the environment of this behaviour
    peer,        \* the peer: what its build carries, the run behind the name, its epoch
    caps,        \* what a cached health answer says the peer carries
    age,         \* of the capabilities: "none", "fresh" or "stale"
    refreshes,   \* RefreshCapabilities at start-up, and the one a contact starts
    relays,      \* the calls
    wire,        \* the requests the peer has not received
    effects,     \* what the peer did
    feed,        \* the events the peer published
    atStart,     \* how many of them before its last start
    conn,        \* the connection: what was written to it, and the channel of the peer's
                 \* subscriber; or "off"
    unsaid,      \* the events that the peer's hub left out without a word (history variable)
    resume,      \* the cursor and epoch that run offers
    outbox,      \* peerStream.out
    relayed,     \* what was taken from the stream
    cuts         \* connections lost so far

relayCallVars == <<caps, age, refreshes, relays, wire, effects>>
relayStreamVars == <<feed, atStart, conn, unsaid, resume, outbox, relayed, cuts>>
relayVars == <<relayEnv, peer, relayCallVars, relayStreamVars>>

RelayMay(what) == what \in relayEnv.may
Features == {"labels", "conversation", "settings", "outside"}
\* An older build carries less.
Builds == {{}, {"labels"}, Features \ {"outside"}, Features}
NoRefresh == [at |-> "no", got |-> {}]
Nowhere == [cursor |-> 0, epoch |-> 0]
ConnOff == [on |-> FALSE, last |-> Nowhere, queue |-> <<>>, channel |-> <<>>]

RelayInit ==
    /\ relayEnv \in RelayEnvironments
    /\ \E feats \in Builds : peer = [feats |-> feats, run |-> 1, epoch |-> 1]
    /\ caps = {} /\ age = "none"
    /\ refreshes = [contact |-> NoRefresh,
                    boot |-> IF RelayMay("boot") THEN [at |-> "runtimes", got |-> {}]
                             ELSE NoRefresh]
    /\ relays = <<>> /\ wire = {} /\ effects = {}
    /\ feed = <<>> /\ atStart = 0 /\ conn = ConnOff /\ unsaid = {} /\ resume = Nowhere
    /\ outbox = <<>> /\ relayed = <<>> /\ cuts = 0

-----------------------------------------------------------------------------
(* The peer *)

Upgrade ==
    /\ RelayMay("upgrade") /\ peer.feats # Features
    /\ peer' = [peer EXCEPT !.feats = Features]
    /\ UNCHANGED <<relayEnv, relayCallVars, relayStreamVars>>

Downgrade ==
    /\ RelayMay("downgrade") /\ peer.feats # {}
    /\ peer' = [peer EXCEPT !.feats = {}]
    /\ UNCHANGED <<relayEnv, relayCallVars, relayStreamVars>>

Reuse ==
    /\ RelayMay("reuse") /\ peer.run = 1
    /\ peer' = [peer EXCEPT !.run = 2]
    /\ UNCHANGED <<relayEnv, relayCallVars, relayStreamVars>>

\* A session a list returns carries labels on a build that has them; an older build also
\* ignores the filter.
Executed(r, c) ==
    [by |-> c, op |-> r.op, pin |-> r.pin, run |-> peer.run, key |-> r.key, wants |-> r.wants,
     carried |-> r.wants \cap peer.feats]

\* What the peer answers, by the build it runs: "missing" is a route it does not have.
PeerAnswer(r) ==
    IF r.op \in {"labels", "closed"} /\ "labels" \notin peer.feats THEN "missing"
    ELSE IF r.sent \notin {0, peer.run} THEN "conflict"
    ELSE IF r.op = "list" /\ r.wants \ peer.feats # {} THEN "unfiltered" ELSE "ok"

\* The peer receives a request.  A key that it has seen replays the session of that key.
PeerReceives ==
    \E c \in wire :
       LET r == relays[c]
           answer == PeerAnswer(r)
           replay == r.key # 0 /\ \E x \in effects : x.key = r.key
       IN /\ wire' = wire \ {c}
          /\ effects' = IF answer \in {"ok", "unfiltered"} /\ ~replay
                        THEN effects \cup {Executed(r, c)} ELSE effects
          /\ relays' = IF r.at # "sent" THEN relays
                       ELSE [relays EXCEPT ![c].at = "replied", ![c].is = answer]
          /\ UNCHANGED <<relayEnv, peer, caps, age, refreshes, relayStreamVars>>

PeerRefuses ==
    \E c \in wire :
       /\ RelayMay("refuse") /\ relays[c].at = "sent"
       /\ wire' = wire \ {c}
       /\ \E is \in {"refused", "unauthorized"} :
             relays' = [relays EXCEPT ![c].at = "replied", ![c].is = is]
       /\ UNCHANGED <<relayEnv, peer, caps, age, refreshes, effects, relayStreamVars>>

-----------------------------------------------------------------------------
(* The operations *)

\* sent is the start time that travels with the request.
Relay(op, pin, sent, wants, key, needs) ==
    /\ op \in relayEnv.ops /\ Len(relays) < relayEnv.calls
    /\ relays' = Append(relays, [op |-> op, pin |-> pin, sent |-> sent, wants |-> wants,
                                 key |-> key, needs |-> needs, at |-> "ready", is |-> "",
                                 got |-> {}])
    /\ UNCHANGED <<relayEnv, peer, caps, age, refreshes, wire, effects, relayStreamVars>>

\* What has to be confirmed before a create is sent, and in which order.
Needs(wants) == wants \cap {"labels", "conversation", "settings"}
FirstOf(needs) ==
    IF "labels" \in needs THEN "labels" ELSE IF "conversation" \in needs THEN "conversation" ELSE "settings"

\* A caller that was told nothing comes back with the same key and the same body.
CreateCall ==
    \/ \E wants \in SUBSET Features :
          /\ "outside" \in wants => "settings" \in wants
          /\ Relay("create", 0, 0, wants, Len(relays) + 1, Needs(wants))
    \/ \E c \in DOMAIN relays :
          /\ relays[c].op = "create" /\ relays[c].is = "unreachable"
          /\ Relay("create", 0, 0, relays[c].wants, relays[c].key, Needs(relays[c].wants))

\* With these, nothing but the name tells the peer which run is meant.
SendCall == Relay("send", 0, 0, {}, 0, {})
InterruptCall == Relay("interrupt", 0, 0, {}, 0, {})
RespondCall == Relay("respond", 0, 0, {}, 0, {})
StateCall == Relay("state", 0, 0, {}, 0, {})
CloseCall == \E pin \in 0 .. peer.run : Relay("close", pin, pin, {}, 0, {})
RenameCall == \E pin \in 0 .. peer.run : Relay("rename", pin, pin, {}, 0, {})
KeysCall == \E pin \in 0 .. peer.run : Relay("keys", pin, pin, {}, 0, {})
LabelsCall == \E pin \in 0 .. peer.run : Relay("labels", pin, pin, {}, 0, {})
DiscardCall == \E pin \in IF RelayMay("pin") THEN 0 .. peer.run ELSE {0} :
                  Relay("discard", pin, 0, {}, 0, {})
ListCall == \E wants \in SUBSET {"labels"} : Relay("list", 0, 0, wants, 0, {})
ListClosedCall == Relay("closed", 0, 0, {}, 0, {})

Finish(c, is) == relays' = [relays EXCEPT ![c].at = "done", ![c].is = is, ![c].needs = {}]

\* bearerFor, admit: refused before anything is dialled.
NotDialled ==
    \E c \in DOMAIN relays :
       /\ relays[c].at = "ready"
       /\ \/ RelayMay("anonymous") /\ Finish(c, "no authority")
          \/ RelayMay("refuse") /\ Finish(c, "not dialled")
       /\ UNCHANGED <<relayEnv, peer, caps, age, refreshes, wire, effects, relayStreamVars>>

\* What a cached or a fresh health answer has to say for the first need of a create.
Carries(r, feats) ==
    LET need == FirstOf(r.needs)
    IN /\ need \in feats
       /\ need = "settings" /\ "outside" \in r.wants => "outside" \in feats

Confirmed ==
    \E c \in DOMAIN relays :
       /\ relays[c].at = "ready" /\ relays[c].needs # {} /\ Carries(relays[c], caps)
       /\ relays' = [relays EXCEPT ![c].needs = @ \ {FirstOf(@)}]
       /\ UNCHANGED <<relayEnv, peer, caps, age, refreshes, wire, effects, relayStreamVars>>

\* requireLabels, requireConversationId, requireLaunchSettings ask the peer's health.
AskHealth ==
    \E c \in DOMAIN relays :
       /\ relays[c].at = "ready" /\ relays[c].needs # {} /\ ~Carries(relays[c], caps)
       /\ relays' = [relays EXCEPT ![c].at = "asking", ![c].got = peer.feats]
       /\ UNCHANGED <<relayEnv, peer, caps, age, refreshes, wire, effects, relayStreamVars>>

\* requireLabels keeps what the answer says of labels, the other two keep all of it.
Learned(need, got) ==
    IF need = "labels" THEN (caps \ {"labels"}) \cup (got \cap {"labels"}) ELSE got

\* Mutant: the answer for one field is taken for all of them.
NextNeedAll(r) == {}

NextNeed(r) == r.needs \ {FirstOf(r.needs)}

HealthAnswers ==
    \E c \in DOMAIN relays :
       LET r == relays[c]
       IN /\ r.at = "asking"
          /\ caps' = Learned(FirstOf(r.needs), r.got)
          /\ IF Carries(r, r.got)
             THEN relays' = [relays EXCEPT ![c].at = "ready", ![c].needs = NextNeed(r)]
             ELSE Finish(c, "unsupported")
          /\ UNCHANGED <<relayEnv, peer, age, refreshes, wire, effects, relayStreamVars>>

HealthFails ==
    \E c \in DOMAIN relays :
       /\ RelayMay("lost") /\ relays[c].at = "asking"
       /\ Finish(c, "unconfirmed")
       /\ UNCHANGED <<relayEnv, peer, caps, age, refreshes, wire, effects, relayStreamVars>>

Dispatch ==
    \E c \in DOMAIN relays :
       /\ relays[c].at = "ready" /\ relays[c].needs = {}
       /\ relays' = [relays EXCEPT ![c].at = "sent"]
       /\ wire' = wire \cup {c}
       /\ UNCHANGED <<relayEnv, peer, caps, age, refreshes, effects, relayStreamVars>>

\* noteSuccessfulContact
NoteContact ==
    refreshes' = IF age # "fresh" /\ refreshes.contact = NoRefresh
                 THEN [refreshes EXCEPT !.contact.at = "runtimes"] ELSE refreshes

\* How an answer reaches the caller: a list folds an error into the status of the source.
AnswerOf(r) ==
    CASE r.op = "list" /\ r.is = "unfiltered" -> "degraded"
      [] r.op \in {"list", "closed"} /\ r.is \in {"refused", "missing"} -> "degraded"
      [] r.op \notin {"list", "closed"} /\ r.is = "missing" -> "unsupported"
      [] OTHER -> r.is

Replied ==
    \E c \in DOMAIN relays :
       /\ relays[c].at = "replied"
       /\ Finish(c, AnswerOf(relays[c]))
       /\ NoteContact
       /\ UNCHANGED <<relayEnv, peer, caps, age, wire, effects, relayStreamVars>>

\* transportFailure: no answer.  The request may be under way still.
NoAnswer ==
    \E c \in DOMAIN relays :
       /\ RelayMay("lost") /\ relays[c].at \in {"sent", "replied"}
       /\ Finish(c, "unreachable")
       /\ wire' \in {wire \ {c}} \cup (IF RelayMay("late") THEN {wire} ELSE {})
       /\ UNCHANGED <<relayEnv, peer, caps, age, refreshes, effects, relayStreamVars>>

-----------------------------------------------------------------------------
(* RefreshCapabilities, at start-up and in the background *)

RefreshAsked == [runtimes |-> "runtimes asked", health |-> "health asked"]
RefreshAsks ==
    \E who \in DOMAIN refreshes :
       /\ refreshes[who].at \in {"runtimes", "health"}
       /\ refreshes' = [refreshes EXCEPT ![who] = [at |-> RefreshAsked[@.at], got |-> peer.feats]]
       /\ UNCHANGED <<relayEnv, peer, caps, age, relays, wire, effects, relayStreamVars>>

RefreshLearns ==
    \E who \in DOMAIN refreshes :
       /\ \/ /\ refreshes[who].at = "runtimes asked"
             /\ age' = "fresh" /\ UNCHANGED caps
             /\ refreshes' = [refreshes EXCEPT ![who].at = "health"]
          \/ /\ refreshes[who].at = "health asked"
             /\ caps' = refreshes[who].got /\ UNCHANGED age
             /\ refreshes' = [refreshes EXCEPT ![who] = NoRefresh]
       /\ UNCHANGED <<relayEnv, peer, relays, wire, effects, relayStreamVars>>

RefreshFails ==
    \E who \in DOMAIN refreshes :
       /\ RelayMay("lost") /\ refreshes[who].at \in {"runtimes asked", "health asked"}
       /\ refreshes' = [refreshes EXCEPT ![who] = NoRefresh]
       /\ UNCHANGED <<relayEnv, peer, caps, age, relays, wire, effects, relayStreamVars>>

\* capabilityStaleness passes.
Ages ==
    /\ age = "fresh" /\ relayEnv.ops # {}
    /\ age' = "stale"
    /\ UNCHANGED <<relayEnv, peer, caps, refreshes, relays, wire, effects, relayStreamVars>>

-----------------------------------------------------------------------------
(* The peer's events *)

RelayItem(kind, cursor, epoch) == [kind |-> kind, cursor |-> cursor, epoch |-> epoch]

\* The cursors of an epoch start at one.
Published == Cardinality({n \in DOMAIN feed : feed[n].epoch = peer.epoch})

\* publish: the event goes into the window, and to the subscriber unless its channel is full.
\* Nobody reads the flag that is set then.
PeerPublishes ==
    /\ Len(feed) < relayEnv.events
    /\ LET ev == RelayItem("event", Published + 1, peer.epoch)
           full == Len(conn.channel) >= relayEnv.places
       IN /\ feed' = Append(feed, ev)
          /\ conn' = IF conn.on /\ ~full THEN [conn EXCEPT !.channel = Append(@, ev)] ELSE conn
          /\ unsaid' = IF conn.on /\ full THEN unsaid \cup {<<ev.cursor, ev.epoch>>} ELSE unsaid
    /\ UNCHANGED <<relayEnv, peer, relayCallVars, atStart, resume, outbox, relayed, cuts>>

\* handleEvents writes what it takes from the channel, when the connection lets it.
PeerStreams ==
    /\ conn.channel # <<>>
    /\ conn' = [conn EXCEPT !.queue = Append(@, Head(conn.channel)), !.channel = Tail(@)]
    /\ UNCHANGED <<relayEnv, peer, relayCallVars, feed, atStart, unsaid, resume, outbox, relayed, cuts>>

\* The peer starts again: with an empty window, in a new epoch unless it kept the old one.  A
\* start with nothing published since the last one is no other to whoever resumes.
PeerRestarts ==
    /\ RelayMay("restart") /\ ~conn.on /\ atStart < Len(feed)
    /\ atStart' = Len(feed)
    /\ peer' = IF RelayMay("durable") THEN peer ELSE [peer EXCEPT !.epoch = @ + 1]
    /\ UNCHANGED <<relayEnv, relayCallVars, feed, conn, unsaid, resume, outbox, relayed, cuts>>

\* The events in the window of the hub, the last ones.
Retained == IF Len(feed) - atStart < relayEnv.window THEN Len(feed) - atStart ELSE relayEnv.window

\* add: the events after the cursor, or a resync if the hub has not published it or retains
\* them no more.  An empty window lacks nothing.
Backlog(from) ==
    LET missed == Published - from.cursor
    IN IF from = Nowhere THEN <<>>
       ELSE IF from.epoch # peer.epoch \/ missed < 0 \/ (Retained > 0 /\ missed > Retained)
            THEN <<RelayItem("resync", 0, peer.epoch)>>
       ELSE IF Retained = 0 THEN <<>>
       ELSE SubSeq(feed, Len(feed) - missed + 1, Len(feed))

\* So what a restart took from it is resumed past without a word.
ResumedPast(from) ==
    IF from.epoch = peer.epoch /\ Retained = 0
    THEN {<<c, peer.epoch>> : c \in (from.cursor + 1) .. Published} ELSE {}

Connect ==
    /\ ~conn.on /\ relayEnv.events > 0
    /\ conn' = [on |-> TRUE, last |-> Nowhere, queue |-> Backlog(resume), channel |-> <<>>]
    /\ unsaid' = unsaid \cup ResumedPast(resume)
    /\ UNCHANGED <<relayEnv, peer, relayCallVars, feed, atStart, resume, outbox, relayed, cuts>>

\* consume: the cursor is noted and the event goes to the channel, which may be full.
Consume ==
    /\ conn.on /\ conn.queue # <<>> /\ Len(outbox) < relayEnv.outbox
    /\ LET ev == Head(conn.queue)
       IN /\ conn' = [conn EXCEPT !.queue = Tail(@),
                                  !.last = [cursor |-> ev.cursor, epoch |-> ev.epoch]]
          /\ outbox' = Append(outbox, ev)
    /\ UNCHANGED <<relayEnv, peer, relayCallVars, feed, atStart, unsaid, resume, relayed, cuts>>

\* Mutant: a connection that brought nothing takes the cursor with it.
ResumeLatest(last) == last

\* run: what to offer next time
ResumeFrom(last) == IF last.cursor > 0 THEN last ELSE resume

\* The connection ends, and whoever reads the stream is told.
Cut ==
    /\ conn.on /\ cuts < relayEnv.cuts /\ Len(outbox) < relayEnv.outbox
    /\ conn' = ConnOff
    /\ resume' = ResumeFrom(conn.last)
    /\ outbox' = Append(outbox, RelayItem("down", 0, 0))
    /\ cuts' = cuts + 1
    /\ UNCHANGED <<relayEnv, peer, relayCallVars, feed, atStart, unsaid, relayed>>

\* Next
TakeRelayed ==
    /\ outbox # <<>>
    /\ relayed' = Append(relayed, Head(outbox))
    /\ outbox' = Tail(outbox)
    /\ UNCHANGED <<relayEnv, peer, relayCallVars, feed, atStart, conn, unsaid, resume, cuts>>

RelayNext ==
    \/ Upgrade \/ Downgrade \/ Reuse \/ PeerReceives \/ PeerRefuses
    \/ CreateCall \/ SendCall \/ InterruptCall \/ RespondCall \/ StateCall
    \/ CloseCall \/ RenameCall \/ KeysCall \/ LabelsCall \/ DiscardCall
    \/ ListCall \/ ListClosedCall
    \/ NotDialled \/ Confirmed \/ AskHealth \/ HealthAnswers \/ HealthFails \/ Dispatch
    \/ Replied \/ NoAnswer
    \/ RefreshAsks \/ RefreshLearns \/ RefreshFails \/ Ages
    \/ PeerPublishes \/ PeerStreams \/ PeerRestarts \/ Connect \/ Consume \/ Cut \/ TakeRelayed

RelaySpec == RelayInit /\ [][RelayNext]_relayVars

-----------------------------------------------------------------------------
(* Properties *)

RelayAnswered(c, set) == relays[c].at = "done" /\ relays[c].is \in set

\* The peer starts no session without something the create asked for, and one session for
\* each key; a call this driver refuses did nothing at the peer; a list that reads as
\* complete was filtered; and a call that names a run reached that run.
RelayedAsAsked ==
    /\ \A x \in effects : x.op = "create" => x.carried = x.wants
    /\ \A x, y \in effects : x.key = y.key /\ x.key # 0 => x = y
    /\ \A c \in DOMAIN relays :
          RelayAnswered(c, {"no authority", "not dialled", "unconfirmed", "unsupported"})
             => \A x \in effects : x.by # c
    /\ \A c \in DOMAIN relays, x \in effects :
          RelayAnswered(c, {"ok"}) /\ relays[c].op = "list" /\ x.by = c => x.carried = x.wants
    /\ \A x \in effects : x.pin \in {0, x.run}

\* Two events of the peer that follow one another in the stream stand in the peer's order, and
\* whatever is missing between them its hub left out without a word (the channel was full, or
\* it was resumed with a window it had lost), unless a resync stands between them: over any number of lost connections
\* nothing comes twice, nothing out of order, and resuming loses nothing that the hub has.
PeerEventsAreExact ==
    \A i, j \in DOMAIN relayed :
       /\ i < j /\ relayed[i].kind = "event" /\ relayed[j].kind = "event"
       /\ \A k \in (i + 1) .. (j - 1) : relayed[k].kind = "down"
       => /\ relayed[j].epoch = relayed[i].epoch /\ relayed[j].cursor > relayed[i].cursor
          /\ \A c \in (relayed[i].cursor + 1) .. (relayed[j].cursor - 1) :
                <<c, relayed[i].epoch>> \in unsaid
=============================================================================
