------------------------------- MODULE PaneStream ------------------------------
(***************************************************************************)
(* The event stream of one subscription (drivers/tmux/subscribe.go).  The  *)
(* multiplexer pushes notes to control clients: notes about sessions that  *)
(* come and go to every client, notes about a screen only to a client of   *)
(* that session, and a client dies with its session.  So a stream has one  *)
(* lifecycle client, kept up by a supervisor, and content clients for the  *)
(* sessions it watches.  A note is only a trigger: the engine then lists   *)
(* the sessions and tells its subscriber how they differ from the last     *)
(* listing it told of.                                                     *)
(***************************************************************************)
EXTENDS Naturals, Sequences, FiniteSets, TLC

CONSTANTS
    StreamNames,          \* the names of sessions
    maxContentClients,    \* content clients of a stream at a time (16)
    maxFutileReattach,    \* clients in a row that died without a note (3)
    StreamEnvironments    \* what may happen, a set of records

(***************************************************************************)
(*   may       a session comes or goes while the subscription is made      *)
(*             ("early"), or while no lifecycle client is attached         *)
(*             ("gap"); a screen changes while the stream is still at work *)
(*             on something earlier ("hurry"); a listing fails ("fail"); a *)
(*             content client dies on its own and mute ("mute"); the       *)
(*             subscriber closes the stream ("close")                      *)
(*   first     the sessions at first                                       *)
(*   starts, changes, deaths   bounds                                      *)
(***************************************************************************)
ASSUME StreamAssumption ==
    /\ {maxContentClients, maxFutileReattach} \subseteq Nat
    /\ \A e \in StreamEnvironments :
          /\ e.may \subseteq {"early", "gap", "hurry", "fail", "mute", "close"}
          /\ e.first \subseteq StreamNames /\ e.first # {}
          /\ {e.starts, e.changes, e.deaths} \subseteq Nat

VARIABLES
    paneEnv,     \* the environment of this behaviour
    world,       \* the sessions of the multiplexer: the run under each name (0 is none) and its screen
    spent,       \* starts, changes and deaths so far
    clients,     \* the control clients this stream has opened
    subscribe,   \* Subscribe: where it is, and the sessions it has yet to dial
    stream,      \* eventStream: conns, reattach, the trigger and whether it is closed
    life,        \* superviseLifecycle: where it is and its client
    engine,      \* run: where it is, its listing and what it has yet to compare
    told         \* what the subscriber knows of each session, 0 is none

paneVars == <<paneEnv, world, spent, clients, subscribe, stream, life, engine, told>>

PaneMay(what) == what \in paneEnv.may
NoMark == [pending |-> FALSE, futile |-> 0]
NoneKnown == [n \in StreamNames |-> 0]

(* What a listing says of each session: its screen, 0 is none.             *)
Listed == [n \in StreamNames |-> world[n].screen]

PaneInit ==
    /\ paneEnv \in StreamEnvironments
    /\ world = [n \in StreamNames |-> IF n \in paneEnv.first THEN [run |-> 1, screen |-> 1]
                                                             ELSE [run |-> 0, screen |-> 0]]
    /\ spent = [starts |-> 0, changes |-> 0, deaths |-> 0]
    /\ clients = <<>>
    /\ subscribe = [at |-> "rows", todo |-> {}]
    /\ stream = [conns |-> NoneKnown, lifecycle |-> 0, marks |-> [n \in StreamNames |-> NoMark],
                 trigger |-> FALSE, closed |-> FALSE]
    /\ life = [at |-> "none", conn |-> 0]
    /\ engine = [at |-> "none", read |-> NoneKnown, todo |-> {}, clear |-> {}, known |-> NoneKnown]
    /\ told = NoneKnown

-----------------------------------------------------------------------------
(* The multiplexer *)

Open(c) == clients[c].is = "open"
Client(n, what) == [to |-> n, what |-> what, is |-> "open", note |-> FALSE, spoke |-> FALSE]

(* A note about the sessions goes to every client.  The pump of a content  *)
(* client only sees by it that the client works.                           *)
Noted(cs) == [c \in DOMAIN cs |-> IF cs[c].is # "open" THEN cs[c]
                 ELSE [cs[c] EXCEPT !.spoke = TRUE, !.note = @ \/ cs[c].what = "lifecycle"]]
Died(cs, n) == [c \in DOMAIN cs |-> IF cs[c].is = "open" /\ cs[c].to = n THEN [cs[c] EXCEPT !.is = "dead"] ELSE cs[c]]

LifecycleHears == \E c \in DOMAIN clients : clients[c].what = "lifecycle" /\ Open(c)
WorldMoves == IF subscribe.at = "running" THEN LifecycleHears \/ PaneMay("gap") ELSE PaneMay("early")

SessionStarts(n) ==
    /\ world[n].run = 0 /\ spent.starts < paneEnv.starts /\ WorldMoves
    /\ world' = [world EXCEPT ![n] = [run |-> spent.starts + 2, screen |-> 1]]
    /\ spent' = [spent EXCEPT !.starts = @ + 1]
    /\ clients' = Noted(clients)
    /\ UNCHANGED <<paneEnv, subscribe, stream, life, engine, told>>

SessionEnds(n) ==
    /\ world[n].run # 0 /\ WorldMoves
    /\ world' = [world EXCEPT ![n] = [run |-> 0, screen |-> 0]]
    /\ clients' = Died(Noted(clients), n)
    /\ UNCHANGED <<paneEnv, spent, subscribe, stream, life, engine, told>>

AtRest ==
    /\ engine.at = "wait" /\ ~stream.trigger
    /\ \A c \in DOMAIN clients : ~clients[c].note /\ clients[c].is # "dead"

ScreenChanges(n) ==
    LET watching == {c \in DOMAIN clients : Open(c) /\ clients[c].to = n /\ clients[c].what = "content"} IN
    /\ world[n].run # 0 /\ spent.changes < paneEnv.changes
    /\ subscribe.at = "running" \/ PaneMay("early")
    /\ AtRest \/ PaneMay("hurry")
    /\ world' = [world EXCEPT ![n] = [@ EXCEPT !.screen = 3 - world[n].screen]]
    /\ spent' = [spent EXCEPT !.changes = @ + 1]
    /\ clients' = [c \in DOMAIN clients |->
          IF c \in watching THEN [clients[c] EXCEPT !.note = TRUE, !.spoke = TRUE] ELSE clients[c]]
    /\ UNCHANGED <<paneEnv, subscribe, stream, life, engine, told>>

ClientDies(c) ==
    /\ PaneMay("mute") /\ Open(c) /\ clients[c].what = "content" /\ spent.deaths < paneEnv.deaths
    /\ clients' = [clients EXCEPT ![c] = [@ EXCEPT !.is = "dead"]]
    /\ spent' = [spent EXCEPT !.deaths = @ + 1]
    /\ UNCHANGED <<paneEnv, world, subscribe, stream, life, engine, told>>

ClientClosed(cs, c) == [cs EXCEPT ![c] = [@ EXCEPT !.is = "closed"]]

-----------------------------------------------------------------------------
(* Subscribe *)

(* The lifecycle client is attached to some session, and its supervisor    *)
(* starts before Subscribe has stored the client.                          *)
SubscribeDialsLifecycle ==
    /\ subscribe.at = "rows"
    /\ \E n \in StreamNames :
          /\ world[n].run # 0
          /\ clients' = Append(clients, Client(n, "lifecycle"))
          /\ life' = [at |-> "pump", conn |-> Len(clients) + 1]
    /\ subscribe' = [at |-> "content", todo |-> {n \in StreamNames : world[n].run # 0}]
    /\ UNCHANGED <<paneEnv, world, spent, stream, engine, told>>

Watching == {n \in StreamNames : stream.conns[n] # 0}

(* A session that vanished meanwhile is passed over; past the bound the    *)
(* rest are.                                                               *)
SubscribeDialsContent ==
    /\ subscribe.at = "content"
    /\ \E n \in subscribe.todo :
          IF Cardinality(Watching) >= maxContentClients
          THEN subscribe' = [subscribe EXCEPT !.todo = {}] /\ UNCHANGED <<clients, stream>>
          ELSE /\ subscribe' = [subscribe EXCEPT !.todo = @ \ {n}]
               /\ IF world[n].run = 0 THEN UNCHANGED <<clients, stream>>
                  ELSE /\ clients' = Append(clients, Client(n, "content"))
                       /\ stream' = [stream EXCEPT !.conns = [@ EXCEPT ![n] = Len(clients) + 1]]
    /\ UNCHANGED <<paneEnv, world, spent, life, engine, told>>

SubscribeStoresLifecycle ==
    /\ subscribe.at = "content" /\ subscribe.todo = {}
    /\ stream' = [stream EXCEPT !.lifecycle = 1]
    /\ subscribe' = [subscribe EXCEPT !.at = "seed"]
    /\ UNCHANGED <<paneEnv, world, spent, clients, life, engine, told>>

(* The listing that the engine starts from is taken before Subscribe       *)
(* returns; the subscriber lists for itself after it.                      *)
SubscribeSeeds ==
    /\ subscribe.at = "seed"
    /\ subscribe' = [subscribe EXCEPT !.at = "running"]
    /\ engine' = [engine EXCEPT !.at = "wait", !.known = Listed]
    /\ told' = Listed
    /\ UNCHANGED <<paneEnv, world, spent, clients, stream, life>>

-----------------------------------------------------------------------------
(* The pumps and the supervisor *)

(* pump: a note that its client wants leaves one trigger.                  *)
Pump(c) ==
    /\ clients[c].note /\ ~stream.closed
    /\ clients[c].what = "lifecycle" => life.at = "pump" /\ life.conn = c
    /\ clients' = [clients EXCEPT ![c] = [@ EXCEPT !.note = FALSE]]
    /\ stream' = [stream EXCEPT !.trigger = TRUE]
    /\ UNCHANGED <<paneEnv, world, spent, subscribe, life, engine, told>>

Ended(c) == ~Open(c) /\ ~clients[c].note /\ ~stream.closed

(* pumpContent: its client has died.  If the stream still holds it, its    *)
(* session may be there again under the same name: leave a mark.           *)
PumpContentEnds(c) ==
    LET n == clients[c].to
        mark == [pending |-> TRUE, futile |-> IF clients[c].spoke THEN 0 ELSE stream.marks[n].futile + 1]
    IN /\ clients[c].what = "content" /\ clients[c].is = "dead" /\ Ended(c)
       /\ clients' = ClientClosed(clients, c)
       /\ stream' = IF stream.conns[n] = c
                    THEN [stream EXCEPT !.conns = [@ EXCEPT ![n] = 0],
                                        !.marks = [@ EXCEPT ![n] = mark], !.trigger = TRUE]
                    ELSE [stream EXCEPT !.trigger = TRUE]
       /\ UNCHANGED <<paneEnv, world, spent, subscribe, life, engine, told>>

(* superviseLifecycle: the session that carried the client has gone.  Say  *)
(* so, leave a trigger, reap the client.                                   *)
LifecycleLost ==
    /\ life.at = "pump" /\ Ended(life.conn)
    /\ stream' = [stream EXCEPT !.trigger = TRUE]
    /\ clients' = ClientClosed(clients, life.conn)
    /\ life' = [life EXCEPT !.at = "find"]
    /\ UNCHANGED <<paneEnv, world, spent, subscribe, engine, told>>

(* reattachLifecycle: any session will do, and it asks again until there   *)
(* is one.                                                                 *)
LifecycleFound ==
    /\ life.at = "find" /\ ~stream.closed
    /\ \E n \in StreamNames : world[n].run # 0 /\ clients' = Append(clients, Client(n, "lifecycle"))
    /\ life' = [at |-> "store", conn |-> Len(clients) + 1]
    /\ UNCHANGED <<paneEnv, world, spent, subscribe, stream, engine, told>>

LifecycleStoredAnyway ==
    /\ life.at = "store"
    /\ stream' = [stream EXCEPT !.lifecycle = life.conn] /\ life' = [life EXCEPT !.at = "pump"]
    /\ UNCHANGED <<paneEnv, world, spent, clients, subscribe, engine, told>>

LifecycleStored ==
    /\ life.at = "store"
    /\ IF stream.closed
       THEN /\ clients' = ClientClosed(clients, life.conn)
            /\ life' = [life EXCEPT !.at = "over"] /\ UNCHANGED stream
       ELSE /\ stream' = [stream EXCEPT !.lifecycle = life.conn]
            /\ life' = [life EXCEPT !.at = "pump"] /\ UNCHANGED clients
    /\ UNCHANGED <<paneEnv, world, spent, subscribe, engine, told>>

-----------------------------------------------------------------------------
(* The engine *)

EngineWakes ==
    /\ engine.at = "wait" /\ stream.trigger /\ ~stream.closed
    /\ engine' = [engine EXCEPT !.at = "settle"]
    /\ stream' = [stream EXCEPT !.trigger = FALSE]
    /\ UNCHANGED <<paneEnv, world, spent, clients, subscribe, life, told>>

(* After the burst: one listing.  One that fails, or that is not complete, *)
(* is not compared with anything.                                          *)
EngineReads ==
    /\ engine.at = "settle" /\ ~stream.closed
    /\ stream' = [stream EXCEPT !.trigger = FALSE]
    /\ \/ engine' = [engine EXCEPT !.at = "diff", !.read = Listed, !.todo = StreamNames]
       \/ PaneMay("fail") /\ engine' = [engine EXCEPT !.at = "wait"]
    /\ UNCHANGED <<paneEnv, world, spent, clients, subscribe, life, told>>

(* takeReattach spends the mark; more clients in a row without a note than *)
(* the bound are not followed by another.                                  *)
takeReattachNoMore(n) == stream.marks[n].pending /\ stream.marks[n].futile > maxFutileReattach
takeReattach(n) == stream.marks[n].pending /\ stream.marks[n].futile <= maxFutileReattach
Spent(s, n) ==
    IF s.marks[n].pending THEN [s EXCEPT !.marks = [s.marks EXCEPT ![n] = [@ EXCEPT !.pending = FALSE]]]
    ELSE s

(* attachContent: not twice, not past the bound, and not if the session    *)
(* cannot be attached to.                                                  *)
CanAttach(n) == stream.conns[n] = 0 /\ Cardinality(Watching) < maxContentClients /\ world[n].run # 0

EngineSees(n) ==
    LET had == engine.known[n] # 0
        attach == (~had \/ takeReattach(n)) /\ CanAttach(n)
    IN /\ engine.at = "diff" /\ n \in engine.todo /\ engine.read[n] # 0 /\ ~stream.closed
       /\ engine' = [engine EXCEPT !.todo = @ \ {n}, !.known = [@ EXCEPT ![n] = engine.read[n]]]
       \* created, or state when it differs: either way the subscriber now has what was read
       /\ told' = [told EXCEPT ![n] = engine.read[n]]
       /\ IF attach
          THEN /\ clients' = Append(clients, Client(n, "content"))
               /\ stream' = [Spent(stream, n) EXCEPT !.conns = [@ EXCEPT ![n] = Len(clients) + 1]]
          ELSE stream' = Spent(stream, n) /\ UNCHANGED clients
       /\ UNCHANGED <<paneEnv, world, spent, subscribe, life>>

(* A session that is no longer listed: told, and its client closed; what   *)
(* its pump left is forgotten after that.                                  *)
EngineMisses(n) ==
    /\ engine.at = "diff" /\ engine.todo = {m \in engine.todo : engine.read[m] = 0} /\ n \in engine.todo
    /\ ~stream.closed
    /\ engine' = [engine EXCEPT !.todo = @ \ {n}, !.known = [@ EXCEPT ![n] = 0],
                                !.clear = IF engine.known[n] # 0 THEN {n} ELSE {},
                                !.at = IF engine.known[n] # 0 THEN "clear" ELSE "diff"]
    /\ told' = [told EXCEPT ![n] = 0]
    /\ IF engine.known[n] # 0 /\ stream.conns[n] # 0
       THEN stream' = [stream EXCEPT !.conns = [@ EXCEPT ![n] = 0]] /\ clients' = ClientClosed(clients, stream.conns[n])
       ELSE UNCHANGED <<stream, clients>>
    /\ UNCHANGED <<paneEnv, world, spent, subscribe, life>>

EngineClears ==
    /\ engine.at = "clear" /\ ~stream.closed
    /\ stream' = [stream EXCEPT !.marks = [n \in StreamNames |-> IF n \in engine.clear THEN NoMark ELSE @[n]]]
    /\ engine' = [engine EXCEPT !.at = "diff", !.clear = {}]
    /\ UNCHANGED <<paneEnv, world, spent, clients, subscribe, life, told>>

EngineRests ==
    /\ engine.at = "diff" /\ engine.todo = {}
    /\ engine' = [engine EXCEPT !.at = "wait", !.read = NoneKnown]
    /\ UNCHANGED <<paneEnv, world, spent, clients, subscribe, stream, life, told>>

(* Close: every client that the stream holds.                              *)
StreamCloses ==
    LET held == {stream.conns[n] : n \in Watching} \cup {stream.lifecycle} IN
    /\ PaneMay("close") /\ subscribe.at = "running" /\ ~stream.closed
    /\ clients' = [c \in DOMAIN clients |->
          IF c \in held THEN [clients[c] EXCEPT !.is = "closed"] ELSE clients[c]]
    /\ stream' = [stream EXCEPT !.closed = TRUE, !.conns = NoneKnown, !.lifecycle = 0]
    /\ UNCHANGED <<paneEnv, world, spent, subscribe, life, engine, told>>

Subscribing == SubscribeDialsLifecycle \/ SubscribeDialsContent \/ SubscribeStoresLifecycle \/ SubscribeSeeds
Supervising == LifecycleLost \/ LifecycleFound \/ LifecycleStored
Comparing ==
    \/ EngineWakes \/ EngineReads \/ EngineClears \/ EngineRests
    \/ \E n \in StreamNames : EngineSees(n) \/ EngineMisses(n)
Pumping == \E c \in DOMAIN clients : Pump(c) \/ PumpContentEnds(c)

PaneNext ==
    \/ \E n \in StreamNames : SessionStarts(n) \/ SessionEnds(n) \/ ScreenChanges(n)
    \/ \E c \in DOMAIN clients : ClientDies(c)
    \/ Subscribing \/ Supervising \/ Comparing \/ Pumping \/ StreamCloses

PaneSpec == PaneInit /\ [][PaneNext]_paneVars

(* Every goroutine of a stream runs on.                                    *)
PaneFairSpec ==
    /\ PaneSpec
    /\ WF_paneVars(Subscribing) /\ WF_paneVars(Supervising) /\ WF_paneVars(Comparing) /\ WF_paneVars(Pumping)

-----------------------------------------------------------------------------
(* Properties *)

(* What each variable holds.                                               *)
NoSession == [run |-> 0, screen |-> 0]
Screens == {0, 1, 2}
WorldTypes ==
    /\ paneEnv \in StreamEnvironments
    /\ world \in [StreamNames -> [run : Nat \ {0}, screen : {1, 2}] \cup {NoSession}]
    /\ spent \in [starts : Nat, changes : Nat, deaths : Nat]
    /\ told \in [StreamNames -> Screens]
ControlClients == [to : StreamNames, what : {"lifecycle", "content"}, is : {"open", "dead", "closed"},
                   note : BOOLEAN, spoke : BOOLEAN]
ClientTypes == clients \in Seq(ControlClients)
StreamTypes ==
    /\ subscribe \in [at : {"rows", "content", "seed", "running"}, todo : SUBSET StreamNames]
    /\ stream \in [conns : [StreamNames -> Nat], lifecycle : Nat,
                   marks : [StreamNames -> [pending : BOOLEAN, futile : Nat]],
                   trigger : BOOLEAN, closed : BOOLEAN]
    /\ life \in [at : {"none", "pump", "find", "store", "over"}, conn : Nat]
    /\ engine \in [at : {"none", "wait", "settle", "diff", "clear"}, read : [StreamNames -> Screens],
                   todo : SUBSET StreamNames, clear : SUBSET StreamNames,
                   known : [StreamNames -> Screens]]
PaneTypes == WorldTypes /\ ClientTypes /\ StreamTypes

(* "Close reaps every control client this subscription opened": once a     *)
(* stream is closed, and its supervisor is not about to close one, no      *)
(* client of it is left, neither attached nor as a dead process.           *)
ClosedLeavesNone ==
    stream.closed => \A c \in DOMAIN clients :
       \/ clients[c].is = "closed"
       \/ life.at = "store" /\ life.conn = c

(* A stream has at most one client that watches a session, and no more of  *)
(* them than the bound.                                                    *)
WatchersAreFew ==
    LET watch == {c \in DOMAIN clients : Open(c) /\ clients[c].what = "content"} IN
    /\ Cardinality(watch) <= maxContentClients
    /\ \A c, d \in watch : clients[c].to = clients[d].to => c = d

(* Both hold of a stream whose first lifecycle client lives until it is    *)
(* subscribed: no session comes or goes while it is being made.            *)
NoClientIsLeft == ~PaneMay("early") => ClosedLeavesNone /\ WatchersAreFew

(* Why they hold: whatever has not been closed is where Close and the      *)
(* supervisor look for it,                                                 *)
ClientsAreHeld ==
    \A c \in DOMAIN clients : clients[c].is # "closed" =>
       IF clients[c].what = "content" THEN stream.conns[clients[c].to] = c
       ELSE life.conn = c /\ life.at \in {"pump", "store"}
(* the stream counts what it watches,                                      *)
WatchingIsBounded == IsFiniteSet(Watching) /\ Cardinality(Watching) <= maxContentClients
(* the supervisor's client is stored, once it and Subscribe have done so,  *)
LifecycleIsStored ==
    life.at = "pump" /\ subscribe.at \in {"seed", "running"} /\ ~stream.closed =>
       stream.lifecycle = life.conn
(* and while Subscribe is at work nobody else has touched the stream.      *)
SubscribeIsAlone ==
    /\ subscribe.at = "rows" => clients = <<>> /\ stream.conns = NoneKnown /\ life.at = "none"
    /\ subscribe.at \in {"content", "seed"} =>
          /\ life = [at |-> "pump", conn |-> 1]
          /\ 1 \in DOMAIN clients /\ clients[1].is = "open" /\ clients[1].what = "lifecycle"
    /\ subscribe.at = "content" => \A n \in subscribe.todo : stream.conns[n] = 0
    /\ subscribe.at # "running" => ~stream.closed /\ engine.at = "none"
ClosedHoldsNone == stream.closed => stream.conns = NoneKnown

StreamInvariant ==
    /\ ClientsAreHeld /\ WatchingIsBounded /\ LifecycleIsStored
    /\ SubscribeIsAlone /\ ClosedHoldsNone /\ ClosedLeavesNone

(* "Every change after Subscribe returns is either delivered or is a bug": *)
(* the subscriber comes to know what the sessions are.                     *)
KnownCatchesUp == []<>(stream.closed \/ told = Listed)
=============================================================================
