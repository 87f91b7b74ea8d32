---------------------------- MODULE ServiceProofs ----------------------------
(***************************************************************************)
(* Theorems about three parts of the service: EventHub, for any clients,   *)
(* sessions and filters, any window and channels, and any number of        *)
(* changes, failures and restarts; SessionLabels, for any ids, runs and    *)
(* listings; and FleetRequests, for any machines, runtimes and sessions    *)
(* and any number of requests.                                             *)
(***************************************************************************)
EXTENDS EventHub, SessionLabels, FleetRequests, FiniteSetTheorems, TLAPS

(* What publish does, as the rest of the proof needs it.                    *)
StampedOf(events) == {[cursor |-> cursor + i, event |-> events[i]] : i \in 1 .. Len(events)}
ForOf(c, new) == {e \in new : Reaches(c, e.event)}

Published(new) ==
    /\ cursor' \in Nat /\ cursor' >= cursor
    /\ new \subseteq Stamped
    /\ \A e \in new : cursor < e.cursor /\ e.cursor <= cursor'
    /\ \A d, e \in new : d.cursor = e.cursor => d = e
    /\ new = {} => cursor' = cursor
    /\ new # {} => \E e \in new : e.cursor = cursor'
    /\ ring' = Retained(ring \cup new, cursor')
    /\ ch' \in [Clients -> SUBSET Stamped]
    /\ \A c \in Clients : ch[c] \subseteq ch'[c] /\ ch'[c] \subseteq ch[c] \cup ForOf(c, new)
    /\ \A c \in Clients \ subs : ch'[c] = ch[c]
    /\ missed \subseteq missed' /\ missed' \subseteq Clients
    /\ \A c \in subs \ missed' : ch'[c] = ch[c] \cup ForOf(c, new)

(* The sequences that are published.                                        *)
LEMMA OneEvent ==
  ASSUME NEW e \in HubEvents PROVE <<e>> \in Seq(HubEvents) /\ Len(<<e>>) = 1 /\ <<e>>[1] = e
  OBVIOUS

(* And of two of them.                                                      *)
LEMMA TwoEvents ==
  ASSUME NEW d \in HubEvents, NEW e \in HubEvents
  PROVE  <<d, e>> \in Seq(HubEvents) /\ Len(<<d, e>>) = 2 /\ <<d, e>>[1] = d /\ <<d, e>>[2] = e
  OBVIOUS

(* publish stamps what it is given, in order, and hands it on.              *)
LEMMA PublishIs ==
  ASSUME HubTypes, NEW events \in Seq(HubEvents), Publish(events)
  PROVE  Published(StampedOf(events))
<1> DEFINE new == StampedOf(events)
           For(c) == ForOf(c, new)
<1>1. cursor \in Nat /\ Len(events) \in Nat /\ cursor' = cursor + Len(events)
  BY DEF HubTypes, EventTypes, Publish
<1>2. new \subseteq Stamped
  BY <1>1 DEF StampedOf, Stamped
<1>3. \A e \in new : cursor < e.cursor /\ e.cursor <= cursor'
  BY <1>1 DEF StampedOf
<1>4. \A d, e \in new : d.cursor = e.cursor => d = e
  BY <1>1 DEF StampedOf
<1>5. (new = {} => cursor' = cursor) /\ (new # {} => \E e \in new : e.cursor = cursor')
  <2>1. CASE Len(events) = 0
    BY <1>1, <2>1 DEF StampedOf
  <2>2. CASE Len(events) # 0
    <3>1. Len(events) \in 1 .. Len(events)
      BY <1>1, <2>2
    <3>2. PICK i \in 1 .. Len(events) : i = Len(events)
      BY <3>1
    <3>3. [cursor |-> cursor + i, event |-> events[i]] \in new
      BY DEF StampedOf
    <3> QED
      BY <1>1, <3>2, <3>3
  <2> QED
    BY <2>1, <2>2
<1>6. ring' = Retained(ring \cup new, cursor')
  BY <1>1 DEF Publish, StampedOf
<1>7. /\ ch' = [c \in Clients |-> IF c \in subs THEN ch[c] \cup Enqueued(c, For(c)) ELSE ch[c]]
      /\ missed' = missed \cup {c \in subs : Enqueued(c, For(c)) # For(c)}
  BY DEF Publish, StampedOf, ForOf
<1>8. \A c \in Clients : Enqueued(c, For(c)) \subseteq For(c) /\ For(c) \subseteq Stamped
  BY <1>2 DEF Enqueued, ForOf
<1>9. ch \in [Clients -> SUBSET Stamped] /\ missed \subseteq Clients /\ subs \subseteq Clients
  BY HubAssumption DEF HubTypes, EventTypes
<1>10. ch' \in [Clients -> SUBSET Stamped]
  BY <1>7, <1>8, <1>9
<1>11. \A c \in Clients : ch[c] \subseteq ch'[c] /\ ch'[c] \subseteq ch[c] \cup For(c)
  BY <1>7, <1>8
<1>12. (\A c \in Clients \ subs : ch'[c] = ch[c]) /\ missed \subseteq missed' /\ missed' \subseteq Clients
  BY <1>7, <1>9
<1>13. \A c \in subs \ missed' : ch'[c] = ch[c] \cup For(c)
  BY <1>7, <1>9
<1> HIDE DEF new, For
<1> QED
  BY <1>1, <1>2, <1>3, <1>4, <1>5, <1>6, <1>10, <1>11, <1>12, <1>13 DEF Published, new, For

-----------------------------------------------------------------------------
(* Types *)

(* What the environment holds.                                              *)
LEMMA EnvironmentOfType ==
  ASSUME hubEnv \in HubEnvironments
  PROVE  /\ hubEnv.clients \subseteq Clients /\ hubEnv.local \subseteq Clients
         /\ hubEnv.remote \subseteq Sessions
         /\ hubEnv.filter \in [Clients -> SUBSET Sessions]
         /\ hubEnv.retention \in Nat \ {0} /\ hubEnv.changes \in Nat /\ hubEnv.failures \in Nat
  BY HubAssumption

(* The variables have their types at first.                                 *)
LEMMA TypesAtFirst == HubInit => HubTypes
<1> SUFFICES ASSUME HubInit PROVE HubTypes
  OBVIOUS
<1> USE DEF HubInit
<1>1. EventTypes
  BY DEF EventTypes
<1>2. FeedTypes
  <2>1. NoView \in Views /\ NoView.on = FALSE
    BY DEF Views, NoView
  <2>2. pc \in [Clients -> RequestPlaces] /\ saw \in [Clients -> Views]
    BY <2>1 DEF RequestPlaces
  <2>3. \A c \in Clients : ~saw[c].on /\ pc[c] # "peers"
    BY <2>1
  <2>4. gen \in 0 .. launched /\ launched \in Nat /\ cancelled \subseteq 1 .. launched
        /\ pumps \subseteq Pumps /\ cur \subseteq Sessions
    OBVIOUS
  <2>5. ~on /\ on \in BOOLEAN /\ lingering \in BOOLEAN
    OBVIOUS
  <2> HIDE DEF HubInit
  <2> QED
    BY <2>2, <2>3, <2>4, <2>5 DEF FeedTypes
<1>3. MirrorTypes
  BY DEF MirrorTypes, NoPosition
<1> QED
  BY <1>1, <1>2, <1>3 DEF HubTypes

(* Steps of ensureStream keep them.                                         *)
LEMMA EnsuringIsTyped ==
  ASSUME HubTypes, NEW c \in Clients, Ensure(c) PROVE HubTypes'
<1>1. hubEnv \in HubEnvironments /\ EventTypes /\ FeedTypes /\ MirrorTypes
  BY DEF HubTypes
<1>2. saw[c] \in Views /\ hubEnv.filter \in [Clients -> SUBSET Sessions] /\ subs \subseteq Clients
  BY <1>1, EnvironmentOfType DEF FeedTypes, EventTypes
<1>3. UNCHANGED <<hubEnv, happened, eventVars, backlog, mirrorVars, failures, hubCrashes>>
  BY DEF Ensure, Union, Count, Look, NoRequest, Keep, Disarm, LaunchPump, LaunchPeers
<1>4. hubEnv' \in HubEnvironments /\ EventTypes' /\ MirrorTypes'
  BY <1>1, <1>3 DEF EventTypes, MirrorTypes, eventVars, mirrorVars
<1>5. FeedTypes'
  <2> USE DEF FeedTypes
  <2>1. unionFilter \subseteq Sessions
    BY <1>2 DEF unionFilter
  <2>2. CASE Union(c)
    <3>1. [saw[c] EXCEPT !.want = unionFilter] \in Views
      BY <1>2, <2>1 DEF Views
    <3> QED
      BY <1>1, <1>3, <2>2, <3>1 DEF Union, streamVars, RequestPlaces, Pumps, Views
  <2>3. CASE Count(c)
    <3>1. [saw[c] EXCEPT !.listened = subs # {}] \in Views
      BY <1>2 DEF Views
    <3> QED
      BY <1>1, <1>3, <2>3, <3>1 DEF Count, streamVars, RequestPlaces, Pumps, Views
  <2>4. CASE Look(c)
    <3>1. [saw[c] EXCEPT !.on = on, !.cur = cur, !.gen = gen] \in Views
      BY <1>1, <1>2 DEF Views
    <3> QED
      BY <1>1, <1>3, <2>4, <3>1 DEF Look, streamVars, RequestPlaces, Pumps, Views
  <2>5. CASE NoRequest(c) \/ Keep(c)
    <3>1. NoView \in Views /\ NoView.on = FALSE
      BY <1>1 DEF Views, NoView
    <3>2. pc' \in [Clients -> RequestPlaces] /\ saw' \in [Clients -> Views]
      BY <1>1, <2>5, <3>1 DEF NoRequest, Keep, Done, RequestPlaces
    <3>3. lingering' \in BOOLEAN /\ UNCHANGED <<on, cur, gen, launched, cancelled, pumps>>
      BY <1>1, <1>2, <2>5 DEF NoRequest, Keep, Views
    <3>4. \A d \in Clients : saw'[d].on \/ pc'[d] = "peers" => saw'[d].gen # 0
      BY <1>1, <2>5, <3>1 DEF NoRequest, Keep, Done
    <3> QED
      BY <1>1, <1>3, <3>2, <3>3, <3>4 DEF Pumps, Views
  <2>6. CASE Disarm(c)
    BY <1>1, <1>3, <2>6 DEF Disarm, RequestPlaces, Pumps, Views
  <2>7. CASE LaunchPump(c)
    <3>1. launched' = launched + 1 /\ gen' = launched + 1 /\ on' = TRUE
          /\ cur' = saw[c].want /\ UNCHANGED lingering
      BY <2>7 DEF LaunchPump
    <3>2. Cancels(c) \subseteq 1 .. launched'
      <4>1. cancelled \subseteq 1 .. launched'
        BY <1>1, <3>1
      <4>2. ASSUME saw[c].on PROVE saw[c].gen \in 1 .. launched'
        BY <1>1, <1>2, <3>1, <4>2 DEF Views
      <4> QED
        BY <4>1, <4>2 DEF Cancels
    <3>3. Pumps \subseteq Pumps' /\ NewPump(launched + 1, FALSE, saw[c].want) \in Pumps'
      BY <1>1, <1>2, <1>3, <3>1 DEF Pumps, NewPump, Views, EventTypes
    <3>4. Views \subseteq Views' /\ [saw[c] EXCEPT !.gen = launched + 1] \in Views'
      BY <1>1, <1>2, <3>1 DEF Views
    <3>5. saw' \in [Clients -> Views'] /\ pc' \in [Clients -> RequestPlaces] /\ pumps' \subseteq Pumps'
      BY <1>1, <2>7, <3>3, <3>4 DEF LaunchPump, RequestPlaces
    <3>6. launched' \in Nat /\ gen' \in 0 .. launched' /\ cur' \subseteq Sessions
      BY <1>1, <1>2, <3>1 DEF Views
    <3>7. \A d \in Clients : saw'[d].on \/ pc'[d] = "peers" => saw'[d].gen # 0
      BY <1>1, <1>2, <2>7, <3>1 DEF LaunchPump, Views
    <3>8. on' \in BOOLEAN /\ lingering' \in BOOLEAN /\ cancelled' \subseteq 1 .. launched' /\ gen' # 0
      BY <1>1, <2>7, <3>1, <3>2 DEF LaunchPump
    <3> QED
      BY <3>5, <3>6, <3>7, <3>8
  <2>8. CASE LaunchPeers(c)
    <3>1. NewPump(saw[c].gen, TRUE, saw[c].want) \in Pumps
      BY <1>1, <1>2, <2>8 DEF LaunchPeers, Pumps, NewPump, Views, EventTypes
    <3>2. NoView \in Views /\ NoView.on = FALSE
      BY <1>1 DEF Views, NoView
    <3>3. pc' \in [Clients -> RequestPlaces] /\ saw' \in [Clients -> Views]
      BY <1>1, <2>8, <3>2 DEF LaunchPeers, Done, RequestPlaces
    <3>4. pumps' \subseteq Pumps /\ UNCHANGED streamVars
      BY <1>1, <2>8, <3>1 DEF LaunchPeers
    <3>5. \A d \in Clients : saw'[d].on \/ pc'[d] = "peers" => saw'[d].gen # 0
      BY <1>1, <2>8, <3>2 DEF LaunchPeers, Done
    <3> QED
      BY <1>1, <1>3, <3>3, <3>4, <3>5 DEF streamVars, Pumps, Views
  <2> QED
    BY <2>2, <2>3, <2>4, <2>5, <2>6, <2>7, <2>8 DEF Ensure
<1> QED
  BY <1>4, <1>5 DEF HubTypes

(* What the pumps publish.                                                  *)
LEMMA SubscribingPublishes ==
  ASSUME HubTypes, NEW p \in pumps, Subscribe(p)
  PROVE  \E new : /\ Published(new)
                  /\ \A e \in new : e.event \in {Status(p.remote), Resync(p.remote)}
                  /\ IF p.gap THEN \E e \in new : e.event = Resync(p.remote) ELSE new = {}
<1>1. p.remote \in BOOLEAN
  BY DEF HubTypes, FeedTypes, Pumps
<1>2. Status(p.remote) \in HubEvents /\ Resync(p.remote) \in HubEvents
  BY <1>1 DEF Status, Resync, HubEvents
<1>3. CASE p.gap
  <2>1. Publish(Restored(p.remote))
    BY <1>3 DEF Subscribe
  <2>2. /\ Restored(p.remote) \in Seq(HubEvents) /\ Len(Restored(p.remote)) = 2
        /\ Restored(p.remote)[1] = Status(p.remote) /\ Restored(p.remote)[2] = Resync(p.remote)
    BY <1>2, TwoEvents DEF Restored
  <2>3. Published(StampedOf(Restored(p.remote)))
    BY <2>1, <2>2, PublishIs
  <2>4. 2 \in 1 .. 2 /\ 1 .. 2 = {1, 2}
    OBVIOUS
  <2>5. \E e \in StampedOf(Restored(p.remote)) : e.event = Resync(p.remote)
    <3>1. [cursor |-> cursor + 2, event |-> Resync(p.remote)] \in StampedOf(Restored(p.remote))
      BY <2>2, <2>4 DEF StampedOf
    <3> QED
      BY <3>1
  <2>6. \A e \in StampedOf(Restored(p.remote)) : e.event \in {Status(p.remote), Resync(p.remote)}
    BY <2>2, <2>4 DEF StampedOf
  <2> QED
    BY <1>3, <2>3, <2>5, <2>6
<1>4. CASE ~p.gap
  <2>1. Publish(<<>>) /\ <<>> \in Seq(HubEvents) /\ StampedOf(<<>>) = {}
    BY <1>4 DEF Subscribe, StampedOf
  <2> QED
    BY <1>4, <2>1, PublishIs
<1> QED
  BY <1>3, <1>4

(* A failure is announced once, by a status.                                *)
LEMMA FailingPublishes ==
  ASSUME HubTypes, NEW p \in pumps, Fails(p)
  PROVE  \E new : Published(new) /\ \A e \in new : e.event = Status(p.remote)
<1>1. p.remote \in BOOLEAN
  BY DEF HubTypes, FeedTypes, Pumps
<1>2. Status(p.remote) \in HubEvents
  BY <1>1 DEF Status, HubEvents
<1>3. CASE p.gap
  <2>1. Publish(<<>>) /\ <<>> \in Seq(HubEvents) /\ StampedOf(<<>>) = {}
    BY <1>3 DEF Fails, StampedOf
  <2> QED
    BY <2>1, PublishIs
<1>4. CASE ~p.gap
  <2>1. Publish(<<Status(p.remote)>>)
    BY <1>4 DEF Fails
  <2>2. Published(StampedOf(<<Status(p.remote)>>))
    BY <1>2, <2>1, OneEvent, PublishIs
  <2>3. 1 .. 1 = {1}
    OBVIOUS
  <2> QED
    BY <1>2, <2>2, <2>3, OneEvent DEF StampedOf
<1> QED
  BY <1>3, <1>4

(* The next change of the stream is published.                              *)
LEMMA ForwardingPublishes ==
  ASSUME HubTypes, NEW p \in pumps, ForwardEvent(p)
  PROVE  \E n \in Ahead(p) : \E new :
            /\ \A k \in Ahead(p) : n <= k
            /\ pumps' = With(p, [p EXCEPT !.pos = n])
            /\ Published(new) /\ \A e \in new : e.event = Change(n)
            /\ \E e \in new : TRUE
<1>1. PICK n \in Ahead(p) :
         /\ \A k \in Ahead(p) : n <= k
         /\ pumps' = With(p, [p EXCEPT !.pos = n])
         /\ Publish(<<Change(n)>>)
  BY DEF ForwardEvent
<1>2. Change(n) \in HubEvents
  BY DEF Ahead, HubTypes, EventTypes, FeedTypes, Pumps, Change, HubEvents
<1>3. Published(StampedOf(<<Change(n)>>))
  BY <1>1, <1>2, OneEvent, PublishIs
<1>4. 1 .. 1 = {1}
  OBVIOUS
<1>5. StampedOf(<<Change(n)>>) = {[cursor |-> cursor + 1, event |-> Change(n)]}
  BY <1>2, <1>4, OneEvent DEF StampedOf
<1>6. \A e \in StampedOf(<<Change(n)>>) : e.event = Change(n)
  BY <1>5
<1>7. [cursor |-> cursor + 1, event |-> Change(n)] \in StampedOf(<<Change(n)>>)
  BY <1>5
<1> QED
  BY <1>1, <1>3, <1>6, <1>7

(* The pumps keep the types.                                                *)
LEMMA PumpingIsTyped ==
  ASSUME HubTypes, NEW p \in pumps, Feed(p) \/ Fails(p) PROVE HubTypes'
<1>1. hubEnv \in HubEnvironments /\ EventTypes /\ FeedTypes /\ MirrorTypes
  BY DEF HubTypes
<1>2. /\ UNCHANGED <<hubEnv, happened, epoch, subs, backlog, mirrorVars, hubCrashes, streamVars, requestVars>>
      /\ UNCHANGED failures \/ failures' = failures + 1
  BY DEF Feed, Subscribe, ForwardEvent, PumpExits, Fails, eventVars
<1>3. p \in Pumps /\ pumps \subseteq Pumps
  BY <1>1 DEF FeedTypes
<1>4. EventTypes'
  <2>1. CASE PumpExits(p)
    BY <1>1, <1>2, <2>1 DEF PumpExits, eventVars, EventTypes
  <2>2. CASE \E new : Published(new)
    <3>1. PICK new : Published(new)
      BY <2>2
    <3>2. ring' \subseteq Stamped
      BY <1>1, <3>1 DEF EventTypes, Published, Retained
    <3>3. cursor' \in Nat /\ missed' \subseteq Clients /\ ch' \in [Clients -> SUBSET Stamped]
      BY <3>1 DEF Published
    <3>4. \A c \in Clients \ subs' : ch'[c] = {} /\ backlog'[c] = {}
      BY <1>1, <1>2, <3>1 DEF EventTypes, Published
    <3> QED
      BY <1>1, <1>2, <3>2, <3>3, <3>4 DEF EventTypes
  <2> QED
    BY <2>1, <2>2, SubscribingPublishes, FailingPublishes, ForwardingPublishes DEF Feed
<1>5. FeedTypes'
  <2>1. pumps' \subseteq Pumps
    <3>1. CASE Subscribe(p)
      <4>1. Len(happened) \in 0 .. Len(happened)
        BY <1>1 DEF EventTypes
      <4>3. Subscribed(p) \in Pumps
        BY <1>3, <4>1 DEF Pumps, Subscribed
      <4> QED
        BY <1>3, <3>1, <4>3 DEF Subscribe, With
    <3>2. CASE ForwardEvent(p)
      <4>1. PICK n \in Ahead(p) : pumps' = With(p, [p EXCEPT !.pos = n])
        BY <3>2, ForwardingPublishes
      <4>2. [p EXCEPT !.pos = n] \in Pumps
        BY <1>1, <1>3 DEF Ahead, Pumps, EventTypes
      <4> QED
        BY <1>3, <4>1, <4>2 DEF With
    <3>3. CASE PumpExits(p)
      BY <1>3, <3>3 DEF PumpExits
    <3>4. CASE Fails(p)
      <4>1. [p EXCEPT !.open = FALSE, !.gap = TRUE] \in Pumps
        BY <1>3 DEF Pumps
      <4> QED
        BY <1>3, <3>4, <4>1 DEF Fails, With
    <3> QED
      BY <3>1, <3>2, <3>3, <3>4 DEF Feed
  <2> QED
    BY <1>1, <1>2, <2>1 DEF FeedTypes, streamVars, requestVars, Pumps, Views
<1>6. MirrorTypes'
  BY <1>1, <1>2 DEF MirrorTypes, mirrorVars
<1> QED
  BY <1>1, <1>2, <1>4, <1>5, <1>6 DEF HubTypes

(* So do the clients.                                                       *)
LEMMA ClientsAreTyped ==
  ASSUME HubTypes, EventsAreReal, NEW c \in Clients, ClientSteps(c) PROVE HubTypes'
<1>1. hubEnv \in HubEnvironments /\ EventTypes /\ FeedTypes /\ MirrorTypes
  BY DEF HubTypes
<1>2. UNCHANGED <<hubEnv, happened, cursor, epoch, ring, missed, streamVars, pumps, saw, failures, hubCrashes>>
  BY DEF ClientSteps, Connect, Disconnect, Receive, Position, List, eventVars, requestVars, mirrorVars
<1>3. pc' \in [Clients -> RequestPlaces] /\ \A d \in Clients : pc'[d] = "peers" => pc[d] = "peers"
  BY <1>1 DEF FeedTypes, ClientSteps, Connect, Disconnect, Receive, Position, List, RequestPlaces, requestVars
<1>4. FeedTypes'
  BY <1>1, <1>2, <1>3 DEF FeedTypes, streamVars, Pumps, Views
<1>5. EventTypes'
  <2>1. CASE Connect(c)
    <3>1. {e \in ring : e.cursor > since[c] /\ Matches(c, e.event)} \subseteq Stamped
      BY <1>1 DEF EventTypes
    <3>2. backlog' \in [Clients -> SUBSET Stamped] /\ UNCHANGED ch
      BY <1>1, <2>1, <3>1 DEF EventTypes, Connect
    <3>3. subs' \subseteq hubEnv.clients /\ subs' = subs \cup {c}
      BY <1>1, <2>1 DEF EventTypes, Connect
    <3>4. \A d \in Clients \ subs' : ch'[d] = {} /\ backlog'[d] = {}
      BY <1>1, <2>1, <3>3 DEF EventTypes, Connect
    <3> QED
      BY <1>1, <1>2, <3>2, <3>3, <3>4 DEF EventTypes
  <2>2. CASE Disconnect(c)
    BY <1>1, <1>2, <2>2 DEF EventTypes, Disconnect
  <2>3. CASE Receive(c)
    <3>1. PICK e : /\ backlog' = [backlog EXCEPT ![c] = @ \ {e}]
                   /\ ch' = [ch EXCEPT ![c] = IF backlog[c] # {} THEN @ ELSE @ \ {e}]
      BY <2>3 DEF Receive
    <3>2. UNCHANGED subs
      BY <2>3 DEF Receive
    <3>3. backlog' \in [Clients -> SUBSET Stamped] /\ ch' \in [Clients -> SUBSET Stamped]
      BY <1>1, <3>1 DEF EventTypes
    <3>4. \A d \in Clients \ subs' : ch'[d] = {} /\ backlog'[d] = {}
      BY <1>1, <3>1, <3>2 DEF EventTypes
    <3> QED
      BY <1>1, <1>2, <3>2, <3>3, <3>4 DEF EventTypes
  <2>4. CASE Position(c) \/ List(c)
    BY <1>1, <1>2, <2>4 DEF EventTypes, Position, List, eventVars
  <2> QED
    BY <2>1, <2>2, <2>3, <2>4 DEF ClientSteps
<1>6. MirrorTypes'
  <2> USE DEF MirrorTypes
  <2>1. CASE Connect(c)
    BY <1>1, <1>2, <2>1 DEF Connect
  <2>2. CASE Disconnect(c)
    BY <1>1, <1>2, <2>2 DEF Disconnect, mirrorVars
  <2>3. CASE Receive(c)
    <3>1. PICK e \in backlog[c] \cup ch[c] : ApplyEvent(c, e)
      BY <2>3 DEF Receive
    <3>2. e \in Stamped
      BY <1>1, <3>1 DEF EventTypes
    <3>3. e.cursor \in Nat /\ epoch \in Nat
      BY <1>1, <3>2 DEF EventTypes, Stamped
    <3>4. e.event.kind = "change" => e.event.what \in 1 .. Len(happened)
      BY <3>1 DEF EventsAreReal, IsReal
    <3>5. UNCHANGED <<happened, listedAt, failures, hubCrashes>>
      BY <2>3 DEF Receive
    <3>6. since' \in [Clients -> Nat] /\ of' \in [Clients -> Nat] /\ stale' \in [Clients -> BOOLEAN]
      BY <1>1, <3>1, <3>3 DEF ApplyEvent
    <3>7. reflects' \in [Clients -> SUBSET (1 .. Len(happened))]
      BY <1>1, <3>1, <3>4 DEF ApplyEvent
    <3> QED
      BY <1>1, <3>5, <3>6, <3>7
  <2>4. CASE Position(c)
    BY <1>1, <1>2, <2>4 DEF Position, EventTypes, FeedTypes
  <2>5. CASE List(c)
    <3>1. listedAt[c].cursor \in Nat /\ listedAt[c].epoch \in Nat /\ NoPosition.on \in BOOLEAN
      BY <1>1 DEF NoPosition
    <3>2. since' \in [Clients -> Nat] /\ of' \in [Clients -> Nat] /\ stale' \in [Clients -> BOOLEAN]
      BY <1>1, <2>5, <3>1 DEF List
    <3>3. reflects' \in [Clients -> SUBSET (1 .. Len(happened))] /\ UNCHANGED happened
      BY <1>1, <2>5 DEF List
    <3>4. listedAt' \in [Clients -> [on : BOOLEAN, cursor : Nat, epoch : Nat]]
      BY <1>1, <2>5 DEF List, NoPosition
    <3>5. UNCHANGED <<failures, hubCrashes>>
      BY <2>5 DEF List
    <3> QED
      BY <1>1, <3>2, <3>3, <3>4, <3>5
  <2> QED
    BY <2>1, <2>2, <2>3, <2>4, <2>5 DEF ClientSteps
<1> QED
  BY <1>1, <1>2, <1>4, <1>5, <1>6 DEF HubTypes

(* And what happens around them.                                            *)
LEMMA RestIsTyped ==
  ASSUME HubTypes, (\E s \in Sessions : Changes(s)) \/ LingerExpires \/ Crash PROVE HubTypes'
<1>1. hubEnv \in HubEnvironments /\ EventTypes /\ FeedTypes /\ MirrorTypes
  BY DEF HubTypes
<1>2. CASE \E s \in Sessions : Changes(s)
  <2>1. PICK s \in Sessions : Changes(s)
    BY <1>2
  <2>2. UNCHANGED <<hubEnv, eventVars, streamVars, pumps, requestVars, backlog, mirrorVars, failures, hubCrashes>>
    BY <2>1 DEF Changes
  <2>3. happened' \in Seq(Sessions) /\ Len(happened) \in Nat /\ Len(happened') = Len(happened) + 1
    BY <1>1, <2>1 DEF EventTypes, Changes
  <2>4. 0 .. Len(happened) \subseteq 0 .. Len(happened') /\ 1 .. Len(happened) \subseteq 1 .. Len(happened')
    BY <2>3
  <2>5. EventTypes'
    BY <1>1, <2>2, <2>3 DEF EventTypes, eventVars
  <2>6. Pumps \subseteq Pumps' /\ Views' = Views
    BY <2>2, <2>4 DEF Pumps, Views, streamVars
  <2>7. FeedTypes'
    BY <1>1, <2>2, <2>6 DEF FeedTypes, streamVars, requestVars
  <2>8. MirrorTypes'
    <3>1. reflects' \in [Clients -> SUBSET (1 .. Len(happened'))]
      BY <1>1, <2>2, <2>4 DEF MirrorTypes, mirrorVars
    <3> QED
      BY <1>1, <2>2, <3>1 DEF MirrorTypes, mirrorVars
  <2> QED
    BY <1>1, <2>2, <2>5, <2>7, <2>8 DEF HubTypes
<1>3. CASE LingerExpires
  <2>1. UNCHANGED <<hubEnv, happened, eventVars, launched, pumps, requestVars, backlog, mirrorVars, failures, hubCrashes>>
    BY <1>3 DEF LingerExpires
  <2>2. EventTypes' /\ MirrorTypes'
    BY <1>1, <2>1 DEF EventTypes, MirrorTypes, eventVars, mirrorVars
  <2>3. lingering' \in BOOLEAN /\ cur' = cur
    BY <1>3 DEF LingerExpires
  <2>4. on' \in BOOLEAN /\ gen' \in 0 .. launched /\ cancelled' \subseteq 1 .. launched /\ (on' => gen' # 0)
    <3>1. on \in BOOLEAN /\ launched \in Nat /\ gen \in 0 .. launched /\ cancelled \subseteq 1 .. launched
          /\ (on => gen # 0)
      BY <1>1 DEF FeedTypes
    <3>2. CASE UNCHANGED <<on, cur, gen, cancelled>>
      BY <3>1, <3>2
    <3>3. CASE on' = FALSE /\ gen' = 0 /\ cancelled' = (cancelled \union {gen}) \ {0}
      <4>1. gen' \in 0 .. launched /\ \A g \in cancelled' : g \in 1 .. launched
        BY <3>1, <3>3
      <4> QED
        BY <3>3, <4>1
    <3> QED
      BY <1>3, <3>2, <3>3 DEF LingerExpires
  <2>5. FeedTypes'
    BY <1>1, <2>1, <2>3, <2>4 DEF FeedTypes, requestVars, Pumps, Views
  <2> QED
    BY <1>1, <2>1, <2>2, <2>5 DEF HubTypes
<1>4. CASE Crash
  <2>1. UNCHANGED <<hubEnv, happened, missed, launched, since, of, reflects, stale, failures>>
    BY <1>4 DEF Crash
  <2>2. EventTypes'
    BY <1>1, <1>4, <2>1 DEF EventTypes, Crash
  <2>3. NoView \in Views' /\ NoView.on = FALSE
    BY <1>1, <2>1 DEF Views, NoView, FeedTypes
  <2>4. pc' \in [Clients -> RequestPlaces] /\ saw' \in [Clients -> Views']
    BY <1>4, <2>3 DEF Crash, RequestPlaces
  <2>5. \A c \in Clients : ~saw'[c].on /\ pc'[c] # "peers"
    BY <1>4, <2>3 DEF Crash
  <2>6. on' = FALSE /\ cur' = {} /\ lingering' = FALSE /\ gen' = 0 /\ cancelled' = 1 .. launched /\ pumps' = {}
    BY <1>4 DEF Crash
  <2>7. FeedTypes'
    <3>1. launched' \in Nat /\ gen' \in 0 .. launched' /\ cancelled' \subseteq 1 .. launched'
      BY <1>1, <2>1, <2>6 DEF FeedTypes
    <3>2. on' \in BOOLEAN /\ ~on' /\ cur' \subseteq Sessions /\ lingering' \in BOOLEAN /\ pumps' \subseteq Pumps'
      BY <2>6
    <3> QED
      BY <2>4, <2>5, <3>1, <3>2 DEF FeedTypes
  <2>8. MirrorTypes'
    BY <1>1, <1>4, <2>1 DEF MirrorTypes, Crash, NoPosition
  <2> QED
    BY <1>1, <2>1, <2>2, <2>7, <2>8 DEF HubTypes
<1> QED
  BY <1>2, <1>3, <1>4

(* An event stays real when other sessions change.                          *)
LEMMA RealStaysReal ==
  ASSUME HubTypes, NEW e, IsReal(e), UNCHANGED hubEnv,
         UNCHANGED happened \/ \E s \in Sessions : happened' = Append(happened, s)
  PROVE  IsReal(e)'
<1>1. CASE UNCHANGED happened
  BY <1>1 DEF IsReal
<1>2. CASE \E s \in Sessions : happened' = Append(happened, s)
  <2>1. PICK s \in Sessions : happened' = Append(happened, s)
    BY <1>2
  <2>2. happened \in Seq(Sessions) /\ Len(happened) \in Nat
    BY DEF HubTypes, EventTypes
  <2>3. Len(happened') = Len(happened) + 1 /\ \A n \in 1 .. Len(happened) : happened'[n] = happened[n]
    BY <2>1, <2>2
  <2> QED
    BY <2>2, <2>3 DEF IsReal
<1> QED
  BY <1>1, <1>2

(* The events that are published are real.                                  *)
LEMMA PumpsAreReal ==
  ASSUME HubTypes, NEW p \in pumps, Feed(p) \/ Fails(p)
  PROVE  PumpExits(p) \/ \E new : Published(new) /\ \A e \in new : IsReal(e)
<1>1. CASE Subscribe(p)
  <2>1. PICK new : Published(new) /\ \A e \in new : e.event \in {Status(p.remote), Resync(p.remote)}
    BY <1>1, SubscribingPublishes
  <2>2. \A e \in new : IsReal(e)
    BY <2>1 DEF IsReal, Status, Resync
  <2> QED
    BY <2>1, <2>2
<1>2. CASE Fails(p)
  <2>1. PICK new : Published(new) /\ \A e \in new : e.event = Status(p.remote)
    BY <1>2, FailingPublishes
  <2>2. \A e \in new : IsReal(e)
    BY <2>1 DEF IsReal, Status
  <2> QED
    BY <2>1, <2>2
<1>3. CASE ForwardEvent(p)
  <2>1. PICK n \in Ahead(p) : \E new : Published(new) /\ \A e \in new : e.event = Change(n)
    BY <1>3, ForwardingPublishes
  <2>2. n \in 1 .. Len(happened)
    BY <2>1 DEF Ahead, HubTypes, EventTypes, FeedTypes, Pumps
  <2> QED
    BY <2>1, <2>2 DEF IsReal, Change
<1> QED
  BY <1>1, <1>2, <1>3 DEF Feed

(* No step puts an event into the hub that is about nothing.                *)
LEMMA EventsStayReal ==
  ASSUME HubTypes, EventsAreReal, HubNext PROVE EventsAreReal'
<1>1. CASE \E c \in Clients : ClientSteps(c) \/ Ensure(c)
  <2>1. UNCHANGED <<hubEnv, happened, ring>>
    BY <1>1 DEF ClientSteps, Connect, Disconnect, Receive, Position, List, Ensure, Union, Count, Look,
                NoRequest, Keep, Disarm, LaunchPump, LaunchPeers, eventVars
  <2>2. \A c \in Clients : backlog'[c] \subseteq backlog[c] \cup ring /\ ch'[c] \subseteq ch[c]
    <3>1. PICK c \in Clients : ClientSteps(c) \/ Ensure(c)
      BY <1>1
    <3>2. CASE Connect(c)
      BY <3>2 DEF Connect, HubTypes, EventTypes
    <3>3. CASE Disconnect(c)
      BY <3>3 DEF Disconnect, HubTypes, EventTypes
    <3>4. CASE Receive(c)
      BY <3>4 DEF Receive, HubTypes, EventTypes
    <3>5. CASE Position(c) \/ List(c) \/ Ensure(c)
      BY <3>5 DEF Position, List, Ensure, Union, Count, Look, NoRequest, Keep, Disarm, LaunchPump,
                  LaunchPeers, eventVars
    <3> QED
      BY <3>1, <3>2, <3>3, <3>4, <3>5 DEF ClientSteps
  <2>3. \A e : IsReal(e)' = IsReal(e)
    BY <2>1 DEF IsReal
  <2> QED
    BY <2>1, <2>2, <2>3 DEF EventsAreReal
<1>2. CASE \E p \in pumps : Feed(p) \/ Fails(p)
  <2>1. PICK p \in pumps : Feed(p) \/ Fails(p)
    BY <1>2
  <2>2. UNCHANGED <<hubEnv, happened, backlog>>
    BY <2>1 DEF Feed, Subscribe, ForwardEvent, PumpExits, Fails
  <2>3. \A e : IsReal(e)' = IsReal(e)
    BY <2>2 DEF IsReal
  <2>4. CASE PumpExits(p)
    BY <2>2, <2>3, <2>4 DEF PumpExits, eventVars, EventsAreReal
  <2>5. CASE \E new : Published(new) /\ \A e \in new : IsReal(e)
    <3>1. PICK new : Published(new) /\ \A e \in new : IsReal(e)
      BY <2>5
    <3>2. ring' \subseteq ring \cup new /\ \A c \in Clients : ch'[c] \subseteq ch[c] \cup new
      BY <3>1 DEF Published, Retained, ForOf
    <3> QED
      BY <2>2, <2>3, <3>1, <3>2 DEF EventsAreReal
  <2> QED
    BY <2>1, <2>4, <2>5, PumpsAreReal
<1>3. CASE \E s \in Sessions : Changes(s)
  <2>1. UNCHANGED <<hubEnv, ring, ch, backlog>> /\ \E s \in Sessions : happened' = Append(happened, s)
    BY <1>3 DEF Changes, eventVars
  <2> QED
    BY <2>1, RealStaysReal DEF EventsAreReal
<1>4. CASE LingerExpires
  BY <1>4 DEF LingerExpires, eventVars, EventsAreReal, IsReal
<1>5. CASE Crash
  BY <1>5 DEF Crash, EventsAreReal
<1> QED
  BY <1>1, <1>2, <1>3, <1>4, <1>5 DEF HubNext

(* The types are inductive, with the events being real.                     *)
LEMMA TypesAreKept ==
  ASSUME HubTypes, EventsAreReal, [HubNext]_hubVars PROVE HubTypes' /\ EventsAreReal'
<1>1. CASE HubNext
  BY <1>1, EnsuringIsTyped, PumpingIsTyped, ClientsAreTyped, RestIsTyped, EventsStayReal DEF HubNext
<1>2. CASE UNCHANGED hubVars
  BY <1>2 DEF hubVars, eventVars, streamVars, requestVars, mirrorVars, HubTypes, EventTypes, FeedTypes,
              MirrorTypes, Pumps, Views, EventsAreReal, IsReal
<1> QED
  BY <1>1, <1>2

(* Every variable of the hub has its type, and every event is about a change that happened. *)
THEOREM HubTypeCorrect == HubSpec => [](HubTypes /\ EventsAreReal)
<1>1. HubInit => HubTypes /\ EventsAreReal
  BY TypesAtFirst DEF HubInit, EventsAreReal
<1>2. HubTypes /\ EventsAreReal /\ [HubNext]_hubVars => (HubTypes /\ EventsAreReal)'
  BY TypesAreKept
<1> QED
  BY <1>1, <1>2, PTL DEF HubSpec

-----------------------------------------------------------------------------
(* The stream *)

(* While one request is in ensureStream, no other is.                       *)
LEMMA NobodyElse ==
  ASSUME HubTypes, OneInEnsure, NEW c \in Clients, InEnsure(c)
  PROVE  \A d \in Clients \ {c} : pc[d] \in {"away", "open"}
  BY DEF OneInEnsure, InEnsure

(* What ensureStream changes, and what it leaves alone.                     *)
LEMMA EnsuringIs ==
  ASSUME HubTypes, NEW c \in Clients, Ensure(c)
  PROVE  /\ InEnsure(c)
         /\ UNCHANGED <<hubEnv, happened, eventVars, backlog, mirrorVars, failures, hubCrashes>>
         /\ pc' \in [Clients -> RequestPlaces] /\ \A d \in Clients \ {c} : pc'[d] = pc[d] /\ saw'[d] = saw[d]
         /\ unionFilter' = unionFilter
<1>1. pc \in [Clients -> RequestPlaces] /\ saw \in [Clients -> Views]
  BY DEF HubTypes, FeedTypes
<1>2. InEnsure(c)
  BY DEF Ensure, Union, Count, Look, NoRequest, Keep, Disarm, LaunchPump, LaunchPeers, InEnsure
<1>3. UNCHANGED <<hubEnv, happened, eventVars, backlog, mirrorVars, failures, hubCrashes>>
  BY DEF Ensure, Union, Count, Look, NoRequest, Keep, Disarm, LaunchPump, LaunchPeers
<1>4. unionFilter' = unionFilter
  BY <1>3 DEF unionFilter, eventVars
<1>5. pc' \in [Clients -> RequestPlaces] /\ \A d \in Clients \ {c} : pc'[d] = pc[d] /\ saw'[d] = saw[d]
  BY <1>1 DEF Ensure, Union, Count, Look, NoRequest, Keep, Disarm, LaunchPump, LaunchPeers, Done, RequestPlaces
<1> QED
  BY <1>2, <1>3, <1>4, <1>5

(* A union is what any of the subscribers asks for.                         *)
LEMMA UnionServesAll == \A c \in subs : hubEnv.filter[c] \subseteq unionFilter
  BY DEF unionFilter

(* ensureStream keeps one stream, which serves all.                         *)
LEMMA EnsuringKeepsStream ==
  ASSUME HubTypes, FeedInvariant, NEW c \in Clients, Ensure(c) PROVE FeedInvariant'
<1> USE DEF FeedInvariant
<1>1. pc \in [Clients -> RequestPlaces] /\ saw \in [Clients -> Views] /\ on \in BOOLEAN /\ launched \in Nat
      /\ cancelled \subseteq 1 .. launched /\ pumps \subseteq Pumps /\ gen \in 0 .. launched
      /\ subs \subseteq Clients
  BY EnvironmentOfType DEF HubTypes, FeedTypes, EventTypes
<1>2. InEnsure(c) /\ UNCHANGED <<hubEnv, subs>> /\ unionFilter' = unionFilter
  BY EnsuringIs DEF eventVars
<1>3. \A d \in Clients \ {c} : pc'[d] = pc[d] /\ saw'[d] = saw[d] /\ pc[d] \in {"away", "open"}
  BY <1>2, EnsuringIs, NobodyElse
<1>4. OneInEnsure'
  BY <1>3 DEF OneInEnsure, InEnsure
<1>5. CASE Union(c)
  <2>1. pc'[c] = "count" /\ saw'[c].want = unionFilter /\ UNCHANGED <<streamVars, pumps>>
    BY <1>1, <1>5 DEF Union, Views
  <2>2. SubscribersAreKnown'
    BY <1>2, <1>3, <2>1 DEF SubscribersAreKnown
  <2>3. ViewsAreFresh'
    BY <1>2, <1>3, <2>1 DEF ViewsAreFresh
  <2>4. StreamIsCurrent'
    BY <1>2, <1>3, <1>5, <2>1 DEF StreamIsCurrent, Live, streamVars, Union
  <2>5. SubscribersAreServed'
    BY <1>1, <1>2, <1>3, <2>1 DEF SubscribersAreServed, streamVars
  <2> QED
    BY <1>4, <2>2, <2>3, <2>4, <2>5
<1>6. CASE Count(c)
  <2>1. /\ pc[c] = "count" /\ pc'[c] = "look" /\ UNCHANGED <<streamVars, pumps>>
        /\ saw'[c].want = saw[c].want /\ saw'[c].listened = (subs # {})
    BY <1>1, <1>6 DEF Count, Views
  <2>2. SubscribersAreKnown'
    BY <1>2, <1>3, <2>1 DEF SubscribersAreKnown
  <2>3. ViewsAreFresh'
    BY <1>2, <1>3, <2>1 DEF ViewsAreFresh
  <2>4. StreamIsCurrent'
    BY <1>2, <1>3, <2>1 DEF StreamIsCurrent, Live, streamVars
  <2>5. SubscribersAreServed'
    BY <1>1, <1>2, <1>3, <2>1 DEF SubscribersAreServed, streamVars
  <2> QED
    BY <1>4, <2>2, <2>3, <2>4, <2>5
<1>7. CASE Look(c)
  <2>1. /\ pc[c] = "look" /\ pc'[c] = "act" /\ UNCHANGED <<streamVars, pumps>>
        /\ saw' = [saw EXCEPT ![c] = [saw[c] EXCEPT !.on = on, !.cur = cur, !.gen = gen]]
    BY <1>1, <1>7 DEF Look
  <2>2. /\ saw'[c].want = saw[c].want /\ saw'[c].listened = saw[c].listened
        /\ saw'[c].on = on /\ saw'[c].cur = cur /\ saw'[c].gen = gen
    BY <1>1, <2>1 DEF Views
  <2>3. SubscribersAreKnown'
    BY <1>2, <1>3, <2>1 DEF SubscribersAreKnown
  <2>4. ViewsAreFresh'
    BY <1>2, <1>3, <2>1, <2>2 DEF ViewsAreFresh, streamVars
  <2>5. StreamIsCurrent'
    BY <1>2, <1>3, <2>1 DEF StreamIsCurrent, Live, streamVars
  <2>6. SubscribersAreServed'
    BY <1>1, <1>2, <1>3, <2>1 DEF SubscribersAreServed, streamVars
  <2> QED
    BY <1>4, <2>3, <2>4, <2>5, <2>6
<1>8. CASE NoRequest(c) \/ Keep(c)
  <2>1. /\ pc[c] = "act" /\ pc'[c] = IF c \in subs THEN "open" ELSE "away"
        /\ UNCHANGED <<on, cur, gen, launched, cancelled, pumps>>
    BY <1>1, <1>8 DEF NoRequest, Keep, Done
  <2>2. SubscribersAreKnown'
    BY <1>2, <1>3, <2>1 DEF SubscribersAreKnown
  <2>3. ViewsAreFresh'
    BY <1>2, <1>3, <2>1 DEF ViewsAreFresh
  <2>4. StreamIsCurrent'
    BY <1>2, <1>3, <2>1 DEF StreamIsCurrent, Live
  <2>5. subs # {} => on /\ cur = unionFilter
    <3>1. saw[c].want = unionFilter /\ (saw[c].listened <=> subs # {})
          /\ (subs # {} => (saw[c].on <=> on) /\ saw[c].cur = cur)
      BY <2>1 DEF ViewsAreFresh
    <3>2. ~saw[c].listened \/ (saw[c].on /\ saw[c].cur = saw[c].want)
      BY <1>8 DEF NoRequest, Keep, Covers
    <3> QED
      BY <3>1, <3>2
  <2>6. SubscribersAreServed'
    BY <1>2, <2>1, <2>5, UnionServesAll DEF SubscribersAreServed
  <2> QED
    BY <1>4, <2>2, <2>3, <2>4, <2>6
<1>9. CASE Disarm(c)
  <2>1. /\ pc[c] = "act" /\ pc'[c] = "launch" /\ saw[c].listened /\ ~Covers(c) /\ saw' = saw
        /\ UNCHANGED <<on, cur, gen, launched, cancelled, pumps>>
    BY <1>1, <1>9 DEF Disarm
  <2>2. SubscribersAreKnown'
    BY <1>2, <1>3, <2>1 DEF SubscribersAreKnown
  <2>3. ViewsAreFresh'
    BY <1>2, <1>3, <2>1, ZenonT(60) DEF ViewsAreFresh, Covers
  <2>4. StreamIsCurrent'
    BY <1>2, <1>3, <2>1 DEF StreamIsCurrent, Live
  <2>5. SubscribersAreServed'
    BY <1>1, <1>2, <1>3, <2>1 DEF SubscribersAreServed
  <2> QED
    BY <1>4, <2>2, <2>3, <2>4, <2>5
<1>10. CASE LaunchPump(c)
  <2>1. /\ pc[c] = "launch" /\ pc'[c] = "peers"
        /\ cancelled' = Cancels(c) /\ launched' = launched + 1
        /\ on' /\ cur' = saw[c].want /\ gen' = launched + 1
        /\ pumps' = pumps \cup {NewPump(launched + 1, FALSE, saw[c].want)}
        /\ saw'[c].want = saw[c].want /\ saw'[c].gen = launched + 1
    BY <1>1, <1>10 DEF LaunchPump, Views
  <2>2. subs # {} /\ saw[c].want = unionFilter /\ saw[c].on = on /\ saw[c].gen = gen
    BY <2>1 DEF ViewsAreFresh
  <2>3. \A p \in pumps : p.gen \in 1 .. launched
    BY <1>1 DEF Pumps
  <2>4. \A p \in pumps : p.gen \in cancelled'
    BY <2>1, <2>2 DEF StreamIsCurrent, Live, Cancels
  <2>5. LET new == NewPump(launched + 1, FALSE, saw[c].want) IN
        new.gen = gen' /\ ~new.remote /\ new.filter = cur' /\ new \in pumps'
    BY <2>1 DEF NewPump
  <2>6. SubscribersAreKnown'
    BY <1>2, <1>3, <2>1 DEF SubscribersAreKnown
  <2>7. ViewsAreFresh'
    <3>1. \A p \in pumps' : p.gen = gen' => ~p.remote
      <4>1. \A p \in pumps : p.gen # gen'
        BY <1>1, <2>1, <2>3
      <4> QED
        BY <2>1, <4>1 DEF NewPump
    <3> QED
      BY <1>2, <1>3, <2>1, <2>2, <3>1 DEF ViewsAreFresh
  <2>8. StreamIsCurrent'
    <3>1. gen' \in (1 .. launched') \ cancelled'
      <4>1. Cancels(c) \subseteq 1 .. launched
        BY <1>1, <2>2 DEF Cancels, StreamIsCurrent
      <4> QED
        BY <1>1, <2>1, <4>1
    <3>2. \A p \in pumps' : Live(p)' => on' /\ p.gen = gen' /\ p.filter = cur'
      BY <2>1, <2>4, <2>5 DEF Live
    <3>3. \E p \in pumps' : p.gen = gen' /\ ~p.remote
      BY <2>5
    <3> QED
      BY <2>1, <3>1, <3>2, <3>3 DEF StreamIsCurrent
  <2>9. SubscribersAreServed'
    BY <1>2, <2>1, <2>2, UnionServesAll DEF SubscribersAreServed
  <2> QED
    BY <1>4, <2>6, <2>7, <2>8, <2>9
<1>11. CASE LaunchPeers(c)
  <2>1. /\ pc[c] = "peers" /\ pc'[c] = IF c \in subs THEN "open" ELSE "away"
        /\ pumps' = IF hubEnv.remote # {} /\ subs \ hubEnv.local # {}
                    THEN pumps \cup {NewPump(saw[c].gen, TRUE, saw[c].want)} ELSE pumps
        /\ UNCHANGED streamVars
    BY <1>1, <1>11 DEF LaunchPeers, Done
  <2>2. subs # {} /\ saw[c].want = unionFilter /\ on /\ cur = saw[c].want /\ saw[c].gen = gen
    BY <2>1 DEF ViewsAreFresh
  <2>3. LET new == NewPump(saw[c].gen, TRUE, saw[c].want) IN
        new.gen = gen /\ new.remote /\ new.filter = cur
    BY <2>2 DEF NewPump
  <2>4. SubscribersAreKnown'
    BY <1>2, <1>3, <2>1 DEF SubscribersAreKnown
  <2>5. ViewsAreFresh'
    BY <1>2, <1>3, <2>1 DEF ViewsAreFresh
  <2>6. StreamIsCurrent'
    <3>1. \A p \in pumps' : Live(p)' => on' /\ p.gen = gen' /\ p.filter = cur'
      BY <2>1, <2>2, <2>3 DEF StreamIsCurrent, Live, streamVars
    <3>2. \E p \in pumps' : p.gen = gen' /\ ~p.remote
      BY <2>1, <2>2 DEF StreamIsCurrent, streamVars
    <3>3. hubEnv.remote # {} /\ hubEnv.local = {} => \E p \in pumps' : p.gen = gen' /\ p.remote
      BY <2>1, <2>2, <2>3 DEF streamVars
    <3> QED
      BY <1>2, <2>1, <2>2, <3>1, <3>2, <3>3 DEF StreamIsCurrent, streamVars
  <2>7. SubscribersAreServed'
    BY <1>2, <2>1, <2>2, UnionServesAll DEF SubscribersAreServed, streamVars
  <2> QED
    BY <1>4, <2>4, <2>5, <2>6, <2>7
<1> QED
  BY <1>5, <1>6, <1>7, <1>8, <1>9, <1>10, <1>11 DEF Ensure

(* What a client does, unless two requests may be in ensureStream at once.  *)
LEMMA ClientsAre ==
  ASSUME HubTypes, MayNot({"race"}), NEW c \in Clients, ClientSteps(c)
  PROVE  /\ UNCHANGED <<hubEnv, happened, cursor, epoch, ring, missed, streamVars, pumps, saw, failures, hubCrashes>>
         /\ \/ UNCHANGED <<pc, subs>>
            \/ /\ \A d \in Clients : pc[d] \in {"away", "open"}
               /\ pc' = [pc EXCEPT ![c] = "union"]
               /\ subs' \subseteq subs \cup {c}
  BY DEF ClientSteps, Connect, Disconnect, Receive, Position, List, MayNot, eventVars, requestVars, mirrorVars,
         HubTypes, FeedTypes

(* The invariant is about these variables.                                  *)
LEMMA StreamRests ==
  ASSUME FeedInvariant, UNCHANGED <<hubEnv, subs, on, cur, gen, cancelled, launched, pumps, pc, saw>>
  PROVE  FeedInvariant'
<1> USE DEF FeedInvariant
<1>1. unionFilter' = unionFilter /\ (\A c \in Clients : Covers(c)' <=> Covers(c)) /\ \A p : Live(p)' <=> Live(p)
  BY DEF unionFilter, Covers, Live
<1>2. OneInEnsure' /\ SubscribersAreKnown' /\ SubscribersAreServed'
  BY DEF OneInEnsure, InEnsure, SubscribersAreKnown, SubscribersAreServed
<1>3. ViewsAreFresh'
  BY <1>1 DEF ViewsAreFresh
<1>4. StreamIsCurrent'
  BY <1>1 DEF StreamIsCurrent
<1> QED
  BY <1>2, <1>3, <1>4

(* They leave the stream alone.                                             *)
LEMMA ClientsKeepStream ==
  ASSUME HubTypes, MayNot({"race"}), FeedInvariant, NEW c \in Clients, ClientSteps(c)
  PROVE  FeedInvariant'
<1> USE DEF FeedInvariant
<1>1. UNCHANGED <<hubEnv, happened, cursor, epoch, ring, missed, streamVars, pumps, saw, failures, hubCrashes>>
  BY ClientsAre
<1>2. pc \in [Clients -> RequestPlaces] /\ subs \subseteq Clients
  BY EnvironmentOfType DEF HubTypes, FeedTypes, EventTypes
<1>3. CASE UNCHANGED <<pc, subs>>
  BY <1>1, <1>3, StreamRests DEF streamVars
<1>4. CASE /\ \A d \in Clients : pc[d] \in {"away", "open"}
           /\ pc' = [pc EXCEPT ![c] = "union"]
           /\ subs' \subseteq subs \cup {c}
  <2>1. pc'[c] = "union" /\ \A d \in Clients \ {c} : pc'[d] = pc[d] /\ (pc[d] = "away" \/ pc[d] = "open")
    BY <1>2, <1>4
  <2>2. OneInEnsure'
    BY <2>1 DEF OneInEnsure, InEnsure
  <2>3. SubscribersAreKnown'
    <3>1. \A d \in Clients \ {c} : d \in subs' <=> d \in subs
      BY DEF ClientSteps, Connect, Disconnect, Receive, Position, List, eventVars
    <3> QED
      BY <2>1, <3>1 DEF SubscribersAreKnown
  <2>4. ViewsAreFresh'
    BY <2>1 DEF ViewsAreFresh
  <2>5. StreamIsCurrent'
    <3>1. \A d \in Clients : pc[d] # "peers"
      BY <1>4
    <3>2. UNCHANGED <<hubEnv, on, cur, gen, launched, cancelled, pumps>>
      BY <1>1 DEF streamVars
    <3> QED
      BY <3>1, <3>2 DEF StreamIsCurrent, Live
  <2>6. SubscribersAreServed'
    BY <1>1, <1>2, <1>4, <2>1 DEF SubscribersAreServed, streamVars
  <2> QED
    BY <2>2, <2>3, <2>4, <2>5, <2>6
<1> QED
  BY <1>3, <1>4, ClientsAre

(* A pump stays what it is for, and goes only when its stream was cancelled. *)
LEMMA PumpsStay ==
  ASSUME HubTypes, NEW p \in pumps, Feed(p) \/ Fails(p)
  PROVE  /\ UNCHANGED <<hubEnv, happened, epoch, subs, streamVars, requestVars, backlog, mirrorVars, hubCrashes>>
         /\ \A q \in pumps' : \E r \in pumps : q.gen = r.gen /\ q.remote = r.remote /\ q.filter = r.filter
         /\ \A q \in pumps : Live(q) =>
               \E r \in pumps' : q.gen = r.gen /\ q.remote = r.remote /\ q.filter = r.filter
<1>1. UNCHANGED <<hubEnv, happened, epoch, subs, streamVars, requestVars, backlog, mirrorVars, hubCrashes>>
  BY DEF Feed, Subscribe, ForwardEvent, PumpExits, Fails, eventVars
<1>2. p \in Pumps
  BY DEF HubTypes, FeedTypes
<1>3. (PumpExits(p) /\ pumps' = pumps \ {p} /\ ~Live(p))
      \/ \E q : pumps' = With(p, q) /\ q.gen = p.gen /\ q.remote = p.remote /\ q.filter = p.filter
  <2>1. CASE Subscribe(p)
    BY <2>1 DEF Subscribe, Subscribed
  <2>2. CASE ForwardEvent(p)
    <3>1. PICK n \in Ahead(p) : pumps' = With(p, [p EXCEPT !.pos = n])
      BY <2>2 DEF ForwardEvent
    <3> QED
      BY <1>2, <3>1 DEF Pumps
  <2>3. CASE PumpExits(p)
    BY <2>3 DEF PumpExits
  <2>4. CASE Fails(p)
    <3> DEFINE q == [p EXCEPT !.open = FALSE, !.gap = TRUE]
    <3>1. q.gen = p.gen /\ q.remote = p.remote /\ q.filter = p.filter
      BY <1>2 DEF Pumps
    <3>2. pumps' = With(p, q)
      BY <2>4 DEF Fails
    <3> HIDE DEF q
    <3> QED
      BY <3>1, <3>2
  <2> QED
    BY <2>1, <2>2, <2>3, <2>4 DEF Feed
<1>4. CASE PumpExits(p) /\ pumps' = pumps \ {p} /\ ~Live(p)
  BY <1>1, <1>4
<1>5. CASE \E q : pumps' = With(p, q) /\ q.gen = p.gen /\ q.remote = p.remote /\ q.filter = p.filter
  BY <1>1, <1>5 DEF With
<1> QED
  BY <1>3, <1>4, <1>5

(* What the pumps do leaves the stream alone.                               *)
LEMMA PumpingKeepsStream ==
  ASSUME HubTypes, FeedInvariant, NEW p \in pumps, Feed(p) \/ Fails(p) PROVE FeedInvariant'
<1> USE DEF FeedInvariant
<1>1. UNCHANGED <<hubEnv, subs, streamVars, requestVars>>
  BY PumpsStay
<1>2. OneInEnsure' /\ SubscribersAreKnown' /\ SubscribersAreServed'
  BY <1>1 DEF requestVars, streamVars, OneInEnsure, InEnsure, SubscribersAreKnown, SubscribersAreServed
<1>3. \A q \in pumps' : \E r \in pumps : q.gen = r.gen /\ q.remote = r.remote /\ q.filter = r.filter
  BY PumpsStay
<1>4. \A q \in pumps : Live(q) =>
         \E r \in pumps' : q.gen = r.gen /\ q.remote = r.remote /\ q.filter = r.filter
  BY PumpsStay
<1>5. ViewsAreFresh'
  <2>1. unionFilter' = unionFilter /\ \A c \in Clients : Covers(c)' = Covers(c)
    BY <1>1 DEF requestVars, unionFilter, Covers
  <2>2. (\A q \in pumps : q.gen = gen => ~q.remote) => \A q \in pumps' : q.gen = gen => ~q.remote
    BY <1>3
  <2> QED
    BY <1>1, <2>1, <2>2 DEF ViewsAreFresh, requestVars, streamVars
<1>6. StreamIsCurrent'
  <2>1. \A q \in pumps' : Live(q)' => on' /\ q.gen = gen' /\ q.filter = cur'
    BY <1>1, <1>3 DEF StreamIsCurrent, Live, streamVars
  <2>2. on => \A q \in pumps : q.gen = gen => Live(q)
    BY DEF StreamIsCurrent, Live
  <2>3. on' => \E q \in pumps' : q.gen = gen' /\ ~q.remote
    BY <1>1, <1>4, <2>2 DEF StreamIsCurrent, streamVars
  <2>4. on' /\ hubEnv'.remote # {} /\ hubEnv'.local = {} /\ (\A c \in Clients : pc'[c] # "peers") =>
          \E q \in pumps' : q.gen = gen' /\ q.remote
    BY <1>1, <1>4, <2>2 DEF StreamIsCurrent, streamVars, requestVars
  <2> QED
    BY <1>1, <2>1, <2>3, <2>4 DEF StreamIsCurrent, streamVars
<1> QED
  BY <1>2, <1>5, <1>6

(* The last client was gone for long, sessions change, the service restarts. *)
LEMMA RestKeepsStream ==
  ASSUME HubTypes, FeedInvariant, (\E s \in Sessions : Changes(s)) \/ LingerExpires \/ Crash
  PROVE  FeedInvariant'
<1> USE DEF FeedInvariant
<1>1. CASE (\E s \in Sessions : Changes(s)) \/ UNCHANGED <<hubEnv, subs, on, cur, gen, cancelled, launched, pumps, pc, saw>>
  <2>1. UNCHANGED <<hubEnv, subs, on, cur, gen, cancelled, launched, pumps, pc, saw>>
    BY <1>1 DEF Changes, eventVars, streamVars, requestVars
  <2> QED
    BY <2>1, StreamRests
<1>2. CASE LingerExpires /\ subs = {} /\ on' = FALSE /\ cancelled' = (cancelled \union {gen}) \ {0}
  <2>1. UNCHANGED <<hubEnv, subs, pumps, pc, saw>>
    BY <1>2 DEF LingerExpires, eventVars, requestVars
  <2>2. OneInEnsure' /\ SubscribersAreKnown' /\ SubscribersAreServed'
    BY <1>2, <2>1 DEF OneInEnsure, InEnsure, SubscribersAreKnown, SubscribersAreServed
  <2>3. unionFilter' = unionFilter
    BY <2>1 DEF unionFilter
  <2>4. ViewsAreFresh'
    BY <1>2, <2>1, <2>3 DEF ViewsAreFresh, Covers
  <2>5. \A p \in pumps : p.gen \in cancelled'
    <3>1. \A p \in pumps : p.gen # 0 /\ (p.gen \in cancelled \/ p.gen = gen)
      BY DEF StreamIsCurrent, Live, HubTypes, FeedTypes, Pumps
    <3> QED
      BY <1>2, <3>1
  <2>6. StreamIsCurrent'
    BY <1>2, <2>1, <2>5 DEF StreamIsCurrent, Live
  <2> QED
    BY <2>2, <2>4, <2>6
<1>3. CASE Crash
  <2>1. \A c \in Clients : pc'[c] = "away"
    BY <1>3 DEF Crash
  <2>2. ~on' /\ pumps' = {} /\ subs' = {}
    BY <1>3 DEF Crash
  <2> QED
    BY <2>1, <2>2 DEF OneInEnsure, InEnsure, SubscribersAreKnown, ViewsAreFresh, StreamIsCurrent, SubscribersAreServed
<1>4. LingerExpires => UNCHANGED <<hubEnv, subs, on, cur, gen, cancelled, launched, pumps, pc, saw>>
                       \/ (subs = {} /\ on' = FALSE /\ cancelled' = (cancelled \union {gen}) \ {0})
  BY DEF LingerExpires, eventVars, requestVars
<1> QED
  BY <1>1, <1>2, <1>3, <1>4

(* The stream invariant is inductive, when requests come to ensureStream one at a time. *)
LEMMA StreamIsKept ==
  ASSUME HubTypes, MayNot({"race"}), FeedInvariant, [HubNext]_hubVars
  PROVE  FeedInvariant'
<1>1. CASE HubNext
  BY <1>1, EnsuringKeepsStream, ClientsKeepStream, PumpingKeepsStream, RestKeepsStream DEF HubNext
<1>2. CASE UNCHANGED hubVars
  BY <1>2, StreamRests DEF hubVars, eventVars, streamVars, requestVars
<1> QED
  BY <1>1, <1>2

(* There is no stream at first.                                             *)
LEMMA StreamAtFirst == HubInit => FeedInvariant
<1> SUFFICES ASSUME HubInit PROVE FeedInvariant
  OBVIOUS
<1>1. (\A c \in Clients : pc[c] = "away") /\ subs = {} /\ ~on /\ pumps = {}
  BY DEF HubInit
<1> QED
  BY <1>1 DEF FeedInvariant, OneInEnsure, InEnsure, SubscribersAreKnown, ViewsAreFresh, StreamIsCurrent,
              SubscribersAreServed

(* The environment is that of the behaviour.                                *)
LEMMA EnvironmentStays == [HubNext]_hubVars => UNCHANGED hubEnv
  BY DEF HubNext, hubVars, ClientSteps, Connect, Disconnect, Receive, Position, List, Ensure, Union, Count, Look,
         NoRequest, Keep, Disarm, LaunchPump, LaunchPeers, Feed, Subscribe, ForwardEvent, PumpExits, Fails,
         Changes, LingerExpires, Crash

(* The stream invariant is enough.                                          *)
LEMMA StreamServes == HubTypes /\ (MayNot({"race"}) => FeedInvariant) => StreamServesAll
<1> SUFFICES ASSUME HubTypes, MayNot({"race"}), FeedInvariant PROVE StreamServesAll
  BY DEF StreamServesAll, OneStream, Watched
<1>1. OneStream
  BY DEF OneStream, FeedInvariant, StreamIsCurrent
<1>2. Watched
  <2> SUFFICES ASSUME OneScope, NEW c \in subs, pc[c] = "open", NEW s \in Sessions, Wants(c, s)
               PROVE  \/ \E p \in pumps : Live(p) /\ s \in p.filter /\ (s \in hubEnv.remote <=> p.remote)
                      \/ s \in hubEnv.remote /\ \E d \in Clients : pc[d] = "peers"
    BY DEF Watched
  <2>1. on /\ s \in cur /\ gen \notin cancelled
    BY DEF FeedInvariant, SubscribersAreServed, StreamIsCurrent, Wants
  <2>2. \A p \in pumps : p.gen = gen => Live(p) /\ s \in p.filter /\ p.remote \in BOOLEAN
    BY <2>1 DEF FeedInvariant, StreamIsCurrent, Live, HubTypes, FeedTypes, Pumps
  <2>3. CASE s \notin hubEnv.remote
    BY <2>1, <2>2, <2>3 DEF FeedInvariant, StreamIsCurrent
  <2>4. CASE s \in hubEnv.remote
    <3>1. hubEnv.local = {}
      BY <2>4 DEF OneScope, Wants, HubTypes, EventTypes
    <3> QED
      BY <2>1, <2>2, <2>4, <3>1 DEF FeedInvariant, StreamIsCurrent
  <2> QED
    BY <2>3, <2>4
<1> QED
  BY <1>1, <1>2 DEF StreamServesAll

(* There is one driver stream at a time, and it watches all that a connected *)
(* client asks for, whoever came or went meanwhile and however often the    *)
(* stream was started again (events.go: ensureStream).                      *)
THEOREM OneStreamServesAll == HubSpec => []StreamServesAll
<1> DEFINE IInv == HubTypes /\ EventsAreReal /\ (MayNot({"race"}) => FeedInvariant)
<1>1. HubInit => IInv
  BY TypesAtFirst, StreamAtFirst DEF HubInit, EventsAreReal
<1>2. IInv /\ [HubNext]_hubVars => IInv'
  BY TypesAreKept, StreamIsKept, EnvironmentStays DEF MayNot
<1>3. IInv => StreamServesAll
  BY StreamServes
<1> QED
  BY <1>1, <1>2, <1>3, PTL DEF HubSpec

-----------------------------------------------------------------------------
(* No silent gap: the window and what comes *)

HubWhole == HubTypes /\ EventsAreReal /\ OneFilter /\ FeedInvariant /\ GapInvariant

(* What OneFilter rules out.                                                *)
LEMMA OneFilterIs ==
  ASSUME OneFilter
  PROVE  /\ MayNot({"race"}) /\ "race" \notin hubEnv.may /\ "linger" \notin hubEnv.may
         /\ "early" \notin hubEnv.may /\ "noEpoch" \notin hubEnv.may /\ "durable" \notin hubEnv.may
         /\ \A c, d \in hubEnv.clients : hubEnv.filter[c] = hubEnv.filter[d]
  BY DEF OneFilter, MayNot

(* Cursors are numbers.                                                     *)
LEMMA CursorsAreNumbers ==
  ASSUME HubTypes
  PROVE  /\ cursor \in Nat /\ epoch \in Nat \ {0} /\ hubEnv.retention \in Nat \ {0} /\ subs \subseteq Clients
         /\ ring \subseteq Stamped /\ (\A e \in Stamped : e.cursor \in Nat /\ e.event \in HubEvents)
         /\ \A c \in Clients : since[c] \in Nat /\ of[c] \in Nat /\ ToCome(c) \subseteq Stamped
                               /\ backlog[c] \subseteq Stamped /\ ch[c] \subseteq Stamped
  BY EnvironmentOfType DEF HubTypes, EventTypes, MirrorTypes, Stamped, ToCome

(* The window keeps the newest events, in order.                            *)
LEMMA WindowMoves ==
  ASSUME HubTypes, CursorsInOrder, NEW new, Published(new), UNCHANGED hubEnv
  PROVE  /\ ring' \subseteq ring \cup new
         /\ ring \cup new # {} => ring' # {}
         /\ \A e \in ring \cup new : e \in ring' \/ \A d \in ring' : e.cursor < d.cursor
         /\ \A d \in ring' : d.cursor <= cursor' /\ cursor' < d.cursor + hubEnv.retention
         /\ \A d, e \in ring' : d.cursor = e.cursor => d = e
<1>1. /\ cursor \in Nat /\ hubEnv.retention \in Nat \ {0} /\ ring \subseteq Stamped
      /\ \A e \in Stamped : e.cursor \in Nat
  BY CursorsAreNumbers
<1>2. /\ cursor' \in Nat /\ cursor' >= cursor /\ new \subseteq Stamped
      /\ \A e \in new : cursor < e.cursor /\ e.cursor <= cursor'
      /\ \A d, e \in new : d.cursor = e.cursor => d = e
      /\ new = {} => cursor' = cursor
      /\ new # {} => \E e \in new : e.cursor = cursor'
  BY DEF Published
<1>3. ring' = {e \in ring \cup new : e.cursor + hubEnv.retention > cursor'}
  BY DEF Published, Retained
<1>4. \A e \in ring : e.cursor <= cursor /\ cursor < e.cursor + hubEnv.retention
  BY DEF CursorsInOrder
<1>5. \A d, e \in ring : d.cursor = e.cursor => d = e
  BY DEF CursorsInOrder
<1>6. ring \cup new # {} => ring' # {}
  <2>1. CASE new = {}
    BY <1>2, <1>3, <1>4, <2>1
  <2>2. CASE new # {}
    <3>1. PICK e \in new : e.cursor = cursor'
      BY <1>2, <2>2
    <3>2. e \in ring'
      BY <1>1, <1>2, <1>3, <3>1
    <3> QED
      BY <3>2
  <2> QED
    BY <2>1, <2>2
<1>7. \A e \in ring \cup new : e \in ring' \/ \A d \in ring' : e.cursor < d.cursor
  BY <1>1, <1>2, <1>3
<1>8. \A d \in ring' : d.cursor <= cursor' /\ cursor' < d.cursor + hubEnv.retention
  BY <1>1, <1>2, <1>3, <1>4
<1>9. \A d, e \in ring' : d.cursor = e.cursor => d = e
  BY <1>1, <1>2, <1>3, <1>4, <1>5
<1> QED
  BY <1>3, <1>6, <1>7, <1>8, <1>9

(* A cursor that fell off the window does not come back.                    *)
LEMMA LackingLasts ==
  ASSUME HubTypes, CursorsInOrder, NEW new, Published(new), UNCHANGED hubEnv,
         NEW from \in Nat, from <= cursor, Lacks(from)
  PROVE  Lacks(from)'
<1>1. /\ cursor \in Nat /\ ring \subseteq Stamped /\ new \subseteq Stamped /\ \A e \in Stamped : e.cursor \in Nat
  BY CursorsAreNumbers DEF Published
<1>2. ring # {} /\ \A e \in ring : from + 1 < e.cursor
  BY <1>1 DEF Lacks
<1>3. \A e \in new : from + 1 < e.cursor
  <2>1. PICK r \in ring : TRUE
    BY <1>2
  <2>2. r.cursor <= cursor /\ from + 1 < r.cursor
    BY <1>2 DEF CursorsInOrder
  <2> QED
    BY <1>1, <2>2 DEF Published
<1>4. ring' # {} /\ ring' \subseteq ring \cup new
  BY <1>2, WindowMoves
<1> QED
  BY <1>2, <1>3, <1>4 DEF Lacks

(* What publish adds to what a client has yet to receive.                   *)
Gets(c, new) ==
    /\ ToCome(c) \cup ForOf(c, new) \subseteq ToCome(c)'
    /\ ToCome(c)' \subseteq ToCome(c) \cup {e \in new : Matches(c, e.event)}

(* A subscriber that was not dropped gets it, and its channel stays exact.  *)
LEMMA SubscriberGets ==
  ASSUME HubTypes, CursorsInOrder, NEW new, Published(new), NEW c \in subs \ missed',
         EventsAreComplete(c), EventsInOrder(c),
         UNCHANGED <<hubEnv, happened, epoch, subs, backlog, of, since>>
  PROVE  Gets(c, new) /\ EventsAreComplete(c)' /\ EventsInOrder(c)'
<1>1. /\ cursor \in Nat /\ ring \subseteq Stamped /\ c \in Clients /\ since[c] \in Nat
      /\ \A e \in Stamped : e.cursor \in Nat
  BY CursorsAreNumbers
<1>2. /\ cursor' \in Nat /\ cursor' >= cursor /\ new \subseteq Stamped
      /\ \A e \in new : cursor < e.cursor /\ e.cursor <= cursor'
      /\ \A d, e \in new : d.cursor = e.cursor => d = e
      /\ ch'[c] = ch[c] \cup ForOf(c, new) /\ c \notin missed
  BY DEF Published
<1>3. ToCome(c) = backlog[c] \cup ch[c] /\ ToCome(c) \subseteq Stamped
  BY <1>1, CursorsAreNumbers DEF ToCome
<1>4. ToCome(c)' = ToCome(c) \cup ForOf(c, new)
  BY <1>2, <1>3 DEF ToCome
<1>5. \A e : Reaches(c, e)' = Reaches(c, e) /\ Matches(c, e)' = Matches(c, e)
  BY DEF Reaches, Matches
<1>6. \A e \in ForOf(c, new) : e \in new /\ Reaches(c, e.event) /\ Matches(c, e.event)
  BY DEF ForOf, Reaches
<1>7. of[c] = epoch => since[c] <= cursor
  BY <1>1, <1>2 DEF CursorsInOrder
<1>8. /\ ring' \subseteq ring \cup new
      /\ ring \cup new # {} => ring' # {}
      /\ \A e \in ring \cup new : e \in ring' \/ \A d \in ring' : e.cursor < d.cursor
  BY WindowMoves
<1>9. Gets(c, new)
  BY <1>4, <1>6 DEF Gets
<1>10. EventsAreComplete(c)'
  <2>1. ASSUME NEW e \in ToCome(c)', NEW d \in ring', Reaches(c, d.event), d.cursor > e.cursor
        PROVE  d \in ToCome(c)'
    <3>1. CASE d \in new
      BY <1>4, <2>1, <3>1 DEF ForOf
    <3>2. CASE d \in ring /\ e \in ToCome(c)
      BY <1>4, <2>1, <3>2 DEF EventsAreComplete
    <3>3. ~(d \in ring /\ e \in new)
      <4>1. d \in ring => d.cursor <= cursor
        BY DEF CursorsInOrder
      <4> QED
        BY <1>1, <1>2, <2>1, <4>1
    <3> QED
      BY <1>4, <1>6, <1>8, <2>1, <3>1, <3>2, <3>3
  <2>2. ASSUME CanResume(c)', NEW d \in ring', Reaches(c, d.event), d.cursor > since[c]
        PROVE  d \in ToCome(c)'
    <3>1. CanResume(c)
      BY <1>1, <1>7, <2>2, LackingLasts DEF CanResume
    <3> QED
      BY <1>4, <1>8, <2>2, <3>1 DEF EventsAreComplete, ForOf
  <2> QED
    BY <1>5, <2>1, <2>2 DEF EventsAreComplete
<1>11. EventsInOrder(c)'
  <2>1. \A e \in ToCome(c)' : e.cursor <= cursor' /\ Matches(c, e.event) /\ (of[c] = epoch => e.cursor > since[c])
    <3>1. \A e \in ToCome(c) : e.cursor <= cursor /\ Matches(c, e.event) /\ (of[c] = epoch => e.cursor > since[c])
      BY DEF EventsInOrder
    <3>2. \A e \in ToCome(c) : e.cursor <= cursor'
      BY <1>1, <1>2, <1>3, <3>1
    <3>3. \A e \in ForOf(c, new) : of[c] = epoch => e.cursor > since[c]
      BY <1>1, <1>2, <1>6, <1>7
    <3> QED
      BY <1>2, <1>4, <1>6, <3>1, <3>2, <3>3
  <2>2. ASSUME NEW e \in ToCome(c)' PROVE e \in ring' \/ (ring' # {} /\ \A d \in ring' : e.cursor < d.cursor)
    <3>1. CASE e \in ring \cup new
      BY <1>8, <3>1
    <3>2. CASE e \notin ring \cup new
      <4>1. e \in ToCome(c) /\ ring # {} /\ (\A d \in ring : e.cursor < d.cursor) /\ e.cursor <= cursor
        BY <1>4, <1>6, <3>2 DEF EventsInOrder
      <4>2. \A d \in new : e.cursor < d.cursor
        BY <1>1, <1>2, <1>3, <4>1
      <4> QED
        BY <1>8, <4>1, <4>2
    <3> QED
      BY <3>1, <3>2
  <2>3. \A d, e \in ToCome(c)' : d.cursor = e.cursor => d = e
    <3>1. \A d \in ToCome(c), e \in ForOf(c, new) : d.cursor < e.cursor
      <4>1. \A d \in ToCome(c) : d.cursor <= cursor
        BY DEF EventsInOrder
      <4> QED
        BY <1>1, <1>2, <1>3, <1>6, <4>1
    <3>2. \A d, e \in ToCome(c) : d.cursor = e.cursor => d = e
      BY DEF EventsInOrder
    <3>3. \A d \in ToCome(c), e \in ForOf(c, new) : d.cursor # e.cursor
      BY <1>1, <1>2, <1>3, <1>6, <3>1
    <3> QED
      BY <1>2, <1>4, <1>6, <3>2, <3>3
  <2>4. \A d \in backlog'[c], e \in ch'[c] : d.cursor < e.cursor
    <3>1. \A d \in backlog[c] : d.cursor <= cursor /\ \A e \in ch[c] : d.cursor < e.cursor
      BY <1>3 DEF EventsInOrder
    <3> QED
      BY <1>1, <1>2, <1>3, <1>6, <3>1
  <2> QED
    BY <1>5, <2>1, <2>2, <2>3, <2>4 DEF EventsInOrder
<1> QED
  BY <1>9, <1>10, <1>11

(* A client that is away, and may still resume, finds it in the window.     *)
LEMMA AwayGets ==
  ASSUME HubTypes, CursorsInOrder, NEW new, Published(new), NEW c \in Clients \ (subs \cup missed'),
         CanResume(c)', UNCHANGED <<hubEnv, happened, epoch, subs, of, since>>
  PROVE  Gets(c, new) /\ CanResume(c)
<1>1. /\ cursor \in Nat /\ ring \subseteq Stamped /\ since[c] \in Nat
      /\ \A e \in Stamped : e.cursor \in Nat
  BY CursorsAreNumbers
<1>2. /\ cursor' \in Nat /\ new \subseteq Stamped /\ c \notin missed
      /\ \A e \in new : cursor < e.cursor
  BY DEF Published
<1>3. of[c] = epoch /\ since[c] <= cursor
  BY <1>2 DEF CursorsInOrder, CanResume
<1>4. CanResume(c)
  BY <1>1, <1>3, LackingLasts DEF CanResume
<1>5. /\ ToCome(c) = {e \in ring : e.cursor > since[c] /\ Matches(c, e.event)}
      /\ ToCome(c)' = {e \in ring' : e.cursor > since[c] /\ Matches(c, e.event)}
  BY DEF ToCome, Matches
<1>6. \A e \in ring \cup new : e.cursor > since[c] => e \in ring'
  <2>1. SUFFICES ASSUME NEW e \in ring \cup new, e.cursor > since[c], e \notin ring' PROVE FALSE
    OBVIOUS
  <2>2. ring' # {} /\ \A d \in ring' : e.cursor < d.cursor
    BY <2>1, WindowMoves
  <2>3. PICK r \in ring' : r.cursor <= since[c] + 1
    <3>1. ring' \subseteq Stamped
      BY <1>1, <1>2, WindowMoves
    <3> QED
      BY <1>1, <2>2, <3>1 DEF CanResume, Lacks
  <2>4. r \in Stamped /\ e \in Stamped
    BY <1>1, <1>2, WindowMoves
  <2> QED
    BY <1>1, <2>1, <2>2, <2>3, <2>4
<1>7. \A e \in new : e.cursor > since[c]
  BY <1>1, <1>2, <1>3
<1>8. ToCome(c) \cup ForOf(c, new) \subseteq ToCome(c)'
  BY <1>5, <1>6, <1>7 DEF ForOf, Reaches
<1>9. ToCome(c)' \subseteq ToCome(c) \cup {e \in new : Matches(c, e.event)}
  BY <1>5, WindowMoves
<1> QED
  BY <1>4, <1>8, <1>9 DEF Gets

-----------------------------------------------------------------------------
(* No silent gap: the pumps *)

(* What is to come was stamped before.                                      *)
LEMMA ComingIsOld ==
  ASSUME HubWhole, NEW c \in Clients \ missed PROVE \A d \in ToCome(c) : d.cursor <= cursor
<1>1. CASE c \in subs
  BY <1>1 DEF HubWhole, GapInvariant, ChannelsAreExact, EventsInOrder
<1>2. CASE c \notin subs
  BY <1>2 DEF HubWhole, GapInvariant, CursorsInOrder, ToCome
<1> QED
  BY <1>1, <1>2

(* While a client believes its mirror, every pump is its own and fed.       *)
LEMMA BelieversAreFed ==
  ASSUME HubWhole, NEW c \in Clients, UpToDate(c)
  PROVE  /\ Fed /\ c \in hubEnv.clients
         /\ \A p \in pumps : Live(p) /\ p.filter = hubEnv.filter[c] /\ (p.open \/ p.gap)
<1>1. ~stale[c] /\ (c \in subs \/ of[c] = epoch)
  BY DEF UpToDate, CanResume
<1>2. Fed /\ c \in hubEnv.clients
  BY <1>1 DEF HubWhole, GapInvariant, ListsAreFed
<1>3. hubEnv.filter[c] = cur /\ \A p \in pumps : Live(p)
  BY <1>2 DEF HubWhole, GapInvariant, StreamStaysOn, Fed
<1>4. \A p \in pumps : p.filter = cur
  BY <1>3 DEF HubWhole, FeedInvariant, StreamIsCurrent
<1> QED
  BY <1>2, <1>3, <1>4 DEF Fed, Feeding

(* What p's stream delivers next is announced in order.                     *)
LEMMA NextIsInOrder ==
  ASSUME HubWhole, NEW p \in pumps, NEW n \in Ahead(p), \A k \in Ahead(p) : n <= k,
         NEW c \in Clients \ missed, UpToDate(c),
         NEW m \in 1 .. n, Wants(c, happened[m]), happened[m] \in hubEnv.remote <=> p.remote
  PROVE  m = n \/ m \in reflects[c] \/ \E d \in ToCome(c) : Tells(d, m)
<1>1. /\ p.pos \in Nat /\ p.remote \in BOOLEAN /\ Len(happened) \in Nat
      /\ n \in p.pos + 1 .. Len(happened)
  BY DEF HubWhole, HubTypes, EventTypes, FeedTypes, Pumps, Ahead
<1>2. happened[m] \in p.filter
  BY BelieversAreFed DEF Wants
<1>3. CASE m <= p.pos
  <2>1. NothingIsSkipped(c) /\ m \in 1 .. p.pos
    BY <1>1, <1>3 DEF HubWhole, GapInvariant, MirrorsAreWhole
  <2> QED
    BY <2>1 DEF NothingIsSkipped
<1>4. CASE m > p.pos
  <2>1. m \in Ahead(p)
    BY <1>1, <1>2, <1>4 DEF Ahead
  <2> QED
    BY <1>1, <2>1
<1> QED
  BY <1>1, <1>3, <1>4

(* A pump goes on to q, and announces what q has then delivered to c.       *)
Announces(c, q, new) ==
    /\ \A e \in new : e.event.kind = "change" =>
          \A m \in 1 .. e.event.what : Wants(c, happened[m]) /\ OfOneMachine(m, e.event.what) =>
             m \in reflects[c] \/ \E d \in ToCome(c) \cup ForOf(c, new) : d.cursor <= e.cursor /\ Tells(d, m)
    /\ \A m \in 1 .. q.pos : Wants(c, happened[m]) /\ (happened[m] \in hubEnv.remote <=> q.remote) =>
          m \in reflects[c] \/ \E d \in ToCome(c) \cup ForOf(c, new) : Tells(d, m)

GoesOn(p, q, new) ==
    /\ Published(new) /\ pumps' = With(p, q)
    /\ q.gen = p.gen /\ q.remote = p.remote /\ q.filter = p.filter
    /\ p.open \/ p.gap => q.open \/ q.gap
    /\ \A c \in Clients \ missed : UpToDate(c) => Announces(c, q, new)

(* A change is announced after every earlier one of its machine.            *)
LEMMA ForwardingAnnounces ==
  ASSUME HubWhole, NEW p \in pumps, ForwardEvent(p) PROVE \E q, new : GoesOn(p, q, new)
<1>1. HubTypes /\ p \in Pumps
  BY DEF HubWhole, HubTypes, FeedTypes
<1>2. PICK n \in Ahead(p) : \E new :
         /\ \A k \in Ahead(p) : n <= k
         /\ pumps' = With(p, [p EXCEPT !.pos = n])
         /\ Published(new) /\ \A e \in new : e.event = Change(n)
         /\ \E e \in new : TRUE
  BY <1>1, ForwardingPublishes
<1>3. PICK new :
         /\ \A k \in Ahead(p) : n <= k
         /\ pumps' = With(p, [p EXCEPT !.pos = n])
         /\ Published(new) /\ \A e \in new : e.event = Change(n)
         /\ \E e \in new : TRUE
  BY <1>2
<1> DEFINE q == [p EXCEPT !.pos = n]
<1>4. q.gen = p.gen /\ q.remote = p.remote /\ q.filter = p.filter /\ q.open = p.open /\ q.gap = p.gap /\ q.pos = n
  BY <1>1 DEF Pumps
<1>5. pumps' = With(p, q)
  BY <1>3
<1> HIDE DEF q
<1>6. n \in Nat /\ n \in p.pos + 1 .. Len(happened) /\ p.pos \in Nat
  BY <1>1 DEF Ahead, HubTypes, EventTypes, Pumps
<1>7. (happened[n] \in hubEnv.remote <=> p.remote)
  BY DEF Ahead
<1>8. ASSUME NEW c \in Clients \ missed, UpToDate(c) PROVE Announces(c, q, new)
  <2>1. \A d \in ToCome(c), e \in new : d.cursor <= e.cursor
    <3>1. /\ cursor \in Nat /\ new \subseteq Stamped /\ (\A e \in Stamped : e.cursor \in Nat)
          /\ ToCome(c) \subseteq Stamped /\ \A e \in new : cursor < e.cursor
      BY <1>1, <1>3, CursorsAreNumbers DEF Published
    <3>2. \A d \in ToCome(c) : d.cursor <= cursor
      BY ComingIsOld
    <3> QED
      BY <3>1, <3>2
  <2>2. \A m \in 1 .. n : Wants(c, happened[m]) /\ (happened[m] \in hubEnv.remote <=> p.remote) =>
           m = n \/ m \in reflects[c] \/ \E d \in ToCome(c) : Tells(d, m)
    BY <1>3, <1>8, NextIsInOrder
  <2>3. ASSUME Wants(c, happened[n]), NEW e \in new PROVE e \in ForOf(c, new) /\ Tells(e, n)
    <3>1. /\ e.event.kind = "change" /\ e.event.what = n
          /\ e.event.remote <=> happened[n] \in hubEnv.remote
      <4>1. e.event = Change(n)
        BY <1>3, <2>3
      <4>2. /\ Change(n).kind = "change" /\ Change(n).what = n
            /\ Change(n).remote = (happened[n] \in hubEnv.remote)
        BY DEF Change
      <4> QED
        BY <4>1, <4>2
    <3> QED
      BY <2>3, <3>1 DEF Wants, ForOf, Reaches, Matches, Tells
  <2>4. PICK e0 \in new : TRUE
    BY <1>3
  <2>5. ASSUME NEW e \in new, NEW m \in 1 .. n, Wants(c, happened[m]), OfOneMachine(m, n)
        PROVE  m \in reflects[c] \/ \E d \in ToCome(c) \cup ForOf(c, new) : d.cursor <= e.cursor /\ Tells(d, m)
    <3>1. happened[m] \in hubEnv.remote <=> p.remote
      BY <1>7, <2>5 DEF OfOneMachine
    <3>2. e \in Stamped /\ e.cursor \in Nat
      BY <1>1, <1>3, CursorsAreNumbers DEF Published
    <3>3. CASE m = n
      BY <2>3, <2>5, <3>2, <3>3
    <3>4. CASE m # n
      BY <2>1, <2>2, <2>5, <3>1, <3>4
    <3> QED
      BY <3>3, <3>4
  <2>6. ASSUME NEW m \in 1 .. n, Wants(c, happened[m]), happened[m] \in hubEnv.remote <=> p.remote
        PROVE  m \in reflects[c] \/ \E d \in ToCome(c) \cup ForOf(c, new) : Tells(d, m)
    BY <2>2, <2>3, <2>4, <2>6
  <2>7. \A e \in new : e.event.what = n
    BY <1>3 DEF Change
  <2> QED
    BY <1>4, <2>5, <2>6, <2>7 DEF Announces
<1> QED
  BY <1>3, <1>4, <1>5, <1>8 DEF GoesOn

(* A failure announces no change, and skips none.                           *)
LEMMA FailingAnnounces ==
  ASSUME HubWhole, NEW p \in pumps, Fails(p) PROVE \E q, new : GoesOn(p, q, new)
<1>1. HubTypes /\ p \in Pumps
  BY DEF HubWhole, HubTypes, FeedTypes
<1>2. PICK new : Published(new) /\ \A e \in new : e.event = Status(p.remote)
  BY <1>1, FailingPublishes
<1> DEFINE q == [p EXCEPT !.open = FALSE, !.gap = TRUE]
<1>3. q.gen = p.gen /\ q.remote = p.remote /\ q.filter = p.filter /\ q.gap /\ q.pos = p.pos
  BY <1>1 DEF Pumps
<1>4. pumps' = With(p, q)
  BY DEF Fails
<1> HIDE DEF q
<1>5. ASSUME NEW c \in Clients \ missed, UpToDate(c) PROVE Announces(c, q, new)
  <2>1. NothingIsSkipped(c)
    BY <1>5 DEF HubWhole, GapInvariant, MirrorsAreWhole
  <2>2. \A e \in new : e.event.kind # "change"
    BY <1>2 DEF Status
  <2>3. \A m \in 1 .. q.pos : Wants(c, happened[m]) /\ (happened[m] \in hubEnv.remote <=> q.remote) =>
           m \in reflects[c] \/ \E d \in ToCome(c) : Tells(d, m)
    BY <1>3, <2>1 DEF NothingIsSkipped
  <2> QED
    BY <2>2, <2>3 DEF Announces
<1> QED
  BY <1>2, <1>3, <1>4, <1>5 DEF GoesOn

(* A stream that comes back announces its gap; no client believes its mirror *)
(* before each stream was subscribed for the first time.                    *)
LEMMA SubscribingAnnounces ==
  ASSUME HubWhole, NEW p \in pumps, Subscribe(p) PROVE \E q, new : GoesOn(p, q, new)
<1>1. HubTypes /\ p \in Pumps
  BY DEF HubWhole, HubTypes, FeedTypes
<1>2. PICK new : /\ Published(new)
                 /\ \A e \in new : e.event \in {Status(p.remote), Resync(p.remote)}
                 /\ IF p.gap THEN \E e \in new : e.event = Resync(p.remote) ELSE new = {}
  BY <1>1, SubscribingPublishes
<1> DEFINE q == Subscribed(p)
<1>3. q.gen = p.gen /\ q.remote = p.remote /\ q.filter = p.filter /\ q.open
  BY DEF Subscribed
<1>4. pumps' = With(p, q) /\ ~p.open
  BY DEF Subscribe
<1> HIDE DEF q
<1>5. ASSUME NEW c \in Clients \ missed, UpToDate(c) PROVE Announces(c, q, new)
  <2>1. p.gap
    BY <1>4, <1>5, BelieversAreFed
  <2>2. PICK e \in new : e.event = Resync(p.remote)
    BY <1>2, <2>1
  <2>3. \A x \in new : x.event.kind # "change"
    BY <1>2 DEF Status, Resync
  <2>4. ASSUME NEW m, Wants(c, happened[m]), happened[m] \in hubEnv.remote <=> q.remote
        PROVE  e \in ForOf(c, new) /\ Tells(e, m)
    <3>1. e.event.kind = "resync" /\ e.event.remote = p.remote
      BY <2>2 DEF Resync
    <3>2. c \in hubEnv.local => ~p.remote
      BY <1>3, <2>4 DEF Wants
    <3> QED
      BY <3>1, <3>2 DEF ForOf, Reaches, Matches, Tells
  <2> QED
    BY <2>3, <2>4 DEF Announces
<1> QED
  BY <1>2, <1>3, <1>4, <1>5 DEF GoesOn

(* So whatever a pump does is announced; none of them has to exit.          *)
LEMMA PumpsGoOn ==
  ASSUME HubWhole, NEW p \in pumps, Feed(p) \/ Fails(p) PROVE \E q, new : GoesOn(p, q, new)
<1>1. ~PumpExits(p)
  BY DEF HubWhole, GapInvariant, StreamStaysOn, PumpExits
<1> QED
  BY <1>1, ForwardingAnnounces, FailingAnnounces, SubscribingAnnounces DEF Feed

(* The pumps leave no mirror with a gap that its client does not know of.   *)
LEMMA PumpingKeepsGap ==
  ASSUME HubWhole, NEW p \in pumps, Feed(p) \/ Fails(p) PROVE GapInvariant'
<1>1. /\ HubTypes /\ CursorsInOrder /\ StreamStaysOn /\ ListsAreFed /\ ChannelsAreExact /\ MirrorsAreWhole
  BY DEF HubWhole, GapInvariant
<1>2. UNCHANGED <<hubEnv, happened, epoch, subs, streamVars, requestVars, backlog, mirrorVars, hubCrashes>>
  BY <1>1, PumpsStay
<1>3. PICK q, new : GoesOn(p, q, new)
  BY PumpsGoOn
<1>4. Published(new) /\ missed \subseteq missed' /\ cursor \in Nat /\ cursor' \in Nat /\ cursor' >= cursor
  BY <1>1, <1>3, CursorsAreNumbers DEF GoesOn, Published
<1>5. /\ pumps' = With(p, q) /\ q.gen = p.gen /\ q.remote = p.remote
      /\ p.open \/ p.gap => q.open \/ q.gap
  BY <1>3 DEF GoesOn
<1>6. CursorsInOrder'
  <2>1. UNCHANGED <<of, since, epoch>>
    BY <1>2 DEF mirrorVars
  <2>2. \A c \in Clients : of'[c] <= epoch' /\ (of'[c] = epoch' /\ c \notin missed' => since'[c] <= cursor')
    <3>1. \A c \in Clients : since[c] \in Nat
      BY <1>1, CursorsAreNumbers
    <3> QED
      BY <1>1, <1>4, <2>1, <3>1 DEF CursorsInOrder
  <2> QED
    BY <1>1, <1>2, <1>4, <2>2, WindowMoves DEF CursorsInOrder
<1>7. StreamStaysOn'
  <2>1. \A r \in pumps' : Live(r)'
    BY <1>1, <1>2, <1>5 DEF StreamStaysOn, Live, With, streamVars
  <2>2. \A r, x \in pumps' : r.remote = x.remote => r = x
    BY <1>1, <1>5 DEF StreamStaysOn, With
  <2> QED
    BY <1>1, <1>2, <2>1, <2>2 DEF StreamStaysOn, streamVars, requestVars
<1>8. ListsAreFed'
  <2>1. Fed => Fed'
    <3>1. Feeding => \A r \in pumps' : r.open \/ r.gap
      BY <1>1, <1>5 DEF Feeding, StreamStaysOn, With
    <3> QED
      BY <1>2, <3>1 DEF Fed, Feeding, streamVars, requestVars
  <2>2. \A c \in Clients : listedAt[c].on => listedAt[c].cursor <= cursor'
    <3>1. \A c \in Clients : listedAt[c].cursor \in Nat
      BY <1>1 DEF HubTypes, MirrorTypes
    <3> QED
      BY <1>1, <1>4, <3>1 DEF ListsAreFed
  <2> QED
    BY <1>1, <1>2, <2>1, <2>2 DEF ListsAreFed, mirrorVars, requestVars
<1>9. UNCHANGED <<hubEnv, happened, epoch, subs, backlog, of, since, reflects, stale>>
  BY <1>2 DEF mirrorVars
<1>10. ChannelsAreExact'
  <2>1. \A c \in subs \ missed' : EventsAreComplete(c)' /\ EventsInOrder(c)'
    <3>1. \A c \in subs \ missed' : EventsAreComplete(c) /\ EventsInOrder(c)
      BY <1>1, <1>4 DEF ChannelsAreExact
    <3> QED
      BY <1>1, <1>4, <1>9, <3>1, SubscriberGets
  <2> QED
    BY <1>9, <2>1 DEF ChannelsAreExact
<1>11. MirrorsAreWhole'
  <2> SUFFICES ASSUME NEW c \in Clients \ missed' PROVE MirrorIsWhole(c)' /\ (UpToDate(c)' => NothingIsSkipped(c)')
    BY DEF MirrorsAreWhole
  <2>1. MirrorIsWhole(c)'
    BY <1>1, <1>4, <1>9 DEF MirrorsAreWhole, MirrorIsWhole, Wants, OfOneMachine
  <2>2. ASSUME UpToDate(c)' PROVE NothingIsSkipped(c)'
    <3>1. Gets(c, new) /\ UpToDate(c)
      <4>1. CASE c \in subs
        BY <1>1, <1>4, <1>9, <2>2, <4>1, SubscriberGets DEF ChannelsAreExact, UpToDate
      <4>2. CASE c \notin subs
        <5>1. CanResume(c)' /\ ~stale[c]
          BY <1>9, <2>2, <4>2 DEF UpToDate
        <5> QED
          BY <1>1, <1>4, <1>9, <4>2, <5>1, AwayGets DEF UpToDate
      <4> QED
        BY <4>1, <4>2
    <3>2. NothingIsSkipped(c) /\ Announces(c, q, new)
      BY <1>1, <1>3, <1>4, <3>1 DEF MirrorsAreWhole, GoesOn
    <3>3. \A m : Wants(c, m)' = Wants(c, m) /\ \A n : OfOneMachine(m, n)' = OfOneMachine(m, n)
      BY <1>9 DEF Wants, OfOneMachine
    <3>4. ASSUME NEW e \in ToCome(c)', e.event.kind = "change", NEW m \in 1 .. e.event.what,
                 Wants(c, happened[m]), OfOneMachine(m, e.event.what)
          PROVE  m \in reflects[c] \/ \E d \in ToCome(c)' : d.cursor <= e.cursor /\ Tells(d, m)
      <4>1. CASE e \in ToCome(c)
        BY <3>1, <3>2, <3>4, <4>1 DEF NothingIsSkipped, Gets
      <4>2. CASE e \in new
        BY <3>1, <3>2, <3>4, <4>2 DEF Announces, Gets
      <4> QED
        BY <3>1, <4>1, <4>2 DEF Gets
    <3>5. ASSUME NEW r \in pumps', NEW m \in 1 .. r.pos, Wants(c, happened[m]),
                 happened[m] \in hubEnv.remote <=> r.remote
          PROVE  m \in reflects[c] \/ \E d \in ToCome(c)' : Tells(d, m)
      <4>1. CASE r \in pumps
        BY <3>1, <3>2, <3>5, <4>1 DEF NothingIsSkipped, Gets
      <4>2. CASE r = q
        BY <3>1, <3>2, <3>5, <4>2 DEF Announces, Gets
      <4> QED
        BY <1>5, <4>1, <4>2 DEF With
    <3> QED
      BY <1>9, <3>3, <3>4, <3>5 DEF NothingIsSkipped
  <2> QED
    BY <2>1, <2>2
<1> QED
  BY <1>6, <1>7, <1>8, <1>10, <1>11 DEF GapInvariant

-----------------------------------------------------------------------------
(* No silent gap: the clients *)

(* The invariant of one client is about what it sees of the hub.            *)
SameForOthers(c) ==
    /\ UNCHANGED <<hubEnv, happened, cursor, epoch, ring, missed, streamVars, pumps>>
    /\ \A d \in Clients \ {c} :
          /\ (d \in subs' <=> d \in subs) /\ ch'[d] = ch[d] /\ backlog'[d] = backlog[d]
          /\ since'[d] = since[d] /\ of'[d] = of[d] /\ reflects'[d] = reflects[d] /\ stale'[d] = stale[d]

(* A step of one client leaves what the others see as it is.                *)
LEMMA ClientsAreAlone ==
  ASSUME HubTypes, NEW c \in Clients, ClientSteps(c)
  PROVE  SameForOthers(c) /\ \A d \in Clients \ {c} : listedAt'[d] = listedAt[d] /\ pc'[d] = pc[d]
<1>1. UNCHANGED <<hubEnv, happened, cursor, epoch, ring, missed, streamVars, pumps>>
  BY DEF ClientSteps, Connect, Disconnect, Receive, Position, List, eventVars
<1>2. /\ ch \in [Clients -> SUBSET Stamped] /\ backlog \in [Clients -> SUBSET Stamped]
      /\ since \in [Clients -> Nat] /\ of \in [Clients -> Nat] /\ stale \in [Clients -> BOOLEAN]
      /\ reflects \in [Clients -> SUBSET (1 .. Len(happened))]
      /\ listedAt \in [Clients -> [on : BOOLEAN, cursor : Nat, epoch : Nat]]
      /\ pc \in [Clients -> RequestPlaces]
  BY DEF HubTypes, EventTypes, FeedTypes, MirrorTypes
<1>3. CASE Connect(c)
  BY <1>1, <1>2, <1>3 DEF Connect, SameForOthers
<1>4. CASE Disconnect(c)
  BY <1>1, <1>2, <1>4 DEF Disconnect, SameForOthers, mirrorVars
<1>5. CASE Receive(c)
  BY <1>1, <1>2, <1>5 DEF Receive, ApplyEvent, SameForOthers, requestVars
<1>6. CASE Position(c)
  BY <1>1, <1>2, <1>6 DEF Position, SameForOthers, eventVars, requestVars
<1>7. CASE List(c)
  BY <1>1, <1>2, <1>7 DEF List, SameForOthers, eventVars, requestVars
<1> QED
  BY <1>3, <1>4, <1>5, <1>6, <1>7 DEF ClientSteps

(* Then what the invariant says of the others stays true.                   *)
LEMMA OthersKeepTheirs ==
  ASSUME HubTypes, NEW c \in Clients, SameForOthers(c), NEW d \in Clients \ {c}
  PROVE  /\ ToCome(d)' = ToCome(d) /\ UpToDate(d)' = UpToDate(d)
         /\ MirrorIsWhole(d)' = MirrorIsWhole(d) /\ NothingIsSkipped(d)' = NothingIsSkipped(d)
         /\ EventsAreComplete(d)' = EventsAreComplete(d) /\ EventsInOrder(d)' = EventsInOrder(d)
<1> USE DEF SameForOthers
<1>1. \A e, m, n : /\ Matches(d, e)' = Matches(d, e) /\ Reaches(d, e)' = Reaches(d, e)
                   /\ Wants(d, m)' = Wants(d, m) /\ OfOneMachine(m, n)' = OfOneMachine(m, n)
                   /\ Tells(e, m)' = Tells(e, m)
  BY DEF Matches, Reaches, Wants, OfOneMachine, Tells
<1>2. ToCome(d)' = ToCome(d)
  BY <1>1 DEF ToCome
<1>3. CanResume(d)' = CanResume(d) /\ UpToDate(d)' = UpToDate(d)
  BY DEF CanResume, UpToDate, Lacks
<1>4. MirrorIsWhole(d)' = MirrorIsWhole(d)
  BY <1>1 DEF MirrorIsWhole
<1>5. NothingIsSkipped(d)' = NothingIsSkipped(d)
  BY <1>1, <1>2 DEF NothingIsSkipped
<1>6. EventsAreComplete(d)' = EventsAreComplete(d)
  BY <1>1, <1>2, <1>3 DEF EventsAreComplete
<1>7. EventsInOrder(d)' = EventsInOrder(d)
  BY <1>1, <1>2 DEF EventsInOrder
<1> QED
  BY <1>2, <1>3, <1>4, <1>5, <1>6, <1>7

(* So it is enough to look at the client that took the step.                *)
LEMMA OneClientIsEnough ==
  ASSUME HubWhole, NEW c \in Clients, SameForOthers(c), subs' \subseteq Clients,
         c \in subs' \ missed => EventsAreComplete(c)' /\ EventsInOrder(c)',
         c \notin missed => MirrorIsWhole(c)' /\ (UpToDate(c)' => NothingIsSkipped(c)'),
         of'[c] <= epoch /\ (of'[c] = epoch /\ c \notin missed => since'[c] <= cursor)
  PROVE  ChannelsAreExact' /\ MirrorsAreWhole' /\ CursorsInOrder'
<1>1. HubTypes /\ CursorsInOrder /\ ChannelsAreExact /\ MirrorsAreWhole
  BY DEF HubWhole, GapInvariant
<1>2. UNCHANGED <<hubEnv, cursor, epoch, ring, missed>> /\ subs' \ {c} = subs \ {c} /\ subs \subseteq Clients
      /\ \A d \in Clients \ {c} : of'[d] = of[d] /\ since'[d] = since[d]
  <2>1. subs \subseteq Clients
    BY <1>1, CursorsAreNumbers
  <2> QED
    BY <2>1 DEF SameForOthers
<1>3. ChannelsAreExact'
  BY <1>1, <1>2, OthersKeepTheirs DEF ChannelsAreExact
<1>4. MirrorsAreWhole'
  BY <1>1, <1>2, OthersKeepTheirs DEF MirrorsAreWhole
<1>5. CursorsInOrder'
  BY <1>1, <1>2 DEF CursorsInOrder
<1> QED
  BY <1>3, <1>4, <1>5

(* A client that comes back in time gets what the window holds for it; any  *)
(* other one is told to list.                                               *)
LEMMA ConnectKeepsEvents ==
  ASSUME HubWhole, NEW c \in Clients, Connect(c)
  PROVE  /\ EventsAreComplete(c)' /\ EventsInOrder(c)'
         /\ c \notin missed => MirrorIsWhole(c)' /\ (UpToDate(c)' => NothingIsSkipped(c)')
         /\ of'[c] <= epoch /\ (of'[c] = epoch /\ c \notin missed => since'[c] <= cursor)
<1>1. HubTypes /\ CursorsInOrder /\ MirrorsAreWhole /\ "noEpoch" \notin hubEnv.may /\ c \notin subs
  <2>1. pc[c] = "away"
    BY DEF Connect
  <2> QED
    BY <2>1, OneFilterIs DEF HubWhole, GapInvariant, FeedInvariant, SubscribersAreKnown
<1>2. UNCHANGED <<hubEnv, happened, cursor, epoch, ring, missed, pumps, since, of, reflects, ch>>
  BY DEF Connect
<1>3. /\ backlog \in [Clients -> SUBSET Stamped] /\ stale \in [Clients -> BOOLEAN] /\ c \in subs' /\ ch[c] = {}
      /\ epoch # 0 /\ of[c] \in Nat /\ since[c] \in Nat /\ cursor \in Nat
  BY <1>1 DEF HubTypes, EventTypes, MirrorTypes, Connect
<1> DEFINE listsAgain == IsFresh(c) \/ NeedsResync(c)
<1>4. /\ backlog'[c] = IF listsAgain THEN {} ELSE {e \in ring : e.cursor > since[c] /\ Matches(c, e.event)}
      /\ stale'[c] = (stale[c] \/ listsAgain)
  BY <1>3 DEF Connect
<1>5. listsAgain <=> ~CanResume(c)
  BY <1>1, <1>3 DEF IsFresh, NeedsResync, Sent, CanResume
<1> HIDE DEF listsAgain
<1>6. ToCome(c)' = IF listsAgain THEN {} ELSE ToCome(c)
  BY <1>1, <1>2, <1>3, <1>4 DEF ToCome
<1>7. ToCome(c) = {e \in ring : e.cursor > since[c] /\ Matches(c, e.event)}
  BY <1>1 DEF ToCome
<1>8. \A e, m, n : /\ Matches(c, e)' = Matches(c, e) /\ Reaches(c, e)' = Reaches(c, e)
                   /\ Wants(c, m)' = Wants(c, m) /\ OfOneMachine(m, n)' = OfOneMachine(m, n)
                   /\ Tells(e, m)' = Tells(e, m)
  BY <1>2 DEF Matches, Reaches, Wants, OfOneMachine, Tells
<1>9. CanResume(c)' = CanResume(c)
  BY <1>2 DEF CanResume, Lacks
<1>10. EventsAreComplete(c)'
  <2>1. ASSUME NEW d \in ring, Reaches(c, d.event), d.cursor > since[c], CanResume(c) PROVE d \in ToCome(c)'
    BY <1>5, <1>6, <1>7, <2>1 DEF Reaches
  <2>2. ASSUME NEW e \in ToCome(c)', NEW d \in ring, Reaches(c, d.event), d.cursor > e.cursor
        PROVE  d \in ToCome(c)'
    <3>1. e \in ring /\ e.cursor > since[c] /\ CanResume(c)
      BY <1>5, <1>6, <1>7, <2>2
    <3>2. d.cursor > since[c]
      BY <1>1, <1>3, <2>2, <3>1, CursorsAreNumbers
    <3> QED
      BY <2>1, <2>2, <3>1, <3>2
  <2> QED
    BY <1>2, <1>8, <1>9, <2>1, <2>2 DEF EventsAreComplete
<1>11. EventsInOrder(c)'
  <2>1. \A e \in ToCome(c)' : e \in ring /\ e.cursor > since[c] /\ Matches(c, e.event)
    BY <1>6, <1>7
  <2>2. \A e \in ring : e.cursor <= cursor /\ \A d \in ring : d.cursor = e.cursor => d = e
    BY <1>1 DEF CursorsInOrder
  <2>3. ch'[c] = {}
    BY <1>2, <1>3
  <2> QED
    BY <1>2, <1>8, <2>1, <2>2, <2>3 DEF EventsInOrder
<1>12. ASSUME c \notin missed PROVE MirrorIsWhole(c)' /\ (UpToDate(c)' => NothingIsSkipped(c)')
  <2>1. MirrorIsWhole(c)'
    BY <1>1, <1>2, <1>4, <1>8, <1>12 DEF MirrorsAreWhole, MirrorIsWhole
  <2>2. ASSUME UpToDate(c)' PROVE NothingIsSkipped(c)'
    <3>1. ~listsAgain /\ ~stale[c]
      BY <1>4, <2>2 DEF UpToDate
    <3>2. UpToDate(c) /\ ToCome(c)' = ToCome(c)
      BY <1>5, <1>6, <3>1 DEF UpToDate
    <3>3. NothingIsSkipped(c)
      BY <1>1, <1>12, <3>2 DEF MirrorsAreWhole
    <3> QED
      BY <1>2, <1>8, <3>2, <3>3 DEF NothingIsSkipped
  <2> QED
    BY <2>1, <2>2
<1>13. of'[c] <= epoch /\ (of'[c] = epoch /\ c \notin missed => since'[c] <= cursor)
  BY <1>1, <1>2 DEF CursorsInOrder
<1> QED
  BY <1>10, <1>11, <1>12, <1>13

(* A client that goes away finds what was to come in the window, if it may  *)
(* resume at all.                                                           *)
LEMMA DisconnectKeepsEvents ==
  ASSUME HubWhole, NEW c \in Clients, Disconnect(c)
  PROVE  /\ c \notin subs'
         /\ c \notin missed => MirrorIsWhole(c)' /\ (UpToDate(c)' => NothingIsSkipped(c)')
         /\ of'[c] <= epoch /\ (of'[c] = epoch /\ c \notin missed => since'[c] <= cursor)
<1>1. HubTypes /\ CursorsInOrder /\ MirrorsAreWhole /\ ChannelsAreExact /\ EventsAreReal /\ c \in subs
  <2>1. pc[c] = "open"
    BY DEF Disconnect
  <2> QED
    BY <2>1 DEF HubWhole, GapInvariant, FeedInvariant, SubscribersAreKnown
<1>2. UNCHANGED <<hubEnv, happened, cursor, epoch, ring, missed, pumps, since, of, reflects, stale>> /\ c \notin subs'
  BY DEF Disconnect, mirrorVars
<1>3. \A e, m, n : /\ Matches(c, e)' = Matches(c, e) /\ Reaches(c, e)' = Reaches(c, e)
                   /\ Wants(c, m)' = Wants(c, m) /\ OfOneMachine(m, n)' = OfOneMachine(m, n)
                   /\ Tells(e, m)' = Tells(e, m)
  BY <1>2 DEF Matches, Reaches, Wants, OfOneMachine, Tells
<1>4. ToCome(c)' = {e \in ring : e.cursor > since[c] /\ Matches(c, e.event)}
  BY <1>2, <1>3 DEF ToCome
<1>5. ASSUME c \notin missed PROVE MirrorIsWhole(c)' /\ (UpToDate(c)' => NothingIsSkipped(c)')
  <2>1. MirrorIsWhole(c)'
    BY <1>1, <1>2, <1>3, <1>5 DEF MirrorsAreWhole, MirrorIsWhole
  <2>2. ASSUME UpToDate(c)' PROVE NothingIsSkipped(c)'
    <3>1. CanResume(c) /\ ~stale[c] /\ UpToDate(c)
      BY <1>1, <1>2, <2>2 DEF UpToDate, CanResume, Lacks
    <3>2. EventsAreComplete(c) /\ EventsInOrder(c) /\ NothingIsSkipped(c)
      BY <1>1, <1>5, <3>1 DEF ChannelsAreExact, MirrorsAreWhole
    <3>3. ToCome(c) \subseteq ToCome(c)'
      <4> SUFFICES ASSUME NEW e \in ToCome(c) PROVE e \in ToCome(c)'
        OBVIOUS
      <4>1. e.cursor > since[c] /\ Matches(c, e.event)
        BY <3>1, <3>2 DEF EventsInOrder, CanResume
      <4>2. e \in ring
        <5>1. SUFFICES ASSUME ring # {}, \A d \in ring : e.cursor < d.cursor PROVE FALSE
          BY <3>2 DEF EventsInOrder
        <5>2. PICK d \in ring : since[c] + 1 >= d.cursor
          BY <1>1, <3>1, <5>1, CursorsAreNumbers DEF CanResume, Lacks
        <5>3. since[c] \in Nat /\ e.cursor \in Nat /\ d.cursor \in Nat
          BY <1>1, CursorsAreNumbers
        <5> QED
          BY <4>1, <5>1, <5>2, <5>3
      <4> QED
        BY <1>4, <4>1, <4>2
    <3>4. \A e \in ToCome(c)' : e \in ToCome(c) \/ (c \in hubEnv.local /\ e.event.remote)
      BY <1>4, <3>1, <3>2 DEF EventsAreComplete, Reaches
    <3>5. ASSUME NEW e \in ToCome(c)', e.event.kind = "change", NEW m \in 1 .. e.event.what,
                 Wants(c, happened[m]), OfOneMachine(m, e.event.what)
          PROVE  m \in reflects[c] \/ \E d \in ToCome(c)' : d.cursor <= e.cursor /\ Tells(d, m)
      <4>1. IsReal(e)
        BY <1>1, <1>4 DEF EventsAreReal
      <4>2. ~(c \in hubEnv.local /\ e.event.remote)
        BY <3>5, <4>1 DEF IsReal, Wants, OfOneMachine
      <4>3. e \in ToCome(c)
        BY <3>4, <4>2
      <4> QED
        BY <3>2, <3>3, <3>5, <4>3 DEF NothingIsSkipped
    <3>6. \A p \in pumps : \A m \in 1 .. p.pos :
             Wants(c, happened[m]) /\ (happened[m] \in hubEnv.remote <=> p.remote) =>
                m \in reflects[c] \/ \E d \in ToCome(c)' : Tells(d, m)
      BY <3>2, <3>3 DEF NothingIsSkipped
    <3> QED
      BY <1>2, <1>3, <3>5, <3>6 DEF NothingIsSkipped
  <2> QED
    BY <2>1, <2>2
<1>6. of'[c] <= epoch /\ (of'[c] = epoch /\ c \notin missed => since'[c] <= cursor)
  BY <1>1, <1>2 DEF CursorsInOrder
<1> QED
  BY <1>2, <1>5, <1>6

(* A client receives the oldest event that is to come.                      *)
LEMMA ReceiveKeepsEvents ==
  ASSUME HubWhole, NEW c \in Clients, Receive(c)
  PROVE  /\ c \in subs' \ missed => EventsAreComplete(c)' /\ EventsInOrder(c)'
         /\ c \notin missed => MirrorIsWhole(c)' /\ (UpToDate(c)' => NothingIsSkipped(c)')
         /\ of'[c] <= epoch /\ (of'[c] = epoch /\ c \notin missed => since'[c] <= cursor)
<1>1. HubTypes /\ CursorsInOrder /\ MirrorsAreWhole /\ ChannelsAreExact /\ c \in subs
  <2>1. pc[c] = "open"
    BY DEF Receive
  <2> QED
    BY <2>1 DEF HubWhole, GapInvariant, FeedInvariant, SubscribersAreKnown
<1>2. UNCHANGED <<hubEnv, happened, cursor, epoch, ring, subs, missed, pumps>>
  BY DEF Receive
<1>3. /\ backlog \in [Clients -> SUBSET Stamped] /\ ch \in [Clients -> SUBSET Stamped]
      /\ since \in [Clients -> Nat] /\ of \in [Clients -> Nat] /\ stale \in [Clients -> BOOLEAN]
      /\ reflects \in [Clients -> SUBSET (1 .. Len(happened))] /\ epoch \in Nat
  BY <1>1 DEF HubTypes, EventTypes, MirrorTypes
<1>4. PICK e \in IF backlog[c] # {} THEN backlog[c] ELSE ch[c] :
         /\ \A d \in IF backlog[c] # {} THEN backlog[c] ELSE ch[c] : e.cursor <= d.cursor
         /\ ApplyEvent(c, e)
         /\ backlog' = [backlog EXCEPT ![c] = @ \ {e}]
         /\ ch' = [ch EXCEPT ![c] = IF backlog[c] # {} THEN @ ELSE @ \ {e}]
  BY DEF Receive
<1>5. /\ backlog'[c] = backlog[c] \ {e} /\ ch'[c] = IF backlog[c] # {} THEN ch[c] ELSE ch[c] \ {e}
      /\ since'[c] = e.cursor /\ of'[c] = epoch
      /\ stale'[c] = (stale[c] \/ e.event.kind = "resync")
      /\ reflects'[c] = IF e.event.kind = "change" THEN reflects[c] \cup {e.event.what} ELSE reflects[c]
  BY <1>3, <1>4 DEF ApplyEvent
<1>6. \A x, m, n : /\ Matches(c, x)' = Matches(c, x) /\ Reaches(c, x)' = Reaches(c, x)
                   /\ Wants(c, m)' = Wants(c, m) /\ OfOneMachine(m, n)' = OfOneMachine(m, n)
                   /\ Tells(x, m)' = Tells(x, m)
  BY <1>2 DEF Matches, Reaches, Wants, OfOneMachine, Tells
<1>7. ToCome(c) = backlog[c] \cup ch[c] /\ ToCome(c)' = backlog'[c] \cup ch'[c] /\ e \in ToCome(c)
  BY <1>1, <1>2, <1>4 DEF ToCome
<1>8. \A d \in ToCome(c) : d.cursor \in Nat
  BY <1>1, CursorsAreNumbers
<1>9. SUFFICES ASSUME c \notin missed
               PROVE  /\ EventsAreComplete(c)' /\ EventsInOrder(c)' /\ MirrorIsWhole(c)'
                      /\ UpToDate(c)' => NothingIsSkipped(c)'
                      /\ since'[c] <= cursor
  BY <1>3, <1>5
<1>10. EventsAreComplete(c) /\ EventsInOrder(c) /\ MirrorIsWhole(c)
  BY <1>1, <1>9 DEF ChannelsAreExact, MirrorsAreWhole
<1>11. ToCome(c)' = ToCome(c) \ {e}
  <2>1. \A d \in backlog[c] : d \notin ch[c]
    BY <1>7, <1>8, <1>10 DEF EventsInOrder
  <2> QED
    BY <1>4, <1>5, <1>7, <2>1
<1>12. \A d \in ToCome(c) : d = e \/ d.cursor > e.cursor
  <2>1. \A d \in ToCome(c) : e.cursor <= d.cursor
    <3>1. CASE backlog[c] # {}
      <4>1. \A d \in ch[c] : e.cursor < d.cursor
        BY <1>4, <1>10, <3>1 DEF EventsInOrder
      <4> QED
        BY <1>4, <1>7, <1>8, <3>1, <4>1
    <3>2. CASE backlog[c] = {}
      BY <1>4, <1>7, <3>2
    <3> QED
      BY <3>1, <3>2
  <2>2. \A d \in ToCome(c) : d.cursor = e.cursor => d = e
    BY <1>7, <1>10 DEF EventsInOrder
  <2> QED
    BY <1>7, <1>8, <2>1, <2>2
<1>13. EventsAreComplete(c)'
  <2>1. ASSUME NEW d \in ring, Reaches(c, d.event), d.cursor > e.cursor PROVE d \in ToCome(c)'
    <3>1. d \in ToCome(c)
      BY <1>7, <1>10, <2>1 DEF EventsAreComplete
    <3> QED
      BY <1>8, <1>11, <2>1, <3>1
  <2>2. ASSUME NEW x \in ToCome(c)', NEW d \in ring, Reaches(c, d.event), d.cursor > x.cursor PROVE d \in ToCome(c)'
    <3>1. d \in ToCome(c) /\ x \in ToCome(c) /\ x # e
      BY <1>10, <1>11, <2>2 DEF EventsAreComplete
    <3>2. d # e
      BY <1>7, <1>8, <1>12, <2>2, <3>1
    <3> QED
      BY <1>11, <3>1, <3>2
  <2> QED
    BY <1>2, <1>5, <1>6, <2>1, <2>2 DEF EventsAreComplete
<1>14. EventsInOrder(c)'
  <2>1. \A x \in ToCome(c)' : x \in ToCome(c) /\ x.cursor > since'[c]
    BY <1>5, <1>11, <1>12
  <2>2. backlog'[c] \subseteq backlog[c] /\ ch'[c] \subseteq ch[c]
    BY <1>5
  <2> QED
    BY <1>2, <1>6, <1>10, <2>1, <2>2 DEF EventsInOrder
<1>15. since'[c] <= cursor
  BY <1>5, <1>7, <1>10 DEF EventsInOrder
<1>16. ASSUME ~stale'[c] PROVE NothingIsSkipped(c) /\ e.event.kind # "resync"
  BY <1>1, <1>5, <1>9, <1>16 DEF MirrorsAreWhole, UpToDate
<1>17. MirrorIsWhole(c)'
  <2> SUFFICES ASSUME ~stale'[c], NEW n \in reflects'[c], NEW m \in 1 .. n,
                      Wants(c, happened[m]), OfOneMachine(m, n)
               PROVE  m \in reflects'[c]
    BY <1>2, <1>6 DEF MirrorIsWhole
  <2>1. CASE n \in reflects[c]
    BY <1>5, <1>10, <2>1 DEF MirrorIsWhole
  <2>2. CASE e.event.kind = "change" /\ n = e.event.what
    <3>1. m \in reflects[c] \/ \E d \in ToCome(c) : d.cursor <= e.cursor /\ Tells(d, m)
      BY <1>7, <1>16, <2>2 DEF NothingIsSkipped
    <3>2. m \in reflects[c] \/ Tells(e, m)
      BY <1>7, <1>8, <1>12, <3>1
    <3> QED
      BY <1>5, <1>16, <3>2 DEF Tells
  <2> QED
    BY <1>5, <2>1, <2>2
<1>18. ASSUME UpToDate(c)' PROVE NothingIsSkipped(c)'
  <2>1. ~stale'[c] /\ NothingIsSkipped(c)
    BY <1>16, <1>18 DEF UpToDate
  <2>2. \A m : Tells(e, m) => m \in reflects'[c]
    BY <1>5, <1>16, <2>1 DEF Tells
  <2>3. \A m : m \in reflects[c] => m \in reflects'[c]
    BY <1>5
  <2>4. ASSUME NEW x \in ToCome(c)', x.event.kind = "change", NEW m \in 1 .. x.event.what,
               Wants(c, happened[m]), OfOneMachine(m, x.event.what)
        PROVE  m \in reflects'[c] \/ \E d \in ToCome(c)' : d.cursor <= x.cursor /\ Tells(d, m)
    <3>1. m \in reflects[c] \/ \E d \in ToCome(c) : d.cursor <= x.cursor /\ Tells(d, m)
      BY <1>11, <2>1, <2>4 DEF NothingIsSkipped
    <3> QED
      BY <1>11, <2>2, <2>3, <3>1
  <2>5. ASSUME NEW p \in pumps, NEW m \in 1 .. p.pos, Wants(c, happened[m]), happened[m] \in hubEnv.remote <=> p.remote
        PROVE  m \in reflects'[c] \/ \E d \in ToCome(c)' : Tells(d, m)
    <3>1. m \in reflects[c] \/ \E d \in ToCome(c) : Tells(d, m)
      BY <2>1, <2>5 DEF NothingIsSkipped
    <3> QED
      BY <1>11, <2>2, <2>3, <3>1
  <2> QED
    BY <1>2, <1>6, <2>4, <2>5 DEF NothingIsSkipped
<1> QED
  BY <1>13, <1>14, <1>15, <1>17, <1>18

(* A client that has listed reflects all that happened.                     *)
LEMMA ListKeepsEvents ==
  ASSUME HubWhole, NEW c \in Clients, List(c)
  PROVE  /\ c \in subs' \ missed => EventsAreComplete(c)' /\ EventsInOrder(c)'
         /\ c \notin missed => MirrorIsWhole(c)' /\ (UpToDate(c)' => NothingIsSkipped(c)')
         /\ of'[c] <= epoch /\ (of'[c] = epoch /\ c \notin missed => since'[c] <= cursor)
<1>1. HubTypes /\ CursorsInOrder /\ ChannelsAreExact /\ EventsAreReal /\ ListsAreFed
  BY DEF HubWhole, GapInvariant
<1>2. UNCHANGED <<hubEnv, happened, cursor, epoch, ring, subs, missed, pumps, ch, backlog>>
  BY DEF List, eventVars
<1>3. /\ listedAt[c].epoch = epoch /\ listedAt[c].cursor <= cursor /\ (c \in subs => pc[c] = "open")
  BY <1>1 DEF List, ListsAreFed
<1>4. reflects'[c] = 1 .. Len(happened)
  BY <1>1 DEF List, HubTypes, MirrorTypes
<1>5. \/ UNCHANGED <<since, of>>
      \/ c \notin subs /\ since'[c] = listedAt[c].cursor /\ of'[c] = epoch
  BY <1>1, <1>3 DEF List, HubTypes, MirrorTypes
<1>6. \A e, m, n : /\ Matches(c, e)' = Matches(c, e) /\ Reaches(c, e)' = Reaches(c, e)
                   /\ Wants(c, m)' = Wants(c, m) /\ OfOneMachine(m, n)' = OfOneMachine(m, n)
                   /\ Tells(e, m)' = Tells(e, m)
  BY <1>2 DEF Matches, Reaches, Wants, OfOneMachine, Tells
<1>7. of'[c] <= epoch /\ (of'[c] = epoch /\ c \notin missed => since'[c] <= cursor)
  BY <1>1, <1>3, <1>5, CursorsAreNumbers DEF CursorsInOrder
<1>8. ASSUME c \in subs \ missed PROVE EventsAreComplete(c)' /\ EventsInOrder(c)'
  <2>1. EventsAreComplete(c) /\ EventsInOrder(c) /\ UNCHANGED <<since, of>>
    BY <1>1, <1>5, <1>8 DEF ChannelsAreExact
  <2>2. ToCome(c)' = ToCome(c) /\ CanResume(c)' = CanResume(c)
    BY <1>2, <1>6, <2>1 DEF ToCome, CanResume, Lacks
  <2> QED
    BY <1>2, <1>6, <2>1, <2>2 DEF EventsAreComplete, EventsInOrder
<1>9. Len(happened) \in Nat /\ \A p \in pumps : p.pos \in 0 .. Len(happened)
  BY <1>1 DEF HubTypes, EventTypes, FeedTypes, Pumps
<1>10. MirrorIsWhole(c)'
  BY <1>2, <1>4, <1>9 DEF MirrorIsWhole
<1>11. NothingIsSkipped(c)'
  <2>1. \A e \in ToCome(c)' : IsReal(e)
    BY <1>1, <1>2 DEF ToCome, EventsAreReal
  <2>2. \A e \in ToCome(c)' : e.event.kind = "change" => \A m \in 1 .. e.event.what : m \in reflects'[c]
    BY <1>4, <1>9, <2>1 DEF IsReal
  <2>3. \A p \in pumps : \A m \in 1 .. p.pos : m \in reflects'[c]
    BY <1>4, <1>9
  <2> QED
    BY <1>2, <2>2, <2>3 DEF NothingIsSkipped
<1> QED
  BY <1>2, <1>7, <1>8, <1>10, <1>11

(* Reading the feed position changes nothing of this.                       *)
LEMMA PositionKeepsEvents ==
  ASSUME HubWhole, NEW c \in Clients, Position(c)
  PROVE  /\ c \in subs' \ missed => EventsAreComplete(c)' /\ EventsInOrder(c)'
         /\ c \notin missed => MirrorIsWhole(c)' /\ (UpToDate(c)' => NothingIsSkipped(c)')
         /\ of'[c] <= epoch /\ (of'[c] = epoch /\ c \notin missed => since'[c] <= cursor)
<1>1. UNCHANGED <<hubEnv, happened, cursor, epoch, ring, subs, missed, pumps, ch, backlog, since, of, reflects, stale>>
  BY DEF Position, eventVars
<1>2. \A e, m, n : /\ Matches(c, e)' = Matches(c, e) /\ Reaches(c, e)' = Reaches(c, e)
                   /\ Wants(c, m)' = Wants(c, m) /\ OfOneMachine(m, n)' = OfOneMachine(m, n)
                   /\ Tells(e, m)' = Tells(e, m)
  BY <1>1 DEF Matches, Reaches, Wants, OfOneMachine, Tells
<1>3. ToCome(c)' = ToCome(c) /\ CanResume(c)' = CanResume(c) /\ UpToDate(c)' = UpToDate(c)
  BY <1>1, <1>2 DEF ToCome, CanResume, UpToDate, Lacks
<1>4. EventsAreComplete(c)' = EventsAreComplete(c) /\ EventsInOrder(c)' = EventsInOrder(c)
  BY <1>1, <1>2, <1>3 DEF EventsAreComplete, EventsInOrder
<1>5. MirrorIsWhole(c)' = MirrorIsWhole(c) /\ NothingIsSkipped(c)' = NothingIsSkipped(c)
  BY <1>1, <1>2, <1>3 DEF MirrorIsWhole, NothingIsSkipped
<1> QED
  BY <1>1, <1>3, <1>4, <1>5 DEF HubWhole, GapInvariant, ChannelsAreExact, MirrorsAreWhole, CursorsInOrder

(* The clients keep the gap invariant, wherever they stop and go on.        *)
LEMMA ClientsKeepGap ==
  ASSUME HubWhole, HubTypes', NEW c \in Clients, ClientSteps(c) PROVE GapInvariant'
<1>1. /\ HubTypes /\ MayNot({"race"}) /\ FeedInvariant /\ CursorsInOrder /\ StreamStaysOn /\ ListsAreFed
      /\ "early" \notin hubEnv.may
  BY OneFilterIs DEF HubWhole, GapInvariant
<1>2. SameForOthers(c) /\ \A d \in Clients \ {c} : listedAt'[d] = listedAt[d] /\ pc'[d] = pc[d]
  BY <1>1, ClientsAreAlone
<1>3. UNCHANGED <<hubEnv, happened, cursor, epoch, ring, missed, on, cur, gen, cancelled, pumps>>
  BY <1>2 DEF SameForOthers, streamVars
<1>4. /\ listedAt \in [Clients -> [on : BOOLEAN, cursor : Nat, epoch : Nat]] /\ pc \in [Clients -> RequestPlaces]
      /\ stale \in [Clients -> BOOLEAN] /\ subs \subseteq Clients /\ subs' \subseteq Clients
      /\ epoch \in Nat \ {0} /\ cursor \in Nat
  <2>1. subs' \subseteq hubEnv.clients
    BY <1>3 DEF HubTypes, EventTypes
  <2> QED
    BY <1>1, <2>1, EnvironmentOfType DEF HubTypes, EventTypes, FeedTypes, MirrorTypes
<1>5. pc'[c] = pc[c] \/ pc'[c] = "union"
  BY <1>4 DEF ClientSteps, Connect, Disconnect, Receive, Position, List, requestVars
<1>6. ChannelsAreExact' /\ MirrorsAreWhole' /\ CursorsInOrder'
  <2>1. CASE Connect(c)
    BY <1>2, <1>4, <2>1, ConnectKeepsEvents, OneClientIsEnough
  <2>2. CASE Disconnect(c)
    BY <1>2, <1>4, <2>2, DisconnectKeepsEvents, OneClientIsEnough
  <2>3. CASE Receive(c)
    BY <1>2, <1>4, <2>3, ReceiveKeepsEvents, OneClientIsEnough
  <2>4. CASE Position(c)
    BY <1>2, <1>4, <2>4, PositionKeepsEvents, OneClientIsEnough
  <2>5. CASE List(c)
    BY <1>2, <1>4, <2>5, ListKeepsEvents, OneClientIsEnough
  <2> QED
    BY <2>1, <2>2, <2>3, <2>4, <2>5 DEF ClientSteps
<1>7. StreamStaysOn'
  <2>1. \A d \in Clients : pc'[d] = "launch" => ~on
    BY <1>1, <1>2, <1>5 DEF StreamStaysOn
  <2> QED
    BY <1>1, <1>3, <2>1 DEF StreamStaysOn, Live
<1>8. Fed => Fed'
  BY <1>2, <1>3, <1>5 DEF Fed, Feeding, Live
<1>9. ListsAreFed'
  <2>1. listedAt'[c].on =>
           /\ c \in hubEnv.clients /\ Fed /\ listedAt'[c].epoch = epoch /\ listedAt'[c].cursor <= cursor
           /\ c \in subs' => pc'[c] = "open"
    <3>1. CASE Position(c)
      <4>1. /\ c \in hubEnv.clients /\ Fed /\ listedAt'[c] = [on |-> on, cursor |-> cursor, epoch |-> epoch]
            /\ pc[c] \in {"away", "open"} /\ UNCHANGED <<pc, subs>>
        BY <1>1, <1>4, <3>1 DEF Position, Fed, requestVars, eventVars
      <4>2. pc[c] = "away" => c \notin subs
        BY <1>1 DEF FeedInvariant, SubscribersAreKnown
      <4> QED
        BY <1>4, <4>1, <4>2
    <3>2. CASE List(c)
      BY <1>4, <3>2 DEF List, NoPosition
    <3>3. CASE Connect(c)
      BY <3>3 DEF Connect, NoPosition
    <3>4. CASE Receive(c) \/ Disconnect(c)
      <4>1. UNCHANGED listedAt /\ (c \in subs' => c \in subs /\ pc'[c] = pc[c])
        BY <3>4 DEF Receive, Disconnect, mirrorVars, requestVars
      <4> QED
        BY <1>1, <4>1 DEF ListsAreFed
    <3> QED
      BY <3>1, <3>2, <3>3, <3>4 DEF ClientSteps
  <2>2. ~stale'[c] => c \in hubEnv.clients /\ (c \in subs' \/ of'[c] = epoch => Fed)
    <3>1. CASE Position(c) \/ Disconnect(c)
      <4>1. UNCHANGED <<stale, of>> /\ (c \in subs' => c \in subs)
        BY <3>1 DEF Position, Disconnect, eventVars, mirrorVars
      <4> QED
        BY <1>1, <4>1 DEF ListsAreFed
    <3>2. CASE List(c)
      BY <1>1, <3>2 DEF List, ListsAreFed
    <3>3. CASE Connect(c)
      <4>1. c \in hubEnv.clients /\ (~stale'[c] => ~stale[c] /\ ~IsFresh(c) /\ ~NeedsResync(c)) /\ UNCHANGED of
        BY <1>4, <3>3 DEF Connect
      <4>2. Sent(c) = of[c]
        BY OneFilterIs DEF HubWhole, Sent
      <4>3. ~IsFresh(c) /\ ~NeedsResync(c) => of[c] = epoch
        BY <4>2 DEF NeedsResync
      <4> QED
        BY <1>1, <4>1, <4>3 DEF ListsAreFed
    <3>4. CASE Receive(c)
      <4>1. pc[c] = "open" /\ (~stale'[c] => ~stale[c])
        BY <1>4, <3>4 DEF Receive, ApplyEvent
      <4>2. c \in subs
        BY <1>1, <4>1 DEF FeedInvariant, SubscribersAreKnown
      <4> QED
        BY <1>1, <4>1, <4>2 DEF ListsAreFed
    <3> QED
      BY <3>1, <3>2, <3>3, <3>4 DEF ClientSteps
  <2>3. ASSUME NEW d \in Clients \ {c}
        PROVE  /\ listedAt'[d] = listedAt[d] /\ pc'[d] = pc[d] /\ stale'[d] = stale[d] /\ of'[d] = of[d]
               /\ d \in subs' <=> d \in subs
    BY <1>2, <2>3 DEF SameForOthers
  <2> QED
    BY <1>1, <1>3, <1>8, <2>1, <2>2, <2>3 DEF ListsAreFed
<1> QED
  BY <1>6, <1>7, <1>9 DEF GapInvariant

-----------------------------------------------------------------------------
(* No silent gap: ensureStream, and the rest *)

(* What the invariant says of events and mirrors is not about the stream.   *)
LEMMA EventsRest ==
  ASSUME HubTypes, EventsAreReal, MirrorsAreWhole, ChannelsAreExact, CursorsInOrder,
         UNCHANGED <<hubEnv, happened, cursor, epoch, ring, subs, missed, ch, backlog, since, of, reflects, stale>>,
         \A p \in pumps' \ pumps : p.pos = 0
  PROVE  MirrorsAreWhole' /\ ChannelsAreExact' /\ CursorsInOrder'
<1>1. \A c, x, m, n : /\ Matches(c, x)' = Matches(c, x) /\ Reaches(c, x)' = Reaches(c, x)
                      /\ Wants(c, m)' = Wants(c, m) /\ OfOneMachine(m, n)' = OfOneMachine(m, n)
                      /\ Tells(x, m)' = Tells(x, m)
  BY DEF Matches, Reaches, Wants, OfOneMachine, Tells
<1>2. \A c : /\ ToCome(c)' = ToCome(c) /\ CanResume(c)' = CanResume(c) /\ UpToDate(c)' = UpToDate(c)
             /\ MirrorIsWhole(c)' = MirrorIsWhole(c)
  BY <1>1 DEF ToCome, CanResume, UpToDate, Lacks, MirrorIsWhole
<1>3. \A c \in subs : EventsAreComplete(c)' = EventsAreComplete(c) /\ EventsInOrder(c)' = EventsInOrder(c)
  BY <1>1, <1>2 DEF EventsAreComplete, EventsInOrder
<1>4. \A c \in Clients : NothingIsSkipped(c) => NothingIsSkipped(c)'
  <2> SUFFICES ASSUME NEW c \in Clients, NothingIsSkipped(c) PROVE NothingIsSkipped(c)'
    OBVIOUS
  <2>1. \A p \in pumps' : \A m \in 1 .. p.pos : p \in pumps
    OBVIOUS
  <2> QED
    BY <1>1, <1>2, <2>1 DEF NothingIsSkipped
<1> QED
  BY <1>2, <1>3, <1>4 DEF MirrorsAreWhole, ChannelsAreExact, CursorsInOrder

(* When all clients ask for the same, the stream is started for that, once. *)
LEMMA EnsuringKeepsGap ==
  ASSUME HubWhole, NEW c \in Clients, Ensure(c) PROVE GapInvariant'
<1>1. /\ HubTypes /\ EventsAreReal /\ FeedInvariant /\ OneInEnsure /\ ViewsAreFresh /\ StreamIsCurrent
      /\ CursorsInOrder /\ StreamStaysOn /\ ListsAreFed /\ ChannelsAreExact /\ MirrorsAreWhole
  BY DEF HubWhole, GapInvariant, FeedInvariant
<1>2. /\ InEnsure(c) /\ UNCHANGED <<hubEnv, happened, eventVars, backlog, mirrorVars>>
      /\ \A d \in Clients \ {c} : pc'[d] = pc[d] /\ pc[d] \in {"away", "open"}
  BY <1>1, EnsuringIs, NobodyElse
<1>3. subs # {} => \A d \in hubEnv.clients : unionFilter = hubEnv.filter[d]
  <2>1. subs \subseteq hubEnv.clients
    BY <1>1 DEF HubTypes, EventTypes
  <2> QED
    BY <2>1, OneFilterIs DEF unionFilter, HubWhole
<1>4. pc \in [Clients -> RequestPlaces] /\ saw \in [Clients -> Views] /\ launched \in Nat /\ cancelled \subseteq 1 .. launched
      /\ on \in BOOLEAN
  BY <1>1 DEF HubTypes, FeedTypes
<1>5. \A d \in Clients : listedAt[d].on /\ d \in subs => pc'[d] = "open"
  BY <1>1, <1>2 DEF ListsAreFed, InEnsure
<1>6. ~Fed => \A d \in Clients : /\ ~listedAt[d].on
                                 /\ ~stale[d] => d \in hubEnv.clients /\ ~(d \in subs \/ of[d] = epoch)
  BY <1>1 DEF ListsAreFed
<1>7. (Fed => Fed') => ListsAreFed'
  BY <1>1, <1>2, <1>5, <1>6 DEF ListsAreFed, eventVars, mirrorVars
<1>8. CASE Union(c) \/ Count(c) \/ Look(c) \/ NoRequest(c) \/ Keep(c) \/ Disarm(c)
  <2>1. UNCHANGED <<on, cur, gen, launched, cancelled, pumps>> /\ pc'[c] # "peers"
    BY <1>4, <1>8 DEF Union, Count, Look, NoRequest, Keep, Disarm, Done, streamVars
  <2>2. pc'[c] = "launch" => ~on
    <3>1. SUFFICES ASSUME pc'[c] = "launch", on PROVE FALSE
      OBVIOUS
    <3>2. Disarm(c)
      BY <1>4, <1>8, <3>1 DEF Union, Count, Look, NoRequest, Keep, Done
    <3>3. saw[c].listened /\ ~Covers(c) /\ pc[c] = "act"
      BY <3>2 DEF Disarm
    <3>4. subs # {} /\ saw[c].want = unionFilter /\ saw[c].on = on /\ saw[c].cur = cur
      BY <1>1, <3>3 DEF ViewsAreFresh
    <3>5. cur = unionFilter
      BY <1>1, <1>3, <3>1, <3>4 DEF StreamStaysOn, HubTypes, EventTypes
    <3> QED
      BY <3>1, <3>3, <3>4, <3>5 DEF Covers
  <2>3. StreamStaysOn'
    BY <1>1, <1>2, <2>1, <2>2 DEF StreamStaysOn, Live
  <2>4. Fed => Fed'
    BY <1>2, <2>1 DEF Fed, Feeding, Live
  <2> QED
    BY <1>1, <1>2, <1>7, <2>1, <2>3, <2>4, EventsRest DEF GapInvariant, eventVars, mirrorVars
<1>9. CASE LaunchPump(c)
  <2>1. /\ pc[c] = "launch" /\ pc'[c] = "peers" /\ cancelled' = Cancels(c)
        /\ on' /\ cur' = saw[c].want /\ gen' = launched + 1
        /\ pumps' = pumps \cup {NewPump(launched + 1, FALSE, saw[c].want)}
    BY <1>4, <1>9 DEF LaunchPump
  <2>2. ~on /\ pumps = {}
    BY <1>1, <2>1 DEF StreamStaysOn, StreamIsCurrent
  <2>3. subs # {} /\ saw[c].want = unionFilter /\ ~saw[c].on
    BY <1>1, <2>1, <2>2 DEF ViewsAreFresh
  <2>4. StreamStaysOn'
    <3>1. cancelled' = cancelled
      BY <2>1, <2>3 DEF Cancels
    <3>2. \A p \in pumps' : p.gen = launched + 1
      BY <2>1, <2>2 DEF NewPump
    <3>3. \A p \in pumps' : Live(p)'
      BY <1>4, <3>1, <3>2 DEF Live
    <3>4. \A p, q \in pumps' : p.remote = q.remote => p = q
      BY <2>1, <2>2
    <3> QED
      BY <1>2, <1>3, <2>1, <2>3, <3>3, <3>4 DEF StreamStaysOn
  <2>5. ~Fed /\ \A p \in pumps' \ pumps : p.pos = 0
    BY <2>1, <2>2 DEF Fed, NewPump
  <2> QED
    BY <1>1, <1>2, <1>7, <2>4, <2>5, EventsRest DEF GapInvariant, eventVars, mirrorVars
<1>10. CASE LaunchPeers(c)
  <2>1. /\ pc[c] = "peers" /\ pc'[c] # "launch" /\ UNCHANGED streamVars
        /\ \/ pumps' = pumps \cup {NewPump(saw[c].gen, TRUE, saw[c].want)}
           \/ pumps' = pumps
    BY <1>4, <1>10 DEF LaunchPeers, Done
  <2>2. on /\ saw[c].gen = gen /\ \A p \in pumps : p.gen = gen => ~p.remote
    BY <1>1, <2>1 DEF ViewsAreFresh
  <2>3. (\A p \in pumps : ~p.remote) /\ gen \notin cancelled
    BY <1>1, <2>2 DEF StreamStaysOn, StreamIsCurrent
  <2>4. LET new == NewPump(saw[c].gen, TRUE, saw[c].want) IN new.gen = gen /\ new.remote /\ new.pos = 0
    BY <2>2 DEF NewPump
  <2>5. StreamStaysOn'
    <3>1. \A p \in pumps' : Live(p)'
      BY <1>1, <2>1, <2>3, <2>4 DEF StreamStaysOn, Live, streamVars
    <3>2. \A p, q \in pumps' : p.remote = q.remote => p = q
      BY <1>1, <2>1, <2>3, <2>4 DEF StreamStaysOn
    <3> QED
      BY <1>1, <1>2, <2>1, <3>1, <3>2 DEF StreamStaysOn, streamVars
  <2>6. ~Fed /\ \A p \in pumps' \ pumps : p.pos = 0
    BY <2>1, <2>4 DEF Fed, Feeding
  <2> QED
    BY <1>1, <1>2, <1>7, <2>5, <2>6, EventsRest DEF GapInvariant, eventVars, mirrorVars
<1> QED
  BY <1>8, <1>9, <1>10 DEF Ensure

(* A session changes: the events are about what happened before.            *)
LEMMA ChangesKeepGap ==
  ASSUME HubWhole, NEW s \in Sessions, Changes(s) PROVE GapInvariant'
<1>1. /\ HubTypes /\ EventsAreReal /\ CursorsInOrder /\ StreamStaysOn /\ ListsAreFed /\ ChannelsAreExact
      /\ MirrorsAreWhole
  BY DEF HubWhole, GapInvariant
<1>2. UNCHANGED <<hubEnv, eventVars, streamVars, pumps, requestVars, backlog, mirrorVars>>
  BY DEF Changes
<1>3. UNCHANGED <<hubEnv, cursor, epoch, ring, subs, missed, ch, backlog, since, of, reflects, stale, listedAt,
                  on, cur, gen, launched, cancelled, pumps, pc, saw>>
  BY <1>2 DEF eventVars, streamVars, requestVars, mirrorVars
<1>4. Len(happened) \in Nat /\ \A n \in 1 .. Len(happened) : happened'[n] = happened[n]
  BY <1>1 DEF HubTypes, EventTypes, Changes
<1>5. CursorsInOrder' /\ StreamStaysOn' /\ ListsAreFed'
  BY <1>1, <1>3 DEF CursorsInOrder, StreamStaysOn, ListsAreFed, Fed, Feeding, Live
<1>6. \A c \in Clients : \A e : IsReal(e) =>
         Matches(c, e.event)' = Matches(c, e.event) /\ Reaches(c, e.event)' = Reaches(c, e.event)
  BY <1>3, <1>4 DEF IsReal, Matches, Reaches
<1>7. \A c \in Clients : ToCome(c)' = ToCome(c) /\ \A e \in ToCome(c) : IsReal(e)
  <2> SUFFICES ASSUME NEW c \in Clients PROVE ToCome(c)' = ToCome(c) /\ \A e \in ToCome(c) : IsReal(e)
    OBVIOUS
  <2>1. \A e \in ToCome(c) : IsReal(e)
    BY <1>1 DEF ToCome, EventsAreReal
  <2>2. CASE c \in subs
    BY <1>3, <2>1, <2>2 DEF ToCome
  <2>3. CASE c \notin subs
    <3>1. \A e \in ring : Matches(c, e.event)' = Matches(c, e.event)
      BY <1>1, <1>6 DEF EventsAreReal
    <3> QED
      BY <1>3, <2>1, <2>3, <3>1 DEF ToCome
  <2> QED
    BY <2>2, <2>3
<1>8. \A c : CanResume(c)' = CanResume(c) /\ UpToDate(c)' = UpToDate(c)
  BY <1>3 DEF CanResume, UpToDate, Lacks
<1>9. \A c \in Clients, m, n \in 1 .. Len(happened) :
         /\ Wants(c, happened[m])' = Wants(c, happened[m])
         /\ OfOneMachine(m, n)' = OfOneMachine(m, n)
         /\ (happened[m] \in hubEnv.remote)' = (happened[m] \in hubEnv.remote)
  BY <1>3, <1>4 DEF Wants, OfOneMachine
<1>10. ChannelsAreExact'
  <2> SUFFICES ASSUME NEW c \in subs \ missed PROVE EventsAreComplete(c)' /\ EventsInOrder(c)'
    BY <1>3 DEF ChannelsAreExact
  <2>1. EventsAreComplete(c) /\ EventsInOrder(c) /\ c \in Clients
    BY <1>1, CursorsAreNumbers DEF ChannelsAreExact
  <2>2. \A e \in ring : IsReal(e)
    BY <1>1 DEF EventsAreReal
  <2>3. EventsAreComplete(c)'
    BY <1>3, <1>6, <1>7, <1>8, <2>1, <2>2 DEF EventsAreComplete
  <2>4. EventsInOrder(c)'
    BY <1>3, <1>6, <1>7, <2>1 DEF EventsInOrder
  <2> QED
    BY <2>3, <2>4
<1>11. MirrorsAreWhole'
  <2> SUFFICES ASSUME NEW c \in Clients \ missed PROVE MirrorIsWhole(c)' /\ (UpToDate(c)' => NothingIsSkipped(c)')
    BY <1>3 DEF MirrorsAreWhole
  <2>1. MirrorIsWhole(c)'
    <3>1. reflects[c] \subseteq 1 .. Len(happened)
      BY <1>1 DEF HubTypes, MirrorTypes
    <3>2. \A n \in reflects[c] : n \in 1 .. Len(happened) /\ 1 .. n \subseteq 1 .. Len(happened)
      BY <1>4, <3>1
    <3> QED
      BY <1>1, <1>3, <1>9, <3>2 DEF MirrorsAreWhole, MirrorIsWhole
  <2>2. ASSUME UpToDate(c)' PROVE NothingIsSkipped(c)'
    <3>1. NothingIsSkipped(c)
      BY <1>1, <1>8, <2>2 DEF MirrorsAreWhole
    <3>2. ASSUME NEW e \in ToCome(c), e.event.kind = "change", NEW m \in 1 .. e.event.what
          PROVE  m \in 1 .. Len(happened) /\ e.event.what \in 1 .. Len(happened)
      BY <1>4, <1>7, <3>2 DEF IsReal
    <3>3. ASSUME NEW p \in pumps, NEW m \in 1 .. p.pos PROVE m \in 1 .. Len(happened)
      BY <1>1, <1>4, <3>3 DEF HubTypes, FeedTypes, Pumps
    <3>4. \A d, m : Tells(d, m)' = Tells(d, m)
      BY DEF Tells
    <3>5. ASSUME NEW e \in ToCome(c), e.event.kind = "change", NEW m \in 1 .. e.event.what,
                 Wants(c, happened[m])', OfOneMachine(m, e.event.what)'
          PROVE  m \in reflects[c] \/ \E d \in ToCome(c) : d.cursor <= e.cursor /\ Tells(d, m)
      <4>1. Wants(c, happened[m]) /\ OfOneMachine(m, e.event.what)
        BY <1>9, <3>2, <3>5
      <4> QED
        BY <3>1, <3>5, <4>1 DEF NothingIsSkipped
    <3>6. ASSUME NEW p \in pumps, NEW m \in 1 .. p.pos, Wants(c, happened[m])',
                 (happened[m] \in hubEnv.remote)' <=> p.remote
          PROVE  m \in reflects[c] \/ \E d \in ToCome(c) : Tells(d, m)
      <4>1. Wants(c, happened[m]) /\ (happened[m] \in hubEnv.remote <=> p.remote)
        BY <1>9, <3>3, <3>6
      <4> QED
        BY <3>1, <3>6, <4>1 DEF NothingIsSkipped
    <3> QED
      BY <1>3, <1>7, <3>4, <3>5, <3>6 DEF NothingIsSkipped
  <2> QED
    BY <2>1, <2>2
<1> QED
  BY <1>5, <1>10, <1>11 DEF GapInvariant

(* After a restart the epoch is another one, and nobody may resume.         *)
LEMMA CrashKeepsGap ==
  ASSUME HubWhole, Crash PROVE GapInvariant'
<1>1. HubTypes /\ CursorsInOrder /\ ListsAreFed /\ MirrorsAreWhole /\ "durable" \notin hubEnv.may
  BY OneFilterIs DEF HubWhole, GapInvariant
<1>2. /\ cursor' = 0 /\ epoch' = epoch + 1 /\ ring' = {} /\ subs' = {} /\ pumps' = {} /\ ~on'
      /\ UNCHANGED <<hubEnv, happened, missed, since, of, reflects, stale>>
      /\ \A c \in Clients : pc'[c] = "away" /\ listedAt'[c] = NoPosition
  BY <1>1 DEF Crash
<1>3. \A c \in Clients : of[c] \in Nat /\ of[c] <= epoch /\ epoch \in Nat
  BY <1>1, CursorsAreNumbers DEF CursorsInOrder
<1>5. CursorsInOrder'
  <2>1. \A c \in Clients : of'[c] <= epoch' /\ of'[c] # epoch'
    BY <1>2, <1>3
  <2> QED
    BY <1>2, <2>1 DEF CursorsInOrder
<1>6. StreamStaysOn'
  BY <1>2 DEF StreamStaysOn
<1>7. \A c \in Clients : of'[c] # epoch'
  BY <1>2, <1>3
<1>8. ListsAreFed'
  <2>1. \A c \in Clients : ~stale[c] => c \in hubEnv.clients
    BY <1>1 DEF ListsAreFed
  <2> QED
    BY <1>2, <1>7, <2>1 DEF ListsAreFed, NoPosition
<1>9. ChannelsAreExact'
  BY <1>2 DEF ChannelsAreExact
<1>10. MirrorsAreWhole'
  <2>1. \A c \in Clients : ~UpToDate(c)'
    BY <1>2, <1>7 DEF UpToDate, CanResume
  <2>2. \A c \in Clients \ missed : MirrorIsWhole(c)'
    BY <1>1, <1>2 DEF MirrorsAreWhole, MirrorIsWhole, Wants, OfOneMachine
  <2> QED
    BY <1>2, <2>1, <2>2 DEF MirrorsAreWhole
<1> QED
  BY <1>5, <1>6, <1>8, <1>9, <1>10 DEF GapInvariant

(* The gap invariant is inductive.                                          *)
LEMMA GapIsKept ==
  ASSUME HubWhole, HubTypes', [HubNext]_hubVars PROVE GapInvariant'
<1>1. ~LingerExpires
  BY OneFilterIs DEF HubWhole, LingerExpires
<1>2. CASE HubNext
  BY <1>1, <1>2, PumpingKeepsGap, ClientsKeepGap, EnsuringKeepsGap, ChangesKeepGap, CrashKeepsGap DEF HubNext
<1>3. CASE UNCHANGED hubVars
  <2>1. /\ UNCHANGED <<hubEnv, happened, cursor, epoch, ring, subs, missed, ch, backlog, since, of, reflects, stale>>
        /\ UNCHANGED <<listedAt, on, cur, gen, launched, cancelled, pumps, pc>>
    BY <1>3 DEF hubVars, eventVars, streamVars, requestVars, mirrorVars
  <2>2. MirrorsAreWhole' /\ ChannelsAreExact' /\ CursorsInOrder'
    BY <2>1, EventsRest DEF HubWhole, GapInvariant
  <2>3. StreamStaysOn' /\ ListsAreFed'
    BY <2>1 DEF HubWhole, GapInvariant, StreamStaysOn, ListsAreFed, Fed, Feeding, Live
  <2> QED
    BY <2>2, <2>3 DEF GapInvariant
<1> QED
  BY <1>2, <1>3

(* Nobody believes anything at first.                                       *)
LEMMA GapAtFirst == HubInit => GapInvariant
<1> SUFFICES ASSUME HubInit PROVE GapInvariant
  OBVIOUS
<1>1. /\ ring = {} /\ subs = {} /\ pumps = {} /\ ~on /\ epoch = 1 /\ cursor = 0
      /\ \A c \in Clients : /\ pc[c] = "away" /\ of[c] = 0 /\ since[c] = 0 /\ stale[c]
                            /\ listedAt[c] = NoPosition /\ reflects[c] = {}
  BY DEF HubInit
<1>2. CursorsInOrder
  BY <1>1 DEF CursorsInOrder
<1>3. StreamStaysOn /\ ListsAreFed /\ ChannelsAreExact
  BY <1>1 DEF StreamStaysOn, ListsAreFed, ChannelsAreExact, NoPosition
<1>4. MirrorsAreWhole
  BY <1>1 DEF MirrorsAreWhole, MirrorIsWhole, UpToDate
<1> QED
  BY <1>2, <1>3, <1>4 DEF GapInvariant

(* All of the invariant, for every environment of the hub.                  *)
THEOREM HubInvariantHolds == HubSpec => []HubInvariant
<1>1. HubInit => HubInvariant
  BY TypesAtFirst, StreamAtFirst, GapAtFirst DEF HubInit, HubInvariant, EventsAreReal
<1>2. HubInvariant /\ [HubNext]_hubVars => HubInvariant'
  <2> SUFFICES ASSUME HubInvariant, [HubNext]_hubVars PROVE HubInvariant'
    OBVIOUS
  <2>1. HubTypes' /\ EventsAreReal'
    BY TypesAreKept DEF HubInvariant
  <2>2. (MayNot({"race"}) => FeedInvariant)'
    BY StreamIsKept, EnvironmentStays DEF MayNot, HubInvariant
  <2>3. (OneFilter => GapInvariant)'
    <3>1. OneFilter' => OneFilter
      BY EnvironmentStays DEF OneFilter, MayNot
    <3>2. OneFilter => GapInvariant'
      BY <2>1, GapIsKept, OneFilterIs DEF HubInvariant, HubWhole
    <3> QED
      BY <3>1, <3>2
  <2> QED
    BY <2>1, <2>2, <2>3 DEF HubInvariant
<1> QED
  BY <1>1, <1>2, PTL DEF HubSpec

(* "Announced gaps are recoverable; silent ones are not" (events.go): when  *)
(* all clients ask for the same sessions, no mirror has a gap that its      *)
(* client does not know of, whichever streams fail and come back, however   *)
(* often the service restarts and wherever a client takes up its stream     *)
(* again, as long as its channel was never full.                            *)
THEOREM GapsAreNeverSilent == HubSpec => []NoSilentGap
<1>1. HubInvariant => NoSilentGap
  BY DEF HubInvariant, GapInvariant, MirrorsAreWhole, NoSilentGap
<1> QED
  BY <1>1, HubInvariantHolds, PTL

-----------------------------------------------------------------------------
(* SessionLabels: the inductive invariant                                   *)

(* Sessions that start in the same second are told apart, handlers note     *)
(* what they did at once, and a listing is not overtaken; and an id that    *)
(* has a record is left alone, or people rename no sessions past the        *)
(* service and only start one where the record has a start time.            *)
Untouched == env.surprises = {}
LabelsSteady ==
    /\ \A r, s \in Runs : Same(r, s) => r = s
    /\ env.gap = {} /\ ~env.lag
    /\ \/ Untouched
       \/ "rename" \notin env.outside /\ env.surprises \subseteq {<<"appear", "dated">>}

Reading(l) == list[l].phase \in {"listed", "reaped", "ready"}

TellsAll(l) == list[l].phase = "listed" \/ (Reading(l) /\ list[l].complete)

(* A run has one id.                                                        *)
RunsStandOnce ==
    /\ \A id \in Ids : at[id] # None => at[id] \in born
    /\ \A id, other \in Ids : at[id] = at[other] /\ at[id] # None => id = other

(* One listing is on its way from its enumeration, and tells what stands.   *)
ListingsAreTrue ==
    /\ \A l, m \in Lister : Reading(l) /\ Reading(m) => l = m
    /\ \A l \in Lister : ~Reading(l) => list[l].items = {}
    /\ \A l \in Lister : \A i \in list[l].items : at[i.id] \in {i.run, None}
    /\ \A l \in Lister : \A i, j \in list[l].items : i.id = j.id \/ i.run = j.run => i = j
    /\ \A l \in Lister, id \in Ids :
          TellsAll(l) /\ at[id] # None => [id |-> id, run |-> at[id]] \in list[l].items

(* A record whose session has to be there is the record of no other.        *)
Bound(id) == recs[id] # None /\ (Untouched \/ ~recs[id].known)

RecordsAreOwn ==
    /\ \A id \in Ids : recs[id] # None => recs[id].of = {recs[id].run}
    /\ \A id \in Ids : Bound(id) =>
          /\ at[id] \in {None, recs[id].run}
          /\ \A l \in Lister : \A i \in list[l].items : i.id = id => i.run = recs[id].run

(* While a handler has something to tell nothing else happens.              *)
NoteIsTrue(n) ==
    /\ owed = {n} /\ \A l \in Lister : ~Reading(l)
    /\ n.op = "create" => at[n.id] = n.run /\ recs[n.id] = None
    /\ n.op = "label" => at[n.id] = n.run
    /\ n.op = "close" =>
          /\ at[n.id] = None /\ \A id \in Ids : at[id] # n.run
          /\ Bound(n.id) => recs[n.id].run = n.run
    /\ n.op = "rename" =>
          /\ at[n.to] = n.run /\ at[n.id] = None /\ n.id # n.to /\ recs[n.to] = None
          /\ Bound(n.id) => recs[n.id].run = n.run

(* The labels of a session that is there are at its id, or on their way to  *)
(* it: with the note of a rename, or with the next listing.                 *)
KeptAt(r, id, place) ==
    /\ recs[place] # None /\ recs[place].run = r
    /\ \/ place = id
       \/ Untouched /\ recs[place].known
       \/ \E n \in owed : n.op = "rename" /\ n.id = place /\ n.to = id

LabelsFollow ==
    /\ tagged \subseteq born
    /\ \A id \in Ids : at[id] \in tagged => \E place \in Ids : KeptAt(at[id], id, place)

LabelsInv ==
    /\ LabelsTypeOK /\ RunsStandOnce /\ ListingsAreTrue /\ RecordsAreOwn
    /\ \A n \in owed : NoteIsTrue(n)
    /\ LabelsFollow /\ NoStrangers

-----------------------------------------------------------------------------
(* SessionLabels: types                                                     *)

Listings == [phase : {"idle", "asked", "listed", "reaped", "ready"}, items : SUBSET Items, complete : BOOLEAN,
             exits : SUBSET Items]

(* What happens to sessions leaves the records and the listings alone.      *)
LEMMA SessionsMoveTyped ==
  ASSUME LabelsTypeOK,
         \/ \E id \in Ids, r \in Runs : Create(id, r) \/ Appear(id, r)
         \/ \E id \in Ids : Close(id) \/ Exit(id) \/ Vanish(id) \/ ReadForLabels(id)
         \/ \E from, to \in Ids : Rename(from, to) \/ MoveAside(from, to)
         \/ OtherListing
  PROVE  LabelsTypeOK' /\ UNCHANGED <<env, list, recs, tagged, served>>
<1>1. /\ env \in Environments /\ at \in [Ids -> Runs \cup {None}] /\ born \subseteq Runs /\ ours \subseteq Runs
      /\ dead \subseteq Runs /\ owed \subseteq Notes /\ captured \subseteq Items
  BY DEF LabelsTypeOK, LiveTypeOK
<1>2. SUFFICES /\ env' = env /\ at' \in [Ids -> Runs \cup {None}] /\ born' \subseteq Runs /\ ours' \subseteq Runs
               /\ dead' \subseteq Runs /\ owed' \subseteq Notes /\ captured' \subseteq Items
               /\ UNCHANGED <<env, list, recs, tagged, served>>
  BY DEF LabelsTypeOK, LiveTypeOK
<1>3. CASE \E id \in Ids, r \in Runs : Create(id, r) \/ Appear(id, r)
  <2>1. PICK id \in Ids, r \in Runs : Create(id, r) \/ Appear(id, r)
    BY <1>3
  <2>2. /\ at' = [at EXCEPT ![id] = r] /\ born' = born \cup {r}
        /\ UNCHANGED <<env, dead, list, captured, recs, tagged, served>>
        /\ ours' \in {ours, ours \cup {r}} /\ owed' \in {owed, owed \cup {[op |-> "create", id |-> id, run |-> r]}}
    BY <2>1 DEF Create, Appear, DriverCreates, Appears, Start, Elsewhere
  <2>3. [op |-> "create", id |-> id, run |-> r] \in Notes
    BY DEF Notes
  <2> QED
    BY <1>1, <2>2, <2>3
<1>4. CASE \E id \in Ids : Close(id) \/ Exit(id) \/ Vanish(id) \/ ReadForLabels(id)
  <2>1. PICK id \in Ids : Close(id) \/ Exit(id) \/ Vanish(id) \/ ReadForLabels(id)
    BY <1>4
  <2>2. CASE Close(id) \/ Vanish(id)
    <3>1. /\ at[id] # None /\ at' = [at EXCEPT ![id] = None] /\ dead' = dead \ {at[id]}
          /\ UNCHANGED <<env, born, ours, list, captured, recs, tagged, served>>
          /\ owed' \in {owed, owed \cup {[op |-> "close", id |-> id, run |-> at[id]]}}
      BY <2>2 DEF Close, Vanish, DriverCloses, Vanishes, Elsewhere
    <3>2. [op |-> "close", id |-> id, run |-> at[id]] \in Notes
      BY <1>1, <3>1 DEF Notes
    <3> QED
      BY <1>1, <3>1, <3>2
  <2>3. CASE Exit(id)
    BY <1>1, <2>3 DEF Exit, Exits, Elsewhere
  <2>4. CASE ReadForLabels(id)
    <3>1. /\ at[id] # None
          /\ UNCHANGED <<env, at, born, ours, dead, list, captured, recs, tagged, served>>
          /\ owed' = owed \cup {[op |-> "label", id |-> id, run |-> at[id]]}
      BY <2>4 DEF ReadForLabels, DriverShows, Elsewhere
    <3>2. [op |-> "label", id |-> id, run |-> at[id]] \in Notes
      BY <1>1, <3>1 DEF Notes
    <3> QED
      BY <1>1, <3>1, <3>2
  <2> QED
    BY <2>1, <2>2, <2>3, <2>4
<1>5. CASE \E from, to \in Ids : Rename(from, to) \/ MoveAside(from, to)
  <2>1. PICK from \in Ids, to \in Ids : Rename(from, to) \/ MoveAside(from, to)
    BY <1>5
  <2>2. /\ at[from] # None /\ at' = [at EXCEPT ![from] = None, ![to] = at[from]]
        /\ UNCHANGED <<env, born, ours, dead, list, captured, recs, tagged, served>>
        /\ owed' \in {owed, owed \cup {[op |-> "rename", id |-> from, to |-> to, run |-> at[from]]}}
    BY <2>1 DEF Rename, MoveAside, DriverRenames, Moves, Move, Elsewhere
  <2>3. [op |-> "rename", id |-> from, to |-> to, run |-> at[from]] \in Notes
    BY <1>1, <2>2 DEF Notes
  <2>4. at' \in [Ids -> Runs \cup {None}]
    BY <1>1, <2>2
  <2> QED
    BY <1>1, <2>2, <2>3, <2>4
<1>6. CASE OtherListing
  BY <1>1, <1>6 DEF OtherListing, ListedElsewhere, Elsewhere, Items
<1> QED
  BY <1>3, <1>4, <1>5, <1>6

(* What is on record.                                                       *)
LEMMA RecordIs ==
  ASSUME LabelsTypeOK, NEW id \in Ids
  PROVE  /\ recs[id] \in Records \cup {None} /\ (recs[id] # None => recs[id] \in Records)
         /\ \A r, told : Find(id, r, told) \in {recs[id], None}
         /\ \A r, told : StillKept(id, r, told) \in [Ids -> Records \cup {None}]
<1>1. recs \in [Ids -> Records \cup {None}]
  BY DEF LabelsTypeOK
<1>2. \A r, told : Find(id, r, told) \in {recs[id], None}
  BY DEF Find
<1>3. \A r, told : StillKept(id, r, told) \in [Ids -> Records \cup {None}]
  <2> TAKE r, told
  <2>1. Find(id, r, told) \in Records \cup {None}
    BY <1>1, <1>2
  <2> QED
    BY <1>1, <2>1 DEF StillKept
<1> QED
  BY <1>1, <1>2, <1>3

(* A new record.                                                            *)
LEMMA NewIs ==
  ASSUME NEW r \in Runs, NEW told \in BOOLEAN
  PROVE  /\ New(r, told) \in Records /\ New(r, told) # None
         /\ New(r, told).run = r /\ New(r, told).known = told /\ New(r, told).of = {r}
<1>1. Active \subseteq Lister
  BY DEF Active
<1>2. New(r, told) \in Records
  BY <1>1 DEF New, Records
<1> QED
  BY <1>2, LabelRecordAssumption DEF New

(* The notes of the handlers.                                               *)
LEMMA NotesTyped ==
  ASSUME LabelsTypeOK, NEW n \in owed,
         \/ NoteRenamed(n) \/ NoteClosed(n)
         \/ \E labelled \in BOOLEAN : NoteCreated(n, labelled)
         \/ \E adds \in BOOLEAN : Merge(n, adds)
  PROVE  LabelsTypeOK' /\ owed' = owed \ {n} /\ UNCHANGED <<env, at, born, ours, dead, list, captured>>
<1>1. owed' = owed \ {n} /\ UNCHANGED <<env, at, born, ours, dead, list, captured>>
  BY DEF NoteRenamed, NoteClosed, NoteCreated, Merge, Tell
<1>2. LiveTypeOK'
  BY <1>1 DEF LabelsTypeOK, LiveTypeOK
<1>3. /\ n \in Notes /\ recs \in [Ids -> Records \cup {None}] /\ tagged \subseteq Runs
      /\ served \subseteq Runs \X Runs /\ Active \subseteq Lister
  BY DEF LabelsTypeOK, LiveTypeOK, Active
<1>4. n.id \in Ids /\ n.run \in Runs /\ (n.op = "rename" => n.to \in Ids)
  BY <1>3 DEF Notes
<1>5. \A rec \in Records \cup {None} : Owners(rec) \subseteq Runs
  BY DEF Owners, Records
<1>6. SUFFICES recs' \in [Ids -> Records \cup {None}] /\ tagged' \subseteq Runs /\ served' \subseteq Runs \X Runs
  BY <1>1, <1>2 DEF LabelsTypeOK
<1>7. CASE NoteRenamed(n)
  <2>1. /\ n.op = "rename" /\ UNCHANGED <<tagged, served>>
        /\ recs' = IF recs[n.id] = None THEN recs
                   ELSE [recs EXCEPT ![n.id] = None, ![n.to] = [recs[n.id] EXCEPT !.after = Active]]
    BY <1>7 DEF NoteRenamed
  <2>2. recs[n.id] # None => [recs[n.id] EXCEPT !.after = Active] \in Records
    BY <1>3, <1>4 DEF Records
  <2> QED
    BY <1>3, <1>4, <2>1, <2>2
<1>8. CASE NoteClosed(n)
  BY <1>3, <1>4, <1>8 DEF NoteClosed
<1>9. CASE \E labelled \in BOOLEAN : NoteCreated(n, labelled)
  <2>1. PICK labelled \in BOOLEAN : NoteCreated(n, labelled)
    BY <1>9
  <2>2. PICK found : found = Find(n.id, n.run, FALSE)
    OBVIOUS
  <2>3. PICK new : new = New(n.run, FALSE)
    OBVIOUS
  <2>4. /\ recs' \in {[recs EXCEPT ![n.id] = new], StillKept(n.id, n.run, FALSE)}
        /\ tagged' \in {tagged, tagged \cup {n.run}} /\ served' = served \cup ({n.run} \X Owners(found))
    BY <2>1, <2>2, <2>3 DEF NoteCreated, Serve
  <2>5. new \in Records /\ StillKept(n.id, n.run, FALSE) \in [Ids -> Records \cup {None}] /\ found \in Records \cup {None}
    <3>1. new \in Records
      BY <1>4, <2>3, NewIs
    <3>2. found \in {recs[n.id], None} /\ StillKept(n.id, n.run, FALSE) \in [Ids -> Records \cup {None}]
      BY <1>4, <2>2, RecordIs
    <3> QED
      BY <1>3, <1>4, <3>1, <3>2
  <2> QED
    BY <1>3, <1>4, <1>5, <2>4, <2>5
<1>10. CASE \E adds \in BOOLEAN : Merge(n, adds)
  <2>1. PICK adds \in BOOLEAN : Merge(n, adds)
    BY <1>10
  <2>2. PICK found : found = Find(n.id, n.run, TRUE)
    OBVIOUS
  <2>3. PICK new : new = New(n.run, TRUE)
    OBVIOUS
  <2>4. new \in Records /\ found \in Records \cup {None}
    <3>1. new \in Records
      BY <1>4, <2>3, NewIs
    <3>2. found \in {recs[n.id], None}
      BY <1>4, <2>2, RecordIs
    <3> QED
      BY <1>3, <1>4, <3>1, <3>2
  <2>5. CASE adds
    <3>1. PICK merged : merged = IF found = None THEN new
                                 ELSE [found EXCEPT !.run = IF found.known THEN @ ELSE n.run,
                                                    !.known = TRUE,
                                                    !.of = @ \cup {n.run},
                                                    !.after = Active]
      OBVIOUS
    <3>2. recs' = [recs EXCEPT ![n.id] = merged] /\ tagged' = tagged \cup {n.run} /\ served' = served \cup ({n.run} \X Owners(found))
      BY <2>1, <2>2, <2>3, <2>5, <3>1 DEF Merge, Serve
    <3>3. merged \in Records
      BY <1>3, <1>4, <2>4, <3>1 DEF Records
    <3> QED
      BY <1>3, <1>4, <1>5, <2>4, <3>2, <3>3
  <2>6. CASE ~adds
    BY <1>3, <2>1, <2>6 DEF Merge, Without
  <2> QED
    BY <2>5, <2>6
<1> QED
  BY <1>7, <1>8, <1>9, <1>10

(* What retain does with the orphans that have a home.                      *)
HomesAre(l, housed, home, won) ==
    /\ housed = Orphans(l) \ {id \in Orphans(l) : Homes(l, id) = {}}
    /\ home \in [housed -> list[l].items] /\ won \subseteq housed
    /\ \A id \in housed : home[id] \in Homes(l, id)
    /\ \A id \in housed :
          IF recs[home[id].id] # None THEN id \notin won
          ELSE Cardinality({o \in won : home[o].id = home[id].id}) = 1
    /\ recs' = [id \in Ids |-> IF \E o \in won : home[o].id = id
                               THEN recs[CHOOSE o \in won : home[o].id = id]
                               ELSE IF id \in Orphans(l) THEN None ELSE recs[id]]

LEMMA RetainIs ==
  ASSUME NEW l \in Lister, Retain(l)
  PROVE  \E housed, home, won : HomesAre(l, housed, home, won)
<1>1. PICK housed : housed = Orphans(l) \ {id \in Orphans(l) : Homes(l, id) = {}}
  OBVIOUS
<1>2. PICK home \in [housed -> list[l].items] :
         /\ \A id \in DOMAIN home : home[id] \in Homes(l, id)
         /\ \E won \in SUBSET DOMAIN home :
               /\ \A id \in DOMAIN home :
                     LET target == home[id].id IN
                     IF recs[target] # None THEN id \notin won
                     ELSE Cardinality({o \in won : home[o].id = target}) = 1
               /\ recs' = [id \in Ids |->
                              IF \E o \in won : home[o].id = id
                              THEN recs[CHOOSE o \in won : home[o].id = id]
                              ELSE IF id \in Orphans(l) THEN None ELSE recs[id]]
  BY <1>1, Zenon DEF Retain
<1>3. DOMAIN home = housed
  BY <1>2
<1>4. PICK won \in SUBSET housed :
         /\ \A id \in housed :
               LET target == home[id].id IN
               IF recs[target] # None THEN id \notin won
               ELSE Cardinality({o \in won : home[o].id = target}) = 1
         /\ recs' = [id \in Ids |->
                        IF \E o \in won : home[o].id = id
                        THEN recs[CHOOSE o \in won : home[o].id = id]
                        ELSE IF id \in Orphans(l) THEN None ELSE recs[id]]
  BY <1>2, <1>3, Zenon
<1>5. HomesAre(l, housed, home, won)
  BY <1>1, <1>2, <1>3, <1>4, Zenon DEF HomesAre
<1> QED
  BY <1>5

(* The steps of a listing.                                                  *)
LEMMA ListingTyped ==
  ASSUME LabelsTypeOK, NEW l \in Lister, Request(l) \/ Listing(l) \/ Reaping(l) \/ Retain(l) \/ Get(l)
  PROVE  LabelsTypeOK' /\ UNCHANGED <<env, born, ours, owed, tagged>>
<1>1. /\ env \in Environments /\ at \in [Ids -> Runs \cup {None}] /\ born \subseteq Runs /\ ours \subseteq Runs
      /\ dead \subseteq Runs /\ owed \subseteq Notes /\ captured \subseteq Items /\ list \in [Lister -> Listings]
      /\ recs \in [Ids -> Records \cup {None}] /\ tagged \subseteq Runs /\ served \subseteq Runs \X Runs
  BY DEF LabelsTypeOK, LiveTypeOK, Listings
<1>2. SUFFICES /\ at' \in [Ids -> Runs \cup {None}] /\ dead' \subseteq Runs /\ captured' \subseteq Items
               /\ list' \in [Lister -> Listings] /\ recs' \in [Ids -> Records \cup {None}]
               /\ served' \subseteq Runs \X Runs /\ UNCHANGED <<env, born, ours, owed, tagged>>
  BY <1>1 DEF LabelsTypeOK, LiveTypeOK, Listings
<1>3. Idle \in Listings
  BY DEF Idle, Listings
<1>4. CASE Request(l)
  <2>1. /\ list' = [list EXCEPT ![l] = [Idle EXCEPT !.phase = "asked"]]
        /\ UNCHANGED <<env, at, born, ours, dead, owed, captured, tagged, served>>
        /\ recs' = [id \in Ids |-> IF recs[id] = None THEN None ELSE [recs[id] EXCEPT !.after = @ \ {l}]]
    BY <1>4 DEF Request, Ask
  <2>2. [Idle EXCEPT !.phase = "asked"] \in Listings
    BY DEF Idle, Listings
  <2>3. \A id \in Ids : recs[id] # None => [recs[id] EXCEPT !.after = @ \ {l}] \in Records
    BY <1>1 DEF Records
  <2> QED
    BY <1>1, <2>1, <2>2, <2>3
<1>5. CASE Listing(l)
  <2>1. /\ list' = [list EXCEPT ![l] = [@ EXCEPT !.phase = "listed", !.items = {i \in Items : at[i.id] = i.run}]]
        /\ UNCHANGED <<env, at, born, ours, dead, owed, captured, recs, tagged, served>>
    BY <1>5 DEF Listing, Enumerate, Elsewhere
  <2>2. [list[l] EXCEPT !.phase = "listed", !.items = {i \in Items : at[i.id] = i.run}] \in Listings
    BY <1>1 DEF Listings
  <2> QED
    BY <1>1, <2>1, <2>2
<1>6. CASE Reaping(l)
  <2>1. PICK left : left = list[l].items \ {i \in {j \in list[l].items : j.run \in dead} : at[i.id] # None}
    OBVIOUS
  <2>2. PICK killed : killed = {i \in {j \in list[l].items : j.run \in dead} : at[i.id] # None}
    OBVIOUS
  <2>3. /\ at' = [id \in Ids |-> IF \E i \in killed : i.id = id THEN None ELSE at[id]]
        /\ dead' = dead \ {at[i.id] : i \in killed} /\ captured' = captured \cup killed
        /\ \E items \in SUBSET left : \E complete \in BOOLEAN :
              list' = [list EXCEPT ![l] = [@ EXCEPT !.phase = "reaped", !.items = items, !.complete = complete]]
        /\ UNCHANGED <<env, born, ours, owed, recs, tagged, served>>
    BY <1>6, <2>1, <2>2 DEF Reaping, Reap, Elsewhere
  <2>4. list[l] \in Listings /\ killed \subseteq Items /\ left \subseteq Items
    BY <1>1, <2>1, <2>2 DEF Listings
  <2>5. list' \in [Lister -> Listings]
    <3>1. PICK items \in SUBSET left, complete \in BOOLEAN :
             list' = [list EXCEPT ![l] = [@ EXCEPT !.phase = "reaped", !.items = items, !.complete = complete]]
      BY <2>3
    <3>2. [list[l] EXCEPT !.phase = "reaped", !.items = items, !.complete = complete] \in Listings
      BY <2>4 DEF Listings
    <3> QED
      BY <1>1, <3>1, <3>2
  <2> QED
    BY <1>1, <2>3, <2>4, <2>5
<1>7. CASE Retain(l)
  <2>1. /\ list' = [list EXCEPT ![l].phase = "ready", ![l].exits = captured] /\ captured' = {}
        /\ UNCHANGED <<env, at, born, ours, dead, owed, tagged, served>>
    BY <1>7 DEF Retain, Drain
  <2>2. list' \in [Lister -> Listings]
    <3>1. PICK got : got = [[list[l] EXCEPT !.phase = "ready"] EXCEPT !.exits = captured]
      OBVIOUS
    <3>2. list' = [list EXCEPT ![l] = got]
      BY <1>1, <2>1, <3>1
    <3>3. got \in Listings
      BY <1>1, <3>1 DEF Listings
    <3> QED
      BY <1>1, <3>2, <3>3
  <2>3. recs' \in [Ids -> Records \cup {None}]
    <3>1. PICK housed, home, won : HomesAre(l, housed, home, won)
      BY <1>7, RetainIs
    <3>2. \A id \in Ids : (\E o \in won : home[o].id = id) => (CHOOSE o \in won : home[o].id = id) \in Ids
      BY <3>1 DEF HomesAre, Orphans
    <3>3. recs' = [id \in Ids |-> IF \E o \in won : home[o].id = id
                                  THEN recs[CHOOSE o \in won : home[o].id = id]
                                  ELSE IF id \in Orphans(l) THEN None ELSE recs[id]]
      BY <3>1 DEF HomesAre
    <3> QED
      BY <1>1, <3>2, <3>3
  <2> QED
    BY <1>1, <2>1, <2>2, <2>3
<1>8. CASE Get(l)
  <2>1. /\ list' = [list EXCEPT ![l] = Idle] /\ UNCHANGED <<env, at, born, ours, dead, owed, captured, tagged>>
        /\ served' = served \cup UNION {{i.run} \X Owners(Find(i.id, i.run, TRUE)) : i \in list[l].items}
        /\ recs' = [id \in Ids |-> IF \E i \in list[l].items : i.id = id
                                   THEN Find(id, (CHOOSE i \in list[l].items : i.id = id).run, TRUE)
                                   ELSE recs[id]]
    BY <1>8 DEF Get, Answered, Serve
  <2>2. \A i \in list[l].items : {i.run} \X Owners(Find(i.id, i.run, TRUE)) \subseteq Runs \X Runs
    <3> TAKE i \in list[l].items
    <3>1. i.id \in Ids /\ i.run \in Runs
      BY <1>1 DEF Listings, Items
    <3>2. Find(i.id, i.run, TRUE) \in Records \cup {None}
      BY <3>1, RecordIs
    <3> QED
      BY <3>1, <3>2 DEF Owners, Records
  <2>3. \A id \in Ids : \A r : Find(id, r, TRUE) \in Records \cup {None}
    BY RecordIs
  <2>4. recs' \in [Ids -> Records \cup {None}]
    BY <1>1, <2>1, <2>3
  <2>5. served' \subseteq Runs \X Runs
    <3> SUFFICES ASSUME NEW pair \in served' PROVE pair \in Runs \X Runs
      OBVIOUS
    <3>1. CASE pair \in served
      BY <1>1, <3>1
    <3>2. CASE pair \notin served
      <4>1. PICK i \in list[l].items : pair \in {i.run} \X Owners(Find(i.id, i.run, TRUE))
        BY <2>1, <3>2
      <4> QED
        BY <2>2, <4>1
    <3> QED
      BY <3>1, <3>2
  <2>6. list' \in [Lister -> Listings]
    BY <1>1, <1>3, <2>1
  <2> QED
    BY <1>1, <2>1, <2>4, <2>5, <2>6
<1> QED
  BY <1>4, <1>5, <1>6, <1>7, <1>8

(* Every step keeps the types.                                              *)
THEOREM LabelsTypeCorrect == LabelsSpec => []LabelsTypeOK
<1>1. LabelsInit => LabelsTypeOK
  BY DEF LabelsInit, LiveInit, LabelsTypeOK, LiveTypeOK, Idle
<1>2. LabelsTypeOK /\ [LabelsNext]_labelVars => LabelsTypeOK'
  <2>1. CASE UNCHANGED labelVars
    BY <2>1 DEF labelVars, live, LabelsTypeOK, LiveTypeOK
  <2> QED
    BY <2>1, SessionsMoveTyped, NotesTyped, ListingTyped DEF LabelsNext
<1> QED
  BY <1>1, <1>2, PTL DEF LabelsSpec

-----------------------------------------------------------------------------
(* SessionLabels: what happens to sessions                                  *)

(* When something may happen.                                               *)
LEMMA SettledIs ==
  ASSUME LabelsTypeOK, LabelsSteady
  PROVE  /\ NothingOwed => owed = {}
         /\ Settled => owed = {} /\ \A l \in Lister : ~Reading(l)
<1>1. NothingOwed => owed = {}
  BY DEF NothingOwed, LabelsSteady
<1>2. Settled => \A l \in Lister : ~Reading(l)
  <2> SUFFICES ASSUME Settled, NEW l \in Lister, Reading(l) PROVE FALSE
    OBVIOUS
  <2>1. Active \subseteq {m \in Lister : list[m].phase = "asked"}
    BY DEF Settled, LabelsSteady
  <2>2. l \in Active
    BY DEF Reading, Active
  <2>3. list[l].phase = "asked"
    BY <2>1, <2>2
  <2> QED
    BY <2>3 DEF Reading
<1>3. Settled => NothingOwed
  BY DEF Settled
<1> QED
  BY <1>1, <1>2, <1>3

(* Where a session may come to.                                             *)
LEMMA FreeIs ==
  ASSUME LabelsSteady, NEW id \in Ids
  PROVE  /\ Free("create", id) \/ Free("rename", id) => recs[id] = None
         /\ Free("appear", id) => ~Bound(id)
<1>1. env.surprises \subseteq {<<"appear", "dated">>}
  BY DEF LabelsSteady, Untouched
<1>2. \A how, when : <<how, when>> = <<"appear", "dated">> => how = "appear"
  OBVIOUS
<1>3. Free("create", id) \/ Free("rename", id) => recs[id] = None
  <2>1. ASSUME NEW how, Free(how, id), recs[id] # None PROVE how = "appear"
    <3>1. PICK when : <<how, when>> \in env.surprises
      BY <2>1 DEF Free
    <3>2. <<how, when>> = <<"appear", "dated">>
      BY <1>1, <3>1
    <3> QED
      BY <1>2, <3>2
  <2>2. "create" # "appear" /\ "rename" # "appear"
    OBVIOUS
  <2> QED
    BY <2>1, <2>2
<1>4. Free("appear", id) => ~Bound(id)
  <2> SUFFICES ASSUME Free("appear", id), recs[id] # None PROVE ~Untouched /\ recs[id].known
    BY DEF Bound
  <2>1. <<"appear", IF recs[id].known THEN "dated" ELSE "undated">> \in env.surprises
    BY DEF Free
  <2>2. <<"appear", "undated">> # <<"appear", "dated">>
    OBVIOUS
  <2>3. recs[id].known
    BY <1>1, <2>1, <2>2
  <2> QED
    BY <2>1, <2>3 DEF Untouched
<1> QED
  BY <1>3, <1>4

(* No listing is on its way, and none starts.                               *)
LEMMA NoneReads ==
  ASSUME ListingsAreTrue, \A l \in Lister : ~Reading(l), list' = list
  PROVE  ListingsAreTrue' /\ \A l \in Lister : ~Reading(l)' /\ list'[l].items = {}
<1>1. \A l \in Lister : list[l].items = {} /\ ~Reading(l) /\ list[l].phase # "listed"
  BY DEF ListingsAreTrue, Reading
<1>2. \A l \in Lister : Reading(l)' = Reading(l) /\ list'[l].items = {} /\ ~TellsAll(l)'
  BY <1>1 DEF Reading, TellsAll
<1> QED
  BY <1>1, <1>2 DEF ListingsAreTrue

(* Records stay own where no session comes.                                 *)
LEMMA RecordsStayOwn ==
  ASSUME RecordsAreOwn, recs' = recs, env' = env, \A l \in Lister : list'[l].items = {},
         \A id \in Ids : Bound(id) => at'[id] \in {at[id], None}
  PROVE  RecordsAreOwn'
<1>1. \A id \in Ids : Bound(id)' = Bound(id)
  BY DEF Bound, Untouched
<1> QED
  BY <1>1 DEF RecordsAreOwn

(* Labels stay where they are while sessions only end or begin.             *)
LEMMA LabelsStay ==
  ASSUME LabelsFollow, owed = {}, recs' = recs, env' = env, tagged' = tagged, born \subseteq born',
         \A id \in Ids : at'[id] \in tagged => at'[id] = at[id]
  PROVE  LabelsFollow'
<1> SUFFICES ASSUME NEW id \in Ids, at'[id] \in tagged' PROVE \E place \in Ids : KeptAt(at[id], id, place)'
  BY DEF LabelsFollow
<1>1. at'[id] = at[id] /\ at[id] \in tagged
  OBVIOUS
<1>2. PICK place \in Ids : KeptAt(at[id], id, place)
  BY <1>1 DEF LabelsFollow
<1>3. KeptAt(at[id], id, place)'
  BY <1>1, <1>2 DEF KeptAt, Untouched
<1> QED
  BY <1>3

(* A session starts.                                                        *)
LEMMA StartKeeps ==
  ASSUME LabelsTypeOK, LabelsSteady, LabelsInv, NEW id \in Ids, NEW r \in Runs, Create(id, r) \/ Appear(id, r)
  PROVE  LabelsInv'
<1>1. LabelsTypeOK' /\ UNCHANGED <<env, list, recs, tagged, served>>
  BY SessionsMoveTyped
<1>2. /\ Settled /\ at[id] = None /\ r \notin born /\ at' = [at EXCEPT ![id] = r] /\ born' = born \cup {r}
      /\ \/ Create(id, r) /\ owed' = owed \cup {[op |-> "create", id |-> id, run |-> r]}
         \/ Appear(id, r) /\ owed' = owed
  BY DEF Create, Appear, DriverCreates, Appears, Start
<1>3. owed = {} /\ \A l \in Lister : ~Reading(l)
  BY <1>2, SettledIs
<1>4. /\ ListingsAreTrue' /\ \A l \in Lister : ~Reading(l)' /\ list'[l].items = {}
  BY <1>1, <1>3, NoneReads DEF LabelsInv
<1>5. ~Bound(id) /\ (Create(id, r) => recs[id] = None)
  <2>1. Free("create", id) \/ Free("appear", id)
    BY DEF Create, Appear
  <2>2. Create(id, r) => Free("create", id)
    BY DEF Create
  <2> QED
    BY <2>1, <2>2, FreeIs DEF Bound
<1>6. at \in [Ids -> Runs \cup {None}] /\ at'[id] = r /\ \A other \in Ids : other # id => at'[other] = at[other]
  BY <1>2 DEF LabelsTypeOK, LiveTypeOK
<1>7. RunsStandOnce'
  <2>1. RunsStandOnce
    BY DEF LabelsInv
  <2>2. \A other \in Ids : at[other] # r
    BY <1>2, <1>6, <2>1, LiveAssumption DEF RunsStandOnce
  <2> QED
    BY <1>2, <1>6, <2>1, <2>2 DEF RunsStandOnce
<1>8. RecordsAreOwn'
  <2>1. \A other \in Ids : Bound(other) => at'[other] \in {at[other], None}
    BY <1>5, <1>6
  <2> QED
    BY <1>1, <1>4, <2>1, RecordsStayOwn DEF LabelsInv
<1>9. \A n \in owed' : NoteIsTrue(n)'
  <2> SUFFICES ASSUME NEW n \in owed' PROVE NoteIsTrue(n)'
    OBVIOUS
  <2>1. n = [op |-> "create", id |-> id, run |-> r] /\ Create(id, r) /\ owed' = {n}
    BY <1>2, <1>3
  <2> QED
    BY <1>1, <1>4, <1>5, <1>6, <2>1 DEF NoteIsTrue
<1>10. LabelsFollow'
  <2>1. r \notin tagged
    BY <1>2 DEF LabelsInv, LabelsFollow
  <2>2. \A other \in Ids : at'[other] \in tagged => at'[other] = at[other]
    BY <1>6, <2>1
  <2> QED
    BY <1>1, <1>2, <1>3, <2>2, LabelsStay DEF LabelsInv
<1>11. NoStrangers'
  BY <1>1 DEF LabelsInv, NoStrangers
<1> QED
  BY <1>1, <1>4, <1>7, <1>8, <1>9, <1>10, <1>11 DEF LabelsInv

(* Sessions end, or one is looked at.                                       *)
LEMMA EndKeeps ==
  ASSUME LabelsTypeOK, LabelsSteady, LabelsInv,
         OtherListing \/ \E id \in Ids : Close(id) \/ Exit(id) \/ Vanish(id) \/ ReadForLabels(id)
  PROVE  LabelsInv'
<1>1. LabelsTypeOK' /\ UNCHANGED <<env, list, recs, tagged, served>>
  BY SessionsMoveTyped
<1>2. at \in [Ids -> Runs \cup {None}] /\ None \notin Runs /\ tagged \subseteq Runs
  BY LiveAssumption DEF LabelsTypeOK, LiveTypeOK
<1>3. /\ Settled /\ born' = born /\ \A id \in Ids : at'[id] \in {at[id], None}
      /\ \/ owed' = owed
         \/ \E id \in Ids : /\ at[id] # None /\ at'[id] = None
                            /\ owed' = owed \cup {[op |-> "close", id |-> id, run |-> at[id]]}
         \/ \E id \in Ids : /\ at[id] # None /\ at'[id] = at[id]
                            /\ owed' = owed \cup {[op |-> "label", id |-> id, run |-> at[id]]}
  <2>1. CASE OtherListing
    BY <1>2, <2>1 DEF OtherListing, ListedElsewhere
  <2>2. CASE \E id \in Ids : Close(id) \/ Exit(id) \/ Vanish(id) \/ ReadForLabels(id)
    <3>1. PICK id \in Ids : Close(id) \/ Exit(id) \/ Vanish(id) \/ ReadForLabels(id)
      BY <2>2
    <3>2. CASE Close(id)
      BY <1>2, <3>2 DEF Close, DriverCloses
    <3>3. CASE Exit(id)
      BY <1>2, <3>3 DEF Exit, Exits
    <3>4. CASE Vanish(id)
      BY <1>2, <3>4 DEF Vanish, Vanishes
    <3>5. CASE ReadForLabels(id)
      BY <1>2, <3>5 DEF ReadForLabels, DriverShows
    <3> QED
      BY <3>1, <3>2, <3>3, <3>4, <3>5
  <2> QED
    BY <2>1, <2>2
<1>4. owed = {} /\ \A l \in Lister : ~Reading(l)
  BY <1>3, SettledIs
<1>5. /\ ListingsAreTrue' /\ \A l \in Lister : ~Reading(l)' /\ list'[l].items = {}
  BY <1>1, <1>4, NoneReads DEF LabelsInv
<1>6. RunsStandOnce'
  BY <1>3 DEF LabelsInv, RunsStandOnce
<1>7. RecordsAreOwn'
  BY <1>1, <1>3, <1>5, RecordsStayOwn DEF LabelsInv
<1>8. \A n \in owed' : NoteIsTrue(n)'
  <2> SUFFICES ASSUME NEW n \in owed' PROVE NoteIsTrue(n)'
    OBVIOUS
  <2>1. PICK id \in Ids : /\ at[id] # None /\ owed' = {n}
                          /\ \/ n = [op |-> "close", id |-> id, run |-> at[id]] /\ at'[id] = None
                             \/ n = [op |-> "label", id |-> id, run |-> at[id]] /\ at'[id] = at[id]
    BY <1>3, <1>4
  <2>2. Bound(id)' = Bound(id) /\ (Bound(id) => recs[id].run = at[id])
    BY <1>1, <2>1 DEF Bound, Untouched, LabelsInv, RecordsAreOwn
  <2>3. at'[id] = None => \A other \in Ids : at'[other] # at[id]
    <3> SUFFICES ASSUME at'[id] = None, NEW other \in Ids, at'[other] = at[id] PROVE FALSE
      OBVIOUS
    <3>1. at[other] = at[id]
      BY <1>3, <2>1
    <3>2. other = id
      BY <2>1, <3>1 DEF LabelsInv, RunsStandOnce
    <3> QED
      BY <2>1, <3>2
  <2> QED
    BY <1>1, <1>5, <2>1, <2>2, <2>3 DEF NoteIsTrue
<1>9. LabelsFollow'
  <2>1. \A id \in Ids : at'[id] \in tagged => at'[id] = at[id]
    BY <1>2, <1>3
  <2> QED
    BY <1>1, <1>3, <1>4, <2>1, LabelsStay DEF LabelsInv
<1>10. NoStrangers'
  BY <1>1 DEF LabelsInv, NoStrangers
<1> QED
  BY <1>1, <1>5, <1>6, <1>7, <1>8, <1>9, <1>10 DEF LabelsInv

(* A session is renamed, by a handler or past the service.                  *)
LEMMA RenameKeeps ==
  ASSUME LabelsTypeOK, LabelsSteady, LabelsInv, NEW from \in Ids, NEW to \in Ids, Rename(from, to) \/ MoveAside(from, to)
  PROVE  LabelsInv'
<1>1. LabelsTypeOK' /\ UNCHANGED <<env, list, recs, tagged, served>>
  BY SessionsMoveTyped
<1>2. PICK r : r = at[from]
  OBVIOUS
<1>3. /\ Settled /\ at[from] # None /\ at[to] = None /\ at' = [at EXCEPT ![from] = None, ![to] = r] /\ born' = born
      /\ \/ Rename(from, to) /\ owed' = owed \cup {[op |-> "rename", id |-> from, to |-> to, run |-> r]}
         \/ MoveAside(from, to) /\ owed' = owed /\ "rename" \in env.outside
  BY <1>2 DEF Rename, MoveAside, DriverRenames, Moves, Move
<1>4. owed = {} /\ \A l \in Lister : ~Reading(l)
  BY <1>3, SettledIs
<1>5. /\ ListingsAreTrue' /\ \A l \in Lister : ~Reading(l)' /\ list'[l].items = {}
  BY <1>1, <1>4, NoneReads DEF LabelsInv
<1>6. recs[to] = None
  <2>1. Free("rename", to)
    BY DEF Rename, MoveAside
  <2> QED
    BY <2>1, FreeIs
<1>7. MoveAside(from, to) => Untouched /\ (recs[from] # None => recs[from].known)
  <2>1. ASSUME MoveAside(from, to) PROVE Untouched
    BY <1>3, <2>1 DEF LabelsSteady, MoveAside, Moves
  <2>2. ASSUME MoveAside(from, to), recs[from] # None PROVE recs[from].known
    <3>1. <<"move", "undated">> \notin env.surprises
      BY <2>1, <2>2 DEF Untouched
    <3> QED
      BY <2>2, <3>1 DEF MoveAside
  <2> QED
    BY <2>1, <2>2
<1>8. /\ at \in [Ids -> Runs \cup {None}] /\ r \in Runs /\ r # None /\ from # to
      /\ at'[from] = None /\ at'[to] = r /\ \A id \in Ids : id \notin {from, to} => at'[id] = at[id]
  BY <1>2, <1>3, LiveAssumption DEF LabelsTypeOK, LiveTypeOK
<1>9. RunsStandOnce /\ \A id \in Ids : at[id] = r => id = from
  BY <1>2, <1>8 DEF LabelsInv, RunsStandOnce
<1>10. RunsStandOnce'
  <2>1. \A id \in Ids : at'[id] # None => at'[id] \in born'
    BY <1>2, <1>3, <1>8, <1>9 DEF RunsStandOnce
  <2>2. ASSUME NEW id \in Ids, NEW other \in Ids, at'[id] = at'[other], at'[id] # None PROVE id = other
    BY <1>8, <1>9, <2>2 DEF RunsStandOnce
  <2> QED
    BY <2>1, <2>2 DEF RunsStandOnce
<1>11. RecordsAreOwn'
  <2>1. \A id \in Ids : Bound(id) => at'[id] \in {at[id], None}
    BY <1>6, <1>8 DEF Bound
  <2> QED
    BY <1>1, <1>5, <2>1, RecordsStayOwn DEF LabelsInv
<1>12. \A n \in owed' : NoteIsTrue(n)'
  <2> SUFFICES ASSUME NEW n \in owed' PROVE NoteIsTrue(n)'
    OBVIOUS
  <2>1. n = [op |-> "rename", id |-> from, to |-> to, run |-> r] /\ owed' = {n}
    BY <1>3, <1>4
  <2>2. Bound(from)' = Bound(from) /\ (Bound(from) => recs[from].run = r)
    BY <1>1, <1>2, <1>8 DEF Bound, Untouched, LabelsInv, RecordsAreOwn
  <2> QED
    BY <1>1, <1>5, <1>6, <1>8, <2>1, <2>2 DEF NoteIsTrue
<1>13. LabelsFollow'
  <2>1. tagged' \subseteq born'
    BY <1>1, <1>3 DEF LabelsInv, LabelsFollow
  <2>2. ASSUME NEW id \in Ids, at'[id] \in tagged PROVE \E place \in Ids : KeptAt(at[id], id, place)'
    <3>1. None \notin tagged
      BY LiveAssumption DEF LabelsTypeOK
    <3>2. CASE id # to
      <4>1. at'[id] = at[id] /\ at[id] \in tagged
        BY <1>8, <2>2, <3>1, <3>2
      <4>2. PICK place \in Ids : KeptAt(at[id], id, place)
        BY <4>1 DEF LabelsInv, LabelsFollow
      <4>3. KeptAt(at[id], id, place)'
        BY <1>1, <1>4, <4>1, <4>2 DEF KeptAt, Untouched
      <4> QED
        BY <4>3
    <3>3. CASE id = to
      <4>1. at'[id] = r /\ at[from] \in tagged
        BY <1>2, <1>8, <2>2, <3>3
      <4>2. PICK place \in Ids : KeptAt(r, from, place)
        BY <1>2, <4>1 DEF LabelsInv, LabelsFollow
      <4>3. recs[place] # None /\ recs[place].run = r /\ (place = from \/ (Untouched /\ recs[place].known))
        BY <1>4, <4>2 DEF KeptAt
      <4>4. CASE Rename(from, to)
        <5>1. MoveAside(from, to) \/ owed' = {[op |-> "rename", id |-> from, to |-> to, run |-> r]}
          BY <1>3, <1>4
        <5>2. \/ Untouched /\ recs[place].known
              \/ place = from /\ owed' = {[op |-> "rename", id |-> from, to |-> to, run |-> r]}
          BY <1>7, <4>3, <5>1
        <5>3. \/ Untouched /\ recs[place].known
              \/ \E n \in owed' : n.op = "rename" /\ n.id = place /\ n.to = id
          <6>1. PICK n : n = [op |-> "rename", id |-> from, to |-> to, run |-> r]
            OBVIOUS
          <6>2. n.op = "rename" /\ n.id = from /\ n.to = to
            BY <6>1
          <6> QED
            BY <3>3, <5>2, <6>1, <6>2
        <5>4. KeptAt(at[id], id, place)'
          BY <1>1, <4>1, <4>3, <5>3 DEF KeptAt, Untouched
        <5> QED
          BY <5>4
      <4>5. CASE MoveAside(from, to)
        <5>1. KeptAt(at[id], id, place)'
          BY <1>1, <1>7, <4>1, <4>3, <4>5 DEF KeptAt, Untouched
        <5> QED
          BY <5>1
      <4> QED
        BY <4>4, <4>5
    <3> QED
      BY <3>2, <3>3
  <2> QED
    BY <1>1, <2>1, <2>2 DEF LabelsFollow
<1>14. NoStrangers'
  BY <1>1 DEF LabelsInv, NoStrangers
<1> QED
  BY <1>1, <1>5, <1>10, <1>11, <1>12, <1>13, <1>14 DEF LabelsInv

-----------------------------------------------------------------------------
(* SessionLabels: the notes of the handlers                                 *)

(* What is so when a handler makes its note, and what stays.                *)
LEMMA NoteIs ==
  ASSUME LabelsTypeOK, LabelsInv, NEW n \in owed, owed' = owed \ {n},
         UNCHANGED <<env, at, born, list>>
  PROVE  /\ NoteIsTrue(n) /\ owed = {n} /\ owed' = {} /\ \A l \in Lister : list[l].items = {}
         /\ n.id \in Ids /\ n.run \in Runs /\ (n.op = "rename" => n.to \in Ids)
         /\ RunsStandOnce' /\ ListingsAreTrue' /\ \A m \in owed' : NoteIsTrue(m)'
<1>1. NoteIsTrue(n) /\ n \in Notes
  BY DEF LabelsInv, LabelsTypeOK, LiveTypeOK
<1>2. owed = {n} /\ owed' = {} /\ \A l \in Lister : ~Reading(l)
  BY <1>1 DEF NoteIsTrue
<1>3. ListingsAreTrue' /\ \A l \in Lister : list'[l].items = {}
  BY <1>2, NoneReads DEF LabelsInv
<1>4. RunsStandOnce'
  BY DEF LabelsInv, RunsStandOnce
<1>5. n.id \in Ids /\ n.run \in Runs /\ (n.op = "rename" => n.to \in Ids)
  BY <1>1 DEF Notes
<1> QED
  BY <1>1, <1>2, <1>3, <1>4, <1>5

(* A record is own if each that is there is as it was or belongs to what    *)
(* stands at its id.                                                        *)
LEMMA RecordsMadeOwn ==
  ASSUME RecordsAreOwn, UNCHANGED <<env, at, list>>, \A l \in Lister : list[l].items = {},
         \A id \in Ids : recs'[id] # None =>
            \/ recs'[id] = recs[id]
            \/ recs'[id].of = {recs'[id].run} /\ at[id] = recs'[id].run
            \/ recs'[id].of = {recs'[id].run} /\ recs'[id].known /\ ~Untouched
  PROVE  RecordsAreOwn'
<1>1. \A id \in Ids : recs'[id] # None => recs'[id].of = {recs'[id].run}
  BY DEF RecordsAreOwn
<1>2. ASSUME NEW id \in Ids, Bound(id)' PROVE at[id] \in {None, recs'[id].run}
  <2>1. recs'[id] # None /\ (Untouched \/ ~recs'[id].known)
    BY <1>2 DEF Bound, Untouched
  <2>2. CASE recs'[id] = recs[id]
    BY <2>1, <2>2 DEF RecordsAreOwn, Bound
  <2>3. CASE at[id] = recs'[id].run
    BY <2>3
  <2> QED
    BY <2>1, <2>2, <2>3
<1> QED
  BY <1>1, <1>2 DEF RecordsAreOwn

(* The labels of a run are not lost with the note if its record is still    *)
(* there, at an id of its own.                                              *)
LEMMA NoteLosesNone ==
  ASSUME UNCHANGED <<env, at, born>>, tagged' \subseteq born, owed' = {},
         \A id \in Ids : at[id] \in tagged' =>
            \E place \in Ids : /\ recs'[place] # None /\ recs'[place].run = at[id]
                               /\ place = id \/ (Untouched /\ recs'[place].known)
  PROVE  LabelsFollow'
<1> SUFFICES ASSUME NEW id \in Ids, at[id] \in tagged' PROVE \E place \in Ids : KeptAt(at[id], id, place)'
  BY DEF LabelsFollow
<1>1. PICK place \in Ids : /\ recs'[place] # None /\ recs'[place].run = at[id]
                           /\ place = id \/ (Untouched /\ recs'[place].known)
  OBVIOUS
<1>2. KeptAt(at[id], id, place)'
  BY <1>1 DEF KeptAt, Untouched
<1> QED
  BY <1>2

(* The note of a create.                                                    *)
LEMMA NoteCreatedKeeps ==
  ASSUME LabelsTypeOK, LabelsInv, NEW n \in owed, NEW labelled \in BOOLEAN, NoteCreated(n, labelled)
  PROVE  LabelsInv'
<1>1. LabelsTypeOK' /\ owed' = owed \ {n} /\ UNCHANGED <<env, at, born, list>>
  BY NotesTyped
<1>2. /\ NoteIsTrue(n) /\ owed = {n} /\ owed' = {} /\ \A l \in Lister : list[l].items = {}
      /\ n.id \in Ids /\ n.run \in Runs
      /\ RunsStandOnce' /\ ListingsAreTrue' /\ \A m \in owed' : NoteIsTrue(m)'
  BY <1>1, NoteIs
<1>3. at[n.id] = n.run /\ recs[n.id] = None
  BY <1>2 DEF NoteIsTrue, NoteCreated
<1>4. Find(n.id, n.run, FALSE) = None /\ StillKept(n.id, n.run, FALSE) = recs
  BY <1>2, <1>3 DEF Find, StillKept, LabelsTypeOK
<1>5. PICK new : new = New(n.run, FALSE)
  OBVIOUS
<1>6. /\ recs' = IF labelled THEN [recs EXCEPT ![n.id] = new] ELSE recs
      /\ tagged' = IF labelled THEN tagged \cup {n.run} ELSE tagged
      /\ served' = served \cup ({n.run} \X Owners(None))
  BY <1>4, <1>5 DEF NoteCreated, Serve
<1>7. new # None /\ new.run = n.run /\ new.of = {n.run}
  BY <1>2, <1>5, NewIs
<1>8. recs \in [Ids -> Records \cup {None}]
  BY DEF LabelsTypeOK
<1>9. RecordsAreOwn'
  <2>1. \A id \in Ids : \/ recs'[id] = recs[id]
                        \/ recs'[id].of = {recs'[id].run} /\ at[id] = recs'[id].run
    BY <1>3, <1>6, <1>7, <1>8
  <2> QED
    BY <1>1, <1>2, <2>1, RecordsMadeOwn DEF LabelsInv
<1>10. LabelsFollow'
  <2>1. tagged' \subseteq born
    BY <1>2, <1>3, <1>6, LiveAssumption DEF LabelsInv, LabelsFollow, RunsStandOnce
  <2>2. ASSUME NEW id \in Ids, at[id] \in tagged'
        PROVE  \E place \in Ids : /\ recs'[place] # None /\ recs'[place].run = at[id]
                                  /\ place = id \/ (Untouched /\ recs'[place].known)
    <3>1. CASE labelled /\ at[id] = n.run
      <4>1. id = n.id
        BY <1>2, <1>3, <3>1, LiveAssumption DEF LabelsInv, RunsStandOnce
      <4> QED
        BY <1>6, <1>7, <1>8, <3>1, <4>1
    <3>2. CASE ~(labelled /\ at[id] = n.run)
      <4>1. at[id] \in tagged
        BY <1>6, <2>2, <3>2
      <4>2. PICK place \in Ids : KeptAt(at[id], id, place)
        BY <4>1 DEF LabelsInv, LabelsFollow
      <4>3. /\ recs[place] # None /\ recs[place].run = at[id]
            /\ place = id \/ (Untouched /\ recs[place].known)
        <5>1. n.op # "rename"
          BY DEF NoteCreated
        <5> QED
          BY <1>2, <4>2, <5>1 DEF KeptAt
      <4>4. recs'[place] = recs[place]
        BY <1>3, <1>6, <1>8, <4>3
      <4> QED
        BY <4>3, <4>4
    <3> QED
      BY <3>1, <3>2
  <2> QED
    BY <1>1, <1>2, <2>1, <2>2, NoteLosesNone
<1>11. NoStrangers'
  BY <1>6 DEF LabelsInv, NoStrangers, Owners
<1> QED
  BY <1>1, <1>2, <1>9, <1>10, <1>11 DEF LabelsInv

(* The note of a close.                                                     *)
LEMMA NoteClosedKeeps ==
  ASSUME LabelsTypeOK, LabelsInv, NEW n \in owed, NoteClosed(n)
  PROVE  LabelsInv'
<1>1. LabelsTypeOK' /\ owed' = owed \ {n} /\ UNCHANGED <<env, at, born, list>>
  BY NotesTyped
<1>2. /\ NoteIsTrue(n) /\ owed = {n} /\ owed' = {} /\ \A l \in Lister : list[l].items = {}
      /\ n.id \in Ids /\ n.run \in Runs
      /\ RunsStandOnce' /\ ListingsAreTrue' /\ \A m \in owed' : NoteIsTrue(m)'
  BY <1>1, NoteIs
<1>3. /\ n.op = "close" /\ recs' = [recs EXCEPT ![n.id] = None] /\ tagged' = tagged /\ served' = served
  BY DEF NoteClosed
<1>4. /\ at[n.id] = None /\ \A id \in Ids : at[id] # n.run
      /\ Bound(n.id) => recs[n.id].run = n.run
  BY <1>2, <1>3 DEF NoteIsTrue
<1>5. recs \in [Ids -> Records \cup {None}] /\ None \notin tagged
  BY LiveAssumption DEF LabelsTypeOK
<1>6. RecordsAreOwn'
  <2>1. \A id \in Ids : recs'[id] # None => recs'[id] = recs[id]
    BY <1>3, <1>5
  <2> QED
    BY <1>1, <1>2, <2>1, RecordsMadeOwn DEF LabelsInv
<1>7. LabelsFollow'
  <2>1. tagged' \subseteq born
    BY <1>3 DEF LabelsInv, LabelsFollow
  <2>2. ASSUME NEW id \in Ids, at[id] \in tagged'
        PROVE  \E place \in Ids : /\ recs'[place] # None /\ recs'[place].run = at[id]
                                  /\ place = id \/ (Untouched /\ recs'[place].known)
    <3>1. PICK place \in Ids : KeptAt(at[id], id, place)
      BY <1>3, <2>2 DEF LabelsInv, LabelsFollow
    <3>2. recs[place] # None /\ recs[place].run = at[id] /\ (place = id \/ (Untouched /\ recs[place].known))
      BY <1>2, <1>3, <3>1 DEF KeptAt
    <3>3. place # n.id
      BY <1>3, <1>4, <1>5, <2>2, <3>2 DEF Bound
    <3> QED
      BY <1>3, <1>5, <3>2, <3>3
  <2> QED
    BY <1>1, <1>2, <2>1, <2>2, NoteLosesNone
<1>8. NoStrangers'
  BY <1>3 DEF LabelsInv, NoStrangers
<1> QED
  BY <1>1, <1>2, <1>6, <1>7, <1>8 DEF LabelsInv

(* The note of a rename.                                                    *)
LEMMA NoteRenamedKeeps ==
  ASSUME LabelsTypeOK, LabelsInv, NEW n \in owed, NoteRenamed(n)
  PROVE  LabelsInv'
<1>1. LabelsTypeOK' /\ owed' = owed \ {n} /\ UNCHANGED <<env, at, born, list>>
  BY NotesTyped
<1>2. /\ NoteIsTrue(n) /\ owed = {n} /\ owed' = {} /\ \A l \in Lister : list[l].items = {}
      /\ n.id \in Ids /\ n.run \in Runs /\ (n.op = "rename" => n.to \in Ids)
      /\ RunsStandOnce' /\ ListingsAreTrue' /\ \A m \in owed' : NoteIsTrue(m)'
  BY <1>1, NoteIs
<1>3. PICK moved : moved = [recs[n.id] EXCEPT !.after = Active]
  OBVIOUS
<1>4. /\ n.op = "rename" /\ tagged' = tagged /\ served' = served
      /\ recs' = IF recs[n.id] = None THEN recs ELSE [recs EXCEPT ![n.id] = None, ![n.to] = moved]
  BY <1>3 DEF NoteRenamed
<1>5. /\ at[n.to] = n.run /\ at[n.id] = None /\ n.id # n.to /\ recs[n.to] = None
      /\ Bound(n.id) => recs[n.id].run = n.run
  BY <1>2, <1>4 DEF NoteIsTrue
<1>6. recs \in [Ids -> Records \cup {None}] /\ None \notin tagged /\ n.to \in Ids /\ None \notin Runs
  BY <1>2, <1>4, LiveAssumption DEF LabelsTypeOK
<1>7. recs[n.id] # None => /\ moved # None /\ moved.run = recs[n.id].run /\ moved.known = recs[n.id].known
                           /\ moved.of = recs[n.id].of /\ moved.of = {moved.run}
  <2> SUFFICES ASSUME recs[n.id] # None
               PROVE  /\ moved # None /\ moved.run = recs[n.id].run /\ moved.known = recs[n.id].known
                      /\ moved.of = recs[n.id].of /\ moved.of = {moved.run}
    OBVIOUS
  <2>1. recs[n.id] \in Records /\ Active \subseteq Lister
    BY <1>2, <1>6 DEF Active
  <2>2. moved \in Records /\ moved.run = recs[n.id].run /\ moved.known = recs[n.id].known /\ moved.of = recs[n.id].of
    BY <1>3, <2>1 DEF Records
  <2> QED
    BY <1>2, <2>2, LabelRecordAssumption DEF LabelsInv, RecordsAreOwn
<1>8. \A id \in Ids : recs'[id] = IF recs[n.id] = None THEN recs[id]
                                  ELSE IF id = n.to THEN moved ELSE IF id = n.id THEN None ELSE recs[id]
  BY <1>2, <1>4, <1>5, <1>6
<1>9. RecordsAreOwn'
  <2>1. recs[n.id] # None => at[n.to] = moved.run \/ (moved.known /\ ~Untouched)
    BY <1>5, <1>7 DEF Bound
  <2>2. \A id \in Ids : recs'[id] # None =>
            \/ recs'[id] = recs[id]
            \/ recs'[id].of = {recs'[id].run} /\ at[id] = recs'[id].run
            \/ recs'[id].of = {recs'[id].run} /\ recs'[id].known /\ ~Untouched
    BY <1>7, <1>8, <2>1
  <2> QED
    BY <1>1, <1>2, <2>2, RecordsMadeOwn DEF LabelsInv
<1>10. LabelsFollow'
  <2>1. tagged' \subseteq born
    BY <1>4 DEF LabelsInv, LabelsFollow
  <2>2. ASSUME NEW id \in Ids, at[id] \in tagged'
        PROVE  \E place \in Ids : /\ recs'[place] # None /\ recs'[place].run = at[id]
                                  /\ place = id \/ (Untouched /\ recs'[place].known)
    <3>1. PICK place \in Ids : KeptAt(at[id], id, place)
      BY <1>4, <2>2 DEF LabelsInv, LabelsFollow
    <3>2. CASE place = n.id
      <4>1. recs[n.id] # None /\ recs[n.id].run = at[id]
        BY <3>1, <3>2 DEF KeptAt
      <4>2. n.to = id
        <5>1. id # n.id
          BY <1>4, <1>5, <1>6, <2>2
        <5>2. CASE Untouched
          <6>1. at[id] = at[n.to] /\ at[n.to] # None
            BY <1>2, <1>5, <1>6, <4>1, <5>2 DEF Bound
          <6> QED
            BY <1>6, <6>1 DEF LabelsInv, RunsStandOnce
        <5>3. CASE ~Untouched
          BY <1>2, <3>1, <3>2, <5>1, <5>3 DEF KeptAt
        <5> QED
          BY <5>2, <5>3
      <4> QED
        BY <1>7, <1>8, <4>1, <4>2
    <3>3. CASE place # n.id
      <4>1. recs[place] # None /\ recs[place].run = at[id] /\ (place = id \/ (Untouched /\ recs[place].known))
        BY <1>2, <3>1, <3>3 DEF KeptAt
      <4>2. recs'[place] = recs[place]
        BY <1>5, <1>8, <3>3, <4>1
      <4> QED
        BY <4>1, <4>2
    <3> QED
      BY <3>2, <3>3
  <2> QED
    BY <1>1, <1>2, <2>1, <2>2, NoteLosesNone
<1>11. NoStrangers'
  BY <1>4 DEF LabelsInv, NoStrangers
<1> QED
  BY <1>1, <1>2, <1>9, <1>10, <1>11 DEF LabelsInv

(* The note of a label write.                                               *)
LEMMA MergeKeeps ==
  ASSUME LabelsTypeOK, LabelsSteady, LabelsInv, NEW n \in owed, NEW adds \in BOOLEAN, Merge(n, adds)
  PROVE  LabelsInv'
<1>1. LabelsTypeOK' /\ owed' = owed \ {n} /\ UNCHANGED <<env, at, born, list>>
  BY NotesTyped
<1>2. /\ NoteIsTrue(n) /\ owed = {n} /\ owed' = {} /\ \A l \in Lister : list[l].items = {}
      /\ n.id \in Ids /\ n.run \in Runs
      /\ RunsStandOnce' /\ ListingsAreTrue' /\ \A m \in owed' : NoteIsTrue(m)'
  BY <1>1, NoteIs
<1>3. n.op = "label" /\ at[n.id] = n.run
  BY <1>2 DEF NoteIsTrue, Merge
<1>4. recs \in [Ids -> Records \cup {None}] /\ None \notin tagged /\ None \notin Runs /\ recs[n.id] \in Records \cup {None}
  BY <1>2, LiveAssumption DEF LabelsTypeOK
<1>5. PICK found : found = Find(n.id, n.run, TRUE)
  OBVIOUS
<1>6. found # None => found \in Records /\ found = recs[n.id] /\ found.run = n.run /\ found.of = {n.run}
  <2> SUFFICES ASSUME found # None
               PROVE  found \in Records /\ found = recs[n.id] /\ found.run = n.run /\ found.of = {n.run}
    OBVIOUS
  <2>1. found = recs[n.id] /\ found \in Records /\ (found.known => Same(found.run, n.run))
    BY <1>4, <1>5 DEF Find
  <2>2. CASE found.known
    <3>1. found.run \in Runs /\ n.run \in Runs
      BY <1>2, <2>1 DEF Records
    <3>2. found.run = n.run
      BY <2>1, <2>2, <3>1 DEF LabelsSteady
    <3> QED
      BY <1>2, <2>1, <3>2 DEF LabelsInv, RecordsAreOwn
  <2>3. CASE ~found.known
    <3>1. Bound(n.id)
      BY <2>1, <2>3 DEF Bound
    <3> QED
      BY <1>2, <1>3, <1>4, <2>1, <3>1 DEF LabelsInv, RecordsAreOwn
  <2> QED
    BY <2>2, <2>3
<1>7. Owners(found) \subseteq {n.run}
  BY <1>6 DEF Owners
<1>8. PICK merged : merged = IF found = None THEN New(n.run, TRUE)
                             ELSE [found EXCEPT !.run = IF found.known THEN @ ELSE n.run,
                                                !.known = TRUE,
                                                !.of = @ \cup {n.run},
                                                !.after = Active]
  OBVIOUS
<1>9. merged # None /\ merged.run = n.run /\ merged.of = {n.run}
  <2>1. CASE found = None
    BY <1>2, <1>8, <2>1, NewIs
  <2>2. CASE found # None
    <3>1. Active \subseteq Lister
      BY DEF Active
    <3>2. merged \in Records /\ merged.run = n.run /\ merged.of = {n.run}
      BY <1>2, <1>6, <1>8, <2>2, <3>1 DEF Records
    <3> QED
      BY <3>2, LabelRecordAssumption
  <2> QED
    BY <2>1, <2>2
<1>10. /\ recs' = [recs EXCEPT ![n.id] = IF adds THEN merged ELSE None]
       /\ tagged' = IF adds THEN tagged \cup {n.run} ELSE tagged \ {n.run}
       /\ served' = IF adds THEN served \cup ({n.run} \X Owners(found)) ELSE served
  BY <1>5, <1>8 DEF Merge, Without, Serve
<1>11. \A id \in Ids : recs'[id] = IF id # n.id THEN recs[id] ELSE IF adds THEN merged ELSE None
  BY <1>2, <1>4, <1>10
<1>12. RecordsAreOwn'
  <2>1. \A id \in Ids : recs'[id] # None =>
            \/ recs'[id] = recs[id]
            \/ recs'[id].of = {recs'[id].run} /\ at[id] = recs'[id].run
    BY <1>3, <1>9, <1>11
  <2> QED
    BY <1>1, <1>2, <2>1, RecordsMadeOwn DEF LabelsInv
<1>13. LabelsFollow'
  <2>1. tagged' \subseteq born
    BY <1>2, <1>3, <1>4, <1>10 DEF LabelsInv, LabelsFollow, RunsStandOnce
  <2>2. ASSUME NEW id \in Ids, at[id] \in tagged'
        PROVE  \E place \in Ids : /\ recs'[place] # None /\ recs'[place].run = at[id]
                                  /\ place = id \/ (Untouched /\ recs'[place].known)
    <3>1. CASE at[id] = n.run
      <4>1. adds
        BY <1>10, <2>2, <3>1
      <4>2. id = n.id
        BY <1>2, <1>3, <1>4, <3>1 DEF LabelsInv, RunsStandOnce
      <4> QED
        BY <1>9, <1>11, <3>1, <4>1, <4>2
    <3>2. CASE at[id] # n.run
      <4>1. at[id] \in tagged /\ id # n.id
        BY <1>3, <1>10, <2>2, <3>2
      <4>2. PICK place \in Ids : KeptAt(at[id], id, place)
        BY <4>1 DEF LabelsInv, LabelsFollow
      <4>3. recs[place] # None /\ recs[place].run = at[id] /\ (place = id \/ (Untouched /\ recs[place].known))
        BY <1>2, <1>3, <4>2 DEF KeptAt
      <4>4. place # n.id
        <5>1. SUFFICES ASSUME place = n.id PROVE FALSE
          OBVIOUS
        <5>2. Bound(n.id)
          BY <4>1, <4>3, <5>1 DEF Bound
        <5>3. recs[n.id].run = n.run
          BY <1>2, <1>3, <1>4, <5>2 DEF LabelsInv, RecordsAreOwn
        <5> QED
          BY <3>2, <4>3, <5>1, <5>3
      <4> QED
        BY <1>11, <4>3, <4>4
    <3> QED
      BY <3>1, <3>2
  <2> QED
    BY <1>1, <1>2, <2>1, <2>2, NoteLosesNone
<1>14. NoStrangers'
  <2>1. \A p \in {n.run} \X Owners(found) : p[1] = p[2]
    BY <1>7
  <2> QED
    BY <1>10, <2>1 DEF LabelsInv, NoStrangers
<1> QED
  BY <1>1, <1>2, <1>12, <1>13, <1>14 DEF LabelsInv

-----------------------------------------------------------------------------
(* SessionLabels: listings                                                  *)

(* One listing moves on, while no other is on its way.                      *)
LEMMA ListingMovesOn ==
  ASSUME ListingsAreTrue, NEW l \in Lister, NEW new, list \in [Lister -> Listings], list' = [list EXCEPT ![l] = new],
         \A m \in Lister : m # l => ~Reading(m),
         new.phase \in {"listed", "reaped", "ready"} \/ new.items = {},
         \A i \in new.items : at'[i.id] \in {i.run, None},
         \A i, j \in new.items : i.id = j.id \/ i.run = j.run => i = j,
         \A id \in Ids : new.phase = "listed" \/ (new.phase \in {"reaped", "ready"} /\ new.complete)
                            => (at'[id] # None => [id |-> id, run |-> at'[id]] \in new.items)
  PROVE  ListingsAreTrue' /\ list'[l] = new /\ \A m \in Lister : m # l => list'[m].items = {}
<1>1. list'[l] = new /\ \A m \in Lister : m # l => list'[m] = list[m] /\ list[m].items = {} /\ ~Reading(m)
  BY DEF ListingsAreTrue
<1>2. \A m \in Lister : m # l => ~Reading(m)' /\ ~TellsAll(m)' /\ list'[m].items = {}
  BY <1>1 DEF Reading, TellsAll
<1>3. /\ Reading(l)' = (new.phase \in {"listed", "reaped", "ready"})
      /\ TellsAll(l)' = (new.phase = "listed" \/ (new.phase \in {"listed", "reaped", "ready"} /\ new.complete))
  BY <1>1 DEF Reading, TellsAll
<1>4. \A m \in Lister : \A i \in list'[m].items : at'[i.id] \in {i.run, None}
  BY <1>1, <1>2
<1>5. \A m \in Lister : \A i, j \in list'[m].items : i.id = j.id \/ i.run = j.run => i = j
  BY <1>1, <1>2
<1>6. \A m \in Lister, id \in Ids : TellsAll(m)' /\ at'[id] # None => [id |-> id, run |-> at'[id]] \in list'[m].items
  BY <1>1, <1>2, <1>3
<1>7. /\ \A m, k \in Lister : Reading(m)' /\ Reading(k)' => m = k
      /\ \A m \in Lister : ~Reading(m)' => list'[m].items = {}
  BY <1>1, <1>2, <1>3
<1> QED
  BY <1>1, <1>2, <1>4, <1>5, <1>6, <1>7 DEF ListingsAreTrue

(* The one that is on its way.                                              *)
LEMMA OnItsWay ==
  ASSUME LabelsInv, NEW l \in Lister, Reading(l)
  PROVE  /\ \A m \in Lister : m # l => ~Reading(m) /\ list[m].items = {}
         /\ \A i \in list[l].items : at[i.id] \in {i.run, None}
         /\ \A i, j \in list[l].items : i.id = j.id \/ i.run = j.run => i = j
         /\ \A id \in Ids : TellsAll(l) /\ at[id] # None => [id |-> id, run |-> at[id]] \in list[l].items
         /\ \A id \in Ids : Bound(id) => \A i \in list[l].items : i.id = id => i.run = recs[id].run
  BY DEF LabelsInv, ListingsAreTrue, RecordsAreOwn

(* A listing is asked for.                                                  *)
LEMMA RequestKeepsLabels ==
  ASSUME LabelsTypeOK, LabelsSteady, LabelsInv, NEW l \in Lister, Request(l)
  PROVE  LabelsInv'
<1>1. LabelsTypeOK' /\ UNCHANGED <<env, born, owed, tagged>>
  BY ListingTyped
<1>2. /\ NothingOwed /\ list[l].phase = "idle" /\ list' = [list EXCEPT ![l] = [Idle EXCEPT !.phase = "asked"]]
      /\ at' = at /\ served' = served
      /\ recs' = [id \in Ids |-> IF recs[id] = None THEN None ELSE [recs[id] EXCEPT !.after = @ \ {l}]]
  BY DEF Request, Ask
<1>3. owed = {} /\ list \in [Lister -> Listings] /\ recs \in [Ids -> Records \cup {None}]
  BY <1>2, SettledIs DEF LabelsTypeOK, LiveTypeOK, Listings
<1>4. list'[l].phase = "asked" /\ list'[l].items = {} /\ \A m \in Lister : m # l => list'[m] = list[m]
  BY <1>2, <1>3 DEF Idle
<1>5. \A m \in Lister : Reading(m)' = Reading(m) /\ TellsAll(m)' = TellsAll(m) /\ list'[m].items = list[m].items
  <2>1. ~Reading(l) /\ ~TellsAll(l) /\ list[l].items = {}
    BY <1>2 DEF Reading, TellsAll, LabelsInv, ListingsAreTrue
  <2> QED
    BY <1>4, <2>1 DEF Reading, TellsAll
<1>6. ListingsAreTrue' /\ RunsStandOnce'
  BY <1>1, <1>2, <1>5 DEF LabelsInv, ListingsAreTrue, RunsStandOnce
<1>7. \A id \in Ids : /\ recs'[id] = None <=> recs[id] = None
                      /\ recs[id] # None => /\ recs'[id].run = recs[id].run /\ recs'[id].known = recs[id].known
                                            /\ recs'[id].of = recs[id].of
  <2> TAKE id \in Ids
  <2>1. CASE recs[id] = None
    BY <1>2, <2>1
  <2>2. CASE recs[id] # None
    <3>1. recs[id] \in Records /\ recs'[id] = [recs[id] EXCEPT !.after = @ \ {l}]
      BY <1>2, <1>3, <2>2
    <3>2. recs'[id] \in Records
      BY <3>1 DEF Records
    <3> QED
      BY <2>2, <3>1, <3>2, LabelRecordAssumption DEF Records
  <2> QED
    BY <2>1, <2>2
<1>8. RecordsAreOwn'
  <2>1. \A id \in Ids : Bound(id)' = Bound(id)
    BY <1>1, <1>7 DEF Bound, Untouched
  <2> QED
    BY <1>2, <1>5, <1>7, <2>1 DEF LabelsInv, RecordsAreOwn, Bound
<1>9. LabelsFollow'
  BY <1>1, <1>2, <1>7 DEF LabelsInv, LabelsFollow, KeptAt, Untouched
<1>10. NoStrangers' /\ \A n \in owed' : NoteIsTrue(n)'
  BY <1>1, <1>2, <1>3 DEF LabelsInv, NoStrangers
<1> QED
  BY <1>1, <1>6, <1>8, <1>9, <1>10 DEF LabelsInv

(* The driver enumerates.                                                   *)
LEMMA EnumerateKeepsLabels ==
  ASSUME LabelsTypeOK, LabelsSteady, LabelsInv, NEW l \in Lister, Listing(l)
  PROVE  LabelsInv'
<1>1. LabelsTypeOK' /\ UNCHANGED <<env, born, owed, tagged>>
  BY ListingTyped
<1>2. PICK new : new = [list[l] EXCEPT !.phase = "listed", !.items = {i \in Items : at[i.id] = i.run}]
  OBVIOUS
<1>3. Settled /\ list' = [list EXCEPT ![l] = new] /\ UNCHANGED <<at, recs, served>>
  BY <1>2 DEF Listing, Enumerate, Elsewhere
<1>4. /\ owed = {} /\ \A m \in Lister : ~Reading(m) /\ list \in [Lister -> Listings]
      /\ at \in [Ids -> Runs \cup {None}]
  BY <1>3, SettledIs DEF LabelsTypeOK, LiveTypeOK, Listings
<1>5. new.phase = "listed" /\ new.items = {i \in Items : at[i.id] = i.run}
  BY <1>2, <1>4 DEF Listings
<1>6. RunsStandOnce /\ RunsStandOnce'
  BY <1>1, <1>3 DEF LabelsInv, RunsStandOnce
<1>7. \A i, j \in new.items : i.id = j.id \/ i.run = j.run => i = j
  BY <1>5, <1>6, LiveAssumption DEF Items, RunsStandOnce
<1>8. \A id \in Ids : at[id] # None => [id |-> id, run |-> at[id]] \in new.items
  BY <1>4, <1>5 DEF Items
<1>9. ListingsAreTrue' /\ list'[l] = new /\ \A m \in Lister : m # l => list'[m].items = {}
  BY <1>3, <1>4, <1>5, <1>7, <1>8, ListingMovesOn DEF LabelsInv
<1>10. RecordsAreOwn'
  <2>1. \A id \in Ids : Bound(id)' = Bound(id)
    BY <1>1, <1>3 DEF Bound, Untouched
  <2>2. ASSUME NEW id \in Ids, Bound(id), NEW m \in Lister, NEW i \in list'[m].items, i.id = id
        PROVE  i.run = recs[id].run
    <3>1. at[id] = i.run /\ i.run \in Runs
      BY <1>5, <1>9, <2>2 DEF Items
    <3> QED
      BY <2>2, <3>1, LiveAssumption DEF LabelsInv, RecordsAreOwn
  <2> QED
    BY <1>3, <2>1, <2>2 DEF LabelsInv, RecordsAreOwn
<1>11. LabelsFollow'
  BY <1>1, <1>3, <1>4, LabelsStay DEF LabelsInv
<1>12. NoStrangers' /\ \A n \in owed' : NoteIsTrue(n)'
  BY <1>1, <1>3, <1>4 DEF LabelsInv, NoStrangers
<1> QED
  BY <1>1, <1>6, <1>9, <1>10, <1>11, <1>12 DEF LabelsInv

(* The driver removes what has exited.                                      *)
LEMMA ReapKeepsLabels ==
  ASSUME LabelsTypeOK, LabelsSteady, LabelsInv, NEW l \in Lister, Reaping(l)
  PROVE  LabelsInv'
<1>1. LabelsTypeOK' /\ UNCHANGED <<env, born, owed, tagged>>
  BY ListingTyped
<1>2. PICK killed : killed = {i \in {j \in list[l].items : j.run \in dead} : at[i.id] # None}
  OBVIOUS
<1>3. PICK left : left = list[l].items \ killed
  OBVIOUS
<1>4. /\ NothingOwed /\ list[l].phase = "listed" /\ UNCHANGED <<recs, served>>
      /\ at' = [id \in Ids |-> IF \E i \in killed : i.id = id THEN None ELSE at[id]]
      /\ \E items \in SUBSET left : \E complete \in BOOLEAN :
            /\ complete => items = left
            /\ list' = [list EXCEPT ![l] = [@ EXCEPT !.phase = "reaped", !.items = items, !.complete = complete]]
  BY <1>2, <1>3 DEF Reaping, Reap, Elsewhere
<1>5. PICK items \in SUBSET left, complete \in BOOLEAN :
         /\ complete => items = left
         /\ list' = [list EXCEPT ![l] = [@ EXCEPT !.phase = "reaped", !.items = items, !.complete = complete]]
  BY <1>4
<1>6. owed = {} /\ list \in [Lister -> Listings] /\ at \in [Ids -> Runs \cup {None}] /\ list[l].items \subseteq Items
  BY <1>4, SettledIs DEF LabelsTypeOK, LiveTypeOK, Listings
<1>7. PICK new : new = [list[l] EXCEPT !.phase = "reaped", !.items = items, !.complete = complete]
  OBVIOUS
<1>8. list' = [list EXCEPT ![l] = new] /\ new.phase = "reaped" /\ new.items = items /\ new.complete = complete
  BY <1>5, <1>6, <1>7 DEF Listings
<1>9. Reading(l) /\ TellsAll(l)
  BY <1>4 DEF Reading, TellsAll
<1>10. /\ \A m \in Lister : m # l => ~Reading(m) /\ list[m].items = {}
       /\ \A i \in list[l].items : at[i.id] \in {i.run, None}
       /\ \A i, j \in list[l].items : i.id = j.id \/ i.run = j.run => i = j
       /\ \A id \in Ids : at[id] # None => [id |-> id, run |-> at[id]] \in list[l].items
       /\ \A id \in Ids : Bound(id) => \A i \in list[l].items : i.id = id => i.run = recs[id].run
  BY <1>9, OnItsWay
<1>11. items \subseteq list[l].items /\ killed \subseteq list[l].items
  BY <1>2, <1>3
<1>12. \A id \in Ids : at'[id] = IF \E i \in killed : i.id = id THEN None ELSE at[id]
  BY <1>4
<1>13. \A i \in items : at'[i.id] \in {i.run, None}
  BY <1>6, <1>10, <1>11, <1>12 DEF Items
<1>14. \A id \in Ids : complete => (at'[id] # None => [id |-> id, run |-> at'[id]] \in items)
  <2> SUFFICES ASSUME NEW id \in Ids, complete, at'[id] # None PROVE [id |-> id, run |-> at'[id]] \in items
    OBVIOUS
  <2>1. at'[id] = at[id] /\ at[id] # None /\ ~\E i \in killed : i.id = id
    BY <1>12
  <2>2. PICK item : item = [id |-> id, run |-> at[id]]
    OBVIOUS
  <2>3. item \in list[l].items /\ item.id = id
    BY <1>10, <2>1, <2>2
  <2>4. item \in left
    BY <1>3, <2>1, <2>3
  <2> QED
    BY <1>5, <2>1, <2>2, <2>4
<1>15. ListingsAreTrue' /\ list'[l] = new /\ \A m \in Lister : m # l => list'[m].items = {}
  <2>1. \A i, j \in items : i.id = j.id \/ i.run = j.run => i = j
    BY <1>10, <1>11
  <2> QED
    BY <1>6, <1>8, <1>10, <1>13, <1>14, <2>1, ListingMovesOn DEF LabelsInv
<1>16. RunsStandOnce'
  BY <1>1, <1>12 DEF LabelsInv, RunsStandOnce
<1>17. RecordsAreOwn'
  <2>1. \A id \in Ids : Bound(id)' = Bound(id)
    BY <1>1, <1>4 DEF Bound, Untouched
  <2>2. ASSUME NEW id \in Ids, Bound(id), NEW m \in Lister, NEW i \in list'[m].items, i.id = id
        PROVE  i.run = recs[id].run
    BY <1>8, <1>10, <1>11, <1>15, <2>2
  <2>3. ASSUME NEW id \in Ids, Bound(id) PROVE at'[id] \in {None, recs[id].run}
    BY <1>12, <2>3 DEF LabelsInv, RecordsAreOwn
  <2>4. \A id \in Ids : recs[id] # None => recs[id].of = {recs[id].run}
    BY DEF LabelsInv, RecordsAreOwn
  <2> QED
    BY <1>4, <2>1, <2>2, <2>3, <2>4 DEF RecordsAreOwn
<1>18. LabelsFollow'
  <2>1. None \notin tagged
    BY LiveAssumption DEF LabelsTypeOK
  <2>2. \A id \in Ids : at'[id] \in tagged => at'[id] = at[id]
    BY <1>12, <2>1
  <2> QED
    BY <1>1, <1>4, <1>6, <2>2, LabelsStay DEF LabelsInv
<1>19. NoStrangers' /\ \A n \in owed' : NoteIsTrue(n)'
  BY <1>1, <1>4, <1>6 DEF LabelsInv, NoStrangers
<1> QED
  BY <1>1, <1>15, <1>16, <1>17, <1>18, <1>19 DEF LabelsInv

(* A complete listing takes records to their sessions, and drops the rest.  *)
LEMMA RetainKeepsLabels ==
  ASSUME LabelsTypeOK, LabelsSteady, LabelsInv, NEW l \in Lister, Retain(l)
  PROVE  LabelsInv'
<1>1. LabelsTypeOK' /\ UNCHANGED <<env, born, owed, tagged>>
  BY ListingTyped
<1>2. /\ NothingOwed /\ list[l].phase = "reaped" /\ UNCHANGED <<at, served>>
      /\ list' = [list EXCEPT ![l].phase = "ready", ![l].exits = captured]
  BY DEF Retain, Drain
<1>3. owed = {} /\ list \in [Lister -> Listings] /\ list[l].items \subseteq Items /\ recs \in [Ids -> Records \cup {None}]
  BY <1>2, SettledIs DEF LabelsTypeOK, LiveTypeOK, Listings
<1>4. Reading(l) /\ (TellsAll(l) <=> list[l].complete)
  BY <1>2 DEF Reading, TellsAll
<1>5. /\ \A m \in Lister : m # l => ~Reading(m) /\ list[m].items = {}
      /\ \A i \in list[l].items : at[i.id] \in {i.run, None}
      /\ \A i, j \in list[l].items : i.id = j.id \/ i.run = j.run => i = j
      /\ \A id \in Ids : list[l].complete /\ at[id] # None => [id |-> id, run |-> at[id]] \in list[l].items
      /\ \A id \in Ids : Bound(id) => \A i \in list[l].items : i.id = id => i.run = recs[id].run
  BY <1>4, OnItsWay
<1>6. PICK new : new = [[list[l] EXCEPT !.phase = "ready"] EXCEPT !.exits = captured]
  OBVIOUS
<1>7. list' = [list EXCEPT ![l] = new] /\ new.phase = "ready" /\ new.items = list[l].items /\ new.complete = list[l].complete
  BY <1>2, <1>3, <1>6 DEF Listings
<1>8. ListingsAreTrue' /\ list'[l] = new /\ \A m \in Lister : m # l => list'[m].items = {}
  <2>1. at' = at
    BY <1>2
  <2>2. \A i \in new.items : at'[i.id] \in {i.run, None}
    BY <1>5, <1>7, <2>1
  <2>3. \A i, j \in new.items : i.id = j.id \/ i.run = j.run => i = j
    BY <1>5, <1>7
  <2>4. \A id \in Ids : new.complete => (at'[id] # None => [id |-> id, run |-> at'[id]] \in new.items)
    BY <1>5, <1>7, <2>1
  <2>5. list' = [list EXCEPT ![l] = new] /\ new.phase = "ready"
    BY <1>7
  <2> QED
    BY <1>3, <1>5, <2>2, <2>3, <2>4, <2>5, ListingMovesOn DEF LabelsInv
<1>9. RunsStandOnce'
  BY <1>1, <1>2 DEF LabelsInv, RunsStandOnce
<1>10. PICK housed, home, won : HomesAre(l, housed, home, won)
  BY RetainIs
<1>11. /\ housed \subseteq Orphans(l) /\ won \subseteq housed /\ Orphans(l) \subseteq Ids
       /\ \A o \in Orphans(l) : recs[o] # None /\ list[l].complete /\ ~\E i \in list[l].items : i.id = o
  BY <1>10 DEF HomesAre, Orphans
<1>12. \A o \in housed : home[o] \in list[l].items /\ home[o] \in Items /\ recs[o].known /\ home[o].run = recs[o].run
  <2> TAKE o \in housed
  <2>1. home[o] \in list[l].items /\ recs[o].known /\ Same(home[o].run, recs[o].run)
    BY <1>10 DEF HomesAre, Homes
  <2>2. home[o] \in Items /\ home[o].run \in Runs /\ recs[o].run \in Runs
    BY <1>3, <1>11, <2>1 DEF Items, Records
  <2> QED
    BY <2>1, <2>2 DEF LabelsSteady
<1>13. \A id \in Ids :
          \/ \E o \in won : home[o].id = id /\ recs[id] = None /\ recs'[id] = recs[o]
          \/ /\ ~\E o \in won : home[o].id = id
             /\ recs'[id] = IF id \in Orphans(l) THEN None ELSE recs[id]
  <2> TAKE id \in Ids
  <2>1. CASE \E o \in won : home[o].id = id
    <3>1. PICK o : o = CHOOSE x \in won : home[x].id = id
      OBVIOUS
    <3>2. o \in won /\ home[o].id = id
      BY <2>1, <3>1
    <3>3. recs'[id] = recs[o]
      BY <1>10, <2>1, <3>1 DEF HomesAre
    <3>4. recs[home[o].id] = None
      BY <1>10, <1>11, <3>2 DEF HomesAre
    <3> QED
      BY <3>2, <3>3, <3>4
  <2>2. CASE ~\E o \in won : home[o].id = id
    BY <1>10, <2>2 DEF HomesAre
  <2> QED
    BY <2>1, <2>2
<1>14. RecordsAreOwn'
  <2>1. ASSUME NEW id \in Ids, recs'[id] # None
        PROVE  /\ recs'[id].of = {recs'[id].run}
               /\ Bound(id)' => /\ at[id] \in {None, recs'[id].run}
                                /\ \A i \in list[l].items : i.id = id => i.run = recs'[id].run
    <3>1. CASE \E o \in won : home[o].id = id /\ recs[id] = None /\ recs'[id] = recs[o]
      <4>1. PICK o \in won : home[o].id = id /\ recs'[id] = recs[o]
        BY <3>1
      <4>2. o \in Ids /\ recs[o] # None /\ home[o] \in list[l].items /\ home[o].run = recs[o].run
        BY <1>11, <1>12
      <4>3. recs[o].of = {recs[o].run}
        BY <4>2 DEF LabelsInv, RecordsAreOwn
      <4> QED
        BY <1>5, <4>1, <4>2, <4>3
    <3>2. CASE recs'[id] = recs[id]
      <4>1. Bound(id)' => Bound(id)
        BY <1>1, <3>2 DEF Bound, Untouched
      <4> QED
        BY <1>5, <2>1, <3>2, <4>1 DEF LabelsInv, RecordsAreOwn
    <3> QED
      BY <1>13, <2>1, <3>1, <3>2
  <2>2. \A m \in Lister, id \in Ids : \A i \in list'[m].items : i.id = id => m = l /\ i \in list[l].items
    BY <1>7, <1>8
  <2>3. \A id \in Ids : Bound(id)' => recs'[id] # None
    BY DEF Bound
  <2> QED
    BY <1>2, <2>1, <2>2, <2>3 DEF RecordsAreOwn
<1>15. LabelsFollow'
  <2>1. tagged' \subseteq born /\ None \notin tagged
    BY <1>1, LiveAssumption DEF LabelsInv, LabelsFollow, LabelsTypeOK
  <2>2. ASSUME NEW id \in Ids, at[id] \in tagged'
        PROVE  \E place \in Ids : /\ recs'[place] # None /\ recs'[place].run = at[id]
                                  /\ place = id \/ (Untouched /\ recs'[place].known)
    <3>1. PICK place \in Ids : KeptAt(at[id], id, place)
      BY <1>1, <2>2 DEF LabelsInv, LabelsFollow
    <3>2. recs[place] # None /\ recs[place].run = at[id] /\ (place = id \/ (Untouched /\ recs[place].known))
      BY <1>3, <3>1 DEF KeptAt
    <3>3. CASE place \notin Orphans(l)
      <4>1. recs'[place] = recs[place]
        BY <1>13, <3>2, <3>3
      <4> QED
        BY <3>2, <4>1
    <3>4. CASE place \in Orphans(l)
      <4>1. PICK item : item = [id |-> id, run |-> at[id]]
        OBVIOUS
      <4>2. list[l].complete /\ item \in list[l].items /\ item.id = id /\ item.run = at[id] /\ id \notin Orphans(l)
        BY <1>1, <1>5, <1>11, <2>1, <2>2, <3>4, <4>1
      <4>3. place # id /\ Untouched /\ recs[place].known
        BY <3>2, <3>4, <4>2
      <4>4. CASE recs[id] # None
        <5>1. recs[id].run = at[id]
          BY <1>1, <2>1, <2>2, <4>3, <4>4 DEF LabelsInv, RecordsAreOwn, Bound
        <5>2. recs'[id] = recs[id]
          BY <1>13, <4>2, <4>4
        <5> QED
          BY <4>4, <5>1, <5>2
      <4>5. CASE recs[id] = None
        <5>1. item \in Homes(l, place)
          BY <3>2, <4>2, <4>3 DEF Homes, Same
        <5>2. place \in housed
          BY <1>10, <3>4, <5>1 DEF HomesAre
        <5>3. home[place] = item
          BY <1>5, <1>12, <3>2, <4>2, <5>2
        <5>4. Cardinality({o \in won : home[o].id = id}) = 1
          BY <1>10, <4>2, <4>5, <5>2, <5>3 DEF HomesAre
        <5>5. \E o \in won : home[o].id = id
          <6>1. SUFFICES ASSUME ~\E o \in won : home[o].id = id PROVE FALSE
            OBVIOUS
          <6>2. PICK none : none = {o \in won : home[o].id = id}
            OBVIOUS
          <6>3. none = {}
            BY <6>1, <6>2
          <6>4. Cardinality(none) = 0
            BY <6>3, FS_EmptySet
          <6>5. Cardinality(none) = 1
            BY <5>4, <6>2
          <6> QED
            BY <6>4, <6>5
        <5>6. PICK o \in won : home[o].id = id /\ recs'[id] = recs[o]
          BY <1>13, <5>5
        <5>7. recs[o] # None /\ home[o] = item /\ recs[o].run = item.run
          BY <1>5, <1>11, <1>12, <4>2, <5>6
        <5> QED
          BY <4>2, <5>6, <5>7
      <4> QED
        BY <4>4, <4>5
    <3> QED
      BY <3>3, <3>4
  <2> QED
    BY <1>1, <1>2, <1>3, <2>1, <2>2, NoteLosesNone
<1>16. NoStrangers' /\ \A n \in owed' : NoteIsTrue(n)'
  BY <1>1, <1>2, <1>3 DEF LabelsInv, NoStrangers
<1> QED
  BY <1>1, <1>8, <1>9, <1>14, <1>15, <1>16 DEF LabelsInv

(* The answer is given its labels.                                          *)
LEMMA GetKeepsLabels ==
  ASSUME LabelsTypeOK, LabelsSteady, LabelsInv, NEW l \in Lister, Get(l)
  PROVE  LabelsInv'
<1>1. LabelsTypeOK' /\ UNCHANGED <<env, born, owed, tagged>>
  BY ListingTyped
<1>2. /\ NothingOwed /\ list[l].phase = "ready" /\ at' = at /\ list' = [list EXCEPT ![l] = Idle]
      /\ served' = served \cup UNION {{i.run} \X Owners(Find(i.id, i.run, TRUE)) : i \in list[l].items}
      /\ recs' = [id \in Ids |-> IF \E i \in list[l].items : i.id = id
                                 THEN Find(id, (CHOOSE i \in list[l].items : i.id = id).run, TRUE)
                                 ELSE recs[id]]
  BY DEF Get, Answered, Serve
<1>3. owed = {} /\ list \in [Lister -> Listings] /\ list[l].items \subseteq Items /\ recs \in [Ids -> Records \cup {None}]
  BY <1>2, SettledIs DEF LabelsTypeOK, LiveTypeOK, Listings
<1>4. Reading(l) /\ Idle.phase = "idle" /\ Idle.items = {}
  BY <1>2 DEF Reading, Idle
<1>5. /\ \A m \in Lister : m # l => ~Reading(m) /\ list[m].items = {}
      /\ \A i \in list[l].items : at[i.id] \in {i.run, None}
      /\ \A id \in Ids : Bound(id) => \A i \in list[l].items : i.id = id => i.run = recs[id].run
  BY <1>4, OnItsWay
<1>6. ListingsAreTrue' /\ list'[l] = Idle /\ \A m \in Lister : m # l => list'[m].items = {}
  BY <1>2, <1>3, <1>4, <1>5, ListingMovesOn DEF LabelsInv
<1>7. RunsStandOnce'
  BY <1>1, <1>2 DEF LabelsInv, RunsStandOnce
<1>8. \A id \in Ids :
         \/ recs'[id] = recs[id]
         \/ \E i \in list[l].items : i.id = id /\ recs'[id] = Find(id, i.run, TRUE)
  <2> TAKE id \in Ids
  <2>1. CASE \E i \in list[l].items : i.id = id
    <3>1. PICK i : i = CHOOSE x \in list[l].items : x.id = id
      OBVIOUS
    <3>2. i \in list[l].items /\ i.id = id
      BY <2>1, <3>1
    <3>3. recs'[id] = Find(id, i.run, TRUE)
      BY <1>2, <2>1, <3>1
    <3> QED
      BY <3>2, <3>3
  <2>2. CASE ~\E i \in list[l].items : i.id = id
    BY <1>2, <2>2
  <2> QED
    BY <2>1, <2>2
<1>9. \A id \in Ids : \A r : Find(id, r, TRUE) \in {recs[id], None}
  BY DEF Find
<1>10. RecordsAreOwn'
  <2>1. \A id \in Ids : recs'[id] # None => recs'[id] = recs[id]
    BY <1>8, <1>9
  <2>2. \A id \in Ids : Bound(id)' => Bound(id)
    BY <1>1, <2>1 DEF Bound, Untouched
  <2>3. \A m \in Lister : list'[m].items = {}
    BY <1>4, <1>6
  <2>4. ASSUME NEW id \in Ids, recs'[id] # None PROVE recs'[id].of = {recs'[id].run}
    BY <2>1, <2>4 DEF LabelsInv, RecordsAreOwn
  <2>5. ASSUME NEW id \in Ids, Bound(id)' PROVE at'[id] \in {None, recs'[id].run}
    <3>1. recs'[id] # None /\ recs'[id] = recs[id] /\ Bound(id)
      BY <2>1, <2>2, <2>5 DEF Bound
    <3> QED
      BY <1>2, <3>1 DEF LabelsInv, RecordsAreOwn
  <2> QED
    BY <2>3, <2>4, <2>5 DEF RecordsAreOwn
<1>11. LabelsFollow'
  <2>1. tagged' \subseteq born /\ None \notin tagged
    BY <1>1, LiveAssumption DEF LabelsInv, LabelsFollow, LabelsTypeOK
  <2>2. ASSUME NEW id \in Ids, at[id] \in tagged'
        PROVE  \E place \in Ids : /\ recs'[place] # None /\ recs'[place].run = at[id]
                                  /\ place = id \/ (Untouched /\ recs'[place].known)
    <3>1. PICK place \in Ids : KeptAt(at[id], id, place)
      BY <1>1, <2>2 DEF LabelsInv, LabelsFollow
    <3>2. recs[place] # None /\ recs[place].run = at[id] /\ (place = id \/ (Untouched /\ recs[place].known))
      BY <1>3, <3>1 DEF KeptAt
    <3>3. recs'[place] = recs[place]
      <4> SUFFICES ASSUME NEW i \in list[l].items, i.id = place, recs'[place] = Find(place, i.run, TRUE)
                   PROVE  recs'[place] = recs[place]
        BY <1>8
      <4>1. i.run = recs[place].run
        <5>1. CASE Untouched
          BY <1>5, <3>2, <5>1 DEF Bound
        <5>2. CASE ~Untouched
          BY <1>1, <1>5, <2>1, <2>2, <3>2, <5>2
        <5> QED
          BY <5>1, <5>2
      <4> QED
        BY <4>1 DEF Find, Same
    <3> QED
      BY <3>2, <3>3
  <2> QED
    BY <1>1, <1>2, <1>3, <2>1, <2>2, NoteLosesNone
<1>12. NoStrangers'
  <2>1. ASSUME NEW i \in list[l].items PROVE Owners(Find(i.id, i.run, TRUE)) \subseteq {i.run}
    <3>1. i.id \in Ids /\ i.run \in Runs
      BY <1>3 DEF Items
    <3>2. PICK found : found = Find(i.id, i.run, TRUE)
      OBVIOUS
    <3>3. CASE found # None
      <4>1. found = recs[i.id] /\ (found.known => Same(found.run, i.run)) /\ found \in Records
        BY <1>3, <3>1, <3>2, <3>3 DEF Find
      <4>2. CASE found.known
        <5>1. found.run \in Runs
          BY <4>1 DEF Records
        <5>2. found.run = i.run
          BY <3>1, <4>1, <4>2, <5>1 DEF LabelsSteady
        <5> QED
          BY <3>1, <3>2, <3>3, <4>1, <5>2 DEF Owners, LabelsInv, RecordsAreOwn
      <4>3. CASE ~found.known
        <5>1. Bound(i.id)
          BY <3>3, <4>1, <4>3 DEF Bound
        <5>2. found.run = i.run
          BY <1>5, <3>1, <4>1, <5>1
        <5> QED
          BY <3>1, <3>2, <3>3, <4>1, <5>2 DEF Owners, LabelsInv, RecordsAreOwn
      <4> QED
        BY <4>2, <4>3
    <3>4. CASE found = None
      BY <3>2, <3>4 DEF Owners
    <3> QED
      BY <3>3, <3>4
  <2>2. \A p \in UNION {{i.run} \X Owners(Find(i.id, i.run, TRUE)) : i \in list[l].items} : p[1] = p[2]
    <3> SUFFICES ASSUME NEW i \in list[l].items, NEW p \in {i.run} \X Owners(Find(i.id, i.run, TRUE)) PROVE p[1] = p[2]
      OBVIOUS
    <3> QED
      BY <2>1
  <2> QED
    BY <1>2, <2>2 DEF LabelsInv, NoStrangers
<1>13. \A n \in owed' : NoteIsTrue(n)'
  BY <1>1, <1>3
<1> QED
  BY <1>1, <1>6, <1>7, <1>10, <1>11, <1>12, <1>13 DEF LabelsInv

(* No answer shows one session's labels as another's, and no session loses  *)
(* its labels to a rename, a listing or a reused id: for any sessions, ids  *)
(* and listings, where the labels are steady.                               *)
THEOREM LabelsAreAlwaysTrue == LabelsSpec /\ []LabelsSteady => []LabelsAreTrue
<1>1. LabelsInit => LabelsInv
  <2> SUFFICES ASSUME LabelsInit PROVE LabelsInv
    OBVIOUS
  <2>1. LabelsTypeOK
    BY DEF LabelsInit, LiveInit, LabelsTypeOK, LiveTypeOK, Idle
  <2>2. /\ \A id \in Ids : at[id] = None /\ recs[id] = None
        /\ \A l \in Lister : list[l].items = {} /\ list[l].phase = "idle"
        /\ owed = {} /\ tagged = {} /\ served = {}
    BY DEF LabelsInit, LiveInit, Idle
  <2>3. RunsStandOnce /\ RecordsAreOwn /\ NoStrangers
    BY <2>2 DEF RunsStandOnce, RecordsAreOwn, NoStrangers, Bound
  <2>4. ListingsAreTrue
    BY <2>2 DEF ListingsAreTrue, Reading, TellsAll
  <2>5. LabelsFollow /\ \A n \in owed : NoteIsTrue(n)
    BY <2>2 DEF LabelsFollow
  <2> QED
    BY <2>1, <2>3, <2>4, <2>5 DEF LabelsInv
<1>2. LabelsInv /\ LabelsSteady /\ [LabelsNext]_labelVars => LabelsInv'
  <2> SUFFICES ASSUME LabelsInv, LabelsSteady, [LabelsNext]_labelVars PROVE LabelsInv'
    OBVIOUS
  <2>1. LabelsTypeOK
    BY DEF LabelsInv
  <2>2. CASE UNCHANGED labelVars
    <3>1. UNCHANGED <<env, at, born, ours, dead, owed, list, captured, recs, tagged, served>>
      BY <2>2 DEF labelVars, live
    <3>2. /\ \A id \in Ids : Bound(id)' = Bound(id)
          /\ \A l \in Lister : Reading(l)' = Reading(l) /\ TellsAll(l)' = TellsAll(l)
      BY <3>1 DEF Bound, Untouched, Reading, TellsAll
    <3>3. LabelsTypeOK' /\ RunsStandOnce' /\ NoStrangers'
      BY <3>1 DEF LabelsInv, LabelsTypeOK, LiveTypeOK, RunsStandOnce, NoStrangers
    <3>4. ListingsAreTrue' /\ RecordsAreOwn'
      BY <3>1, <3>2 DEF LabelsInv, ListingsAreTrue, RecordsAreOwn
    <3>5. \A n \in owed' : NoteIsTrue(n)'
      <4> SUFFICES ASSUME NEW n \in owed PROVE NoteIsTrue(n)'
        BY <3>1
      <4>1. NoteIsTrue(n) /\ n \in Notes
        BY <2>1 DEF LabelsInv, LabelsTypeOK, LiveTypeOK
      <4>2. n.id \in Ids
        BY <4>1 DEF Notes
      <4> QED
        BY <3>1, <3>2, <4>1, <4>2 DEF NoteIsTrue
    <3>6. LabelsFollow'
      BY <3>1 DEF LabelsInv, LabelsFollow, KeptAt, Untouched
    <3> QED
      BY <3>3, <3>4, <3>5, <3>6 DEF LabelsInv
  <2>3. CASE \E id \in Ids, r \in Runs : Create(id, r) \/ Appear(id, r)
    BY <2>1, <2>3, StartKeeps
  <2>4. CASE OtherListing \/ \E id \in Ids : Close(id) \/ Exit(id) \/ Vanish(id) \/ ReadForLabels(id)
    BY <2>1, <2>4, EndKeeps
  <2>5. CASE \E from, to \in Ids : Rename(from, to) \/ MoveAside(from, to)
    BY <2>1, <2>5, RenameKeeps
  <2>6. CASE \E n \in owed : NoteRenamed(n) \/ NoteClosed(n)
    BY <2>1, <2>6, NoteRenamedKeeps, NoteClosedKeeps
  <2>7. CASE \E n \in owed, labelled \in BOOLEAN : NoteCreated(n, labelled)
    BY <2>1, <2>7, NoteCreatedKeeps
  <2>8. CASE \E n \in owed, adds \in BOOLEAN : Merge(n, adds)
    BY <2>1, <2>8, MergeKeeps
  <2>9. CASE \E l \in Lister : Request(l) \/ Listing(l) \/ Reaping(l) \/ Retain(l) \/ Get(l)
    BY <2>1, <2>9, RequestKeepsLabels, EnumerateKeepsLabels, ReapKeepsLabels, RetainKeepsLabels, GetKeepsLabels
  <2> QED
    BY <2>2, <2>3, <2>4, <2>5, <2>6, <2>7, <2>8, <2>9 DEF LabelsNext
<1>3. LabelsInv => LabelsAreTrue
  <2> SUFFICES ASSUME LabelsInv PROVE LabelsAreTrue
    OBVIOUS
  <2>1. ASSUME NEW r \in tagged, NEW id \in Ids, at[id] = r PROVE \E place \in Ids : r \in Owners(recs[place])
    <3>1. PICK place \in Ids : KeptAt(r, id, place)
      BY <2>1 DEF LabelsInv, LabelsFollow
    <3>2. recs[place] # None /\ recs[place].of = {r}
      BY <3>1 DEF KeptAt, LabelsInv, RecordsAreOwn
    <3> QED
      BY <3>2 DEF Owners
  <2>2. LabelsAreKept
    BY <2>1 DEF LabelsAreKept, Stands
  <2> QED
    BY <2>2 DEF LabelsAreTrue, LabelsInv
<1> QED
  BY <1>1, <1>2, <1>3, PTL DEF LabelsSpec

-----------------------------------------------------------------------------
(* FleetRequests: the inductive invariant                                   *)

FleetKinds == {"act", "get", "create", "list", "labelled", "machines"}
FleetPlaces == [machine : FleetMachines, runtime : FleetRuntimes, id : FleetIds]
FleetSessions == [place : FleetPlaces, run : Nat \ {0}]
FleetStages == {"arrives", "relay", "probe", "decide", "call", "list", "close", "done"}
FleetSources == {"ok", "degraded", "unreachable", "unauthorized"}
FleetReplies ==
    {"none", "unauthorized", "unknown runtime", "no drivers", "ambiguous", "unreachable", "ok",
     "no such session", "dead", "created", "unsupported", "error", "complete", "partial"}
FleetReqs ==
    [kind : FleetKinds, target : FleetMachines, id : FleetIds,
     named : FleetRuntimes \cup {""}, hint : FleetRuntimes \cup {""}, at : FleetStages,
     where : FleetMachines, runtime : FleetRuntimes \cup {""}, ask : SUBSET FleetRuntimes,
     holders : SUBSET FleetRuntimes, unsure : SUBSET FleetRuntimes, items : SUBSET FleetSessions,
     twice : BOOLEAN, sources : SUBSET FleetSources, answer : FleetReplies, hit : Nat,
     always : SUBSET FleetSessions, ever : SUBSET FleetSessions]

FleetTypeOK ==
    /\ fleetEnv \in FleetEnvironments
    /\ alive \subseteq FleetSessions /\ known \subseteq FleetPlaces
    /\ counts \in [opens : Nat, closes : Nat]
    /\ reqs \in Seq(FleetReqs)

(* A caller names no runtime of a peer, and no id is in two runtimes of a   *)
(* machine whose drivers may fail.                                          *)
FleetPlain ==
    /\ ~FleetMay("named")
    /\ ~FleetMay("same") \/ ~FleetMay("fail")

(* The drivers know the sessions of their runtimes.                         *)
SessionsAreKnown ==
    /\ \A s \in alive : s.place \in known
    /\ \A p \in known : p.runtime \in fleetEnv.runtimes[p.machine]
    /\ ~FleetMay("same") => \A p, q \in known : p.machine = q.machine /\ p.id = q.id => p = q

(* What a request is compared with, and what it has shown.                  *)
IsFollowed(req) ==
    /\ req.items \subseteq req.ever /\ req.always \subseteq req.ever /\ ~req.twice
    /\ \A s \in req.always : s.place \in known
    /\ req.at # "done" => /\ req.always \subseteq alive /\ alive \subseteq req.ever
                          /\ req.answer = "none" /\ req.hit = 0

(* A listing has gathered what the runtimes have that it need not ask any   *)
(* more, unless it knows of one that kept something back.                   *)
ListsOf(req) == {s \in Matching(req, req.always) : s.place.machine = "self" /\ s.place.runtime \notin req.ask}
ListingIsTrue(req) ==
    /\ req.at \in {"list", "close"} => ~About(req.kind)
    /\ About(req.kind) => req.items = {}
    /\ ~About(req.kind) => req.where = "self" /\ req.target = "self"
                           /\ req.at \in {"arrives", "list", "close", "done"}
    /\ req.at = "arrives" => req.items = {}
    /\ req.at = "list" => \A s \in req.items : s.place.machine = "self" /\ s.place.runtime \notin req.ask
    /\ req.kind \in {"list", "labelled"} =>
          /\ req.at = "list" /\ Complete(req) => ListsOf(req) \subseteq req.items
          /\ req.at = "close" /\ Complete(req) => Matching(req, req.always) \subseteq req.items
          /\ req.answer = "complete" => Matching(req, req.always) \subseteq req.items

(* A request goes to the machine and to the runtime it named; the runtimes  *)
(* that have its session, or may have it, are known when it has to be found.*)
StandsAt(req, rt) == \E s \in req.always : s.place = Place(req.target, rt, req.id)
Nowhere(req) == \A rt \in FleetRuntimes : req.named \in {"", rt} => ~StandsAt(req, rt)
RightPlace(req) ==
    /\ req.named # "" => req.runtime = req.named
    /\ req.named = "" => \A rt \in FleetRuntimes \ {req.runtime} : ~StandsAt(req, rt)
RouteIsTrue(req) ==
    /\ req.hint = req.named
    /\ req.named # "" => req.target = "self"
    /\ req.at = "relay" => req.where = "self" /\ req.target = "peer"
    /\ req.at = "arrives" => req.where \in {"self", req.target}
    /\ req.at \in {"probe", "decide", "call"} => req.where = req.target
    /\ req.at \in {"probe", "decide"} =>
          /\ req.named = ""
          /\ req.at = "decide" => req.ask = {}
          /\ \A rt \in FleetRuntimes \ req.ask : StandsAt(req, rt) => rt \in req.holders \cup req.unsure
    /\ \A rt \in req.holders : Place(req.target, rt, req.id) \in known
    /\ req.unsure # {} => FleetMay("fail")
    /\ req.at \in {"arrives", "relay"} => req.holders = {} /\ req.unsure = {}
    /\ req.at = "call" \/ req.hit # 0 => RightPlace(req)
    /\ req.answer \in {"no such session", "dead"} => Nowhere(req)

RequestIsTrue(req) ==
    /\ IsFollowed(req) /\ ListingIsTrue(req)
    /\ FleetPlain /\ req.kind \in {"act", "get"} => RouteIsTrue(req)

AllRequests == {reqs[r] : r \in Requests}
FleetInv ==
    /\ FleetTypeOK /\ SessionsAreKnown
    /\ \A q \in AllRequests : RequestIsTrue(q)

(* What an environment says of the runtimes of a machine.                   *)
LEMMA RuntimesAre ==
  ASSUME FleetTypeOK, NEW m \in FleetMachines
  PROVE  /\ fleetEnv.runtimes[m] \subseteq FleetRuntimes
         /\ fleetEnv.default[m] \in fleetEnv.runtimes[m] \cup {""}
         /\ fleetEnv.default[m] \in FleetRuntimes \cup {""}
<1>1. fleetEnv \in FleetEnvironments
  BY DEF FleetTypeOK
<1>2. fleetEnv.runtimes[m] \subseteq FleetRuntimes /\ fleetEnv.default[m] \in fleetEnv.runtimes[m] \cup {""}
  BY <1>1, FleetAssumption
<1> QED
  BY <1>2

(* There are two runtimes, so every set of them is finite.                  *)
LEMMA RuntimesAreFinite ==
  ASSUME NEW S \in SUBSET FleetRuntimes
  PROVE  /\ IsFiniteSet(S) /\ Cardinality(S) \in Nat
         /\ Cardinality(S) = 1 => \E rt : S = {rt} /\ (CHOOSE x \in S : TRUE) = rt
         /\ Cardinality(S) = 0 => S = {}
<1>1. IsFiniteSet({} \cup {"tmux"})
  BY FS_EmptySet, FS_AddElement
<1>2. IsFiniteSet(({} \cup {"tmux"}) \cup {"opencode"})
  BY <1>1, FS_AddElement
<1>3. ({} \cup {"tmux"}) \cup {"opencode"} = FleetRuntimes
  BY DEF FleetRuntimes
<1>4. IsFiniteSet(FleetRuntimes)
  BY <1>2, <1>3
<1>5. IsFiniteSet(S)
  BY <1>4, FS_Subset
<1>6. Cardinality(S) \in Nat
  BY <1>5, FS_CardinalityType
<1>7. ASSUME Cardinality(S) = 1 PROVE \E rt : S = {rt} /\ (CHOOSE x \in S : TRUE) = rt
  <2>1. PICK rt : S = {rt}
    BY <1>5, <1>7, FS_Singleton
  <2>2. (CHOOSE x \in S : TRUE) = rt
    BY <2>1
  <2> QED
    BY <2>1, <2>2
<1>8. Cardinality(S) = 0 => S = {}
  BY <1>5, FS_EmptySet
<1> QED
  BY <1>5, <1>6, <1>7, <1>8

(* A request is followed by what it asks for, whatever it goes through.     *)
SameRequest(q, n) ==
    /\ n.kind = q.kind /\ n.target = q.target /\ n.id = q.id /\ n.named = q.named
    /\ n.always = q.always /\ n.ever = q.ever

(* What is asked of a listing, or for a place, is the same then.            *)
LEMMA SameRequestIs ==
  ASSUME NEW q, NEW n, SameRequest(q, n)
  PROVE  /\ Matching(n, n.always) = Matching(q, q.always)
         /\ \A rt : StandsAt(n, rt) <=> StandsAt(q, rt)
         /\ Nowhere(n) <=> Nowhere(q)
<1>1. \A rt : StandsAt(n, rt) <=> StandsAt(q, rt)
  BY DEF SameRequest, StandsAt
<1>2. Matching(n, n.always) = Matching(q, q.always)
  BY DEF SameRequest, Matching, Asked
<1>3. Nowhere(n) <=> Nowhere(q)
  BY <1>1 DEF SameRequest, Nowhere
<1> QED
  BY <1>1, <1>2, <1>3

(* What is true of a request stays true while the fleet stands still.       *)
LEMMA TruthStands ==
  ASSUME UNCHANGED <<fleetEnv, alive, known>>, NEW q, RequestIsTrue(q)
  PROVE  RequestIsTrue(q)'
<1>1. IsFollowed(q)' /\ ListingIsTrue(q)
  BY DEF RequestIsTrue, IsFollowed
<1>2. FleetPlain' /\ q.kind \in {"act", "get"} => RouteIsTrue(q)'
  BY DEF RequestIsTrue, RouteIsTrue, FleetPlain, FleetMay
<1> QED
  BY <1>1, <1>2 DEF RequestIsTrue

(* One request moves, and the fleet stands still.                           *)
LEMMA OneRequestMoves ==
  ASSUME FleetInv, NEW r \in Requests, NEW new \in FleetReqs, Becomes(r, new), RequestIsTrue(new)
  PROVE  FleetInv'
<1>1. UNCHANGED <<fleetEnv, alive, known, counts>> /\ reqs' = [reqs EXCEPT ![r] = new]
  BY DEF Becomes
<1>2. reqs \in Seq(FleetReqs)
  BY DEF FleetInv, FleetTypeOK
<1>3. reqs' \in Seq(FleetReqs) /\ DOMAIN reqs' = DOMAIN reqs
  BY <1>1, <1>2 DEF Requests
<1>4. FleetTypeOK'
  BY <1>1, <1>3 DEF FleetInv, FleetTypeOK
<1>5. SessionsAreKnown'
  BY <1>1 DEF FleetInv, SessionsAreKnown, FleetMay
<1>6. ASSUME NEW q \in AllRequests' PROVE RequestIsTrue(q)'
  <2>1. RequestIsTrue(q)
    <3>1. PICK i \in Requests : q = reqs'[i]
      BY <1>3, <1>6 DEF Requests, AllRequests
    <3>2. CASE i = r
      BY <1>1, <1>2, <3>1, <3>2 DEF Requests
    <3>3. CASE i # r
      BY <1>1, <1>2, <3>1, <3>3 DEF Requests, FleetInv, AllRequests
    <3> QED
      BY <3>2, <3>3
  <2> QED
    BY <1>1, <2>1, TruthStands
<1> QED
  BY <1>4, <1>5, <1>6 DEF FleetInv

(* An answer is true when what it says is.                                  *)
LEMMA ReplyIsTrue ==
  ASSUME NEW q \in FleetReqs, RequestIsTrue(q), q.at # "done", NEW answer \in FleetReplies,
         answer = "complete" => q.at = "close" /\ Complete(q),
         answer \in {"no such session", "dead"} /\ FleetPlain /\ q.kind \in {"act", "get"} => Nowhere(q)
  PROVE  /\ [q EXCEPT !.at = "done", !.answer = answer] \in FleetReqs
         /\ RequestIsTrue([q EXCEPT !.at = "done", !.answer = answer])
<1>1. PICK n : n = [q EXCEPT !.at = "done", !.answer = answer]
  OBVIOUS
<1>2. n \in FleetReqs
  BY <1>1 DEF FleetReqs, FleetStages
<1>3. /\ SameRequest(q, n) /\ n.at = "done" /\ n.answer = answer /\ n.hint = q.hint /\ n.where = q.where
      /\ n.runtime = q.runtime /\ n.ask = q.ask /\ n.holders = q.holders /\ n.unsure = q.unsure
      /\ n.items = q.items /\ n.twice = q.twice /\ n.sources = q.sources /\ n.hit = q.hit
  BY <1>1 DEF FleetReqs, SameRequest
<1>4. Matching(n, n.always) = Matching(q, q.always) /\ (Nowhere(n) <=> Nowhere(q))
  BY <1>3, SameRequestIs
<1>5. q.hit = 0 /\ q.answer = "none"
  BY DEF RequestIsTrue, IsFollowed
<1>6. IsFollowed(n)
  BY <1>3 DEF RequestIsTrue, IsFollowed, SameRequest
<1>7. ListingIsTrue(n)
  BY <1>3, <1>4, <1>5 DEF RequestIsTrue, ListingIsTrue, SameRequest
<1>8. ASSUME FleetPlain, n.kind \in {"act", "get"} PROVE RouteIsTrue(n)
  BY <1>3, <1>4, <1>5, <1>8 DEF RequestIsTrue, RouteIsTrue, SameRequest
<1> QED
  BY <1>1, <1>2, <1>6, <1>7, <1>8 DEF RequestIsTrue

(* A request of the table has its type, and what is true of it is known.    *)
LEMMA RequestIs ==
  ASSUME FleetInv, NEW r \in Requests
  PROVE  reqs[r] \in FleetReqs /\ RequestIsTrue(reqs[r])
<1>1. reqs \in Seq(FleetReqs) /\ reqs[r] \in AllRequests
  BY DEF FleetInv, FleetTypeOK, AllRequests
<1> QED
  BY <1>1 DEF FleetInv, Requests

(* A request that is under way while sessions come or go.                   *)
LEMMA LaterIsTrue ==
  ASSUME FleetInv, NEW q \in FleetReqs, RequestIsTrue(q), NEW n,
         fleetEnv' = fleetEnv, known \subseteq known', alive' \subseteq FleetSessions,
         n = IF q.at = "done" THEN q ELSE [q EXCEPT !.always = @ \cap alive', !.ever = @ \cup alive']
  PROVE  n \in FleetReqs /\ RequestIsTrue(n)'
<1>1. CASE q.at = "done"
  <2>1. n = q
    BY <1>1
  <2>2. IsFollowed(q)'
    BY <1>1 DEF RequestIsTrue, IsFollowed
  <2>3. FleetPlain' /\ q.kind \in {"act", "get"} => RouteIsTrue(q)'
    BY <1>1 DEF RequestIsTrue, RouteIsTrue, FleetPlain, FleetMay
  <2> QED
    BY <2>1, <2>2, <2>3 DEF RequestIsTrue
<1>2. CASE q.at # "done"
  <2>1. n = [q EXCEPT !.always = @ \cap alive', !.ever = @ \cup alive']
    BY <1>2
  <2>2. n \in FleetReqs
    BY <2>1 DEF FleetReqs
  <2>3. /\ n.always = q.always \cap alive' /\ n.ever = q.ever \cup alive'
        /\ n.kind = q.kind /\ n.target = q.target /\ n.id = q.id /\ n.named = q.named /\ n.hint = q.hint
        /\ n.at = q.at /\ n.where = q.where /\ n.runtime = q.runtime /\ n.ask = q.ask
        /\ n.holders = q.holders /\ n.unsure = q.unsure /\ n.items = q.items /\ n.twice = q.twice
        /\ n.sources = q.sources /\ n.answer = q.answer /\ n.hit = q.hit
    BY <2>1 DEF FleetReqs
  <2>4. \A rt : StandsAt(n, rt) => StandsAt(q, rt)
    BY <2>3 DEF StandsAt
  <2>5. Matching(n, n.always) \subseteq Matching(q, q.always)
    BY <2>3 DEF Matching, Asked
  <2>6. IsFollowed(n)'
    BY <1>2, <2>3 DEF RequestIsTrue, IsFollowed
  <2>7. ListsOf(n) \subseteq ListsOf(q) /\ (Complete(n) <=> Complete(q))
    BY <2>3, <2>5 DEF ListsOf, Complete
  <2>8. ListingIsTrue(n)
    BY <2>3, <2>5, <2>7 DEF RequestIsTrue, ListingIsTrue
  <2>9. ASSUME FleetPlain', n.kind \in {"act", "get"} PROVE RouteIsTrue(n)'
    <3>1. RouteIsTrue(q)
      BY <2>3, <2>9 DEF RequestIsTrue, FleetPlain, FleetMay
    <3>2. RightPlace(q) => RightPlace(n)
      BY <2>3, <2>4 DEF RightPlace
    <3>3. Nowhere(q) => Nowhere(n)
      BY <2>3, <2>4 DEF Nowhere
    <3>4. \A rt \in n.holders : Place(n.target, rt, n.id) \in known'
      BY <2>3, <3>1 DEF RouteIsTrue
    <3>5. n.at \in {"probe", "decide"} =>
             \A rt \in FleetRuntimes \ n.ask : StandsAt(n, rt) => rt \in n.holders \cup n.unsure
      BY <2>3, <2>4, <3>1 DEF RouteIsTrue
    <3>6. n.unsure # {} => FleetMay("fail")'
      BY <2>3, <3>1 DEF RouteIsTrue, FleetMay
    <3> QED
      BY <2>3, <3>1, <3>2, <3>3, <3>4, <3>5, <3>6 DEF RouteIsTrue
  <2> QED
    BY <2>2, <2>6, <2>8, <2>9 DEF RequestIsTrue
<1> QED
  BY <1>1, <1>2

(* Sessions come or go, and the requests that are under way see it.         *)
LEMMA SessionsChange ==
  ASSUME FleetInv, fleetEnv' = fleetEnv, known \subseteq known', known' \subseteq FleetPlaces,
         alive' \subseteq FleetSessions, counts' \in [opens : Nat, closes : Nat],
         reqs' = WithSessions(reqs, alive'), SessionsAreKnown'
  PROVE  FleetInv'
<1>1. reqs \in Seq(FleetReqs) /\ Requests = 1 .. Len(reqs)
  BY DEF FleetInv, FleetTypeOK, Requests
<1>2. \A i \in Requests : reqs'[i] = IF reqs[i].at = "done" THEN reqs[i]
                                     ELSE [reqs[i] EXCEPT !.always = @ \cap alive', !.ever = @ \cup alive']
  BY DEF WithSessions, Requests
<1>3. \A i \in Requests : reqs'[i] \in FleetReqs /\ \A n : n = reqs'[i] => RequestIsTrue(n)'
  <2> SUFFICES ASSUME NEW i \in Requests, NEW n, n = reqs'[i] PROVE n \in FleetReqs /\ RequestIsTrue(n)'
    OBVIOUS
  <2>1. PICK q : q = reqs[i]
    OBVIOUS
  <2>2. q \in FleetReqs /\ RequestIsTrue(q)
    BY <2>1, RequestIs
  <2>3. n = IF q.at = "done" THEN q ELSE [q EXCEPT !.always = @ \cap alive', !.ever = @ \cup alive']
    BY <1>2, <2>1
  <2> QED
    BY <2>2, <2>3, LaterIsTrue
<1>4. DOMAIN reqs' = 1 .. Len(reqs) /\ reqs' = [i \in 1 .. Len(reqs) |-> reqs'[i]]
  BY <1>1 DEF WithSessions, Requests
<1>5. reqs' \in Seq(FleetReqs) /\ Requests' = Requests
  <2>1. Len(reqs) \in Nat
    BY <1>1
  <2>2. reqs' \in [1 .. Len(reqs) -> FleetReqs]
    BY <1>1, <1>3, <1>4
  <2> QED
    BY <1>1, <1>4, <2>1, <2>2 DEF Requests
<1>6. FleetTypeOK'
  BY <1>5 DEF FleetInv, FleetTypeOK
<1>7. \A q \in AllRequests' : RequestIsTrue(q)'
  BY <1>3, <1>5 DEF AllRequests
<1> QED
  BY <1>6, <1>7 DEF FleetInv

(* A session is opened.                                                     *)
LEMMA OpensIsTrue == ASSUME FleetInv, Opens PROVE FleetInv'
<1>1. PICK p \in Places :
        /\ p \notin Here /\ p.runtime \in fleetEnv.runtimes[p.machine]
        /\ (\E q \in known : q # p /\ q.machine = p.machine /\ q.id = p.id) => FleetMay("same")
        /\ alive' = alive \cup {[place |-> p, run |-> counts.opens + 1]} /\ known' = known \cup {p}
        /\ counts' = [counts EXCEPT !.opens = @ + 1] /\ reqs' = WithSessions(reqs, alive')
        /\ fleetEnv' = fleetEnv
  BY DEF Opens
<1>2. p \in FleetPlaces
  BY DEF Places, Place, FleetPlaces
<1>3. counts.opens \in Nat /\ counts' \in [opens : Nat, closes : Nat]
  BY <1>1 DEF FleetInv, FleetTypeOK
<1>4. [place |-> p, run |-> counts.opens + 1] \in FleetSessions
  BY <1>2, <1>3 DEF FleetSessions
<1>5. alive' \subseteq FleetSessions /\ known' \subseteq FleetPlaces
  BY <1>1, <1>2, <1>4 DEF FleetInv, FleetTypeOK
<1>6. SessionsAreKnown'
  <2>1. \A s \in alive' : s.place \in known'
    BY <1>1 DEF FleetInv, SessionsAreKnown
  <2>2. \A q \in known' : q.runtime \in fleetEnv'.runtimes[q.machine]
    BY <1>1 DEF FleetInv, SessionsAreKnown
  <2>3. ~FleetMay("same")' => \A q, o \in known' : q.machine = o.machine /\ q.id = o.id => q = o
    BY <1>1 DEF FleetInv, SessionsAreKnown, FleetMay
  <2> QED
    BY <2>1, <2>2, <2>3 DEF SessionsAreKnown
<1> QED
  BY <1>1, <1>3, <1>5, <1>6, SessionsChange

(* A session ends.                                                          *)
LEMMA ClosesIsTrue == ASSUME FleetInv, Closes PROVE FleetInv'
<1>1. PICK s \in alive :
        /\ alive' = alive \ {s} /\ counts' = [counts EXCEPT !.closes = @ + 1]
        /\ reqs' = WithSessions(reqs, alive') /\ UNCHANGED <<fleetEnv, known>>
  BY DEF Closes
<1>2. /\ counts' \in [opens : Nat, closes : Nat] /\ alive' \subseteq FleetSessions
      /\ known' = known /\ known' \subseteq FleetPlaces
  BY <1>1 DEF FleetInv, FleetTypeOK
<1>3. SessionsAreKnown'
  BY <1>1 DEF FleetInv, SessionsAreKnown, FleetMay
<1> QED
  BY <1>1, <1>2, <1>3, SessionsChange

(* A request comes.                                                         *)
LEMMA ComesIsTrue == ASSUME FleetInv, RequestComes PROVE FleetInv'
<1>1. PICK kind, target, i, hint :
        /\ kind \in fleetEnv.kinds /\ target \in FleetMachines /\ i \in FleetIds /\ hint \in FleetRuntimes \cup {""}
        /\ ~About(kind) => target = "self"
        /\ ~About(kind) => hint = ""
        /\ hint # "" => target = "self" \/ FleetMay("named")
        /\ reqs' = Append(reqs, NewRequest(kind, target, i, hint)) /\ UNCHANGED <<fleetEnv, alive, known, counts>>
  BY DEF RequestComes
<1>2. fleetEnv \in FleetEnvironments /\ alive \subseteq FleetSessions /\ reqs \in Seq(FleetReqs)
  BY DEF FleetInv, FleetTypeOK
<1>3. kind \in FleetKinds
  BY <1>1, <1>2, FleetAssumption DEF FleetKinds
<1>4. PICK n : n = NewRequest(kind, target, i, hint)
  OBVIOUS
<1>5. n \in FleetReqs
  BY <1>1, <1>2, <1>3, <1>4 DEF NewRequest, FleetReqs, FleetMachines, FleetStages, FleetReplies
<1>6. /\ n.kind = kind /\ n.target = target /\ n.named = hint /\ n.hint = hint /\ n.at = "arrives"
      /\ n.where = "self" /\ n.holders = {} /\ n.unsure = {} /\ n.items = {} /\ ~n.twice
      /\ n.answer = "none" /\ n.hit = 0 /\ n.always = alive /\ n.ever = alive
  BY <1>4 DEF NewRequest
<1>7. IsFollowed(n) /\ ListingIsTrue(n)
  BY <1>1, <1>6 DEF IsFollowed, ListingIsTrue, FleetInv, SessionsAreKnown
<1>8. FleetPlain => RouteIsTrue(n)
  BY <1>1, <1>6 DEF FleetPlain, RouteIsTrue
<1>9. RequestIsTrue(n)'
  <2>1. RequestIsTrue(n)
    BY <1>7, <1>8 DEF RequestIsTrue
  <2> QED
    BY <1>1, <2>1, TruthStands
<1>10. reqs' \in Seq(FleetReqs) /\ AllRequests' \subseteq AllRequests \cup {n}
  <2>1. reqs' = Append(reqs, n)
    BY <1>1, <1>4
  <2>2. PICK longer : longer = reqs'
    OBVIOUS
  <2>3. /\ longer \in Seq(FleetReqs)
        /\ \A j \in DOMAIN longer : longer[j] = n \/ (j \in DOMAIN reqs /\ longer[j] = reqs[j])
    <3>1. Len(reqs) \in Nat /\ DOMAIN reqs = 1 .. Len(reqs)
      BY <1>2
    <3>2. longer \in Seq(FleetReqs) /\ Len(longer) = Len(reqs) + 1
      BY <1>2, <1>5, <2>1, <2>2
    <3>3. DOMAIN longer = 1 .. (Len(reqs) + 1)
      BY <3>1, <3>2
    <3>4. ASSUME NEW j \in DOMAIN longer PROVE longer[j] = n \/ (j \in DOMAIN reqs /\ longer[j] = reqs[j])
      <4>1. CASE j = Len(reqs) + 1
        BY <1>2, <2>1, <2>2, <3>1, <4>1
      <4>2. CASE j # Len(reqs) + 1
        <5>1. j \in 1 .. Len(reqs)
          BY <3>1, <3>3, <3>4, <4>2
        <5> QED
          BY <1>2, <2>1, <2>2, <3>1, <5>1
      <4> QED
        BY <4>1, <4>2
    <3> QED
      BY <3>2, <3>4
  <2>4. \A j \in Requests' : reqs'[j] = n \/ (j \in Requests /\ reqs'[j] = reqs[j])
    BY <2>2, <2>3 DEF Requests
  <2> QED
    BY <2>2, <2>3, <2>4 DEF AllRequests
<1>11. \A q \in AllRequests : RequestIsTrue(q)'
  BY <1>1, TruthStands DEF FleetInv
<1>12. \A q \in AllRequests' : RequestIsTrue(q)'
  BY <1>9, <1>10, <1>11
<1>13. SessionsAreKnown' /\ FleetTypeOK'
  BY <1>1, <1>10 DEF FleetInv, FleetTypeOK, SessionsAreKnown, FleetMay
<1> QED
  BY <1>12, <1>13 DEF FleetInv

(* A request that is not answered yet goes on to another stage.             *)
LEMMA NextStageIs ==
  ASSUME NEW q \in FleetReqs, RequestIsTrue(q), q.at # "done", NEW n \in FleetReqs,
         SameRequest(q, n), n.at # "done", n.items = q.items, n.twice = q.twice, n.answer = q.answer,
         n.hit = q.hit, About(q.kind), n.at \notin {"list", "close"},
         FleetPlain /\ q.kind \in {"act", "get"} => RouteIsTrue(n)
  PROVE  RequestIsTrue(n)
<1>1. IsFollowed(n)
  BY DEF RequestIsTrue, IsFollowed, SameRequest
<1>2. ListingIsTrue(n)
  BY DEF RequestIsTrue, ListingIsTrue, SameRequest, About
<1>3. n.kind = q.kind
  BY DEF SameRequest
<1> QED
  BY <1>1, <1>2, <1>3 DEF RequestIsTrue

(* What is known of a request that is not answered.                         *)
LEMMA UnansweredIs ==
  ASSUME NEW q \in FleetReqs, RequestIsTrue(q), q.at # "done"
  PROVE  q.hit = 0 /\ q.answer = "none" /\ q.always \subseteq alive /\ alive \subseteq q.ever
         /\ \A s \in q.always : s.place \in known
  BY DEF RequestIsTrue, IsFollowed

(* A request is answered.                                                   *)
LEMMA RepliesIsTrue ==
  ASSUME FleetInv, NEW r \in Requests, NEW answer \in FleetReplies, Replies(r, answer), reqs[r].at # "done",
         answer = "complete" => reqs[r].at = "close" /\ Complete(reqs[r]),
         answer \in {"no such session", "dead"} /\ FleetPlain /\ reqs[r].kind \in {"act", "get"} => Nowhere(reqs[r])
  PROVE  FleetInv'
<1>1. PICK q : q = reqs[r]
  OBVIOUS
<1>2. q \in FleetReqs /\ RequestIsTrue(q)
  BY <1>1, RequestIs
<1>3. PICK n : n = [q EXCEPT !.at = "done", !.answer = answer]
  OBVIOUS
<1>4. n \in FleetReqs /\ RequestIsTrue(n)
  BY <1>1, <1>2, <1>3, ReplyIsTrue
<1>5. Becomes(r, n)
  BY <1>1, <1>3 DEF Replies
<1> QED
  BY <1>4, <1>5, OneRequestMoves

(* A session is at a runtime that its machine has.                          *)
LEMMA StandsAtItsRuntime ==
  ASSUME FleetInv, NEW q \in FleetReqs, RequestIsTrue(q), NEW rt \in FleetRuntimes, StandsAt(q, rt)
  PROVE  Place(q.target, rt, q.id) \in known /\ rt \in fleetEnv.runtimes[q.target]
<1>1. Place(q.target, rt, q.id) \in known
  BY DEF StandsAt, RequestIsTrue, IsFollowed
<1>2. Place(q.target, rt, q.id).runtime = rt /\ Place(q.target, rt, q.id).machine = q.target
  BY DEF Place
<1> QED
  BY <1>1, <1>2 DEF FleetInv, SessionsAreKnown

(* A request that names its runtime, or comes to a machine that has one, is *)
(* at the right place.                                                      *)
LEMMA ArrivesAtRightPlace ==
  ASSUME FleetInv, NEW r \in Requests, NEW rt \in FleetRuntimes, reqs[r].at = "arrives", About(reqs[r].kind),
         reqs[r].target = reqs[r].where,
         \/ reqs[r].hint = rt
         \/ reqs[r].hint = "" /\ fleetEnv.runtimes[reqs[r].where] = {rt},
         Becomes(r, [reqs[r] EXCEPT !.at = "call", !.runtime = rt])
  PROVE  FleetInv'
<1>1. PICK q : q = reqs[r]
  OBVIOUS
<1>2. q \in FleetReqs /\ RequestIsTrue(q)
  BY <1>1, RequestIs
<1>3. PICK n : n = [q EXCEPT !.at = "call", !.runtime = rt]
  OBVIOUS
<1>4. n \in FleetReqs
  BY <1>2, <1>3 DEF FleetReqs, FleetStages
<1>5. /\ SameRequest(q, n) /\ n.at = "call" /\ n.answer = q.answer /\ n.hint = q.hint /\ n.where = q.where
      /\ n.runtime = rt /\ n.ask = q.ask /\ n.holders = q.holders /\ n.unsure = q.unsure
      /\ n.items = q.items /\ n.twice = q.twice /\ n.sources = q.sources /\ n.hit = q.hit
  BY <1>2, <1>3 DEF FleetReqs, SameRequest
<1>6. ASSUME FleetPlain, q.kind \in {"act", "get"} PROVE RouteIsTrue(n)
  <2>1. RouteIsTrue(q)
    BY <1>2, <1>6 DEF RequestIsTrue
  <2>2. \A s \in FleetRuntimes : StandsAt(n, s) => s \in fleetEnv.runtimes[q.target]
    BY <1>2, <1>5, SameRequestIs, StandsAtItsRuntime
  <2>3. "" \notin FleetRuntimes
    BY DEF FleetRuntimes
  <2>4. RightPlace(n)
    <3>1. q.hint = q.named /\ n.named = q.named /\ n.runtime = rt
      BY <1>5, <2>1 DEF RouteIsTrue, SameRequest
    <3>2. CASE q.hint = rt
      BY <2>3, <3>1, <3>2 DEF RightPlace
    <3>3. CASE q.hint = "" /\ fleetEnv.runtimes[q.where] = {rt}
      <4>1. \A s \in FleetRuntimes : StandsAt(n, s) => s = rt
        BY <1>1, <2>2, <3>3
      <4> QED
        BY <3>1, <3>3, <4>1 DEF RightPlace
    <3> QED
      BY <1>1, <3>2, <3>3
  <2>5. q.answer = "none" /\ q.hit = 0
    BY <1>1, <1>2, UnansweredIs
  <2> QED
    BY <1>1, <1>5, <2>1, <2>4, <2>5 DEF RouteIsTrue, SameRequest
<1>7. RequestIsTrue(n)
  BY <1>1, <1>2, <1>4, <1>5, <1>6, NextStageIs
<1>8. Becomes(r, n)
  BY <1>1, <1>3
<1> QED
  BY <1>4, <1>7, <1>8, OneRequestMoves

(* A request comes to a machine.                                            *)
LEMMA ArrivesIsTrue == ASSUME FleetInv, NEW r \in Requests, RequestArrives(r) PROVE FleetInv'
<1>1. PICK q : q = reqs[r]
  OBVIOUS
<1>2. q \in FleetReqs /\ RequestIsTrue(q) /\ q.at = "arrives"
  BY <1>1, RequestIs DEF RequestArrives
<1>3. PICK here : here = fleetEnv.runtimes[q.where]
  OBVIOUS
<1>4. here \subseteq FleetRuntimes /\ q.where \in FleetMachines
  BY <1>2, <1>3, RuntimesAre DEF FleetInv, FleetReqs
<1>14. "" \notin here
  BY <1>4 DEF FleetRuntimes
<1>5. CASE \E answer \in {"unauthorized", "unknown runtime", "no drivers"} : Replies(r, answer)
  BY <1>1, <1>2, <1>5, RepliesIsTrue DEF FleetReplies
<1>6. CASE ~About(q.kind) /\ Becomes(r, [q EXCEPT !.at = "list", !.ask = here])
  <2>1. PICK n : n = [q EXCEPT !.at = "list", !.ask = here]
    OBVIOUS
  <2>2. n \in FleetReqs
    BY <1>2, <1>4, <2>1 DEF FleetReqs, FleetStages
  <2>3. /\ SameRequest(q, n) /\ n.at = "list" /\ n.ask = here /\ n.items = q.items /\ n.twice = q.twice
        /\ n.answer = q.answer /\ n.hit = q.hit /\ n.where = q.where
    BY <1>2, <2>1 DEF FleetReqs, SameRequest
  <2>4. IsFollowed(n)
    BY <1>2, <2>3 DEF RequestIsTrue, IsFollowed, SameRequest
  <2>5. q.items = {} /\ q.where = "self" /\ q.target = "self" /\ q.answer = "none"
    BY <1>2, <1>6 DEF RequestIsTrue, ListingIsTrue, IsFollowed
  <2>6. ListsOf(n) = {}
    <3>1. \A s \in n.always : s.place.runtime \in fleetEnv.runtimes[s.place.machine]
      BY <1>2, <2>3 DEF RequestIsTrue, IsFollowed, SameRequest, FleetInv, SessionsAreKnown
    <3> QED
      BY <1>3, <2>3, <2>5, <3>1 DEF ListsOf, Matching
  <2>7. ListingIsTrue(n)
    BY <1>2, <1>6, <2>3, <2>5, <2>6 DEF RequestIsTrue, ListingIsTrue, SameRequest
  <2>8. n.kind \notin {"act", "get"}
    BY <1>6, <2>3 DEF SameRequest, About
  <2>9. RequestIsTrue(n)
    BY <2>4, <2>7, <2>8 DEF RequestIsTrue
  <2> QED
    BY <1>6, <2>1, <2>2, <2>9, OneRequestMoves
<1>7. CASE About(q.kind) /\ q.target # q.where /\ Becomes(r, [q EXCEPT !.at = "relay"])
  <2>1. PICK n : n = [q EXCEPT !.at = "relay"]
    OBVIOUS
  <2>2. n \in FleetReqs
    BY <1>2, <2>1 DEF FleetReqs, FleetStages
  <2>3. /\ SameRequest(q, n) /\ n.at = "relay" /\ n.answer = q.answer /\ n.hint = q.hint /\ n.where = q.where
        /\ n.holders = q.holders /\ n.unsure = q.unsure /\ n.items = q.items /\ n.twice = q.twice /\ n.hit = q.hit
    BY <1>2, <2>1 DEF FleetReqs, SameRequest
  <2>4. ASSUME FleetPlain, q.kind \in {"act", "get"} PROVE RouteIsTrue(n)
    <3>1. RouteIsTrue(q) /\ q.hit = 0 /\ q.answer = "none"
      BY <1>2, <2>4, UnansweredIs DEF RequestIsTrue
    <3>2. q.where = "self" /\ q.target = "peer"
      BY <1>2, <1>7, <3>1 DEF RouteIsTrue, FleetReqs, FleetMachines
    <3> QED
      BY <1>2, <2>3, <3>1, <3>2 DEF RouteIsTrue, SameRequest
  <2>5. RequestIsTrue(n)
    BY <1>2, <1>7, <2>2, <2>3, <2>4, NextStageIs
  <2> QED
    BY <1>7, <2>1, <2>2, <2>5, OneRequestMoves
<1>8. CASE /\ About(q.kind) /\ q.target = q.where
           /\ \E rt \in FleetRuntimes : /\ q.hint = rt \/ (q.hint = "" /\ here = {rt})
                                        /\ Becomes(r, [q EXCEPT !.at = "call", !.runtime = rt])
  <2>1. PICK rt \in FleetRuntimes : /\ q.hint = rt \/ (q.hint = "" /\ here = {rt})
                                    /\ Becomes(r, [q EXCEPT !.at = "call", !.runtime = rt])
    BY <1>8
  <2> QED
    BY <1>1, <1>2, <1>3, <1>8, <2>1, ArrivesAtRightPlace
<1>9. CASE q.kind = "create" /\ Becomes(r, [q EXCEPT !.at = "decide"])
  <2>1. PICK n : n = [q EXCEPT !.at = "decide"]
    OBVIOUS
  <2>2. n \in FleetReqs
    BY <1>2, <2>1 DEF FleetReqs, FleetStages
  <2>3. /\ SameRequest(q, n) /\ n.at = "decide" /\ n.answer = q.answer /\ n.items = q.items
        /\ n.twice = q.twice /\ n.hit = q.hit
    BY <1>2, <2>1 DEF FleetReqs, SameRequest
  <2>4. RequestIsTrue(n)
    BY <1>2, <1>9, <2>2, <2>3, NextStageIs DEF About
  <2> QED
    BY <1>9, <2>1, <2>2, <2>4, OneRequestMoves
<1>10. CASE /\ About(q.kind) /\ q.target = q.where /\ q.hint = ""
            /\ Becomes(r, [q EXCEPT !.at = "probe", !.ask = here])
  <2>1. PICK n : n = [q EXCEPT !.at = "probe", !.ask = here]
    OBVIOUS
  <2>2. n \in FleetReqs
    BY <1>2, <1>4, <2>1 DEF FleetReqs, FleetStages
  <2>3. /\ SameRequest(q, n) /\ n.at = "probe" /\ n.ask = here /\ n.answer = q.answer /\ n.hint = q.hint
        /\ n.where = q.where /\ n.holders = q.holders /\ n.unsure = q.unsure /\ n.items = q.items
        /\ n.twice = q.twice /\ n.hit = q.hit
    BY <1>2, <2>1 DEF FleetReqs, SameRequest
  <2>4. ASSUME FleetPlain, q.kind \in {"act", "get"} PROVE RouteIsTrue(n)
    <3>1. RouteIsTrue(q) /\ q.hit = 0 /\ q.answer = "none"
      BY <1>2, <2>4, UnansweredIs DEF RequestIsTrue
    <3>2. \A rt \in FleetRuntimes : StandsAt(n, rt) => rt \in here
      BY <1>2, <1>3, <1>10, <2>3, SameRequestIs, StandsAtItsRuntime
    <3> QED
      BY <1>2, <1>10, <2>3, <3>1, <3>2 DEF RouteIsTrue, SameRequest
  <2>5. RequestIsTrue(n)
    BY <1>2, <1>10, <2>2, <2>3, <2>4, NextStageIs
  <2> QED
    BY <1>10, <2>1, <2>2, <2>5, OneRequestMoves
<1>11. \/ \E answer \in {"unauthorized", "unknown runtime", "no drivers"} : Replies(r, answer)
       \/ ~About(q.kind) /\ Becomes(r, [q EXCEPT !.at = "list", !.ask = here])
       \/ About(q.kind) /\ q.target # q.where /\ Becomes(r, [q EXCEPT !.at = "relay"])
       \/ /\ About(q.kind) /\ q.target = q.where /\ q.hint # "" /\ q.hint \in here
          /\ Becomes(r, [q EXCEPT !.at = "call", !.runtime = q.hint])
       \/ /\ About(q.kind) /\ q.target = q.where /\ q.hint = "" /\ Cardinality(here) = 1
          /\ Becomes(r, [q EXCEPT !.at = "call", !.runtime = CHOOSE rt \in here : TRUE])
       \/ q.kind = "create" /\ Becomes(r, [q EXCEPT !.at = "decide"])
       \/ /\ About(q.kind) /\ q.target = q.where /\ q.hint = ""
          /\ Becomes(r, [q EXCEPT !.at = "probe", !.ask = here])
  <2>1. CASE Need(q) \notin fleetEnv.grants[q.where]
    BY <1>1, <2>1 DEF RequestArrives
  <2>2. CASE Need(q) \in fleetEnv.grants[q.where] /\ ~About(q.kind)
    BY <1>1, <1>3, <2>2 DEF RequestArrives
  <2>3. CASE Need(q) \in fleetEnv.grants[q.where] /\ About(q.kind) /\ q.target # q.where
    BY <1>1, <1>3, <2>3 DEF RequestArrives
  <2>4. CASE Need(q) \in fleetEnv.grants[q.where] /\ About(q.kind) /\ q.target = q.where /\ q.hint # ""
    BY <1>1, <1>3, <2>4 DEF RequestArrives
  <2>5. CASE Need(q) \in fleetEnv.grants[q.where] /\ About(q.kind) /\ q.target = q.where /\ q.hint = ""
    <3>1. CASE here = {}
      BY <1>1, <1>3, <1>14, <2>5, <3>1 DEF RequestArrives
    <3>2. CASE here # {} /\ Cardinality(here) = 1
      BY <1>1, <1>3, <1>14, <2>5, <3>2 DEF RequestArrives
    <3>3. CASE here # {} /\ Cardinality(here) # 1 /\ q.kind = "create"
      BY <1>1, <1>3, <1>14, <2>5, <3>3 DEF RequestArrives
    <3>4. CASE here # {} /\ Cardinality(here) # 1 /\ q.kind # "create"
      BY <1>1, <1>3, <1>14, <2>5, <3>4 DEF RequestArrives
    <3> QED
      BY <3>1, <3>2, <3>3, <3>4
  <2> QED
    BY <2>1, <2>2, <2>3, <2>4, <2>5
<1>12. /\ About(q.kind) /\ q.target = q.where /\ q.hint = "" /\ Cardinality(here) = 1
       /\ Becomes(r, [q EXCEPT !.at = "call", !.runtime = CHOOSE rt \in here : TRUE])
       => \E rt \in FleetRuntimes : here = {rt} /\ Becomes(r, [q EXCEPT !.at = "call", !.runtime = rt])
  <2> SUFFICES ASSUME Cardinality(here) = 1, Becomes(r, [q EXCEPT !.at = "call", !.runtime = CHOOSE rt \in here : TRUE])
               PROVE  \E rt \in FleetRuntimes : here = {rt} /\ Becomes(r, [q EXCEPT !.at = "call", !.runtime = rt])
    OBVIOUS
  <2>1. PICK rt : here = {rt} /\ (CHOOSE x \in here : TRUE) = rt
    BY <1>4, RuntimesAreFinite
  <2> QED
    BY <1>4, <2>1
<1>13. /\ About(q.kind) /\ q.target = q.where /\ q.hint # "" /\ q.hint \in here
       /\ Becomes(r, [q EXCEPT !.at = "call", !.runtime = q.hint])
       => \E rt \in FleetRuntimes : q.hint = rt /\ Becomes(r, [q EXCEPT !.at = "call", !.runtime = rt])
  BY <1>4
<1> QED
  BY <1>5, <1>6, <1>7, <1>8, <1>9, <1>10, <1>11, <1>12, <1>13

(* A request is relayed to the peer, or the peer is not reached.            *)
LEMMA RelayIsTrue == ASSUME FleetInv, NEW r \in Requests, RelayRequest(r) PROVE FleetInv'
<1>1. PICK q : q = reqs[r]
  OBVIOUS
<1>2. q \in FleetReqs /\ RequestIsTrue(q) /\ q.at = "relay"
  BY <1>1, RequestIs DEF RelayRequest
<1>3. About(q.kind)
  BY <1>2 DEF RequestIsTrue, ListingIsTrue
<1>4. CASE Replies(r, "unreachable")
  BY <1>1, <1>2, <1>4, RepliesIsTrue DEF FleetReplies
<1>5. CASE Becomes(r, [q EXCEPT !.at = "arrives", !.where = "peer", !.hint = RelayedHint(q)])
  <2>1. PICK n : n = [q EXCEPT !.at = "arrives", !.where = "peer", !.hint = RelayedHint(q)]
    OBVIOUS
  <2>2. n \in FleetReqs
    BY <1>2, <2>1 DEF FleetReqs, FleetStages, FleetMachines, RelayedHint
  <2>3. /\ SameRequest(q, n) /\ n.at = "arrives" /\ n.where = "peer" /\ n.hint = RelayedHint(q)
        /\ n.answer = q.answer /\ n.holders = q.holders /\ n.unsure = q.unsure /\ n.items = q.items
        /\ n.twice = q.twice /\ n.hit = q.hit
    BY <1>2, <2>1 DEF FleetReqs, SameRequest
  <2>4. ASSUME FleetPlain, q.kind \in {"act", "get"} PROVE RouteIsTrue(n)
    <3>1. RouteIsTrue(q) /\ q.hit = 0 /\ q.answer = "none"
      BY <1>2, <2>4, UnansweredIs DEF RequestIsTrue
    <3>2. q.target = "peer" /\ q.named = "" /\ n.hint = ""
      BY <1>2, <2>3, <2>4, <3>1 DEF RouteIsTrue, RelayedHint
    <3> QED
      BY <1>2, <2>3, <3>1, <3>2 DEF RouteIsTrue, SameRequest
  <2>5. RequestIsTrue(n)
    BY <1>2, <1>3, <2>2, <2>3, <2>4, NextStageIs
  <2> QED
    BY <1>5, <2>1, <2>2, <2>5, OneRequestMoves
<1> QED
  BY <1>1, <1>4, <1>5 DEF RelayRequest

(* A driver says what it knows of the id.                                   *)
LEMMA ProbeIsTrue == ASSUME FleetInv, NEW r \in Requests, NEW rt \in FleetRuntimes, ProbeCaps(r, rt) PROVE FleetInv'
<1>1. PICK q : q = reqs[r]
  OBVIOUS
<1>2. q \in FleetReqs /\ RequestIsTrue(q) /\ q.at = "probe" /\ rt \in q.ask
  BY <1>1, RequestIs DEF ProbeCaps
<1>3. About(q.kind)
  BY <1>2 DEF RequestIsTrue, ListingIsTrue, About, FleetReqs
<1>4. PICK left : left = [q EXCEPT !.ask = @ \ {rt}]
  OBVIOUS
<1>5. left \in FleetReqs
  BY <1>2, <1>4 DEF FleetReqs
<1>6. /\ SameRequest(q, left) /\ left.at = "probe" /\ left.ask = q.ask \ {rt} /\ left.answer = q.answer
      /\ left.hint = q.hint /\ left.where = q.where /\ left.holders = q.holders /\ left.unsure = q.unsure
      /\ left.items = q.items /\ left.twice = q.twice /\ left.hit = q.hit
  BY <1>2, <1>4 DEF FleetReqs, SameRequest
<1>7. ASSUME NEW n \in FleetReqs, NEW holders \in SUBSET FleetRuntimes, NEW unsure \in SUBSET FleetRuntimes,
             n = [left EXCEPT !.holders = holders, !.unsure = unsure],
             q.holders \subseteq holders, q.unsure \subseteq unsure,
             \A x \in holders : x \in q.holders \/ Place(q.where, x, q.id) \in known,
             unsure # q.unsure => FleetMay("fail"),
             FleetPlain => (rt \in holders \cup unsure \/ Place(q.where, rt, q.id) \notin known)
      PROVE  RequestIsTrue(n)
  <2>1. /\ SameRequest(q, n) /\ n.at = "probe" /\ n.ask = q.ask \ {rt} /\ n.answer = q.answer
        /\ n.hint = q.hint /\ n.where = q.where /\ n.holders = holders /\ n.unsure = unsure
        /\ n.items = q.items /\ n.twice = q.twice /\ n.hit = q.hit
    BY <1>5, <1>6, <1>7 DEF FleetReqs, SameRequest
  <2>2. ASSUME FleetPlain, q.kind \in {"act", "get"} PROVE RouteIsTrue(n)
    <3>1. RouteIsTrue(q) /\ q.hit = 0 /\ q.answer = "none"
      BY <1>2, <2>2, UnansweredIs DEF RequestIsTrue
    <3>2. q.where = q.target
      BY <1>2, <3>1 DEF RouteIsTrue
    <3>3. \A x \in FleetRuntimes : StandsAt(n, x) <=> StandsAt(q, x)
      BY <2>1, SameRequestIs
    <3>4. StandsAt(q, rt) => rt \in holders \cup unsure
      BY <1>2, <1>7, <2>2, <3>2, StandsAtItsRuntime
    <3>5. \A x \in FleetRuntimes \ n.ask : StandsAt(n, x) => x \in n.holders \cup n.unsure
      BY <1>2, <1>7, <2>1, <3>1, <3>3, <3>4 DEF RouteIsTrue
    <3>6. \A x \in n.holders : Place(n.target, x, n.id) \in known
      BY <1>7, <2>1, <3>1, <3>2 DEF RouteIsTrue, SameRequest
    <3>7. n.unsure # {} => FleetMay("fail")
      BY <1>7, <2>1, <3>1 DEF RouteIsTrue
    <3> QED
      BY <1>2, <2>1, <3>1, <3>2, <3>5, <3>6, <3>7 DEF RouteIsTrue, SameRequest
  <2> QED
    BY <1>2, <1>3, <2>1, <2>2, NextStageIs
<1>8. /\ \A h \in SUBSET FleetRuntimes : [left EXCEPT !.holders = h, !.unsure = q.unsure] \in FleetReqs
      /\ \A u \in SUBSET FleetRuntimes : [left EXCEPT !.holders = q.holders, !.unsure = u] \in FleetReqs
  BY <1>2, <1>5 DEF FleetReqs
<1>9. q.holders \subseteq FleetRuntimes /\ q.unsure \subseteq FleetRuntimes
  BY <1>2 DEF FleetReqs
<1>10. CASE Place(q.where, rt, q.id) \in known /\ Becomes(r, [left EXCEPT !.holders = @ \cup {rt}])
  <2>1. PICK n : n = [left EXCEPT !.holders = q.holders \cup {rt}, !.unsure = q.unsure]
    OBVIOUS
  <2>2. n = [left EXCEPT !.holders = @ \cup {rt}]
    BY <1>5, <1>6, <2>1 DEF FleetReqs
  <2>3. q.holders \cup {rt} \in SUBSET FleetRuntimes
    BY <1>9
  <2>4. n \in FleetReqs
    BY <1>8, <2>1, <2>3
  <2>5. RequestIsTrue(n)
    BY <1>7, <1>9, <1>10, <2>1, <2>3, <2>4
  <2> QED
    BY <1>10, <2>2, <2>4, <2>5, OneRequestMoves
<1>11. CASE Place(q.where, rt, q.id) \notin known /\ Becomes(r, left)
  <2>1. PICK n : n = [left EXCEPT !.holders = q.holders, !.unsure = q.unsure]
    OBVIOUS
  <2>2. n = left
    BY <1>5, <1>6, <2>1 DEF FleetReqs
  <2>3. n \in FleetReqs
    BY <1>5, <2>2
  <2>4. RequestIsTrue(n)
    BY <1>7, <1>9, <1>11, <2>1, <2>3
  <2> QED
    BY <1>11, <2>2, <2>3, <2>4, OneRequestMoves
<1>12. CASE FleetMay("fail") /\ Becomes(r, [left EXCEPT !.unsure = @ \cup {rt}])
  <2>1. PICK n : n = [left EXCEPT !.holders = q.holders, !.unsure = q.unsure \cup {rt}]
    OBVIOUS
  <2>2. n = [left EXCEPT !.unsure = @ \cup {rt}]
    BY <1>5, <1>6, <2>1 DEF FleetReqs
  <2>3. q.unsure \cup {rt} \in SUBSET FleetRuntimes
    BY <1>9
  <2>4. n \in FleetReqs
    BY <1>8, <2>1, <2>3
  <2>5. RequestIsTrue(n)
    BY <1>7, <1>9, <1>12, <2>1, <2>3, <2>4
  <2> QED
    BY <1>12, <2>2, <2>4, <2>5, OneRequestMoves
<1> QED
  BY <1>1, <1>4, <1>10, <1>11, <1>12 DEF ProbeCaps

(* All drivers have answered.                                               *)
LEMMA ProbedIsTrue == ASSUME FleetInv, NEW r \in Requests, Probed(r) PROVE FleetInv'
<1>1. PICK q : q = reqs[r]
  OBVIOUS
<1>2. q \in FleetReqs /\ RequestIsTrue(q) /\ q.at = "probe" /\ q.ask = {}
  BY <1>1, RequestIs DEF Probed
<1>3. About(q.kind)
  BY <1>2 DEF RequestIsTrue, ListingIsTrue, About, FleetReqs
<1>4. PICK n : n = [q EXCEPT !.at = "decide"]
  OBVIOUS
<1>5. n \in FleetReqs
  BY <1>2, <1>4 DEF FleetReqs, FleetStages
<1>6. /\ SameRequest(q, n) /\ n.at = "decide" /\ n.ask = q.ask /\ n.answer = q.answer /\ n.hint = q.hint
      /\ n.where = q.where /\ n.holders = q.holders /\ n.unsure = q.unsure /\ n.items = q.items
      /\ n.twice = q.twice /\ n.hit = q.hit
  BY <1>2, <1>4 DEF FleetReqs, SameRequest
<1>7. ASSUME FleetPlain, q.kind \in {"act", "get"} PROVE RouteIsTrue(n)
  <2>1. RouteIsTrue(q) /\ q.hit = 0 /\ q.answer = "none"
    BY <1>2, <1>7, UnansweredIs DEF RequestIsTrue
  <2>2. \A x : StandsAt(n, x) <=> StandsAt(q, x)
    BY <1>6, SameRequestIs
  <2> QED
    BY <1>2, <1>6, <2>1, <2>2 DEF RouteIsTrue, SameRequest
<1>8. RequestIsTrue(n)
  BY <1>2, <1>3, <1>5, <1>6, <1>7, NextStageIs
<1> QED
  BY <1>1, <1>4, <1>5, <1>8, OneRequestMoves DEF Probed

(* The runtime that is chosen is the only one that has the session.         *)
LEMMA ChosenIs ==
  ASSUME FleetInv, NEW q \in FleetReqs, RequestIsTrue(q), q.at = "decide", Chosen(q) # "ambiguous"
  PROVE  /\ Chosen(q) \in FleetRuntimes
         /\ FleetPlain /\ q.kind \in {"act", "get"} => \A x \in FleetRuntimes \ {Chosen(q)} : ~StandsAt(q, x)
<1>1. q.holders \subseteq FleetRuntimes /\ q.where \in FleetMachines
  BY DEF FleetReqs
<1>2. fleetEnv.default[q.where] \in FleetRuntimes \cup {""}
  BY <1>1, RuntimesAre DEF FleetInv
<1>3. CASE Cardinality(q.holders) = 1
  <2>1. PICK rt : q.holders = {rt} /\ (CHOOSE x \in q.holders : TRUE) = rt
    BY <1>1, <1>3, RuntimesAreFinite
  <2>2. Chosen(q) = rt /\ rt \in FleetRuntimes
    BY <1>1, <1>3, <2>1 DEF Chosen
  <2>3. ASSUME FleetPlain, q.kind \in {"act", "get"}, NEW x \in FleetRuntimes, StandsAt(q, x) PROVE x = rt
    <3>1. RouteIsTrue(q)
      BY <2>3 DEF RequestIsTrue
    <3>2. x \in q.holders \cup q.unsure /\ Place(q.target, rt, q.id) \in known /\ (q.unsure # {} => FleetMay("fail"))
      BY <2>1, <2>3, <3>1 DEF RouteIsTrue
    <3>3. CASE x \in q.unsure
      <4>1. ~FleetMay("same")
        BY <2>3, <3>2, <3>3 DEF FleetPlain
      <4>2. Place(q.target, x, q.id) \in known
        BY <2>3, StandsAtItsRuntime
      <4>3. Place(q.target, x, q.id) = Place(q.target, rt, q.id)
        BY <3>2, <4>1, <4>2 DEF FleetInv, SessionsAreKnown, Place
      <4> QED
        BY <4>3 DEF Place
    <3> QED
      BY <2>1, <3>2, <3>3
  <2> QED
    BY <2>2, <2>3
<1>4. CASE Cardinality(q.holders) # 1
  <2>1. /\ q.holders = {} /\ q.unsure = {}
        /\ Chosen(q) = fleetEnv.default[q.where] /\ fleetEnv.default[q.where] # ""
    BY <1>4 DEF Chosen
  <2>4. ASSUME FleetPlain, q.kind \in {"act", "get"}, NEW x \in FleetRuntimes PROVE ~StandsAt(q, x)
    BY <2>1, <2>4 DEF RequestIsTrue, RouteIsTrue
  <2> QED
    BY <1>2, <2>1, <2>4
<1> QED
  BY <1>3, <1>4

(* The runtime of a request is found, or the request is refused.            *)
LEMMA DecidesIsTrue == ASSUME FleetInv, NEW r \in Requests, Decides(r) PROVE FleetInv'
<1>1. PICK q : q = reqs[r]
  OBVIOUS
<1>2. q \in FleetReqs /\ RequestIsTrue(q) /\ q.at = "decide"
  BY <1>1, RequestIs DEF Decides
<1>3. About(q.kind)
  BY <1>2 DEF RequestIsTrue, ListingIsTrue, About, FleetReqs
<1>4. CASE Replies(r, "ambiguous")
  BY <1>1, <1>2, <1>4, RepliesIsTrue DEF FleetReplies
<1>5. CASE Chosen(q) # "ambiguous" /\ Becomes(r, [q EXCEPT !.at = "call", !.runtime = Chosen(q)])
  <2>1. PICK n : n = [q EXCEPT !.at = "call", !.runtime = Chosen(q)]
    OBVIOUS
  <2>2. /\ Chosen(q) \in FleetRuntimes
        /\ FleetPlain /\ q.kind \in {"act", "get"} => \A x \in FleetRuntimes \ {Chosen(q)} : ~StandsAt(q, x)
    BY <1>2, <1>5, ChosenIs
  <2>3. n \in FleetReqs
    BY <1>2, <2>1, <2>2 DEF FleetReqs, FleetStages
  <2>4. /\ SameRequest(q, n) /\ n.at = "call" /\ n.runtime = Chosen(q) /\ n.answer = q.answer /\ n.hint = q.hint
        /\ n.where = q.where /\ n.holders = q.holders /\ n.unsure = q.unsure /\ n.items = q.items
        /\ n.twice = q.twice /\ n.hit = q.hit
    BY <1>2, <2>1 DEF FleetReqs, SameRequest
  <2>5. ASSUME FleetPlain, q.kind \in {"act", "get"} PROVE RouteIsTrue(n)
    <3>1. RouteIsTrue(q) /\ q.hit = 0 /\ q.answer = "none"
      BY <1>2, <2>5, UnansweredIs DEF RequestIsTrue
    <3>2. \A x : StandsAt(n, x) <=> StandsAt(q, x)
      BY <2>4, SameRequestIs
    <3>3. q.named = ""
      BY <1>2, <3>1 DEF RouteIsTrue
    <3>4. RightPlace(n)
      BY <2>2, <2>4, <2>5, <3>2, <3>3 DEF RightPlace, SameRequest
    <3> QED
      BY <1>2, <2>4, <3>1, <3>4 DEF RouteIsTrue, SameRequest
  <2>6. RequestIsTrue(n)
    BY <1>2, <1>3, <2>3, <2>4, <2>5, NextStageIs
  <2> QED
    BY <1>5, <2>1, <2>3, <2>6, OneRequestMoves
<1> QED
  BY <1>1, <1>4, <1>5 DEF Decides

(* A driver is called for a session that it does not have.                  *)
LEMMA NotThereIs ==
  ASSUME FleetInv, NEW q \in FleetReqs, RequestIsTrue(q), q.at = "call", FleetPlain, q.kind \in {"act", "get"},
         There(q) = {}
  PROVE  Nowhere(q)
<1>1. RouteIsTrue(q) /\ q.always \subseteq alive
  BY DEF RequestIsTrue, IsFollowed
<1>2. RightPlace(q) /\ q.where = q.target
  BY <1>1 DEF RouteIsTrue
<1>3. ~StandsAt(q, q.runtime)
  BY <1>1, <1>2 DEF There, Target, StandsAt
<1>4. ASSUME NEW rt \in FleetRuntimes, q.named \in {"", rt} PROVE ~StandsAt(q, rt)
  BY <1>2, <1>3, <1>4 DEF RightPlace
<1> QED
  BY <1>4 DEF Nowhere

(* A driver is called for a session that it has.                            *)
LEMMA HitIsTrue ==
  ASSUME FleetInv, NEW r \in Requests, NEW q, q = reqs[r], q.at = "call", There(q) # {},
         Becomes(r, [q EXCEPT !.at = "done", !.answer = "ok", !.hit = (CHOOSE s \in There(q) : TRUE).run])
  PROVE  FleetInv'
<1>1. q \in FleetReqs /\ RequestIsTrue(q)
  BY RequestIs
<1>2. PICK found : found = (CHOOSE s \in There(q) : TRUE).run
  OBVIOUS
<1>3. (CHOOSE s \in There(q) : TRUE) \in alive
  BY DEF There
<1>4. found \in Nat
  BY <1>2, <1>3 DEF FleetInv, FleetTypeOK, FleetSessions
<1>5. PICK n : n = [q EXCEPT !.at = "done", !.answer = "ok", !.hit = found]
  OBVIOUS
<1>6. n \in FleetReqs
  <2>1. PICK told : told = [q EXCEPT !.at = "done", !.answer = "ok"]
    OBVIOUS
  <2>2. told \in FleetReqs
    <3>1. PICK past : past = [q EXCEPT !.at = "done"]
      OBVIOUS
    <3>2. past \in FleetReqs
      <4>1. "done" \in FleetStages
        BY DEF FleetStages
      <4> QED
        BY <1>1, <3>1, <4>1 DEF FleetReqs
    <3>3. told = [past EXCEPT !.answer = "ok"]
      BY <1>1, <2>1, <3>1 DEF FleetReqs
    <3>4. "ok" \in FleetReplies
      BY DEF FleetReplies
    <3> QED
      BY <3>2, <3>3, <3>4 DEF FleetReqs
  <2>3. n = [told EXCEPT !.hit = found]
    BY <1>1, <1>5, <2>1 DEF FleetReqs
  <2> QED
    BY <1>4, <2>2, <2>3 DEF FleetReqs
<1>7. /\ SameRequest(q, n) /\ n.at = "done" /\ n.answer = "ok" /\ n.hint = q.hint /\ n.where = q.where
      /\ n.runtime = q.runtime /\ n.ask = q.ask /\ n.holders = q.holders /\ n.unsure = q.unsure
      /\ n.items = q.items /\ n.twice = q.twice /\ n.sources = q.sources
  BY <1>1, <1>5 DEF FleetReqs, SameRequest
<1>8. IsFollowed(n)
  BY <1>1, <1>7 DEF RequestIsTrue, IsFollowed, SameRequest
<1>9. ListingIsTrue(n)
  BY <1>1, <1>7 DEF RequestIsTrue, ListingIsTrue, SameRequest
<1>10. ASSUME FleetPlain, n.kind \in {"act", "get"} PROVE RouteIsTrue(n)
  <2>1. RouteIsTrue(q)
    BY <1>1, <1>7, <1>10 DEF RequestIsTrue, SameRequest
  <2>2. \A rt : StandsAt(n, rt) <=> StandsAt(q, rt)
    BY <1>7, SameRequestIs
  <2>3. RightPlace(n)
    BY <1>7, <2>1, <2>2 DEF RouteIsTrue, RightPlace, SameRequest
  <2> QED
    BY <1>7, <2>1, <2>3 DEF RouteIsTrue, SameRequest
<1>11. RequestIsTrue(n)
  BY <1>8, <1>9, <1>10 DEF RequestIsTrue
<1> QED
  BY <1>2, <1>5, <1>6, <1>11, OneRequestMoves

(* The handlers call the driver that was found.                             *)
LEMMA CallIsTrue ==
  ASSUME FleetInv, NEW r \in Requests, CallActs(r) \/ CallGets(r) \/ CallCreates(r) \/ CallFails(r)
  PROVE  FleetInv'
<1>1. PICK q : q = reqs[r]
  OBVIOUS
<1>2. q \in FleetReqs /\ RequestIsTrue(q) /\ q.at = "call"
  BY <1>1, RequestIs DEF CallActs, CallGets, CallCreates, CallFails
<1>3. \/ \E answer \in {"created", "unsupported", "error"} : Replies(r, answer)
      \/ /\ There(q) # {}
         /\ Becomes(r, [q EXCEPT !.at = "done", !.answer = "ok", !.hit = (CHOOSE s \in There(q) : TRUE).run])
      \/ There(q) = {} /\ \E answer \in {"no such session", "dead"} : Replies(r, answer)
  <2>1. CASE CallActs(r)
    BY <1>1, <2>1 DEF CallActs
  <2>2. CASE CallGets(r)
    BY <1>1, <2>2 DEF CallGets
  <2>3. CASE CallCreates(r) \/ CallFails(r)
    BY <2>3 DEF CallCreates, CallFails
  <2> QED
    BY <2>1, <2>2, <2>3
<1>4. CASE \E answer \in {"created", "unsupported", "error"} : Replies(r, answer)
  BY <1>1, <1>2, <1>4, RepliesIsTrue DEF FleetReplies
<1>5. CASE /\ There(q) # {}
           /\ Becomes(r, [q EXCEPT !.at = "done", !.answer = "ok", !.hit = (CHOOSE s \in There(q) : TRUE).run])
  BY <1>1, <1>2, <1>5, HitIsTrue
<1>6. CASE There(q) = {} /\ \E answer \in {"no such session", "dead"} : Replies(r, answer)
  <2>1. PICK answer \in {"no such session", "dead"} : Replies(r, answer)
    BY <1>6
  <2>2. answer \in FleetReplies
    BY DEF FleetReplies
  <2>3. FleetPlain /\ q.kind \in {"act", "get"} => Nowhere(q)
    BY <1>2, <1>6, NotThereIs
  <2> QED
    BY <1>1, <1>2, <2>1, <2>2, <2>3, RepliesIsTrue
<1> QED
  BY <1>3, <1>4, <1>5, <1>6

(* One more source has answered.                                            *)
LEMMA GathersIs ==
  ASSUME NEW q \in FleetReqs, NEW some \in SUBSET FleetSessions, NEW source \in FleetSources
  PROVE  LET n == Gathers(q, some, source)
         IN /\ n \in FleetReqs /\ SameRequest(q, n) /\ n.at = q.at /\ n.where = q.where /\ n.ask = q.ask
            /\ n.answer = q.answer /\ n.hit = q.hit /\ n.items = q.items \cup Matching(q, some)
            /\ n.twice = (q.twice \/ some \cap q.items # {}) /\ n.sources = q.sources \cup {source}
<1>1. Matching(q, some) \subseteq FleetSessions
  BY DEF Matching
<1>2. PICK n : n = Gathers(q, some, source)
  OBVIOUS
<1>3. n = [q EXCEPT !.items = @ \cup Matching(q, some), !.twice = @ \/ some \cap q.items # {},
                    !.sources = @ \cup {source}]
  BY <1>2 DEF Gathers
<1>4. n \in FleetReqs
  BY <1>1, <1>3 DEF FleetReqs
<1>5. /\ SameRequest(q, n) /\ n.at = q.at /\ n.where = q.where /\ n.ask = q.ask
      /\ n.answer = q.answer /\ n.hit = q.hit /\ n.items = q.items \cup Matching(q, some)
      /\ n.twice = (q.twice \/ some \cap q.items # {}) /\ n.sources = q.sources \cup {source}
  BY <1>3 DEF FleetReqs, SameRequest
<1> QED
  BY <1>2, <1>4, <1>5

(* A local driver has answered: a listing has what it need not ask for.     *)
LEMMA ListLocalIsTrue ==
  ASSUME FleetInv, NEW r \in Requests, NEW rt \in FleetRuntimes, ListLocal(r, rt)
  PROVE  FleetInv'
<1>1. PICK q : q = reqs[r]
  OBVIOUS
<1>2. q \in FleetReqs /\ RequestIsTrue(q) /\ q.at = "list" /\ rt \in q.ask /\ q.kind # "machines"
  BY <1>1, RequestIs DEF ListLocal
<1>3. q.kind \in {"list", "labelled"} /\ q.where = "self"
  BY <1>2 DEF RequestIsTrue, ListingIsTrue, About, FleetReqs, FleetKinds
<1>4. PICK asked : asked = [q EXCEPT !.ask = @ \ {rt}]
  OBVIOUS
<1>5. PICK mine : mine = {s \in alive : s.place.machine = q.where /\ s.place.runtime = rt}
  OBVIOUS
<1>6. PICK some \in SUBSET mine, source \in FleetSources :
        /\ Becomes(r, Gathers(asked, some, source))
        /\ source = "ok" => some = mine
  <2>1. \/ Becomes(r, Gathers(asked, {}, "degraded")) \/ Becomes(r, Gathers(asked, mine, "ok"))
        \/ \E some \in SUBSET mine : Becomes(r, Gathers(asked, some, "degraded"))
        \/ \E how \in {"unreachable", "degraded"} : Becomes(r, Gathers(asked, {}, how))
    <3>1. asked.where = q.where
      BY <1>2, <1>4 DEF FleetReqs
    <3>2. PICK a : a = [reqs[r] EXCEPT !.ask = @ \ {rt}]
      OBVIOUS
    <3>3. a = asked
      BY <1>1, <1>4, <3>2
    <3>4. mine = {s \in alive : s.place.machine = a.where /\ s.place.runtime = rt}
      BY <1>5, <3>1, <3>3
    <3>5. \/ Becomes(r, Gathers(a, {}, "degraded"))
          \/ Becomes(r, Gathers(a, {s \in alive : s.place.machine = a.where /\ s.place.runtime = rt}, "ok"))
          \/ \E some \in SUBSET {s \in alive : s.place.machine = a.where /\ s.place.runtime = rt} :
                Becomes(r, Gathers(a, some, "degraded"))
          \/ \E how \in {"unreachable", "degraded"} : Becomes(r, Gathers(a, {}, how))
      BY <3>2 DEF ListLocal
    <3> QED
      BY <3>3, <3>4, <3>5
  <2> QED
    BY <2>1 DEF FleetSources
<1>7. /\ asked \in FleetReqs /\ SameRequest(q, asked) /\ asked.at = "list" /\ asked.where = q.where
      /\ asked.ask = q.ask \ {rt} /\ asked.items = q.items /\ asked.twice = q.twice
      /\ asked.answer = q.answer /\ asked.hit = q.hit /\ asked.sources = q.sources
  BY <1>2, <1>4 DEF FleetReqs, SameRequest
<1>8. PICK n : n = Gathers(asked, some, source)
  OBVIOUS
<1>9. some \subseteq FleetSessions /\ some \subseteq alive
  BY <1>5 DEF FleetInv, FleetTypeOK
<1>10. /\ n \in FleetReqs /\ SameRequest(q, n) /\ n.at = "list" /\ n.where = q.where /\ n.ask = q.ask \ {rt}
       /\ n.answer = q.answer /\ n.hit = q.hit /\ n.items = q.items \cup Matching(asked, some)
       /\ n.twice = (q.twice \/ some \cap q.items # {}) /\ n.sources = q.sources \cup {source}
  BY <1>7, <1>8, <1>9, GathersIs DEF SameRequest
<1>11. Matching(asked, some) = Matching(q, some) /\ Matching(q, some) \subseteq some
  BY <1>7 DEF Matching, Asked, SameRequest
<1>12. /\ \A s \in q.items : s.place.machine = "self" /\ s.place.runtime \notin q.ask
       /\ \A s \in some : s.place.machine = "self" /\ s.place.runtime = rt
  BY <1>2, <1>3, <1>5 DEF RequestIsTrue, ListingIsTrue
<1>13. some \cap q.items = {}
  BY <1>2, <1>12
<1>14. IsFollowed(n)
  BY <1>2, <1>9, <1>10, <1>11, <1>13 DEF RequestIsTrue, IsFollowed, SameRequest
<1>15. Complete(n) => ListsOf(n) \subseteq n.items
  <2> SUFFICES ASSUME Complete(n), NEW s \in ListsOf(n) PROVE s \in n.items
    OBVIOUS
  <2>1. Complete(q) /\ source = "ok"
    BY <1>10 DEF Complete
  <2>2. ListsOf(q) \subseteq q.items /\ q.always \subseteq alive
    BY <1>2, <1>3, <2>1 DEF RequestIsTrue, ListingIsTrue, IsFollowed
  <2>3. s \in Matching(q, q.always) /\ s.place.machine = "self" /\ s.place.runtime \notin q.ask \ {rt}
    BY <1>10, SameRequestIs DEF ListsOf
  <2>4. CASE s.place.runtime = rt
    <3>1. s \in some
      BY <1>3, <1>5, <1>6, <2>1, <2>2, <2>3, <2>4 DEF Matching
    <3> QED
      BY <1>10, <1>11, <2>3, <3>1 DEF Matching
  <2>5. CASE s.place.runtime # rt
    BY <1>10, <2>2, <2>3, <2>5 DEF ListsOf
  <2> QED
    BY <2>4, <2>5
<1>16. ListingIsTrue(n)
  <2>1. n.kind = q.kind /\ n.target = q.target /\ n.at = "list" /\ ~About(q.kind) /\ q.target = "self" /\ q.answer = "none"
    BY <1>2, <1>3, <1>10 DEF RequestIsTrue, ListingIsTrue, IsFollowed, About, SameRequest
  <2>2. \A s \in n.items : s.place.machine = "self" /\ s.place.runtime \notin n.ask
    BY <1>10, <1>11, <1>12
  <2> QED
    BY <1>3, <1>10, <1>15, <2>1, <2>2 DEF ListingIsTrue
<1>17. RequestIsTrue(n)
  BY <1>3, <1>10, <1>14, <1>16 DEF RequestIsTrue, SameRequest
<1> QED
  BY <1>6, <1>8, <1>10, <1>17, OneRequestMoves

(* The peer has answered, and nobody is left to ask.                        *)
LEMMA ListPeerIsTrue == ASSUME FleetInv, NEW r \in Requests, ListPeer(r) PROVE FleetInv'
<1>1. PICK q : q = reqs[r]
  OBVIOUS
<1>2. q \in FleetReqs /\ RequestIsTrue(q) /\ q.at = "list" /\ q.ask = {} /\ q.kind # "machines"
  BY <1>1, RequestIs DEF ListPeer
<1>3. q.kind \in {"list", "labelled"} /\ q.where = "self"
  BY <1>2 DEF RequestIsTrue, ListingIsTrue, About, FleetReqs, FleetKinds
<1>4. PICK closing : closing = [q EXCEPT !.at = "close"]
  OBVIOUS
<1>5. /\ closing \in FleetReqs /\ SameRequest(q, closing) /\ closing.at = "close" /\ closing.where = q.where
      /\ closing.ask = q.ask /\ closing.items = q.items /\ closing.twice = q.twice
      /\ closing.answer = q.answer /\ closing.hit = q.hit /\ closing.sources = q.sources
  BY <1>2, <1>4 DEF FleetReqs, FleetStages, SameRequest
<1>6. PICK some \in SUBSET PeerAnswers, source \in FleetSources :
        /\ Becomes(r, Gathers(closing, some, source))
        /\ source = "ok" => some = PeerAnswers
  <2>1. \/ Becomes(r, Adopted(closing, PeerAnswers, "ok"))
        \/ \E some \in SUBSET PeerAnswers : Becomes(r, Adopted(closing, some, "degraded"))
        \/ Becomes(r, Gathers(closing, {}, "unauthorized"))
        \/ Becomes(r, Gathers(closing, {}, "unreachable"))
    BY <1>1, <1>4 DEF ListPeer
  <2>2. \A some, status : \/ Adopted(closing, some, status) = Gathers(closing, {}, "degraded")
                          \/ Adopted(closing, some, status) = Gathers(closing, some, status)
    BY DEF Adopted
  <2>3. CASE Becomes(r, Adopted(closing, PeerAnswers, "ok"))
    <3>1. Becomes(r, Gathers(closing, {}, "degraded")) \/ Becomes(r, Gathers(closing, PeerAnswers, "ok"))
      BY <2>2, <2>3
    <3> QED
      BY <3>1 DEF FleetSources
  <2>4. CASE \E some \in SUBSET PeerAnswers : Becomes(r, Adopted(closing, some, "degraded"))
    <3>1. PICK some \in SUBSET PeerAnswers : Becomes(r, Adopted(closing, some, "degraded"))
      BY <2>4
    <3>2. Becomes(r, Gathers(closing, {}, "degraded")) \/ Becomes(r, Gathers(closing, some, "degraded"))
      BY <2>2, <3>1
    <3> QED
      BY <3>2 DEF FleetSources
  <2>5. CASE Becomes(r, Gathers(closing, {}, "unauthorized")) \/ Becomes(r, Gathers(closing, {}, "unreachable"))
    BY <2>5 DEF FleetSources
  <2> QED
    BY <2>1, <2>3, <2>4, <2>5
<1>7. some \subseteq FleetSessions /\ some \subseteq alive
  BY DEF PeerAnswers, FleetInv, FleetTypeOK
<1>8. PICK n : n = Gathers(closing, some, source)
  OBVIOUS
<1>9. /\ n \in FleetReqs /\ SameRequest(q, n) /\ n.at = "close" /\ n.where = q.where
      /\ n.answer = q.answer /\ n.hit = q.hit /\ n.items = q.items \cup Matching(closing, some)
      /\ n.twice = (q.twice \/ some \cap q.items # {}) /\ n.sources = q.sources \cup {source}
  BY <1>5, <1>7, <1>8, GathersIs DEF SameRequest
<1>10. Matching(closing, some) = Matching(q, some) /\ Matching(q, some) \subseteq some
  BY <1>5 DEF Matching, Asked, SameRequest
<1>11. some \cap q.items = {}
  <2>1. \A s \in q.items : s.place.machine = "self"
    BY <1>2 DEF RequestIsTrue, ListingIsTrue
  <2>2. \A s \in some : s.place.machine = "peer"
    BY DEF PeerAnswers
  <2> QED
    BY <2>1, <2>2
<1>12. IsFollowed(n)
  BY <1>2, <1>7, <1>9, <1>10, <1>11 DEF RequestIsTrue, IsFollowed, SameRequest
<1>13. Complete(n) => Matching(n, n.always) \subseteq n.items
  <2> SUFFICES ASSUME Complete(n), NEW s \in Matching(n, n.always) PROVE s \in n.items
    OBVIOUS
  <2>1. Complete(q) /\ source = "ok"
    BY <1>9 DEF Complete
  <2>2. ListsOf(q) \subseteq q.items /\ q.always \subseteq alive
    BY <1>2, <1>3, <2>1 DEF RequestIsTrue, ListingIsTrue, IsFollowed
  <2>3. s \in Matching(q, q.always) /\ s \in q.always
    BY <1>9, SameRequestIs DEF Matching
  <2>4. s \in FleetSessions
    BY <2>2, <2>3 DEF FleetInv, FleetTypeOK
  <2>5. s.place.machine \in {"self", "peer"}
    BY <2>4 DEF FleetSessions, FleetPlaces, FleetMachines
  <2>6. CASE s.place.machine = "self"
    BY <1>2, <1>9, <2>2, <2>3, <2>6 DEF ListsOf
  <2>7. CASE s.place.machine = "peer"
    <3>1. s \in some
      BY <1>6, <2>1, <2>2, <2>3, <2>7 DEF PeerAnswers
    <3> QED
      BY <1>9, <1>10, <2>3, <3>1 DEF Matching
  <2> QED
    BY <2>5, <2>6, <2>7
<1>14. ListingIsTrue(n)
  <2>1. n.kind = q.kind /\ n.target = q.target /\ ~About(q.kind) /\ q.target = "self" /\ q.answer = "none"
    BY <1>2, <1>3, <1>9 DEF RequestIsTrue, ListingIsTrue, IsFollowed, About, SameRequest
  <2> QED
    BY <1>3, <1>9, <1>13, <2>1 DEF ListingIsTrue
<1>15. RequestIsTrue(n)
  BY <1>3, <1>9, <1>12, <1>14 DEF RequestIsTrue, SameRequest
<1> QED
  BY <1>6, <1>8, <1>9, <1>15, OneRequestMoves

(* The machines of the fleet are listed.                                    *)
LEMMA ListMachinesIsTrue == ASSUME FleetInv, NEW r \in Requests, ListMachines(r) PROVE FleetInv'
<1>1. PICK q : q = reqs[r]
  OBVIOUS
<1>2. q \in FleetReqs /\ RequestIsTrue(q) /\ q.at = "list" /\ q.kind = "machines"
  BY <1>1, RequestIs DEF ListMachines
<1>3. PICK sources \in SUBSET FleetSources : Becomes(r, [[q EXCEPT !.at = "close"] EXCEPT !.sources = sources])
  BY <1>1 DEF ListMachines, FleetSources
<1>4. PICK n : n = [[q EXCEPT !.at = "close"] EXCEPT !.sources = sources]
  OBVIOUS
<1>5. /\ n \in FleetReqs /\ SameRequest(q, n) /\ n.at = "close" /\ n.where = q.where /\ n.items = q.items
      /\ n.twice = q.twice /\ n.answer = q.answer /\ n.hit = q.hit
  BY <1>2, <1>4 DEF FleetReqs, FleetStages, SameRequest
<1>6. IsFollowed(n)
  BY <1>2, <1>5 DEF RequestIsTrue, IsFollowed, SameRequest
<1>7. ListingIsTrue(n)
  BY <1>2, <1>5 DEF RequestIsTrue, ListingIsTrue, About, SameRequest
<1>8. RequestIsTrue(n)
  BY <1>2, <1>5, <1>6, <1>7 DEF RequestIsTrue, SameRequest
<1> QED
  BY <1>3, <1>4, <1>5, <1>8, OneRequestMoves

(* A listing is told as complete, or as partial.                            *)
LEMMA ListsIsTrue == ASSUME FleetInv, NEW r \in Requests, Lists(r) PROVE FleetInv'
<1>1. PICK q : q = reqs[r]
  OBVIOUS
<1>2. PICK answer : answer = IF Complete(q) THEN "complete" ELSE "partial"
  OBVIOUS
<1>3. q.at = "close" /\ Replies(r, answer)
  BY <1>1, <1>2 DEF Lists
<1>4. answer \in FleetReplies /\ (answer = "complete" => Complete(q)) /\ answer \notin {"no such session", "dead"}
  BY <1>2 DEF FleetReplies
<1> QED
  BY <1>1, <1>3, <1>4, RepliesIsTrue

(* Every step keeps the invariant.                                          *)
THEOREM FleetInvariantHolds == FleetSpec => []FleetInv
<1>1. FleetInit => FleetInv
  <2> SUFFICES ASSUME FleetInit PROVE FleetInv
    OBVIOUS
  <2>1. reqs = <<>> /\ alive = {} /\ known = {}
    BY DEF FleetInit
  <2>2. reqs \in Seq(FleetReqs) /\ Requests = {}
    BY <2>1 DEF Requests
  <2>3. FleetTypeOK /\ SessionsAreKnown
    BY <2>1, <2>2 DEF FleetInit, FleetTypeOK, SessionsAreKnown
  <2> QED
    BY <2>2, <2>3 DEF FleetInv, AllRequests
<1>2. FleetInv /\ [FleetNext]_fleetVars => FleetInv'
  <2> SUFFICES ASSUME FleetInv, [FleetNext]_fleetVars PROVE FleetInv'
    OBVIOUS
  <2>1. CASE UNCHANGED fleetVars
    <3>1. UNCHANGED <<fleetEnv, alive, known, counts, reqs>>
      BY <2>1 DEF fleetVars
    <3>2. FleetTypeOK' /\ SessionsAreKnown'
      BY <3>1 DEF FleetInv, FleetTypeOK, SessionsAreKnown, FleetMay
    <3>3. AllRequests' = AllRequests
      BY <3>1 DEF AllRequests, Requests
    <3>4. ASSUME NEW q \in AllRequests' PROVE RequestIsTrue(q)'
      <4>1. RequestIsTrue(q)
        BY <3>3, <3>4 DEF FleetInv
      <4> QED
        BY <3>1, <4>1, TruthStands
    <3> QED
      BY <3>2, <3>4 DEF FleetInv
  <2>2. CASE Opens
    BY <2>2, OpensIsTrue
  <2>3. CASE Closes
    BY <2>3, ClosesIsTrue
  <2>4. CASE RequestComes
    BY <2>4, ComesIsTrue
  <2>5. CASE \E r \in Requests : RequestArrives(r) \/ RelayRequest(r) \/ Probed(r) \/ Decides(r)
    BY <2>5, ArrivesIsTrue, RelayIsTrue, ProbedIsTrue, DecidesIsTrue
  <2>6. CASE \E r \in Requests : CallActs(r) \/ CallGets(r) \/ CallCreates(r) \/ CallFails(r)
    BY <2>6, CallIsTrue
  <2>7. CASE \E r \in Requests, rt \in FleetRuntimes : ProbeCaps(r, rt) \/ ListLocal(r, rt)
    BY <2>7, ProbeIsTrue, ListLocalIsTrue
  <2>8. CASE \E r \in Requests : ListPeer(r) \/ ListMachines(r) \/ Lists(r)
    BY <2>8, ListPeerIsTrue, ListMachinesIsTrue, ListsIsTrue
  <2> QED
    BY <2>1, <2>2, <2>3, <2>4, <2>5, <2>6, <2>7, <2>8 DEF FleetNext
<1> QED
  BY <1>1, <1>2, PTL DEF FleetSpec

(* The types of the sessions and of the requests, in every environment.     *)
THEOREM FleetTypeCorrect == FleetSpec => []FleetTypeOK
<1>1. FleetInv => FleetTypeOK
  BY DEF FleetInv
<1> QED
  BY <1>1, FleetInvariantHolds, PTL

(* A listing that is told as complete lacks no session that was there all   *)
(* the time, and no listing shows one that never was or one twice, in every *)
(* environment.                                                             *)
THEOREM CompleteNeverLacks == FleetSpec => []CompleteLacksNothing
<1>1. FleetInv => CompleteLacksNothing
  <2> SUFFICES ASSUME FleetInv, NEW r \in Requests
               PROVE  /\ reqs[r].kind \in {"list", "labelled"} /\ reqs[r].answer = "complete"
                            => Matching(reqs[r], reqs[r].always) \subseteq reqs[r].items
                      /\ reqs[r].items \subseteq reqs[r].ever /\ ~reqs[r].twice
    BY DEF CompleteLacksNothing
  <2>1. RequestIsTrue(reqs[r])
    BY RequestIs
  <2> QED
    BY <2>1 DEF RequestIsTrue, IsFollowed, ListingIsTrue
<1> QED
  BY <1>1, FleetInvariantHolds, PTL

(* And a request reaches the session it named, and is not told that there   *)
(* is none while there is one, where callers name no runtime of a peer and  *)
(* no id is in two runtimes of a machine whose drivers may fail.            *)
THEOREM FleetAnswersAreAlwaysTrue == FleetSpec /\ []FleetPlain => []FleetAnswersAreTrue
<1>1. FleetInv /\ FleetPlain => ReachesWhatItNamed
  <2> SUFFICES ASSUME FleetInv, FleetPlain, NEW r \in Requests, NEW q, q = reqs[r], About(q.kind), q.kind # "create"
               PROVE  /\ q.hit # 0 =>
                            /\ q.named # "" => q.runtime = q.named
                            /\ q.named = "" => \A rt \in FleetRuntimes \ {q.runtime} : ~StandsAt(q, rt)
                      /\ q.answer \in {"no such session", "dead"} =>
                            \A rt \in FleetRuntimes : q.named \in {"", rt} => ~StandsAt(q, rt)
    BY DEF ReachesWhatItNamed, StandsAt
  <2>1. RequestIsTrue(q) /\ q.kind \in {"act", "get"}
    BY RequestIs DEF About
  <2>2. RouteIsTrue(q)
    BY <2>1 DEF RequestIsTrue
  <2> QED
    BY <2>2 DEF RouteIsTrue, RightPlace, Nowhere
<1>2. CompleteLacksNothing /\ ReachesWhatItNamed => FleetAnswersAreTrue
  BY DEF FleetAnswersAreTrue
<1> QED
  BY <1>1, <1>2, FleetInvariantHolds, CompleteNeverLacks, PTL

=============================================================================
