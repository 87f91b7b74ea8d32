----------------------------- MODULE FleetRequests -----------------------------
(***************************************************************************)
(* How a service answers a request about many sessions, and finds the one  *)
(* driver for a request about one (service.go, http.go, auth.go).  Two     *)
(* machines list each other as peers.  Each has drivers of one or more     *)
(* runtimes, and the same id may be held in two runtimes of one machine.   *)
(* The caller asks "self"; a request about a session of "peer" is relayed, *)
(* and the peer finds the runtime for itself.                              *)
(***************************************************************************)
EXTENDS Naturals, Sequences, FiniteSets, TLC

CONSTANTS
    FleetIds,             \* ids of sessions
    FleetEnvironments     \* what may happen, a set of records

FleetMachines == {"self", "peer"}
FleetRuntimes == {"tmux", "opencode"}

(***************************************************************************)
(*   may        a driver fails, is late or can only answer in part         *)
(*              ("fail"); the peer does not answer ("cut"); an id is held  *)
(*              in two runtimes of a machine ("same"); a caller names the  *)
(*              runtime of a session of the peer ("named")                 *)
(*   runtimes   the runtimes of each machine                               *)
(*   default    the default runtime of each machine, "" is none            *)
(*   mute       runtimes that can hold no session: State is not supported  *)
(*   grants     what the caller may do at each machine                     *)
(*   old        the peer's build does not know labels                      *)
(*   kinds      the requests                                               *)
(*   requests, opens, closes   bounds                                      *)
(***************************************************************************)
ASSUME FleetAssumption ==
    \A e \in FleetEnvironments :
       /\ e.may \subseteq {"fail", "cut", "same", "named"}
       /\ \A m \in FleetMachines :
             /\ e.runtimes[m] \subseteq FleetRuntimes /\ e.default[m] \in e.runtimes[m] \cup {""}
             /\ e.grants[m] \subseteq {"read", "act", "relay"}
       /\ e.mute \subseteq FleetRuntimes /\ e.old \in BOOLEAN
       /\ e.kinds \subseteq {"act", "get", "create", "list", "labelled", "machines"}
       /\ {e.requests, e.opens, e.closes} \subseteq Nat

VARIABLES
    fleetEnv,    \* the environment of this behaviour
    alive,       \* the sessions that are there: places with their run
    known,       \* the places that a driver has ever known a session at
    counts,      \* how many sessions were opened and closed
    reqs         \* the requests

fleetVars == <<fleetEnv, alive, known, counts, reqs>>

FleetMay(what) == what \in fleetEnv.may
Requests == DOMAIN reqs
Place(m, rt, i) == [machine |-> m, runtime |-> rt, id |-> i]
Places == {Place(m, rt, i) : m \in FleetMachines, rt \in FleetRuntimes \ fleetEnv.mute, i \in FleetIds}
Here == {s.place : s \in alive}

(* Sessions of the second id carry the label that a filter may ask for.    *)
Labelled(s) == s.place.id = "y"

FleetInit ==
    /\ fleetEnv \in FleetEnvironments
    /\ alive = {} /\ known = {} /\ counts = [opens |-> 0, closes |-> 0] /\ reqs = <<>>

-----------------------------------------------------------------------------
(* The sessions *)

(* While a request is under way: what was there all the time, and what was *)
(* at some time.                                                           *)
WithSessions(rs, now) ==
    [r \in DOMAIN rs |-> IF rs[r].at = "done" THEN rs[r]
        ELSE [rs[r] EXCEPT !.always = @ \cap now, !.ever = @ \cup now]]

Opens ==
    \E p \in Places :
       /\ counts.opens < fleetEnv.opens /\ p \notin Here
       /\ p.runtime \in fleetEnv.runtimes[p.machine]
       /\ (\E q \in known : q # p /\ q.machine = p.machine /\ q.id = p.id) => FleetMay("same")
       /\ alive' = alive \cup {[place |-> p, run |-> counts.opens + 1]}
       /\ known' = known \cup {p}
       /\ counts' = [counts EXCEPT !.opens = @ + 1]
       /\ reqs' = WithSessions(reqs, alive')
       /\ UNCHANGED fleetEnv

Closes ==
    \E s \in alive :
       /\ counts.closes < fleetEnv.closes
       /\ alive' = alive \ {s}
       /\ counts' = [counts EXCEPT !.closes = @ + 1]
       /\ reqs' = WithSessions(reqs, alive')
       /\ UNCHANGED <<fleetEnv, known>>

-----------------------------------------------------------------------------
(* A request comes, and passes from machine to machine *)

About(kind) == kind \in {"act", "get", "create"}

NewRequest(kind, target, i, hint) ==
    [kind |-> kind, target |-> target, id |-> i, named |-> hint, hint |-> hint,
     at |-> "arrives", where |-> "self", runtime |-> "", ask |-> {}, holders |-> {}, unsure |-> {},
     items |-> {}, twice |-> FALSE, sources |-> {}, answer |-> "none", hit |-> 0,
     always |-> alive, ever |-> alive]

RequestComes ==
    /\ Len(reqs) < fleetEnv.requests
    /\ \E kind \in fleetEnv.kinds, target \in FleetMachines, i \in FleetIds, hint \in FleetRuntimes \cup {""} :
          /\ ~About(kind) => target = "self" /\ i = CHOOSE j \in FleetIds : TRUE
          /\ ~About(kind) => hint = ""
          /\ hint # "" => target = "self" \/ FleetMay("named")
          /\ reqs' = Append(reqs, NewRequest(kind, target, i, hint))
    /\ UNCHANGED <<fleetEnv, alive, known, counts>>

Becomes(r, new) == reqs' = [reqs EXCEPT ![r] = new] /\ UNCHANGED <<fleetEnv, alive, known, counts>>
Replies(r, answer) == Becomes(r, [reqs[r] EXCEPT !.at = "done", !.answer = answer])

(* mutating, reading: each machine asks its own table; a request that is   *)
(* about a peer's session needs the grant to relay.                        *)
Need(req) ==
    IF req.kind \notin {"act", "create"} THEN "read" ELSE IF req.target # req.where THEN "relay" ELSE "act"

(* resolveSessionDriver, first part: a peer's session goes to the peer's   *)
(* driver, a runtime that was named is taken, and so is the only one.      *)
RequestArrives(r) ==
    LET req == reqs[r]
        here == fleetEnv.runtimes[req.where]
    IN /\ req.at = "arrives"
       /\ IF Need(req) \notin fleetEnv.grants[req.where] THEN Replies(r, "unauthorized")
          ELSE IF ~About(req.kind) THEN Becomes(r, [req EXCEPT !.at = "list", !.ask = here])
          ELSE IF req.target # req.where THEN Becomes(r, [req EXCEPT !.at = "relay"])
          ELSE IF req.hint \in here THEN Becomes(r, [req EXCEPT !.at = "call", !.runtime = req.hint])
          ELSE IF req.hint # "" THEN Replies(r, "unknown runtime")
          ELSE IF here = {} THEN Replies(r, "no drivers")
          ELSE IF Cardinality(here) = 1 THEN
                  Becomes(r, [req EXCEPT !.at = "call", !.runtime = CHOOSE rt \in here : TRUE])
          ELSE IF req.kind = "create" THEN Becomes(r, [req EXCEPT !.at = "decide"])
          ELSE Becomes(r, [req EXCEPT !.at = "probe", !.ask = here])

(* The remote driver sends no runtime with a request about a session; a    *)
(* create carries it in its body.                                          *)
RelayedHint(req) == IF req.kind = "create" THEN req.hint ELSE ""

RelayRequest(r) ==
    LET req == reqs[r] IN
    /\ req.at = "relay"
    /\ \/ Becomes(r, [req EXCEPT !.at = "arrives", !.where = "peer", !.hint = RelayedHint(req)])
       \/ FleetMay("cut") /\ Replies(r, "unreachable")

-----------------------------------------------------------------------------
(* Existence first, default as tiebreak *)

(* probeHolders: one driver says what it knows of the id.  A session that  *)
(* is over, but that it has known, is one it has.                          *)
ProbeCaps(r, rt) ==
    LET req == reqs[r]  left == [req EXCEPT !.ask = @ \ {rt}] IN
    /\ req.at = "probe" /\ rt \in req.ask
    /\ \/ IF Place(req.where, rt, req.id) \in known
          THEN Becomes(r, [left EXCEPT !.holders = @ \cup {rt}]) ELSE Becomes(r, left)
       \/ FleetMay("fail") /\ rt \notin fleetEnv.mute /\ Becomes(r, [left EXCEPT !.unsure = @ \cup {rt}])

Probed(r) ==
    /\ reqs[r].at = "probe" /\ reqs[r].ask = {}
    /\ Becomes(r, [reqs[r] EXCEPT !.at = "decide"])

(* resolveSessionDriver, second part.                                      *)
ChosenDefaultFirst(req) ==
    IF fleetEnv.default[req.where] # "" THEN fleetEnv.default[req.where]
    ELSE IF Cardinality(req.holders) = 1 THEN CHOOSE rt \in req.holders : TRUE ELSE "ambiguous"
Chosen(req) ==
    IF Cardinality(req.holders) = 1 THEN CHOOSE rt \in req.holders : TRUE
    ELSE IF req.holders # {} \/ req.unsure # {} \/ fleetEnv.default[req.where] = "" THEN "ambiguous"
    ELSE fleetEnv.default[req.where]

Decides(r) ==
    LET req == reqs[r]  rt == Chosen(req) IN
    /\ req.at = "decide"
    /\ IF rt = "ambiguous" THEN Replies(r, "ambiguous") ELSE Becomes(r, [req EXCEPT !.at = "call", !.runtime = rt])

(* The handlers call the driver that was found.                            *)
Target(req) == Place(req.where, req.runtime, req.id)
There(req) == {s \in alive : s.place = Target(req)}
Supported(req) == req.runtime \notin fleetEnv.mute

(* Interrupt, close, respond, discard: on the session that is there now.   *)
CallActs(r) ==
    LET req == reqs[r] IN
    /\ req.at = "call" /\ req.kind = "act" /\ Supported(req)
    /\ IF There(req) = {} THEN Replies(r, "no such session")
       ELSE Becomes(r, [req EXCEPT !.at = "done", !.answer = "ok", !.hit = (CHOOSE s \in There(req) : TRUE).run])

(* A session that is over is told as dead while the driver remembers it.   *)
CallGets(r) ==
    LET req == reqs[r] IN
    /\ req.at = "call" /\ req.kind = "get" /\ Supported(req)
    /\ CASE There(req) # {} ->
               Becomes(r, [req EXCEPT !.at = "done", !.answer = "ok", !.hit = (CHOOSE s \in There(req) : TRUE).run])
         [] There(req) = {} /\ Target(req) \in known -> Replies(r, "dead")
         [] OTHER -> Replies(r, "no such session")

CallCreates(r) ==
    /\ reqs[r].at = "call" /\ reqs[r].kind = "create" /\ Supported(reqs[r])
    /\ Replies(r, "created")

(* writeDriverError.                                                       *)
CallFails(r) ==
    /\ reqs[r].at = "call"
    /\ \/ ~Supported(reqs[r]) /\ Replies(r, "unsupported")
       \/ FleetMay("fail") /\ Replies(r, "error")

-----------------------------------------------------------------------------
(* Listings *)

Asked(req) == req.kind = "labelled"
Matching(req, ss) == {s \in ss : Asked(req) => Labelled(s)}

(* What a request has gathered, with the items of one more source.         *)
Gathers(req, ss, source) ==
    [req EXCEPT !.items = @ \cup Matching(req, ss), !.twice = @ \/ ss \cap req.items # {},
                !.sources = @ \cup {source}]

(* callList: one local driver.  It may answer in part, and says so, or not *)
(* in time, or with an error; a runtime that holds no sessions has none.   *)
ListLocal(r, rt) ==
    LET req == [reqs[r] EXCEPT !.ask = @ \ {rt}]
        mine == {s \in alive : s.place.machine = req.where /\ s.place.runtime = rt}
    IN /\ reqs[r].at = "list" /\ rt \in reqs[r].ask /\ reqs[r].kind # "machines"
       /\ \/ IF rt \in fleetEnv.mute THEN Becomes(r, Gathers(req, {}, "degraded"))
             ELSE Becomes(r, Gathers(req, mine, "ok"))
          \/ FleetMay("fail") /\ \E some \in SUBSET mine : Becomes(r, Gathers(req, some, "degraded"))
          \/ FleetMay("fail") /\ \E how \in {"unreachable", "degraded"} : Becomes(r, Gathers(req, {}, how))

(* What the remote driver adopts of the peer's answer: its items and its   *)
(* sources.  An older peer ignores a label filter.                         *)
PeerAnswers == {s \in alive : s.place.machine = "peer"}
AdoptedAsOk(req, some, status) == Gathers(req, some, "ok")
Adopted(req, some, status) ==
    IF Asked(req) /\ fleetEnv.old /\ some # {} THEN Gathers(req, {}, "degraded") ELSE Gathers(req, some, status)

(* The peer is asked for its own sessions only; its drivers answer as ours *)
(* do, in one step of this model.                                          *)
ListPeer(r) ==
    LET req == [reqs[r] EXCEPT !.at = "close"] IN
    /\ reqs[r].at = "list" /\ reqs[r].ask = {} /\ reqs[r].kind # "machines"
    /\ \/ "read" \in fleetEnv.grants["peer"]
          /\ \/ fleetEnv.runtimes["peer"] \cap fleetEnv.mute = {} /\ Becomes(r, Adopted(req, PeerAnswers, "ok"))
             \/ /\ FleetMay("fail") \/ fleetEnv.runtimes["peer"] \cap fleetEnv.mute # {}
                /\ \E some \in SUBSET PeerAnswers : Becomes(r, Adopted(req, some, "degraded"))
       \/ "read" \notin fleetEnv.grants["peer"] /\ Becomes(r, Gathers(req, {}, "unauthorized"))
       \/ FleetMay("cut") /\ Becomes(r, Gathers(req, {}, "unreachable"))

(* ListMachines: a peer that did not answer is the one that is not ok.     *)
ListMachines(r) ==
    LET req == [reqs[r] EXCEPT !.at = "close"] IN
    /\ reqs[r].at = "list" /\ reqs[r].kind = "machines"
    /\ \/ Becomes(r, [req EXCEPT !.sources = {"ok"}])
       \/ FleetMay("cut") /\ Becomes(r, [req EXCEPT !.sources = {"unreachable"}])

(* NewCollection: complete when every source answered ok.                  *)
Complete(req) == req.sources \subseteq {"ok"}

Lists(r) ==
    /\ reqs[r].at = "close"
    /\ Replies(r, IF Complete(reqs[r]) THEN "complete" ELSE "partial")

FleetNext ==
    \/ Opens \/ Closes \/ RequestComes
    \/ \E r \in Requests : RequestArrives(r) \/ RelayRequest(r) \/ Probed(r) \/ Decides(r)
    \/ \E r \in Requests : CallActs(r) \/ CallGets(r) \/ CallCreates(r) \/ CallFails(r)
    \/ \E r \in Requests, rt \in FleetRuntimes : ProbeCaps(r, rt) \/ ListLocal(r, rt)
    \/ \E r \in Requests : ListPeer(r) \/ ListMachines(r) \/ Lists(r)

FleetSpec == FleetInit /\ [][FleetNext]_fleetVars

-----------------------------------------------------------------------------
(* Properties *)

(* A listing that says it is complete lacks no session of the fleet that   *)
(* was there all the time, and no listing shows one that was not there     *)
(* while it was made, or one session twice.                                *)
CompleteLacksNothing ==
    \A r \in Requests : LET req == reqs[r] IN
       /\ req.kind \in {"list", "labelled"} /\ req.answer = "complete" => Matching(req, req.always) \subseteq req.items
       /\ req.items \subseteq req.ever /\ ~req.twice

(* The session a request reaches is one of the machine and the id it       *)
(* named, in the runtime it named if it named one.  If it named none, no   *)
(* other runtime of that machine had a session of that id all the while:   *)
(* and while one had, no request is told that there is none.               *)
ReachesWhatItNamed ==
    \A r \in Requests : LET req == reqs[r]
                            Elsewhere(rt) == \E s \in req.always : s.place = Place(req.target, rt, req.id)
                        IN About(req.kind) /\ req.kind # "create" =>
       /\ req.hit # 0 =>
             /\ req.named # "" => req.runtime = req.named
             /\ req.named = "" => \A rt \in FleetRuntimes \ {req.runtime} : ~Elsewhere(rt)
       /\ req.answer \in {"no such session", "dead"} =>
             \A rt \in FleetRuntimes : req.named \in {"", rt} => ~Elsewhere(rt)

(* A listing that says it is complete lacks no session of the fleet; a     *)
(* request reaches the session it named, at the machine and in the runtime *)
(* it named, and in no other (internal/service: fan-out and resolution).   *)
FleetAnswersAreTrue == CompleteLacksNothing /\ ReachesWhatItNamed
=============================================================================
