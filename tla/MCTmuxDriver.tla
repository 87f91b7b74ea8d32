----------------------------- MODULE MCTmuxDriver -----------------------------
(***************************************************************************)
(* What the tmux driver does to its sessions and keeps about them, checked *)
(* together: which session a command reaches, the lanes of the delivery    *)
(* module, the route of a send, and the locks of the composers. Each       *)
(* behaviour has one part, whose module moves; the others stand still.     *)
(***************************************************************************)
EXTENDS SessionOwnership, DeliveryLanes, DeliveryRoutes, ComposerLock, TLC

CONSTANTS p, q, a, b, t1, t2

VARIABLE part     \* the part that moves

\* Requests are alike.
Symmetry == Permutations({p, q})

-----------------------------------------------------------------------------
\* One request at a time, beside a tool that keeps to a name of its own.
Alone == [actors |-> {p}, ours |-> {"w"}, other |-> {<<"o", 1>>}, may |-> {"kill"},
          sessions |-> 3]

\* Two requests at a time, beside a tool that also uses the driver's name.
Shared == [Alone EXCEPT !.actors = {p, q}, !.other = {<<"o", 1>>, <<"w", 1>>}, !.sessions = 2]

StillOwner == [Alone EXCEPT !.actors = {}, !.sessions = 0]
OwnerCases == {Alone, Shared}
AllOwners == OwnerCases \cup {StillOwner}

(* A module that restarts, misses deadlines and loses connections, under   *)
(* agents that are replaced; refusals, failures and names used again at    *)
(* once; listings that fail and restarts of the service; renames; looks    *)
(* beside requests; two sessions in turn.                                  *)
Lanes(m, n, k, g, i, d, r) ==
    [may |-> m, names |-> n, keys |-> k, gens |-> g, pids |-> i, drops |-> d, restarts |-> r]
StillLane == Lanes({}, {}, 0, 0, 0, 0, 0)
LaneCases == {
    Lanes({"slow", "late", "replace"}, {a}, 1, 2, 1, 1, 0), Lanes({"refuse", "fail", "reuse"}, {a}, 2, 1, 1, 0, 0),
    Lanes({"blind"}, {a}, 1, 2, 1, 1, 1), Lanes({"rename"}, {a, b}, 1, 2, 1, 0, 0),
    Lanes({"meanwhile"}, {a}, 1, 1, 1, 0, 1), Lanes({}, {a}, 2, 1, 2, 1, 1),
    Lanes({"slow", "replace"}, {a}, 1, 1, 2, 1, 0), Lanes({"replace"}, {a}, 1, 2, 2, 0, 1)}
AllLanes == LaneCases \cup {StillLane}

\* A module that comes to rest with copies unconfirmed, and one that answers at last.
Sends(m, s, l, e) ==
    [may |-> m, routes |-> {"auto", "terminal", "inbox", "module"}, sends |-> s, lanes |-> l, events |-> e]
StillRoute == Sends({}, 0, 0, 0)
RouteCases == {Sends({"rest", "blind"}, 3, 2, 1), Sends({"succeed"}, 3, 1, 0)}
AllRoutes == RouteCases \cup {StillRoute}

Locks(m, k, c, r, s) == [may |-> m, kinds |-> k, calls |-> c, renames |-> r, sessions |-> s]
StillLock == Locks({}, {}, 0, 0, 0)
LockCases == {
    Locks({"end", "late"}, {"send", "respond"}, 3, 1, 1), Locks({"end", "reuse"}, {"discard", "escape"}, 2, 1, 2),
    Locks({}, {"keys"}, 2, 2, 1)}
AllLocks == LockCases \cup {StillLock}

-----------------------------------------------------------------------------
InitAll ==
    /\ part \in {"owner", "lanes", "routes", "locks"}
    /\ Init /\ (part = "owner" <=> env # StillOwner)
    /\ LaneInit /\ (part = "lanes" <=> laneEnv # StillLane)
    /\ RouteInit /\ (part = "routes" <=> routeEnv # StillRoute)
    /\ LockInit /\ (part = "locks" <=> lockEnv # StillLock)
    /\ part # "locks" => panes["a"] = 1

OwnerMoves == part = "owner" /\ Next /\ UNCHANGED <<part, laneVars, routeVars, lockVars>>
LanesMove == part = "lanes" /\ LaneNext /\ UNCHANGED <<part, vars, routeVars, lockVars>>
RoutesMove == part = "routes" /\ RouteNext /\ UNCHANGED <<part, vars, laneVars, lockVars>>
LocksMove == part = "locks" /\ LockNext /\ UNCHANGED <<part, vars, laneVars, routeVars>>

NextAll == OwnerMoves \/ LanesMove \/ RoutesMove \/ LocksMove

SpecAll == InitAll /\ [][NextAll]_<<part, vars, laneVars, routeVars, lockVars>>

=============================================================================
