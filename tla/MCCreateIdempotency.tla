------------------------ MODULE MCCreateIdempotency ------------------------
EXTENDS CreateIdempotency

CONSTANTS k1, k2, c1, c2

\* Each client has a key of its own.
OwnKeys == [c \in Callers |-> IF c = c1 THEN k1 ELSE k2]

\* Every request asks for the same name, in a directory of its own.
SameBase == [k \in Keys |-> "w"]
OwnCwds == [k \in Keys |-> IF k = k1 THEN "a" ELSE "b"]

\* Two clients, a restart, and a table that may not be saved.
Two == [callers |-> {c1, c2}, outside |-> {}, faults |-> {"disk"}, sessions |-> 2, crashes |-> 1]

\* One client, and somebody who starts sessions by hand in another directory.
Outsider == [callers |-> {c1}, outside |-> {"o"}, faults |-> {"disk"}, sessions |-> 3, crashes |-> 1]

\* Everything fails that can.
Faulty == [Outsider EXCEPT !.faults = {"list", "reply", "disk"}]

All == {Two, Outsider, Faulty}

-----------------------------------------------------------------------------
(* What becomes of a create that was cut off: its key is given only a      *)
(* session it launched itself, and does not stay pending for ever          *)
(* (tmux.go: Create; idempotency.go).                                      *)
PendingIsResolved == AdoptsItsOwn /\ PendingIsSettled
=============================================================================
