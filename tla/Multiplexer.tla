---------------------------- MODULE Multiplexer ----------------------------
(***************************************************************************)
(* The terminal multiplexer (tmux) as the driver of                        *)
(* internal/drivers/tmux uses it: a set of sessions, each with a name.  It *)
(* is a program outside the repository; what is stated here is what the    *)
(* driver's own comments and calls rely on.                                *)
(*                                                                         *)
(* A name is a pair: the base somebody asked for and the number that       *)
(* numberedName appends to make it free.  <<"w", 1>> is the bare "w" and   *)
(* <<"w", 2>> is "w-2", so the bare name is a prefix of every numbered one.*)
(***************************************************************************)
EXTENDS Naturals, FiniteSets, FiniteSetsExt

CONSTANTS
    Bases,           \* the names callers ask for
    MaxNameAttempts  \* how many numbers resolveName tries (naming.go: 64)

ASSUME MultiplexerAssumption == MaxNameAttempts \in Nat \ {0}

Names == Bases \X (1 .. MaxNameAttempts)

NamesIn(sessions) == {s.name : s \in sessions}

Holding(sessions, name) == {s \in sessions : s.name = name}

\* "sessions" whose names the unpinned target "name" is a proper prefix of.
Prefixed(sessions, name) ==
    {s \in sessions : /\ s.name[1] = name[1]
                      /\ name[2] = 1
                      /\ s.name[2] > 1}

(***************************************************************************)
(* The session an unpinned "-t name" reaches: the one of exactly that      *)
(* name, else the only one the name is a prefix of.  An ambiguous prefix   *)
(* and no match are both "no such session" (the empty set).                *)
(***************************************************************************)
Reached(sessions, name) ==
    IF Holding(sessions, name) # {} THEN Holding(sessions, name)
    ELSE IF Cardinality(Prefixed(sessions, name)) = 1 THEN Prefixed(sessions, name)
    ELSE {}

\* The numbers resolveName finds free for a base, given the names taken.
FreeNumbers(taken, base) == {n \in 1 .. MaxNameAttempts : <<base, n>> \notin taken}
=============================================================================
