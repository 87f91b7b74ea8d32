------------------------- MODULE MCComposerDelivery -------------------------
EXTENDS ComposerDelivery

\* Every client sends a message of its own; a client and its message are one
\* model value, so that exchanging them is a symmetry.
OwnText == [c \in Clients |-> c]
Symmetry == Permutations(Clients)

\* Two senders, who resume or replace, and a runtime that hands queued messages back.
Both == [clients |-> Clients, modes |-> {"send", "resume", "replace"}, may |-> {"handBack"},
         entries |-> 1, pieces |-> 2, crashes |-> 0]
Two == {Both} \cup {[Both EXCEPT !.modes = {"send", m}, !.entries = 2] : m \in {"resume", "replace"}}

\* One sender, every call, and everything uncertain at once.
Unsure == {[clients |-> {c}, modes |-> {"send", "place", "resume", "replace", "discard"},
            may |-> {"late", "unsure", "unsurePaste", "lapse"},
            entries |-> 2, pieces |-> 2, crashes |-> 0] : c \in Clients}

\* The same, with a restart.
Restarted == {[e EXCEPT !.entries = 1, !.crashes = 1] : e \in Unsure}

\* One sender who resumes what was accepted and not confirmed.
Resumed == {[clients |-> {c}, modes |-> {"send", "resume"}, may |-> {"unsure"},
             entries |-> 4, pieces |-> 3, crashes |-> 0] : c \in Clients}

All == Two \cup Unsure \cup Restarted \cup Resumed

-----------------------------------------------------------------------------
(* What the driver left in a composer it recognises as its own, and a      *)
(* message that was accepted is not typed again by resuming it             *)
(* (terminalpath2.go, draftrule.go).                                       *)
LeftoversAreKnown == OwnTextIsKnown /\ NeverTwice

(* No call destroys what a person has typed, and what is submitted is one  *)
(* message, whole (draftrule.go; tmux.go: Send, which looks at the         *)
(* composer before it pastes, clears or presses Enter).                    *)
ComposerIsKept == DraftsAreKept /\ SubmitsOneMessage
=============================================================================
