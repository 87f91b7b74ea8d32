------------------------- MODULE AtMostOnceRequest -------------------------
(***************************************************************************)
(* What a caller of internal/delivery/modclient is promised about one      *)
(* request (the package comment's error taxonomy): the module acts on it   *)
(* at most once, and the verdict the caller gets never claims more than is *)
(* true.  "answered" means the module did act; "notSent" means it did not  *)
(* and never will, so the caller may send the message another way; "lost"  *)
(* promises nothing, before or after.                                      *)
(***************************************************************************)
CONSTANTS Calls

VARIABLES
    verdict,    \* what the caller was told
    effect      \* the requests the module has acted on

Verdicts == {"none", "answered", "notSent", "lost"}

Init ==
    /\ verdict = [c \in Calls |-> "none"]
    /\ effect = {}

\* The module acts on the request; never after a "notSent".
Act(c) ==
    /\ c \notin effect
    /\ verdict[c] # "notSent"
    /\ effect' = effect \cup {c}
    /\ UNCHANGED verdict

\* The caller gets its one verdict.
Conclude(c, v) ==
    /\ verdict[c] = "none"
    /\ v = "answered" => c \in effect
    /\ v = "notSent" => c \notin effect
    /\ verdict' = [verdict EXCEPT ![c] = v]
    /\ UNCHANGED effect

Next ==
    \E c \in Calls :
        \/ Act(c)
        \/ \E v \in Verdicts \ {"none"} : Conclude(c, v)

Spec == Init /\ [][Next]_<<verdict, effect>>
=============================================================================
