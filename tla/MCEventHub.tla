----------------------------- MODULE MCEventHub -----------------------------
EXTENDS EventHub, TLC

CONSTANTS s1, s2

Symmetry == Permutations(Clients)

\* Two clients that ask for everything of one machine.
Two == [clients |-> Clients, filter |-> [c \in Clients |-> {s1}], local |-> {},
        remote |-> {}, retention |-> 2, chan |-> 9, may |-> {},
        changes |-> 2, failures |-> 0, streams |-> 3, crashes |-> 0]
Broken == [Two EXCEPT !.changes = 1, !.failures = 1]

\* One client, more changes or more failures, and a restart.
One == {[Two EXCEPT !.clients = {c}, !.changes = 3, !.failures = 1, !.crashes = 1] : c \in Clients}
Failing == {[e EXCEPT !.changes = 1, !.failures = 2] : e \in One}

\* Two clients with different filters and a peer; the last one stays away.
Streams == {[Two EXCEPT !.filter = [d \in Clients |-> IF d = c THEN {s1} ELSE Sessions],
                        !.remote = {s2}, !.retention = 1, !.chan = 1, !.may = {"linger"},
                        !.changes = 0] : c \in Clients}

\* Two requests inside ensureStream at once; clients that list early and send no
\* epoch; a service that keeps its sequence across a restart.
Raced == [Two EXCEPT !.may = {"race"}, !.changes = 1, !.streams = 2]
Careless == {[e EXCEPT !.may = may, !.changes = 2, !.failures = 1] :
                e \in One, may \in {{"early", "noEpoch"}, {"durable"}}}

\* A client with scope=local beside one without; a peer; the window keeps one event.
Mixed == {[Two EXCEPT !.filter = [d \in Clients |-> Sessions], !.local = {c}, !.remote = {s2},
                      !.retention = 1] : c \in Clients}
Scopes == {[e EXCEPT !.changes = 1, !.streams = 2] : e \in Mixed} \cup {[e EXCEPT !.streams = 1] : e \in Mixed}
\* One client of the fleet, whose channel takes one event.
Fleet == {[e EXCEPT !.filter = [d \in Clients |-> Sessions], !.remote = {s2}, !.changes = 2,
                    !.crashes = 0, !.chan = 1] : e \in One}

All == {Two, Broken, Raced} \cup One \cup Failing \cup Streams \cup Careless \cup Scopes \cup Fleet

\* A client that reads more slowly than events come: the channel is full.
Slow == {[e EXCEPT !.chan = 1] : e \in One}

=============================================================================
