-------------------------- MODULE MCSessionHistory --------------------------
EXTENDS SessionHistory, TLC

CONSTANTS r1, r2, a, b, sweep, caller

Apart == r1 :> 1 @@ r2 :> 2

\* Two runs, the sweep and a caller, one restart; people start sessions past
\* the service too.
Plain == [ids |-> Ids, runs |-> Runs, listers |-> {sweep, caller}, gap |-> {},
          lag |-> FALSE, narrow |-> FALSE, outside |-> {"start"}, surprises |-> {},
          accepts |-> 0, crashes |-> 1]

\* Over a restart listings overlap, or people start sessions.
Restarted == {[Plain EXCEPT !.outside = {}], [Plain EXCEPT !.listers = {sweep}]}

\* A new session meets the record of one that had its id.
Reuse == [Plain EXCEPT !.surprises = {"dated"}, !.crashes = 0]

\* Listings are filtered or answered in part.
Partial == [Plain EXCEPT !.narrow = TRUE, !.listers = {sweep}, !.crashes = 0]

\* People rename sessions past the service.
Renamed == [Plain EXCEPT !.outside = {"start", "rename"}, !.listers = {sweep}]

\* A close is accepted and does not take.
Vain == [Plain EXCEPT !.outside = {}, !.accepts = 1, !.listers = {sweep}, !.crashes = 0]

\* Listings are overtaken by what happens to the one session there is.
Overtaken == [Plain EXCEPT !.ids = {a}, !.runs = {r1}, !.lag = TRUE]

\* Others come between what a handler does and what it notes; with renames and
\* creates among the handlers, listings are overtaken too.
Between == {[Plain EXCEPT !.runs = {r1}, !.gap = {"close"}, !.listers = {sweep}, !.crashes = 0],
            [Plain EXCEPT !.runs = {r1}, !.gap = {"create", "close", "rename"},
                          !.listers = {sweep}, !.lag = TRUE, !.crashes = 0]}

All == Restarted \cup {Reuse, Partial, Renamed, Vain, Overtaken} \cup Between

-----------------------------------------------------------------------------
(* The closed-session records are true: an end has one record, it is the   *)
(* record of the run that ended, and no living session has one             *)
(* (service/history.go).                                                   *)
RecordsOfTheEnded == OneRecord /\ LivingHaveNone /\ RightRun

(* A session on record leaves it only for a tombstone, also over a         *)
(* restart, and a tombstone is withdrawn only for a session that turned    *)
(* out to live (service/history.go).                                       *)
RecordsAreKept == NoneForgotten /\ WithdrawnForTheLiving
=============================================================================
