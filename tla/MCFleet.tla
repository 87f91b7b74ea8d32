------------------------------- MODULE MCFleet -------------------------------
(***************************************************************************)
(* The machines of a fleet, what one of them learns of another and what it *)
(* keeps of its sessions, checked together: each behaviour has one part,   *)
(* whose module moves; the others stand still.                             *)
(***************************************************************************)
EXTENDS PeerDown, PeerRelay, FleetRequests, PaneStream, RenameWatch, SessionRecords, SessionLabels

CONSTANTS r1, r2, a, b, one, two

VARIABLE part     \* the part that moves

Calling(o, m, c) ==
    [ops |-> o, may |-> m, calls |-> c, events |-> 0, cuts |-> 0, window |-> 1, places |-> 1,
     outbox |-> 1]
Streaming(m, e, c, w, p, x) ==
    [ops |-> {}, may |-> m, calls |-> 0, events |-> e, cuts |-> c, window |-> w, places |-> p,
     outbox |-> x]
StillRelay == Calling({}, {}, 0)
RelayCases == {
    Calling({"create"}, {"upgrade", "lost", "boot"}, 1), Calling({"create"}, {"late", "lost"}, 2),
    Calling({"send", "interrupt", "state", "close", "labels", "list", "closed"},
            {"upgrade", "downgrade", "reuse", "refuse"}, 1),
    Calling({"respond", "rename", "keys", "discard"}, {"anonymous", "reuse", "lost"}, 1),
    Streaming({"restart"}, 4, 2, 2, 1, 1), Streaming({"restart", "durable"}, 4, 2, 2, 2, 1)}
AllRelays == RelayCases \cup {StillRelay}

Both == {"tmux", "opencode"}
Full == {"read", "act", "relay"}
Fleet(m, peers, own, theirs, mute, gives, k, n, c) ==
    [may |-> m, runtimes |-> [self |-> Both, peer |-> peers], default |-> [self |-> own, peer |-> theirs],
     mute |-> mute, grants |-> [self |-> Full, peer |-> gives], old |-> "list" \in k, kinds |-> k,
     requests |-> 1, opens |-> n, closes |-> c]
StillFleet == [Fleet({}, Both, "tmux", "", {}, Full, {}, 0, 0) EXCEPT !.requests = 0]
FleetCases == {
    Fleet({"fail", "cut"}, Both, "tmux", "", {}, Full, {"act", "get", "create"}, 2, 1),
    Fleet({"same"}, Both, "", "opencode", {}, Full, {"act", "get"}, 2, 1),
    Fleet({"fail"}, {"tmux"}, "tmux", "", {"opencode"}, {"read"}, {"act", "get"}, 2, 1),
    Fleet({"fail", "cut"}, {"tmux"}, "tmux", "", {}, Full, {"list", "labelled", "machines"}, 2, 1)}
AllFleets == FleetCases \cup {StillFleet}

Pane(m, f, s, c, d) == [may |-> m, first |-> f, starts |-> s, changes |-> c, deaths |-> d]
StillPane == Pane({}, {"a"}, 0, 0, 0)
PaneCases == {
    Pane({"close"}, {"a", "b"}, 1, 0, 0), Pane({"close", "mute", "fail", "hurry"}, {"a"}, 0, 1, 1),
    Pane({"gap", "close"}, {"a"}, 2, 0, 0), Pane({"mute"}, {"a"}, 0, 0, 3)}
AllPanes == PaneCases \cup {StillPane}

Watch(m, s, r, g) == [may |-> m, sessions |-> s, renames |-> r, gaps |-> g]
StillWatch == Watch({}, 0, 0, 0)
WatchCases == {Watch({}, 2, 2, 0), Watch({"gap"}, 1, 1, 1)}
AllWatches == WatchCases \cup {StillWatch}

Record(m, st, re, mo, sp) ==
    [may |-> m, slots |-> 1, starts |-> st, renames |-> re, moves |-> mo, stops |-> sp]
StillRecord == Record({}, 0, 0, 0, 0)
RecordCases == {
    Record({"revert"}, 1, 1, 3, 0), Record({"revert", "stop"}, 2, 1, 2, 1),
    Record({"reuse", "down", "stop"}, 2, 1, 0, 1), Record({"early"}, 2, 1, 0, 0)}
AllRecords == RecordCases \cup {StillRecord}

-----------------------------------------------------------------------------
Apart == r1 :> 1 @@ r2 :> 2

\* People start sessions past the service, also under the id of one whose
\* record is still there; listings are filtered or answered in part.
Plain == [ids |-> Ids, runs |-> Runs, listers |-> Lister, gap |-> {}, lag |-> FALSE,
          narrow |-> TRUE, outside |-> {"start"}, surprises |-> {<<"appear", "dated">>}]

\* People rename sessions past the service.
RenamedPast == [Plain EXCEPT !.narrow = FALSE, !.outside = {"start", "rename"}, !.surprises = {}]

\* Listings are overtaken by what happens to the one session there is.
Overtaken == [Plain EXCEPT !.ids = {a}, !.runs = {r1}, !.lag = TRUE, !.outside = {}]

\* Others come between what a handler does and what it notes.
Between == [Plain EXCEPT !.runs = {r1}, !.gap = {"create", "close", "rename", "label"}]

StillLabels == [Plain EXCEPT !.ids = {}, !.runs = {}, !.listers = {}]
\* One listing at a time, but where people rename sessions or listings are overtaken.
LabelCases == {[Plain EXCEPT !.listers = {one}], RenamedPast, Overtaken, [Between EXCEPT !.listers = {one}]}
AllLabels == LabelCases \cup {StillLabels}

-----------------------------------------------------------------------------
InitAll ==
    /\ part \in {"down", "relay", "fleet", "panes", "watches", "records", "labels"}
    /\ Init
    /\ RelayInit /\ (part = "relay" <=> relayEnv # StillRelay)
    /\ part # "relay" => peer.feats = Features
    /\ FleetInit /\ (part = "fleet" <=> fleetEnv # StillFleet)
    /\ PaneInit /\ (part = "panes" <=> paneEnv # StillPane)
    /\ WatchInit /\ (part = "watches" <=> watchEnv # StillWatch)
    /\ RecordInit /\ (part = "records" <=> recordEnv # StillRecord)
    /\ LabelsInit /\ (part = "labels" <=> env # StillLabels)

DownMoves == /\ part = "down" /\ Next
             /\ UNCHANGED <<part, relayVars, fleetVars, paneVars, watchVars, recordVars, labelVars>>
RelayMoves == /\ part = "relay" /\ RelayNext
              /\ UNCHANGED <<part, vars, fleetVars, paneVars, watchVars, recordVars, labelVars>>
FleetMoves == /\ part = "fleet" /\ FleetNext
              /\ UNCHANGED <<part, vars, relayVars, paneVars, watchVars, recordVars, labelVars>>
PanesMove == /\ part = "panes" /\ PaneNext
             /\ UNCHANGED <<part, vars, relayVars, fleetVars, watchVars, recordVars, labelVars>>
WatchesMove == /\ part = "watches" /\ WatchNext
               /\ UNCHANGED <<part, vars, relayVars, fleetVars, paneVars, recordVars, labelVars>>
RecordsMove == /\ part = "records" /\ RecordNext
               /\ UNCHANGED <<part, vars, relayVars, fleetVars, paneVars, watchVars, labelVars>>
LabelsMove == /\ part = "labels" /\ LabelsNext
              /\ UNCHANGED <<part, vars, relayVars, fleetVars, paneVars, watchVars, recordVars>>

NextAll ==
    \/ DownMoves \/ RelayMoves \/ FleetMoves \/ PanesMove \/ WatchesMove \/ RecordsMove \/ LabelsMove

SpecAll ==
    InitAll /\ [][NextAll]_<<part, vars, relayVars, fleetVars, paneVars, watchVars, recordVars, labelVars>>

-----------------------------------------------------------------------------
(* Between requests the driver's record gives every session the name and   *)
(* the marker that were asserted for it last, no listing attributes one    *)
(* that was asserted for another run, and a name that another program      *)
(* takes away is not fought over for ever (reconcile.go).                  *)
RecordsAreTrue == part = "records" => NamesAreKept /\ ClaimsAreTrue /\ RepairsEnd
=============================================================================
