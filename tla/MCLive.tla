-------------------------------- MODULE MCLive --------------------------------
(***************************************************************************)
(* What the parts of the fleet promise in the end, checked together: each  *)
(* behaviour has one part, whose module moves, under the fairness its      *)
(* module states; the others stand still, and owe nothing.                 *)
(***************************************************************************)
EXTENDS EventHub, SessionHistory, PeerDown, DeliveryLanes, PaneStream, RenameWatch,
        SessionRecords, ComposerLock, FirstPrompt, TLC

CONSTANTS s1, s2, r1, r2, a, b, sweep, caller

VARIABLE part     \* the part that moves

-----------------------------------------------------------------------------
\* Clients that ask for everything of one machine, whose feed breaks and comes back.
Steady == [clients |-> Clients, filter |-> [c \in Clients |-> {s1}], local |-> {},
           remote |-> {}, retention |-> 2, chan |-> 9, may |-> {},
           changes |-> 2, failures |-> 1, streams |-> 3, crashes |-> 0]
StillHub == [Steady EXCEPT !.changes = 0, !.failures = 0, !.streams = 0]
AllHubs == {Steady, StillHub}

Apart == r1 :> 1 @@ r2 :> 2

\* Nobody but the service asks for listings.
Unasked == [ids |-> {a}, runs |-> Runs, listers |-> {sweep}, gap |-> {}, lag |-> FALSE,
            narrow |-> FALSE, outside |-> {}, surprises |-> {}, accepts |-> 0, crashes |-> 1]
StillHistory == [Unasked EXCEPT !.ids = {}, !.runs = {}, !.listers = {}, !.crashes = 0]
AllHistories == {Unasked, StillHistory}

\* A module that restarts, misses deadlines and loses a connection.
Lanes(m, n, k, g, i, d, r) ==
    [may |-> m, names |-> n, keys |-> k, gens |-> g, pids |-> i, drops |-> d, restarts |-> r]
StillLane == Lanes({}, {}, 0, 0, 0, 0, 0)
AllLanes == {Lanes({}, {a}, 1, 2, 1, 1, 0), StillLane}

\* Sessions that come, and clients that die mute or have watched too many in vain.
Pane(m, f, s, c, d) == [may |-> m, first |-> f, starts |-> s, changes |-> c, deaths |-> d]
StillPane == Pane({}, {"a"}, 0, 0, 0)
AllPanes == {Pane({}, {"a"}, 1, 1, 0), Pane({"mute"}, {"a"}, 0, 1, 1), StillPane}

Watch(m, s, r, g) == [may |-> m, sessions |-> s, renames |-> r, gaps |-> g]
StillWatch == Watch({}, 0, 0, 0)
AllWatches == {Watch({}, 1, 2, 0), Watch({"gap", "idle"}, 1, 1, 1), StillWatch}

\* Another program takes a session's name away.
RecordCase(m, st, re, mo, sp) ==
    [may |-> m, slots |-> 1, starts |-> st, renames |-> re, moves |-> mo, stops |-> sp]
StillRecord == RecordCase({}, 0, 0, 0, 0)
AllRecords == {RecordCase({"revert"}, 1, 1, 1, 0), RecordCase({"revert"}, 1, 0, 2, 0), StillRecord}

\* Sends that stick before a dialog, under renames and deadlines.
Locks(m, k, c, r, s) == [may |-> m, kinds |-> k, calls |-> c, renames |-> r, sessions |-> s]
StillLock == Locks({}, {}, 0, 0, 0)
AllLocks == {Locks({"stuck", "late"}, {"send", "respond"}, 2, 1, 1),
             Locks({"stuck"}, {"send", "respond"}, 3, 0, 1), StillLock}

Prompts(m, c, t) == [may |-> m, creates |-> c, consents |-> {1}, typings |-> t]
StillPrompt == Prompts({}, 0, 0)
AllPrompts == {Prompts({"exit", "close", "lost"}, 1, 1), Prompts({}, 2, 1), StillPrompt}

-----------------------------------------------------------------------------
InitAll ==
    /\ part \in {"hub", "history", "down", "lanes", "panes", "watches", "records", "locks", "prompts"}
    /\ HubInit /\ (part = "hub" <=> hubEnv # StillHub)
    /\ HistoryInit /\ (part = "history" <=> env # StillHistory)
    /\ Init
    /\ LaneInit /\ (part = "lanes" <=> laneEnv # StillLane)
    /\ PaneInit /\ (part = "panes" <=> paneEnv # StillPane)
    /\ WatchInit /\ (part = "watches" <=> watchEnv # StillWatch)
    /\ RecordInit /\ (part = "records" <=> recordEnv # StillRecord)
    /\ LockInit /\ (part = "locks" <=> lockEnv # StillLock)
    /\ part # "locks" => panes["a"] = 1
    /\ FirstInit /\ (part = "prompts" <=> firstEnv # StillPrompt)

all == <<part, hubVars, historyVars, vars, laneVars, paneVars, watchVars, recordVars, lockVars, firstVars>>

\* A step of one part.
OfHub(A) ==
    /\ part = "hub" /\ A
    /\ UNCHANGED <<part, historyVars, vars, laneVars, paneVars, watchVars, recordVars, lockVars, firstVars>>
OfHistory(A) ==
    /\ part = "history" /\ A
    /\ UNCHANGED <<part, hubVars, vars, laneVars, paneVars, watchVars, recordVars, lockVars, firstVars>>
OfDown(A) ==
    /\ part = "down" /\ A
    /\ UNCHANGED <<part, hubVars, historyVars, laneVars, paneVars, watchVars, recordVars, lockVars, firstVars>>
OfLanes(A) ==
    /\ part = "lanes" /\ A
    /\ UNCHANGED <<part, hubVars, historyVars, vars, paneVars, watchVars, recordVars, lockVars, firstVars>>
OfPanes(A) ==
    /\ part = "panes" /\ A
    /\ UNCHANGED <<part, hubVars, historyVars, vars, laneVars, watchVars, recordVars, lockVars, firstVars>>
OfWatches(A) ==
    /\ part = "watches" /\ A
    /\ UNCHANGED <<part, hubVars, historyVars, vars, laneVars, paneVars, recordVars, lockVars, firstVars>>
OfRecords(A) ==
    /\ part = "records" /\ A
    /\ UNCHANGED <<part, hubVars, historyVars, vars, laneVars, paneVars, watchVars, lockVars, firstVars>>
OfLocks(A) ==
    /\ part = "locks" /\ A
    /\ UNCHANGED <<part, hubVars, historyVars, vars, laneVars, paneVars, watchVars, recordVars, firstVars>>
OfPrompts(A) ==
    /\ part = "prompts" /\ A
    /\ UNCHANGED <<part, hubVars, historyVars, vars, laneVars, paneVars, watchVars, recordVars, lockVars>>

HubMoves == OfHub(HubNext)
HistoryMoves == OfHistory(HistoryNext)
DownMoves == OfDown(Next)
LanesMove == OfLanes(LaneNext)
PanesMove == OfPanes(PaneNext)
WatchesMove == OfWatches(WatchNext)
RecordsMove == OfRecords(RecordNext)
LocksMove == OfLocks(LockNext)
PromptsMove == OfPrompts(FirstNext)

NextAll ==
    \/ HubMoves \/ HistoryMoves \/ DownMoves \/ LanesMove \/ PanesMove \/ WatchesMove
    \/ RecordsMove \/ LocksMove \/ PromptsMove

\* The fairness of each part: HubFairSpec, HistoryFairness, FairSpec of PeerDown, LaneFairness,
\* PaneFairSpec, WatchFairSpec, RecordFairSpec, LockFairSpec and FirstFairSpec.
FairnessAll ==
    /\ \A c \in Clients : WF_hubVars(OfHub(Ensure(c))) /\ WF_hubVars(OfHub(Receive(c)))
    /\ WF_hubVars(OfHub(\E p \in pumps : Feed(p)))
    /\ WF_historyVars(OfHistory(StreamRead)) /\ WF_historyVars(OfHistory(RequestSweep))
    /\ WF_historyVars(OfHistory(SweepAgain))
    /\ WF_historyVars(OfHistory(Listing(Sweep))) /\ WF_historyVars(OfHistory(Reaping(Sweep)))
    /\ WF_historyVars(OfHistory(ObserveListing(Sweep))) /\ WF_historyVars(OfHistory(\E n \in owed : Note(n)))
    /\ WF_vars(OfDown(Probe))
    /\ WF_laneVars(OfLanes(Advance)) /\ WF_laneVars(OfLanes(Rekey))
    /\ SF_laneVars(OfLanes(PassLists /\ glance'.ok))
    /\ WF_laneVars(OfLanes(PassReads)) /\ WF_laneVars(OfLanes(ReadyLists))
    /\ WF_laneVars(OfLanes(\E t \in work : Readies(t)))
    /\ \A id \in LaneIds :
         /\ WF_laneVars(OfLanes(\E t \in work :
                           t.id = id /\ (PollLooks(t) \/ Apply(t) \/ AskAttach(t) \/ Shut(t))))
         /\ WF_laneVars(OfLanes(\E t \in work : t.id = id /\ ModuleDoesNot(t)))
         /\ WF_laneVars(OfLanes(\E t \in work : t.id = id /\ PassForgets(t)))
         /\ SF_laneVars(OfLanes(\E t \in work : t.id = id /\ ModuleTakes(t)))
         /\ WF_laneVars(OfLanes(\E t \in work : t.id = id /\ (FlushEnds(t) \/ CloseFails(t))))
         /\ WF_laneVars(OfLanes(\E t \in work : t.id = id /\ FlushBegins(t)))
         /\ SF_laneVars(OfLanes(\E t \in work : t.id = id /\ ModuleCloses(t)))
    /\ WF_paneVars(OfPanes(Subscribing)) /\ WF_paneVars(OfPanes(Supervising))
    /\ WF_paneVars(OfPanes(Comparing)) /\ WF_paneVars(OfPanes(Pumping))
    /\ WF_watchVars(OfWatches(HandlerSteps)) /\ WF_watchVars(OfWatches(TimerSteps))
    /\ WF_watchVars(OfWatches(StreamSteps))
    /\ WF_recordVars(OfRecords(RecordStep)) /\ WF_recordVars(OfRecords(ListStarts))
    /\ WF_lockVars(OfLocks(CallStep)) /\ WF_lockVars(OfLocks(WaiterGetsLock))
    /\ WF_lockVars(OfLocks(LeftGetsLock))
    /\ \A s \in 1..3 :
         /\ WF_firstVars(OfPrompts(s \in Creates /\ SettlerSteps(s)))
         /\ WF_firstVars(OfPrompts(s \in Creates /\ Paints(s)))

SpecAll == InitAll /\ [][NextAll]_all /\ FairnessAll

-----------------------------------------------------------------------------
(* Nothing that was begun is left undone: a lane of a session that goes on *)
(* comes back and a closed one is closed at the module (modulelane.go), a  *)
(* session's first prompt is settled (prompt settling in tmux.go), and a   *)
(* respond gets to the dialog before which a send is stuck                 *)
(* (terminalpath2_lock.go).                                                *)
BegunIsFinished == LaneComesBack /\ ClosedIsTold /\ PromptSettles /\ RespondGetsThrough

(* What is so comes to be known, and what was taken away comes back: a     *)
(* change reaches every client that stays connected (events.go), an end is *)
(* recorded (service/history.go), a peer that answers again is dialled     *)
(* again (down.go), a subscriber learns what the sessions are              *)
(* (subscribe.go), a rename is followed by what became of it               *)
(* (rename_corroboration.go), and a session gets its name back             *)
(* (reconcile.go).                                                         *)
NewsArrives ==
    /\ Arrives /\ EndIsRecorded /\ ClearedWhenBack /\ FollowUpComes /\ NameComesBack
    /\ part = "panes" => KnownCatchesUp
=============================================================================
