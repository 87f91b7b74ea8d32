------------------------------ MODULE MCReadings ------------------------------
(***************************************************************************)
(* What the driver reads off a session and says of it, checked together:   *)
(* each behaviour has one part, whose module moves; the others stand still *)
(* in an environment in which nothing happens.                             *)
(***************************************************************************)
EXTENDS PaneScreens, ScreenReadings, QuestionAnswers, TurnCounts, OpencodeSessions, FirstPrompt

CONSTANTS k1, k2

VARIABLE part     \* the part that moves

Screens(m, a, l, d, t, h, g, s) ==
    [may |-> m, ages |-> a, log |-> l, draft |-> d, turns |-> t, height |-> h, margin |-> g, depth |-> s]
StillScreen == Screens({}, {"old"}, 0, 0, 0, 8, 2, 8)
ScreenCases == {
    Screens({"list", "ask", "number"}, {"old"}, 5, 2, 2, 7, 4, 5),
    Screens({"unpainted"}, {"old"}, 3, 1, 1, 6, 2, 6),
    Screens({"notice", "die"}, {"young"}, 3, 2, 2, 12, 2, 6),
    Screens({"card", "older"}, {"old"}, 3, 2, 1, 8, 2, 6),
    Screens({"older"}, {"old"}, 2, 4, 1, 4, 2, 6)}
AllScreens == ScreenCases \cup {StillScreen}

Reading(m, k, s, c, r, w, b, t) ==
    [may |-> m, kinds |-> k, store |-> s, screens |-> c, readings |-> r, changes |-> w, starts |-> b, ticks |-> t]
StillReading == Reading({}, {}, FALSE, {}, 0, 0, 0, 0)
Quiet1 == <<"quiet", 1>>
BusyUp == <<"working", 1>>
CardUp == <<"card", 1>>
ReadingCases == {
    Reading({"miss", "restart"}, {"list"}, TRUE, {Quiet1, BusyUp, <<"typed", 1>>}, 3, 2, 1, 3),
    Reading({"miss"}, {"list", "state"}, FALSE, {Quiet1, <<"quiet", 2>>, CardUp}, 3, 2, 1, 3),
    Reading({"restart"}, {"list"}, TRUE, {Quiet1, <<"menu", 1>>}, 2, 1, 2, 3),
    Reading({"vanish"}, {"list"}, TRUE, {CardUp, BusyUp}, 2, 1, 2, 2)}
AllReadings == ReadingCases \cup {StillReading}

Questions(k, m, q, r) == [kinds |-> k, may |-> m, questions |-> q, responds |-> r]
StillQuestion == Questions({"list"}, {}, 0, 0)
QuestionCases == {
    Questions({"list", "boxes"}, {"shell"}, 2, 1), Questions({"list", "card"}, {"swallow"}, 2, 2),
    Questions({"menu"}, {"swallow"}, 2, 2), Questions({"preview", "card"}, {"swallow"}, 2, 2),
    Questions({"boxes"}, {"swallow"}, 2, 2)}
AllQuestions == QuestionCases \cup {StillQuestion}

Turns(m, l, d, r, w) == [may |-> m, lines |-> l, deliveries |-> d, readers |-> r, window |-> w]
StillTurn == Turns({}, 0, 0, 0, 0)
TurnCases == {Turns({}, 4, 1, 1, 2), Turns({"fail"}, 3, 2, 2, 1), Turns({"rotate"}, 3, 1, 1, 3),
              Turns({"torn"}, 2, 0, 1, 2)}
AllTurns == TurnCases \cup {StillTurn}

Opencode(m, o, s) == [may |-> m, ops |-> o, calls |-> 3, sessions |-> s]
StillOpencode == [Opencode({}, {}, 0) EXCEPT !.calls = 0]
OpencodeCases == {
    Opencode({"down"}, {"create", "state", "list", "send"}, 2), Opencode({"meanwhile"}, {"create", "state", "send"}, 1),
    Opencode({"other"}, {"create", "state", "close", "interrupt"}, 1), Opencode({"lost"}, {"create", "state", "close"}, 1),
    Opencode({"restart"}, {"create", "close", "list"}, 2), Opencode({"late"}, {"create"}, 2),
    Opencode({"meanwhile", "down"}, {"create"}, 2)}
AllOpencode == OpencodeCases \cup {StillOpencode}

Prompts(m, c, t) == [may |-> m, creates |-> c, consents |-> {1}, typings |-> t]
StillPrompt == Prompts({}, 0, 0)
PromptCases == {
    Prompts({"exit", "blind", "lost"}, 1, 1), Prompts({"close", "rename", "restart", "forget"}, 2, 0),
    Prompts({"close"}, 2, 1)}
AllPrompts == PromptCases \cup {StillPrompt}

(* A person sends a message of two numbered lines.                         *)
Echoed == {Screens({"number", "echo"}, {"old"}, 4, 2, 1, 8, 2, 8)}

-----------------------------------------------------------------------------
Init ==
    /\ part \in {"screens", "readings", "questions", "turns", "opencode", "prompts"}
    /\ ScreenInit /\ (part = "screens" <=> screenEnv # StillScreen)
    /\ ReadInit /\ (part = "readings" <=> readEnv # StillReading)
    /\ AskInit /\ (part = "questions" <=> askEnv # StillQuestion)
    /\ TurnInit /\ (part = "turns" <=> turnEnv # StillTurn)
    /\ OpencodeInit /\ (part = "opencode" <=> ocEnv # StillOpencode)
    /\ FirstInit /\ (part = "prompts" <=> firstEnv # StillPrompt)

ScreensMove == /\ part = "screens" /\ ScreenNext
               /\ UNCHANGED <<part, readVars, askVars, turnVars, ocVars, firstVars>>
ReadingsMove == /\ part = "readings" /\ ReadNext
                /\ UNCHANGED <<part, screenVars, askVars, turnVars, ocVars, firstVars>>
QuestionsMove == /\ part = "questions" /\ AskNext
                 /\ UNCHANGED <<part, screenVars, readVars, turnVars, ocVars, firstVars>>
TurnsMove == /\ part = "turns" /\ TurnNext
             /\ UNCHANGED <<part, screenVars, readVars, askVars, ocVars, firstVars>>
OpencodeMoves == /\ part = "opencode" /\ OpencodeNext
                 /\ UNCHANGED <<part, screenVars, readVars, askVars, turnVars, firstVars>>
PromptsMove == /\ part = "prompts" /\ FirstNext
               /\ UNCHANGED <<part, screenVars, readVars, askVars, turnVars, ocVars>>

Next == ScreensMove \/ ReadingsMove \/ QuestionsMove \/ TurnsMove \/ OpencodeMoves \/ PromptsMove

Spec == Init /\ [][Next]_<<part, screenVars, readVars, askVars, turnVars, ocVars, firstVars>>

-----------------------------------------------------------------------------
(* A composer that is found is the one painted, with its rows and whether  *)
(* something is typed in it; the status read is what the session does; and *)
(* a menu is read when one is painted, with its options and its highlight, *)
(* and at no other time, not from what a person types or the agent prints. *)
ScreensAreRead == part = "screens" => ComposerIsRead /\ ReadingIsTrue /\ MenuIsRead

(* A session that is said to wait because its screen stood still was       *)
(* captured twice with that screen, far enough apart for a turn to paint;  *)
(* the time since when a status holds is not before the session, and not   *)
(* before an answer that said another status.                              *)
TimesAreTrue == part = "readings" => StillIsStill /\ SinceIsTrue
=============================================================================
