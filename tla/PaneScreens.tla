------------------------------ MODULE PaneScreens ------------------------------
(***************************************************************************)
(* What a captured screen says of its session (classify.go, and the notice *)
(* of feedbackcard.go).  The upper half is the terminal: a session that    *)
(* prints, asks, and holds what a person typed, and the rows its runtime   *)
(* paints for it.  The lower half is the driver's reading of those rows,   *)
(* an operator for each step of it.  The properties compare the two.       *)
(***************************************************************************)
EXTENDS Naturals, Sequences, FiniteSets

CONSTANT ScreenEnvironments     \* what may happen, a set of records

(***************************************************************************)
(*   may      the agent prints numbered lists ("list"); a person types a   *)
(*            numbered message ("number"), and sends it ("echo"); a turn   *)
(*            begins before its spinner is painted ("unpainted"); a notice *)
(*            is shown below the composer ("notice"); the feedback card    *)
(*            and panel ("card"); dialogs ("ask"); the rows above the pane *)
(*            are those of an older frame of the composer ("older"), or    *)
(*            from before it was drawn ("before"); the process ends        *)
(*            ("die")                                                      *)
(*   ages     how old the session can be                                   *)
(*   log, draft, turns     bounds: rows printed, rows typed, turns         *)
(*   height, margin, depth   rows of the pane, rows captured above it, and *)
(*            how far up a prompt may reach (promptScanDepth)              *)
(***************************************************************************)
ASSUME ScreenAssumption ==
    \A e \in ScreenEnvironments :
       /\ e.may \subseteq {"list", "number", "echo", "unpainted", "notice", "card", "ask", "older", "before", "die"}
       /\ e.ages \subseteq {"young", "old"}
       /\ {e.log, e.draft, e.turns, e.height, e.margin, e.depth} \subseteq Nat /\ e.height > 1

VARIABLES
    screenEnv,   \* the environment of this behaviour
    age,         \* "young", "old", or "dead"
    log,         \* the rows of the transcript
    turn,        \* "none", "begun", "running" or "ended", and how many began
    draft,       \* the rows a person has typed and not sent
    over,        \* what is drawn over or instead of the composer
    noticed,     \* a notice is shown below the composer
    blocked      \* a usage limit was printed, and nothing by the agent since

screenVars == <<screenEnv, age, log, turn, draft, over, noticed, blocked>>

ScreenMay(what) == what \in screenEnv.may
Row(text) == [mark |-> FALSE, text |-> text]
Marked(text) == [mark |-> TRUE, text |-> text]
Nothing == [is |-> "nothing", chosen |-> 0, named |-> FALSE, edge |-> "whole"]
Dialogs == {"menu", "unnumbered"}

-----------------------------------------------------------------------------
(* What the runtime paints *)

StatusRow == CASE turn.is = "running" -> <<Row("running")>>
               [] turn.is = "ended" -> <<Row("finished")>>
               [] OTHER -> <<>>

Typed == IF draft = <<>> THEN <<Marked(IF log = <<>> THEN "hint" ELSE "blank")>>
         ELSE <<Marked(draft[1])>> \o [i \in 1..(Len(draft) - 1) |-> Row(draft[i + 1])]
Box == <<Row("rule")>> \o Typed \o <<Row("rule")>>
Footer == IF noticed THEN <<Row("mode"), Row("notice")>> ELSE <<Row("mode")>>

Option(i, text) == IF over.chosen = i THEN Marked(text) ELSE Row(text)
Dialog ==
    CASE over.is = "menu" -> <<Row("rule"), Row("text"), Option(1, "one"), Option(2, "two")>>
                             \o (IF over.named THEN <<>> ELSE <<Row("select")>>)
      [] over.is = "unnumbered" -> <<Row("rule"), Row("text"), Row("blank"), Option(1, "item"), Option(2, "item"),
                                     Row("blank"), Row("select")>>

(* The card stands over the composer, and a pane too short for both ends   *)
(* at the prompt row, or at the rule above it.                             *)
Card == <<Row("top"), Row(over.is), Row("bottom")>>
UnderCard == CASE over.edge = "whole" -> Box \o Footer
               [] over.edge = "prompt" -> SubSeq(Box, 1, 2)
               [] over.edge = "fence" -> SubSeq(Box, 1, 1)

Painted ==
    log \o StatusRow \o
    (CASE over.is \in Dialogs -> Dialog
       [] over.is \in {"keys", "confirm"} -> Card \o UnderCard
       [] over.is = "panel" -> <<Row("heavy"), Row("title"), Row("text")>>
       [] OTHER -> Box \o Footer)

Least(a, b) == IF a < b THEN a ELSE b
LastRows(s, n) == SubSeq(s, Len(s) - Least(n, Len(s)) + 1, Len(s))
OlderFrame == <<Row("rule"), Marked("text")>>
BeforeFrames == {<<Row("text"), Row("text")>>, <<Row("rule"), Row("text")>>}
Above == LET scrolled == SubSeq(Painted, 1, Len(Painted) - Least(screenEnv.height, Len(Painted)))
             held == scrolled # <<>> /\ over = Nothing
         IN {LastRows(scrolled, screenEnv.margin)}
            \cup (IF ScreenMay("older") /\ held /\ Len(scrolled) > Len(log \o StatusRow) + 1 THEN {OlderFrame} ELSE {})
            \cup (IF ScreenMay("before") /\ held THEN BeforeFrames ELSE {})

(* A capture: its rows, how many are above the pane, and how many blank    *)
(* rows it ended with (newScreenVisible, splitScreen): none below an edge. *)
Captures ==
    LET pane == LastRows(Painted, screenEnv.height)
    IN {[lines |-> above \o pane, top |-> Len(above),
         below |-> IF over.edge = "whole" THEN screenEnv.height - Len(pane) ELSE 0] : above \in Above}

-----------------------------------------------------------------------------
(* What may happen *)

ScreenInit ==
    /\ screenEnv \in ScreenEnvironments /\ age \in screenEnv.ages
    /\ log = <<>> /\ draft = <<>> /\ over = Nothing
    /\ turn = [is |-> "none", count |-> 0]
    /\ noticed = FALSE /\ blocked = FALSE

Fits(rows) == Len(log) + Len(rows) <= screenEnv.log
Prints(rows) == Fits(rows) /\ log' = log \o rows
Numbers == [one |-> 1, two |-> 2]
Number(row) == IF row.text \in DOMAIN Numbers THEN Numbers[row.text] ELSE 0

TypesRow(text) ==
    /\ age # "dead" /\ over.is \notin Dialogs \cup {"panel"} /\ Len(draft) < screenEnv.draft
    /\ draft = <<>> => text # "blank"
    /\ text \in DOMAIN Numbers => ScreenMay("number")
    /\ draft' = Append(draft, text)
    /\ UNCHANGED <<screenEnv, age, log, turn, over, noticed, blocked>>

(* What was submitted is printed with the mark of the composer.            *)
Submits ==
    /\ age # "dead" /\ draft # <<>> /\ over = Nothing /\ turn.is \in {"none", "ended"} /\ turn.count < screenEnv.turns
    /\ (\E i \in DOMAIN draft : draft[i] \in DOMAIN Numbers) => ScreenMay("echo")
    /\ Prints(StatusRow \o Typed)
    /\ draft' = <<>>
    /\ \E is \in {"begun", "running"} :
          /\ is = "begun" => ScreenMay("unpainted")
          /\ turn' = [is |-> is, count |-> turn.count + 1]
    /\ UNCHANGED <<screenEnv, age, over, noticed, blocked>>

SpinnerPaints ==
    /\ turn.is = "begun"
    /\ turn' = [turn EXCEPT !.is = "running"]
    /\ UNCHANGED <<screenEnv, age, log, draft, over, noticed, blocked>>

AgentSays(rows) ==
    /\ age # "dead" /\ turn.is = "running" /\ over = Nothing
    /\ Prints(<<Row("bullet")>> \o rows)
    /\ blocked' = FALSE
    /\ UNCHANGED <<screenEnv, age, turn, draft, over, noticed>>

TurnEnds(limit) ==
    /\ age # "dead" /\ turn.is = "running" /\ over = Nothing
    /\ IF limit THEN Prints(<<Row("limit")>>) ELSE UNCHANGED log
    /\ blocked' = (blocked \/ limit)
    /\ turn' = [turn EXCEPT !.is = "ended"]
    /\ UNCHANGED <<screenEnv, age, draft, over, noticed>>

Shows(what) ==
    /\ age # "dead"
    /\ over = Nothing \/ what = Nothing \/ (over.is \in Dialogs /\ over.is = what.is)
    /\ what.is \in Dialogs => ScreenMay("ask") /\ turn.is = "running"
    /\ what.is \in {"keys", "confirm", "panel"} => ScreenMay("card")
    /\ over' = what
    /\ UNCHANGED <<screenEnv, age, log, turn, draft, noticed, blocked>>
Overlays ==
    {Nothing, [Nothing EXCEPT !.is = "panel"]}
    \cup [is : Dialogs, chosen : {1, 2}, named : {FALSE}, edge : {"whole"}]
    \cup [is : {"menu"}, chosen : {1, 2}, named : {TRUE}, edge : {"whole"}]
    \cup [is : {"keys", "confirm"}, chosen : {0}, named : {FALSE}, edge : {"whole", "prompt", "fence"}]

Notices ==
    /\ ScreenMay("notice") /\ noticed' = ~noticed
    /\ UNCHANGED <<screenEnv, age, log, turn, draft, over, blocked>>

Ages ==
    /\ age' \in (IF age = "young" THEN {"old"} ELSE {}) \cup (IF ScreenMay("die") THEN {"dead"} ELSE {})
    /\ age # "dead"
    /\ UNCHANGED <<screenEnv, log, turn, draft, over, noticed, blocked>>

ScreenNext ==
    \/ \E text \in {"text", "one", "two", "blank"} : TypesRow(text)
    \/ Submits \/ SpinnerPaints \/ Notices \/ Ages
    \/ AgentSays(<<>>) \/ (ScreenMay("list") /\ AgentSays(<<Row("one"), Row("two")>>))
    \/ \E limit \in BOOLEAN : TurnEnds(limit)
    \/ \E what \in Overlays : Shows(what)

ScreenSpec == ScreenInit /\ [][ScreenNext]_screenVars

-----------------------------------------------------------------------------
(* Reading the composer *)

Top(rows) == IF rows = {} THEN 0 ELSE CHOOSE i \in rows : \A j \in rows : j <= i
IsBlank(row) == row = Row("blank")
IsRule(row) == ~row.mark /\ row.text \in {"rule", "top", "bottom"}
Before(s, i, Is(_)) == Top({j \in 1..(i - 1) : Is(s.lines[j])})
IsMarked(row) == row.mark
IsWritten(row) == ~IsBlank(row)

(* bottomCutComposer: the pane ends on the prompt row.                     *)
BottomCut(s) ==
    LET n == Len(s.lines)  fence == Before(s, n, IsWritten) IN
    /\ n >= 2 /\ s.below = 0
    /\ s.lines[n].mark /\ Number(s.lines[n]) = 0
    /\ fence # 0 /\ s.lines[fence] = Row("rule")

(* composerSpan: found, absent, or clipped, which is neither.              *)
Absent == [scan |-> "absent", prompt |-> 0, last |-> 0]
Clipped == [Absent EXCEPT !.scan = "clipped"]
SpanFromRule(s, last) ==
    LET stop == Before(s, last, LAMBDA row : IsRule(row) \/ row.mark)
        fence == IF stop = 0 THEN 0 ELSE Before(s, stop, IsWritten)
    IN CASE stop = 0 -> Clipped
         [] stop # 0 /\ ~s.lines[stop].mark -> Absent
         [] stop # 0 /\ s.lines[stop].mark /\ fence = 0 -> Clipped
         [] fence # 0 /\ ~IsRule(s.lines[fence]) -> Absent
         [] fence # 0 /\ fence <= s.top -> Clipped
         [] OTHER -> [scan |-> "found", prompt |-> stop, last |-> last]
SpanAnywhere(s) ==
    LET last == Before(s, Len(s.lines) + 1, IsRule) IN
    IF BottomCut(s) THEN Clipped ELSE IF last <= 1 THEN Absent ELSE SpanFromRule([s EXCEPT !.top = 0], last)
Span(s) ==
    LET last == Before(s, Len(s.lines) + 1, IsRule) IN
    IF BottomCut(s) THEN Clipped ELSE IF last <= 1 THEN Absent ELSE SpanFromRule(s, last)

(* A capture with the composer in it.                                      *)
Spanned == {[lines |-> s.lines, top |-> s.top, span |-> Span(s)] : s \in Captures}

(* composerText, as far as there is any; composerVisualLines.              *)
HoldsText(s) ==
    /\ s.lines[s.span.prompt].text # "hint"
    /\ \E i \in s.span.prompt..(s.span.last - 1) : s.lines[i].text # "blank"
VisualLines(s) == s.span.last - s.span.prompt

-----------------------------------------------------------------------------
(* Reading a dialog *)

(* The row a dialog is read from (dialogTop).                              *)
Opens(row) == Number(row) # 0 \/ row.text = "select"
WindowTop(s) ==
    LET from == Len(s.lines) - Least(screenEnv.depth, Len(s.lines)) + 1
        rules == {i \in from..Len(s.lines) : IsRule(s.lines[i])}
        opening == {i \in from..Len(s.lines) : Opens(s.lines[i])}
        above == Before(s, from, IsRule)
    IN IF from > 1 /\ above # 0 /\ \E i \in opening : \A j \in rules : j > i THEN above + 1 ELSE from

(* The rows that can be a dialog's, without those of the composer.         *)
WindowWithComposer(s) == WindowTop(s)..Len(s.lines)
Window(s) ==
    (WindowTop(s)..Len(s.lines)) \ (IF s.span.scan = "found" THEN s.span.prompt..s.span.last ELSE {})

(* unnumberedMenu: the rows between a blank row or a rule and the footer.  *)
Block(s, footer) ==
    LET end == Before(s, footer, IsWritten)
        start == Before(s, end, LAMBDA row : IsBlank(row) \/ IsRule(row))
    IN (start + 1)..end
Unnumbered(s, footer) ==
    /\ Cardinality(Block(s, footer)) >= 2
    /\ Cardinality({i \in Block(s, footer) : s.lines[i].mark}) = 1
    /\ \A i \in Block(s, footer) : s.lines[i].text = "item"

(* parseMenuShape: what is asked, and which option is highlighted.         *)
NoPrompt == [is |-> "nothing", options |-> 0, chosen |-> 0, footer |-> FALSE]
MenuRead(s) ==
    LET rows == Window(s)
        numbered == {i \in rows : Number(s.lines[i]) # 0}
        numbers == {Number(s.lines[i]) : i \in numbered}
        footer == Top({i \in rows : s.lines[i].text = "select"})
        chosen == Top({i \in numbered : s.lines[i].mark})
        whole == Cardinality(numbers) >= 2 /\ numbers = 1..Cardinality(numbers)
    IN CASE numbered = {} /\ footer # 0 /\ Unnumbered(s, footer) ->
              [is |-> "unnumbered", options |-> Cardinality(Block(s, footer)), footer |-> TRUE,
               chosen |-> Top({i \in Block(s, footer) : s.lines[i].mark}) + 1 - (CHOOSE i \in Block(s, footer) : i - 1 \notin Block(s, footer))]
         [] numbered # {} /\ ((whole /\ chosen # 0) \/ footer # 0) ->
              [is |-> "menu", options |-> Top(numbers), footer |-> footer # 0,
               chosen |-> IF chosen = 0 THEN 0 ELSE Number(s.lines[chosen])]
         [] OTHER -> NoPrompt

(* liveFeedbackCard, with feedbackAnchor: a card whose box is right above  *)
(* the composer's fence, and whether it can be answered.                   *)
CardRead(s) ==
    LET span == s.span  n == Len(s.lines)
        low == Before(s, n + 1, LAMBDA row : IsRule(row) \/ row.mark)
        prompt == IF span.scan = "found" THEN span.prompt ELSE IF low # 0 /\ s.lines[low].mark THEN low ELSE 0
        fence == IF prompt # 0 THEN Before(s, prompt, IsWritten) ELSE IF low = n THEN n ELSE 0
        box == IF fence = 0 THEN 0 ELSE Before(s, fence, IsWritten)
        there == /\ n >= 4 /\ fence > s.top /\ IsRule(s.lines[fence])
                 /\ box > s.top + 2 /\ s.lines[box].text = "bottom"
    IN [there |-> there, found |-> span.scan = "found",
        answerable |-> /\ there /\ span.scan # "found" /\ s.lines[box - 1].text = "keys"
                       /\ prompt = n /\ s.lines[n].text \in {"blank", "hint"}]

(* liveFeedbackPanel.                                                      *)
PanelRead(s) ==
    \E i \in (s.top + 1)..(Len(s.lines) - 1) :
       /\ s.lines[i].text = "heavy" /\ s.lines[i + 1].text = "title"
       /\ \A j \in (i + 2)..Len(s.lines) : ~IsRule(s.lines[j])

-----------------------------------------------------------------------------
(* Reading what the session does *)

(* spinner: the lowest status row, none below the composer.                *)
SpinnerRowAnywhere(s) == Before(s, Len(s.lines) + 1, LAMBDA row : row.text \in {"running", "finished", "notice"})
SpinnerRow(s) ==
    Before(s, (IF s.span.scan = "found" THEN s.span.last ELSE Len(s.lines)) + 1,
           LAMBDA row : row.text \in {"running", "finished", "notice"})
Spinner(s) ==
    LET row == SpinnerRow(s) IN
    IF row = 0 THEN "none" ELSE IF s.lines[row].text = "finished" THEN "finished" ELSE "running"

(* usageLimit: a limit above the composer, and no answer below it.         *)
UsageLimit(s) ==
    LET n == Len(s.lines)
        end == Top({i \in 1..n : s.lines[i].mark /\ i > n - screenEnv.depth})
        limit == Top({i \in 1..(IF end = 0 THEN n ELSE end - 1) : s.lines[i].text = "limit"})
    IN limit # 0 /\ \A i \in (limit + 1)..(IF end = 0 THEN n ELSE end - 1) : s.lines[i].text # "bullet"

(* classifyAgedDetailVisible.  "perhaps" is an answer that another reading *)
(* of the same screen has to confirm.                                      *)
Reads(status, on) == [status |-> status, on |-> on, perhaps |-> FALSE]
Perhaps(on) == [status |-> "unknown", on |-> on, perhaps |-> TRUE]
SaysOfComposer(r) ==
    LET scan == r.span.scan  held == scan = "found" /\ r.held IN
    CASE r.spin = "running" -> Reads("working", "")
      [] r.spin # "running" /\ scan = "clipped" -> Reads("unknown", "clipped")
      [] r.spin = "finished" /\ scan = "absent" -> Reads("unknown", "absent")
      [] r.spin = "finished" /\ held -> Reads("waiting_input", "unsent")
      [] r.spin = "finished" /\ scan = "found" /\ ~held -> Reads("idle", "")
      [] r.spin = "none" /\ held -> Perhaps("unsent")
      [] r.spin = "none" /\ scan = "found" /\ ~held -> IF age = "young" THEN Reads("idle", "") ELSE Perhaps("empty")
      [] OTHER -> IF age = "young" THEN Reads("starting", "") ELSE Reads("unknown", "absent")
Says(r) ==
    IF age = "dead" THEN Reads("dead", "")
    ELSE IF r.menu # NoPrompt
         THEN IF r.menu.footer \/ over.named THEN Reads("waiting_input", "prompt") ELSE Perhaps("prompt")
    ELSE IF r.card.answerable THEN Reads("waiting_input", "prompt")
    ELSE IF r.limit THEN Reads("quota_blocked", "")
    ELSE IF (r.card.there /\ ~r.card.found) \/ r.panel THEN Reads("unknown", "card")
    ELSE SaysOfComposer(r)

(* Everything the driver makes of what the terminal can show it now.       *)
Readings ==
    {[span |-> s.span, held |-> s.span.scan = "found" /\ HoldsText(s), rows |-> VisualLines(s),
      menu |-> MenuRead(s), card |-> CardRead(s), panel |-> PanelRead(s),
      limit |-> UsageLimit(s), spin |-> Spinner(s)] : s \in Spanned}

-----------------------------------------------------------------------------
(* Properties *)

(* A composer that is found is the one painted, with its rows, and it is   *)
(* read as empty only when nothing is typed in it; one that is said not to *)
(* be there is not on the screen.                                          *)
ComposerIsRead ==
    \A r \in Readings :
       /\ r.span.scan = "found" =>
             over.is \notin Dialogs \cup {"panel"} /\ r.held = (draft # <<>>) /\ r.rows = Len(Typed)
       /\ r.span.scan = "absent" => over.is \in Dialogs \cup {"panel"} \/ over.edge = "fence"

(* A menu is read when one is painted, with its options and its highlight, *)
(* and at no other time: not from what a person types or the agent prints. *)
MenuIsRead ==
    \A r \in Readings :
       IF over.is \in Dialogs
       THEN r.menu.is = over.is /\ r.menu.options = 2 /\ r.menu.chosen = over.chosen
       ELSE r.menu = NoPrompt

(* What is said of a session at a single reading is so: it is idle when it *)
(* would take a message, working when a turn runs, blocked when a limit    *)
(* stands, and waiting when something waits for a person.                  *)
ReadingIsTrue ==
    \A says \in {Says(r) : r \in Readings} :
       /\ says.status = "idle" => /\ draft = <<>> /\ ~blocked /\ turn.is \notin {"begun", "running"}
                                  /\ over.is \notin Dialogs \cup {"panel"} /\ over.edge = "whole"
       /\ says.status = "working" => turn.is = "running"
       /\ says.status = "quota_blocked" => blocked
       /\ says = Reads("waiting_input", "unsent") => draft # <<>>
       /\ says = Reads("waiting_input", "prompt") => over.is \in Dialogs \cup {"keys"}
=============================================================================
