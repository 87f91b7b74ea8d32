-------------------------- MODULE QuestionAnswers ---------------------------
(***************************************************************************)
(* Answers to the questions on a session's screen: Respond in              *)
(* internal/drivers/tmux/tmux.go and the files respond_*.go.               *)
(*                                                                         *)
(* Respond reads the screen once, refuses what the question does not take, *)
(* and then presses keys, reading the screen back after each of them.  The *)
(* keys pass through the pane's input, and the runtime takes them when it  *)
(* gets there.  How it takes them is in the comments of the code, as       *)
(* measured.  One Respond runs at a time: it holds the composer's lock.    *)
(*                                                                         *)
(* Every question has three rows.  Row 3 of a "list" and of "boxes" is the *)
(* free-text row, the other rows of "boxes" are checkboxes and row 4 there *)
(* is the Submit row.                                                      *)
(***************************************************************************)
EXTENDS Naturals, Sequences, FiniteSets, FiniteSetsExt

CONSTANTS
    AskEnvironments     \* what may happen on the screen, a set of records

(***************************************************************************)
(*   kinds    the kinds of questions the runtime asks                      *)
(*   may      keys are swallowed ("swallow") or taken after the driver has *)
(*            stopped waiting ("late"), the foreground process is another  *)
(*            one or takes no paste ("shell"), a person answers while a    *)
(*            Respond is under way ("meanwhile"), an option is chosen      *)
(*            while the highlight is in the free-text field ("field"), the *)
(*            free-text row of checkboxes is chosen ("row")                *)
(*   questions, responds   bounds                                          *)
(***************************************************************************)
ASSUME AskAssumption ==
    \A e \in AskEnvironments :
       /\ e.kinds \subseteq {"list", "menu", "preview", "boxes", "card"}
       /\ e.may \subseteq {"swallow", "late", "shell", "meanwhile", "field", "row"}
       /\ {e.questions, e.responds} \subseteq Nat

VARIABLES
    askEnv,      \* the environment of this behaviour
    dialog,      \* the question on screen; number 0 is none
    tty,         \* the keys on their way to the runtime
    held,        \* the nonce the caller has read
    respond,     \* the Respond under way
    touched,     \* it has pressed a key
    answers,     \* the questions that left the screen, with how they were answered
    receipts,    \* the answers of Respond
    responds     \* calls of Respond so far

askVars == <<askEnv, dialog, tty, held, respond, touched, answers, receipts, responds>>

AskMay(what) == what \in askEnv.may
CheckBoxes == {1, 2}
FreeRow == 3
NoDialog == [q |-> 0, kind |-> "none", sel |-> 0, ticks |-> {}, text |-> ""]
Question(q, kind) == [q |-> q, kind |-> kind, sel |-> IF kind = "card" THEN 0 ELSE 1,
                      ticks |-> {}, text |-> ""]

\* A prompt's nonce digests its question and its options, their ticks and text included,
\* and not the highlight.
Nonce(d) == [q |-> d.q, ticks |-> d.ticks, text |-> d.text]
NoNonce == [q |-> 0, ticks |-> {}, text |-> "none given"]

\* fleet.Response, as far as Validate lets it through.
Responses ==
    [do : {"choose"}, row : 1 .. 3, set : {{}}, text : {FALSE}]
      \cup [do : {"accept", "cancel"}, row : {0}, set : {{}}, text : {FALSE}]
      \cup [do : {"tick"}, row : {0}, set : SUBSET CheckBoxes, text : BOOLEAN]
      \cup [do : {"text"}, row : {0}, set : {{}}, text : {TRUE}]

Resting == [at |-> "idle"]

AskInit ==
    /\ askEnv \in AskEnvironments
    /\ \E kind \in askEnv.kinds : dialog = Question(1, kind)
    /\ tty = <<>> /\ held = NoNonce
    /\ respond = Resting /\ touched = FALSE
    /\ answers = {} /\ receipts = {} /\ responds = 0

-----------------------------------------------------------------------------
(* The runtime and the person at the terminal *)

\* The question leaves the screen, another one or none takes its place.
MovesOn(how) ==
    /\ answers' = answers \cup {[q |-> dialog.q, by |-> how.by, row |-> how.row,
                                 ticks |-> dialog.ticks \cap CheckBoxes, text |-> dialog.text]}
    /\ IF how.row = 0 \/ dialog.q >= askEnv.questions
       THEN dialog' = NoDialog
       ELSE \E kind \in askEnv.kinds : dialog' = Question(dialog.q + 1, kind)

\* Row 0 declines the dialog.
LeavesBy(by, row) == MovesOn([by |-> by, row |-> row])
StaysUp(d) == dialog' = d /\ UNCHANGED answers

FieldHolds(text) == [dialog EXCEPT !.text = text,
                              !.ticks = IF dialog.kind = "boxes" THEN @ \cup {FreeRow} ELSE @]
InField == dialog.kind \in {"list", "boxes"} /\ dialog.sel >= FreeRow
RowCount == IF dialog.kind = "boxes" THEN 4 ELSE 3

TakesDigit(k) ==
    IF dialog.kind \in {"none", "menu"} THEN StaysUp(dialog)
    ELSE IF InField THEN StaysUp(FieldHolds("digit"))
    ELSE IF dialog.kind = "list" /\ k.row = FreeRow THEN StaysUp([dialog EXCEPT !.sel = FreeRow])
    ELSE IF dialog.kind = "preview" THEN StaysUp([dialog EXCEPT !.sel = k.row])
    ELSE IF dialog.kind = "boxes" THEN StaysUp([dialog EXCEPT !.ticks = SymDiff(@, {k.row})])
    ELSE LeavesBy(k.by, k.row)

TakesEnter(k) ==
    IF dialog.kind \in {"none", "boxes", "card"} THEN StaysUp(dialog)
    ELSE IF InField THEN LeavesBy(k.by, IF dialog.text = "" THEN 0 ELSE FreeRow)
    ELSE LeavesBy(k.by, dialog.sel)

TakesOther(k) ==
    IF dialog.kind = "none" THEN StaysUp(dialog)
    ELSE IF k.key = "Escape" THEN LeavesBy(k.by, 0)
    ELSE IF k.key = "Up" /\ dialog.sel > 1 THEN StaysUp([dialog EXCEPT !.sel = @ - 1])
    ELSE IF k.key = "Down" /\ dialog.sel \in 1 .. (RowCount - 1)
         THEN StaysUp([dialog EXCEPT !.sel = @ + 1])
    ELSE IF k.key = "Right" /\ dialog.kind = "boxes" /\ dialog.sel \in CheckBoxes
         THEN LeavesBy(k.by, FreeRow)
    ELSE IF k.key = "paste" /\ InField THEN StaysUp(FieldHolds("asked"))
    ELSE StaysUp(dialog)

\* The runtime takes the next key.
TakeKey ==
    /\ tty # <<>>
    /\ tty' = Tail(tty)
    /\ \/ /\ Head(tty).key = "digit"
          /\ TakesDigit(Head(tty))
       \/ /\ Head(tty).key = "Enter"
          /\ TakesEnter(Head(tty))
       \/ /\ Head(tty).key \notin {"digit", "Enter"}
          /\ TakesOther(Head(tty))
       \/ /\ AskMay("swallow")
          /\ StaysUp(dialog)
    /\ UNCHANGED <<askEnv, held, respond, touched, receipts, responds>>

PersonAnswers ==
    /\ dialog.q # 0
    /\ AskMay("meanwhile") \/ (respond = Resting /\ tty = <<>>)
    /\ LeavesBy(0, 1)
    /\ UNCHANGED <<askEnv, tty, held, respond, touched, receipts, responds>>

\* The caller reads the session.
ReadState ==
    /\ held' = Nonce(dialog)
    /\ UNCHANGED <<askEnv, dialog, tty, respond, touched, answers, receipts, responds>>

-----------------------------------------------------------------------------
(* Respond: what it refuses, and the stages of an answer *)

\* What each kind of question takes.  The free-text row of checkboxes is none of the boxes
\* that a single choice is refused for.
AskTakes(d, r, nonce) ==
    IF d.kind = "card" THEN r.do = "choose" /\ r.row \in 1 .. 2 /\ nonce # NoNonce
    ELSE \/ r.do = "cancel"
         \/ d.kind = "boxes" /\ r.do = "tick" /\ (r.text => d.text = "")
         \/ d.kind = "list" /\ r.do = "text" /\ d.text = ""
         \/ d.kind # "boxes" /\ r.do \in {"choose", "accept"}
         \/ d.kind = "boxes" /\ r.do = "choose" /\ r.row \notin CheckBoxes

Stages(d, r) ==
    IF r.do = "cancel" THEN <<"cancel">>
    ELSE IF r.do = "tick" THEN IF r.text THEN <<"onto", "flip", "down", "type", "onto", "right">>
                               ELSE <<"onto", "flip", "right">>
    ELSE IF r.do = "text" THEN <<"row", "type", "enter">>
    ELSE IF d.kind = "preview" \/ (d.kind = "menu" /\ r.do = "choose" /\ r.row # d.sel)
         THEN <<"walk", "enter">>
    ELSE IF r.do = "accept" \/ d.kind = "menu" THEN <<"accept">>
    ELSE <<"choose">>

\* The row a Respond is after: an accepted highlight is the row it was read on.
WantedRow(o) == IF o.r.do = "choose" THEN o.r.row ELSE o.before.sel

Unflipped(o) == {i \in CheckBoxes : (i \in o.r.set) # (i \in o.cur.ticks)}

\* A stage that needs no key, or no further one.
Reached(o) ==
    LET stage == Head(o.plan)
    IN \/ stage = "onto" /\ o.cur.sel \in CheckBoxes
       \/ stage = "flip" /\ Unflipped(o) = {}
       \/ stage \in {"down", "row"} /\ o.cur.sel = FreeRow
       \/ stage = "walk" /\ o.cur.sel = WantedRow(o)

KeyPress(key) == [key |-> key, row |-> 0]
DigitKey(row) == [key |-> "digit", row |-> row]
Presses(key, n) == [i \in 1 .. n |-> KeyPress(key)]

\* Mutant: the digit and a confirming Enter go together, as they once did.
ChooseAndConfirm(o) == <<DigitKey(WantedRow(o)), KeyPress("Enter")>>

\* A choice is the digit alone.
ChooseKeys(o) == <<DigitKey(WantedRow(o))>>

\* walkHighlight, the digit of a preview, or the other key presses of a stage
KeysOf(o) ==
    LET stage == Head(o.plan)
        sel == o.cur.sel
    IN CASE stage = "cancel" -> <<KeyPress("Escape")>>
         [] stage = "choose" -> ChooseKeys(o)
         [] stage = "accept" -> <<KeyPress("Space"), KeyPress("Enter")>>
         [] stage = "enter" -> <<KeyPress("Enter")>>
         [] stage = "onto" -> <<KeyPress("Up")>>
         [] stage = "down" -> <<KeyPress("Down")>>
         [] stage = "flip" -> <<DigitKey(Min(Unflipped(o)))>>
         [] stage = "row" -> <<DigitKey(FreeRow)>>
         [] stage = "type" -> <<KeyPress("paste")>>
         [] stage = "right" -> <<KeyPress("Right")>>
         [] stage = "walk" -> IF o.cur.kind = "preview" THEN <<DigitKey(WantedRow(o))>>
                              ELSE IF WantedRow(o) > sel THEN Presses("Down", WantedRow(o) - sel)
                              ELSE Presses("Up", sel - WantedRow(o))

\* sameQuestionAround, sameMultiSelectQuestion
SameQuestion(a, b) == a.q = b.q /\ b.q # 0

\* awaitPrompt's verdict on what is on screen now, promptCleared's for the last key.
Verdict(o, now) ==
    LET stage == Head(o.plan)
        when(arrived) == IF arrived THEN "arrived" ELSE "pending"
    IN IF stage \in {"cancel", "choose", "accept", "enter"} THEN when(Nonce(now) # Nonce(o.cur))
       ELSE IF stage = "right" THEN when(now.q # 0 /\ ~SameQuestion(o.cur, now))
       ELSE IF stage = "walk"
            THEN IF Nonce(now) # Nonce(o.cur) THEN "diverged" ELSE when(now.sel = WantedRow(o))
       ELSE IF stage \in {"row", "type"} /\ now.q = 0 THEN "pending"
       ELSE IF ~SameQuestion(o.cur, now) THEN "diverged"
       ELSE IF stage = "row" THEN when(now.sel = FreeRow)
       ELSE IF stage = "type" THEN when(now.sel = FreeRow /\ now.text = "asked")
       ELSE IF stage = "flip"
            THEN when(now.ticks \ {FreeRow} = SymDiff(o.cur.ticks \ {FreeRow}, {Min(Unflipped(o))}))
       ELSE when(now.sel # o.cur.sel)

LastStage(o) == Len(o.plan) = 1

Receipt(o, outcome, pressed) ==
    /\ respond' = Resting
    /\ receipts' = receipts \cup {[n |-> o.n, q |-> o.q, r |-> o.r, is |-> outcome,
                                   touched |-> pressed]}

-----------------------------------------------------------------------------
(* Respond: its steps *)

\* A refusal on what the first read shows.
RefuseRespond(r, nonce) ==
    /\ \/ dialog.q = 0
       \/ nonce # NoNonce /\ nonce # Nonce(dialog)
       \/ ~AskTakes(dialog, r, nonce)
    /\ Receipt([n |-> responds', q |-> dialog.q, r |-> r], "refused", FALSE)
    /\ UNCHANGED touched

BeginRespond(r, nonce) ==
    /\ dialog.q # 0
    /\ nonce \in {NoNonce, Nonce(dialog)}
    /\ AskTakes(dialog, r, nonce)
    /\ \/ dialog.kind # "list" \/ dialog.sel # FreeRow
       \/ r.do \in {"text", "cancel"} \/ AskMay("field")
    /\ dialog.kind # "boxes" \/ r.do # "choose" \/ AskMay("row")
    /\ respond' = [at |-> "stage", n |-> responds', q |-> dialog.q, r |-> r, before |-> dialog,
                   cur |-> dialog, plan |-> Stages(dialog, r)]
    /\ touched' = FALSE
    /\ UNCHANGED receipts

Respond ==
    /\ respond.at = "idle" /\ responds < askEnv.responds
    /\ responds' = responds + 1
    /\ \E r \in Responses, nonce \in {NoNonce, held} :
          RefuseRespond(r, nonce) \/ BeginRespond(r, nonce)
    /\ UNCHANGED <<askEnv, dialog, tty, held, answers>>

SkipStage ==
    /\ respond.at = "stage" /\ Reached(respond)
    /\ respond' = [respond EXCEPT !.plan = Tail(@)]
    /\ UNCHANGED <<askEnv, dialog, tty, held, touched, answers, receipts, responds>>

PressStage ==
    /\ respond.at = "stage" /\ ~Reached(respond)
    /\ LET keys == KeysOf(respond)
       IN tty' = tty \o [i \in DOMAIN keys |->
                            [key |-> keys[i].key, row |-> keys[i].row, by |-> respond.n]]
    /\ respond' = [respond EXCEPT !.at = "await"]
    /\ touched' = TRUE
    /\ UNCHANGED <<askEnv, dialog, held, answers, receipts, responds>>

\* typeIntoFreeTextRow pastes only into the runtime, and only in brackets.
PasteRefused ==
    /\ AskMay("shell")
    /\ respond.at = "stage" /\ Head(respond.plan) = "type"
    /\ Receipt(respond, "refused", touched)
    /\ UNCHANGED <<askEnv, dialog, tty, held, touched, answers, responds>>

LookBack ==
    LET verdict == Verdict(respond, dialog)
    IN /\ respond.at = "await"
       /\ \/ /\ verdict = "arrived" /\ ~LastStage(respond)
             /\ respond' = [respond EXCEPT !.at = "stage", !.cur = dialog,
                               !.plan = IF Head(@) \in {"onto", "down", "flip"} THEN @
                                        ELSE Tail(@)]
             /\ UNCHANGED receipts
          \/ /\ verdict = "arrived" /\ LastStage(respond)
             /\ Receipt(respond, "submitted", touched)
          \/ /\ verdict = "diverged"
             /\ Receipt(respond, "unknown", touched)
       /\ UNCHANGED <<askEnv, dialog, tty, held, touched, answers, responds>>

\* The window for a stage ends.  A set of ticks is handed over when no prompt is left.
WindowOver ==
    /\ respond.at = "await" /\ Verdict(respond, dialog) = "pending"
    /\ AskMay("late") \/ tty = <<>>
    /\ LET gone == Head(respond.plan) = "right" /\ dialog.q = 0
       IN Receipt(respond, IF gone THEN "submitted" ELSE "unknown", touched)
    /\ UNCHANGED <<askEnv, dialog, tty, held, touched, answers, responds>>

AskNext ==
    \/ TakeKey \/ PersonAnswers \/ ReadState
    \/ Respond \/ SkipStage \/ PressStage \/ PasteRefused \/ LookBack \/ WindowOver

AskSpec == AskInit /\ [][AskNext]_askVars

-----------------------------------------------------------------------------
(* Properties *)

\* What an answer has to be for a response to have been given.
GivenAsAsked(r, a) ==
    CASE r.do = "cancel" -> a.row = 0
      [] r.do = "tick" -> /\ a.row # 0 /\ a.ticks = r.set
                          /\ r.text => a.text = "asked"
      [] r.do = "text" -> a.row = FreeRow /\ a.text = "asked"
      [] r.do = "choose" -> a.row = r.row
      [] OTHER -> a.row # 0

\* An answer that a receipt reports was given, and a question that left the screen at a
\* Respond's keys was answered with what that Respond was asked for: never another row or
\* set, and never the whole dialog declined by an empty field.  Here, where nobody else
\* answers meanwhile and the driver waits for its keys, and without the choices of "field"
\* and "row": their digit changes the prompt, which counts as an answer, and gives none.
AnsweredAsAsked ==
    /\ \A v \in receipts : v.is = "submitted" => \E a \in answers : a.q = v.q /\ a.by = v.n
    /\ \A v \in receipts, a \in answers :
          a.by = v.n => a.q = v.q /\ GivenAsAsked(v.r, a)

\* A refusal is decided before anything was sent (delivery.go).
RefusedBeforeAnything == \A v \in receipts : v.is = "refused" => ~v.touched
=============================================================================
