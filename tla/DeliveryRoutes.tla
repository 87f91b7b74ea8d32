--------------------------- MODULE DeliveryRoutes ---------------------------
(***************************************************************************)
(* The route of a delivery (internal/drivers/tmux: Send, route.go, inbox.go, *)
(* modulelane_send.go): which of three paths a send takes, the terminal,   *)
(* the inbox of the session or the lane of a delivery module, and the      *)
(* ledger of writes that could not be confirmed, which keeps a caller that *)
(* tries again from delivering one text twice.                             *)
(*                                                                         *)
(* Here is one session, its successor under the same name, and a caller    *)
(* that sends each text again until it is told that the text arrived.  The *)
(* terminal path is modelled by what ComposerDelivery establishes of it,   *)
(* the lane by whether DeliveryLanes has it usable.                        *)
(***************************************************************************)
EXTENDS Naturals, Sequences, FiniteSets

CONSTANTS
    RouteTexts,               \* what the caller has to say
    LedgerMax,           \* unconfirmedPerSession
    RouteEnvironments    \* what may happen around the sends, a set of records

(***************************************************************************)
(* Each behaviour has one environment:                                     *)
(*   may     a rename or a crash beside a send ("rename", "crash") or only *)
(*           between two sends ("rest"), listings fail ("blind"), another  *)
(*           session takes the name ("succeed"), the lane is closed        *)
(*           ("close"), the lane's directory is not the pane's ("cwd")     *)
(*   routes  the routes that the caller asks for                           *)
(*   sends, lanes, events   how many sends, lane changes and other events  *)
(***************************************************************************)
ASSUME RouteAssumption ==
    /\ LedgerMax \in Nat \ {0}
    /\ IsFiniteSet(RouteTexts) /\ "none" \notin RouteTexts
    /\ \A e \in RouteEnvironments :
          /\ e.may \subseteq {"rename", "crash", "rest", "blind", "succeed", "close", "cwd"}
          /\ e.routes \subseteq {"auto", "terminal", "inbox", "module"}
          /\ {e.sends, e.lanes, e.events} \subseteq Nat

VARIABLES
    routeEnv,
    sess,       \* the session: its name, its run, the directory of its pane
    lane,       \* the lane of each name: none, usable, degraded or closing
    ledger,     \* Driver.unconfirmed: of each name a list, as entries that have a place
    stranded,   \* Driver.stranded: the text under each name, or none
    box,        \* the text of ours that the composer holds, or none
    cur,        \* the send that holds the composer lock
    copies,     \* the texts written: to whom, by which send, what became of each
    last,       \* the last answer about each text
    answer,     \* the answer to each send
    laneMoves, events

routeVars == <<routeEnv, sess, lane, ledger, stranded, box, cur, copies, last, answer,
               laneMoves, events>>

RouteNames == {"n1", "n2"}
NoText == "none"
NoSend == [at |-> "no"]
Allows(what) == what \in routeEnv.may
Id == Len(answer)          \* the send that runs

RouteInit ==
    /\ routeEnv \in RouteEnvironments
    /\ sess = [name |-> "n1", run |-> 1]
    /\ lane = [n \in RouteNames |-> NoText]
    /\ ledger = [n \in RouteNames |-> {}] /\ stranded = [n \in RouteNames |-> NoText]
    /\ box = NoText
    /\ cur = NoSend /\ copies = {}
    /\ last = [t \in RouteTexts |-> NoText] /\ answer = <<>>
    /\ laneMoves = 0 /\ events = 0

-----------------------------------------------------------------------------
(* The ledger *)

\* An entry: the text, the run whose directory it names (0 is none), the module's handle.
LedgerEntry(t, via, dir, handle) == [t |-> t, via |-> via, dir |-> dir, handle |-> handle, place |-> 0]

\* The last place of a list that is taken, and the list with one more entry.
Top(list) ==
    LET latest == {e \in list : \A f \in list : f.place <= e.place}
    IN IF latest = {} THEN 0 ELSE (CHOOSE e \in latest : TRUE).place
Added(list, e) == list \cup {[e EXCEPT !.place = Top(list) + 1]}
\* One list after another.
Merged(list, more) == list \cup {[e EXCEPT !.place = @ + Top(list)] : e \in more}

\* The list without its oldest entries, past the cap.
Capped(list) == {e \in list : Cardinality({f \in list : f.place > e.place}) < LedgerMax}
Without(list, t) == {e \in list : e.t # t}

\* Mutant: only a write that broke part-way is remembered.
NotedWhenPartial(n, e) ==
    [ledger EXCEPT ![n] = IF e.handle = 0 THEN Capped(Added(Without(@, e.t), e)) ELSE @]
\* noteUnconfirmed
Noted(n, e) == [ledger EXCEPT ![n] = Capped(Added(Without(@, e.t), e))]
\* dropUnconfirmed
Dropped(n, t) == [ledger EXCEPT ![n] = Without(@, t)]

\* The first entry of the list that is about this text, if there is one.
Find(n, t) == {e \in ledger[n] : e.t = t /\ \A f \in ledger[n] : f.t = t => e.place <= f.place}

\* terminalUnconfirmed
TerminalUnconfirmed == stranded[cur.name] = cur.t

-----------------------------------------------------------------------------
(* The caller's send, and its end *)

Ends(t, res) ==
    /\ cur' = NoSend
    /\ last' = [last EXCEPT ![t] = res]
    /\ answer' = [answer EXCEPT ![Len(answer)] = res]

\* Nothing is written for this send; it ends with res.
Answers(res) ==
    /\ Ends(cur.t, res)
    /\ UNCHANGED <<routeEnv, sess, lane, box, copies, stranded, laneMoves, events>>

Goes(to) ==
    /\ cur' = [cur EXCEPT !.at = to]
    /\ UNCHANGED <<routeEnv, sess, lane, box, copies, stranded, last, answer, laneMoves, events>>

(***************************************************************************)
(* send, up to the ledger.  The shape "composer" stands for submit:false,  *)
(* resumeIfStranded and replaceIfStranded, which are told apart only by    *)
(* the terminal path; there it is a resume.                                *)
(***************************************************************************)
Send(t, route, shape) ==
    /\ cur = NoSend /\ Id < routeEnv.sends
    /\ route \in routeEnv.routes
    /\ last[t] \notin {"queued", "delivered"}
    /\ LET live == route \in {"auto", "terminal"} /\ lane[sess.name] = "usable"
           asks == shape = "composer"
           refused == \/ asks /\ route \in {"inbox", "module"}
                      \/ live /\ (asks \/ route = "terminal")
       IN  IF refused
           THEN /\ cur' = NoSend /\ last' = [last EXCEPT ![t] = "refused"]
                /\ answer' = Append(answer, "refused")
           ELSE /\ cur' = [at |-> "ledger", t |-> t, route |-> route, shape |-> shape,
                           name |-> sess.name, pinned |-> live]
                /\ answer' = Append(answer, NoText) /\ UNCHANGED last
    /\ UNCHANGED <<routeEnv, sess, lane, ledger, stranded, box, copies, laneMoves, events>>

-----------------------------------------------------------------------------
(* answerFromLedger, answerFromModuleLedger *)

\* What the module or the transcript says of the write that an entry is about.
Fates(e) == {c.fate : c \in {x \in copies : x.send = e.handle}}

\* Mutant: an entry gates whichever session has the name now.
AboutAnyone(e, seen) == TRUE
\* An entry made for another directory gates nothing; one that cannot be
\* compared, as the sessions could not be listed, does.
About(e, seen) == ~seen \/ e.dir = sess.run

FromLedger ==
    /\ cur.at = "ledger"
    /\ IF Find(cur.name, cur.t) = {} THEN Goes("inbox") /\ UNCHANGED ledger
       ELSE \E e \in Find(cur.name, cur.t), seen \in {TRUE} \cup (IF Allows("blind") THEN {FALSE} ELSE {}) :
          IF (seen /\ cur.name # sess.name) \/ ~About(e, seen)
          THEN ledger' = Dropped(cur.name, cur.t) /\ Goes("inbox")
          ELSE \/ /\ e.via = "module" /\ "taken" \in Fates(e)
                  /\ ledger' = Dropped(cur.name, cur.t) /\ Answers("queued")
               \/ /\ e.via = "module" /\ "rejected" \in Fates(e)
                  /\ ledger' = Dropped(cur.name, cur.t) /\ Goes("inbox")
               \/ /\ e.via = "inbox" /\ "taken" \in Fates(e)
                  /\ ledger' = Dropped(cur.name, cur.t) /\ Answers("delivered")
               \/ /\ e.via = "module" \/ "taken" \notin Fates(e)
                  /\ Answers("held") /\ UNCHANGED ledger

-----------------------------------------------------------------------------
(* The inbox, for a send that names it *)

Writes(via, fates) ==
    \E fate \in fates :
       copies' = copies \cup {[send |-> Id, t |-> cur.t, run |-> sess.run, via |-> via, fate |-> fate]}

Inbox ==
    /\ cur.at = "inbox"
    /\ IF cur.route # "inbox" THEN Goes("module") /\ UNCHANGED ledger
       ELSE IF TerminalUnconfirmed THEN Answers("refused") /\ UNCHANGED ledger
       ELSE \/ Answers("refused") /\ UNCHANGED ledger   \* declined, or the identity does not hold
            \/ /\ cur.name = sess.name                  \* a listing has the session
               /\ Writes("inbox", {"going", "lost"})    \* whole, or broken part-way
               /\ cur' = [cur EXCEPT !.at = "inboxed"]
               /\ UNCHANGED <<routeEnv, sess, lane, ledger, stranded, box, last, answer,
                              laneMoves, events>>

\* The copy that this send wrote.
Mine == {c \in copies : c.send = Id}

\* confirmInbox: the transcript has the message within the window, or it has not.
InboxAnswers ==
    /\ cur.at = "inboxed"
    /\ \/ /\ \E c \in Mine : c.fate = "taken"
          /\ Answers("delivered") /\ UNCHANGED ledger
       \/ /\ ledger' = Noted(cur.name, LedgerEntry(cur.t, "inbox", sess.run, Id))
          /\ Answers("unknown")

-----------------------------------------------------------------------------
(* A delivery module *)

\* The error codes and outcomes of a module's send, by what they say was written.
NothingWritten == {"not-live", "unknown-lane", "not sent", "wrote nothing"}
Refusals == {"refused", "too-large", "bad-request"}
MaybeWritten == {"write-failed", "internal", "lost"}

\* Mutant: a request that got no answer counts as not sent.
DeclinesWhenLost(res) == res \in NothingWritten \cup {"lost"}
\* sendFailed: the send is handed back, as nothing was written.
Declines(res) == res \in NothingWritten

\* Mutant: what the module hands back goes to the terminal.
HandedToTerminal == IF cur.route = "module" THEN Answers("refused") ELSE Goes("pane")
\* A send that the lane could not take: a forced or pinned one is refused.
HandedBack == IF cur.route = "module" \/ cur.pinned THEN Answers("refused") ELSE Goes("pane")

Degraded == [lane EXCEPT ![cur.name] = IF @ = "usable" THEN "degraded" ELSE @]
\* The directory in the lane's record, which is gone when the record is.
LaneDir == IF lane[cur.name] = NoText \/ Allows("cwd") THEN 0 ELSE sess.run

\* moduleRouteChoice, and the steps of sendViaModule up to the write
Module ==
    /\ cur.at = "module"
    /\ IF \/ cur.route \in {"terminal", "inbox"} \/ (cur.route = "auto" /\ cur.shape # "plain")
       THEN Goes("pane") /\ UNCHANGED ledger
       ELSE IF TerminalUnconfirmed THEN HandedBack /\ UNCHANGED ledger
       ELSE IF cur.route = "auto" /\ lane[cur.name] \in {NoText, "closing"}
       THEN Goes("pane") /\ UNCHANGED ledger              \* laneModule is ""
       ELSE IF lane[cur.name] # "usable" THEN HandedBack /\ UNCHANGED ledger
       ELSE cur' = [cur EXCEPT !.at = "sending"]
            /\ UNCHANGED <<routeEnv, sess, lane, ledger, stranded, box, copies, last, answer,
                           laneMoves, events>>

\* The module's answer to the send.
ModuleSends ==
    /\ cur.at = "sending"
    /\ \E res \in NothingWritten \cup Refusals \cup MaybeWritten \cup {"written"} :
         /\ IF res \in NothingWritten \cup Refusals THEN UNCHANGED copies
            ELSE Writes("module", IF res = "written" THEN {"going"} ELSE {"going", "lost"})
         /\ lane' = IF res \in MaybeWritten \cup {"not-live", "unknown-lane"} THEN Degraded ELSE lane
         /\ IF res = "written"
            THEN cur' = [cur EXCEPT !.at = "written"] /\ UNCHANGED <<ledger, last, answer>>
            ELSE IF Declines(res)
            THEN /\ UNCHANGED ledger
                 /\ IF cur.route = "module" \/ cur.pinned THEN Ends(cur.t, "refused")
                    ELSE cur' = [cur EXCEPT !.at = "pane"] /\ UNCHANGED <<last, answer>>
            ELSE IF res \in Refusals THEN Ends(cur.t, "refused") /\ UNCHANGED ledger
            ELSE /\ ledger' = Noted(cur.name, LedgerEntry(cur.t, "module", LaneDir, 0))
                 /\ Ends(cur.t, "unknown")
    /\ UNCHANGED <<routeEnv, sess, stranded, box, laneMoves, events>>

\* What the module can say of a message within the window.
Verdicts(c) ==
    {"queued", "silent", "error"} \cup
        (CASE c.fate = "taken" -> {"confirmed"} [] c.fate = "rejected" -> {"rejected"} [] OTHER -> {})

\* awaitVerdict, and what deliver makes of it
ModuleAnswers ==
    /\ cur.at = "written"
    /\ \E c \in Mine : \E v \in Verdicts(c) :
         /\ lane' = IF v \in {"rejected", "silent", "error"} THEN Degraded ELSE lane
         /\ ledger' = IF v \in {"confirmed", "rejected"} THEN ledger
                      ELSE Noted(cur.name, LedgerEntry(cur.t, "module", LaneDir, Id))
         /\ Ends(cur.t, CASE v = "confirmed" -> "queued" [] v = "rejected" -> "refused"
                          [] OTHER -> "unknown")
    /\ UNCHANGED <<routeEnv, sess, stranded, box, copies, laneMoves, events>>

-----------------------------------------------------------------------------
(* The terminal *)

\* The text in the composer is a stranded delivery of this very text, and is
\* submitted for a resume; other text in the box refuses the send, and so does a
\* name that no session has.
Pane ==
    /\ cur.at = "pane"
    /\ \/ /\ box # NoText /\ ~(box = cur.t /\ TerminalUnconfirmed /\ cur.shape = "composer")
          /\ Answers("refused") /\ UNCHANGED ledger
       \/ /\ cur.name = sess.name
          /\ box = cur.t /\ TerminalUnconfirmed /\ cur.shape = "composer"
          /\ Writes("pane", {"taken"}) /\ box' = NoText
          /\ stranded' = [stranded EXCEPT ![cur.name] = NoText]
          /\ Ends(cur.t, "queued")
          /\ UNCHANGED <<routeEnv, sess, lane, ledger, laneMoves, events>>
       \/ /\ box = NoText \/ cur.name # sess.name
          /\ Answers("refused") /\ UNCHANGED ledger
       \/ /\ cur.name = sess.name /\ box = NoText
          /\ Writes("pane", {"going", "taken"})
          /\ cur' = [cur EXCEPT !.at = "pasted"]
          /\ box' = IF \E c \in copies' \ copies : c.fate = "going" THEN cur.t ELSE NoText
          /\ UNCHANGED <<routeEnv, sess, lane, ledger, stranded, last, answer, laneMoves, events>>

\* The paste was submitted, or the text is stranded and recorded so.
PaneAnswers ==
    /\ cur.at = "pasted"
    /\ IF \E c \in Mine : c.fate = "taken"
       THEN Ends(cur.t, "queued") /\ UNCHANGED <<stranded, copies>>
       ELSE /\ stranded' = [stranded EXCEPT ![cur.name] = cur.t]
            /\ copies' = {c \in copies : c.send # Id}
            /\ Ends(cur.t, "unknown")
    /\ UNCHANGED <<routeEnv, sess, lane, ledger, box, laneMoves, events>>

-----------------------------------------------------------------------------
(* What goes on around a send *)

\* The receiver takes a message in its inbox; the runtime takes or rejects one that
\* the module wrote.  Nothing is taken by a session that is gone.
Reaches(c) ==
    /\ c \in copies /\ c.fate = "going" /\ c.via # "pane" /\ c.run = sess.run
    /\ \E fate \in {"taken"} \cup (IF c.via = "module" THEN {"rejected"} ELSE {}) :
          copies' = (copies \ {c}) \cup {[c EXCEPT !.fate = fate]}
    /\ UNCHANGED <<routeEnv, sess, lane, ledger, stranded, box, cur, last, answer, laneMoves,
                   events>>

LaneChanges ==
    /\ laneMoves < routeEnv.lanes
    /\ laneMoves' = laneMoves + 1
    /\ \E st \in {"usable", "degraded"} \cup (IF Allows("close") THEN {"closing", NoText} ELSE {}) :
          st # lane[sess.name] /\ lane' = [lane EXCEPT ![sess.name] = st]
    /\ UNCHANGED <<routeEnv, sess, ledger, stranded, box, cur, copies, last, answer, events>>

Happens(what) ==
    /\ Allows(what) \/ (Allows("rest") /\ cur = NoSend)
    /\ events < routeEnv.events /\ events' = events + 1

\* Rename: the ledgers are merged, the singular record overwritten (rekeySessionState).
RenamesSession ==
    /\ Happens("rename")
    /\ LET from == sess.name
           to == CHOOSE n \in RouteNames : n # from
       IN  /\ sess' = [sess EXCEPT !.name = to]
           /\ lane' = IF lane[from] = NoText THEN lane
                      ELSE [lane EXCEPT ![from] = NoText, ![to] = lane[from]]
           /\ stranded' = IF stranded[from] = NoText THEN stranded
                          ELSE [stranded EXCEPT ![from] = NoText, ![to] = stranded[from]]
           /\ ledger' = [ledger EXCEPT ![from] = {}, ![to] = Capped(Merged(ledger[to], ledger[from]))]
    /\ UNCHANGED <<routeEnv, box, cur, copies, last, answer, laneMoves>>

\* The service stops and starts: what was saved is loaded, the send is cut short.
Crash ==
    /\ Happens("crash")
    /\ cur' = NoSend
    /\ last' = IF cur = NoSend THEN last ELSE [last EXCEPT ![cur.t] = "unknown"]
    /\ answer' = IF cur = NoSend THEN answer ELSE [answer EXCEPT ![Len(answer)] = "unknown"]
    /\ lane' = [n \in RouteNames |-> IF lane[n] = "usable" THEN "degraded" ELSE lane[n]]
    /\ UNCHANGED <<routeEnv, sess, ledger, stranded, box, copies, laneMoves>>

\* The session is closed (killCorroborated) and another one made under its name,
\* in another directory.
Succeeded ==
    /\ Allows("succeed") /\ cur = NoSend /\ sess.run = 1
    /\ sess' = [sess EXCEPT !.run = 2]
    /\ stranded' = [stranded EXCEPT ![sess.name] = NoText]
    /\ box' = NoText /\ lane' = [lane EXCEPT ![sess.name] = NoText]
    /\ last' = [t \in RouteTexts |-> NoText]
    /\ UNCHANGED <<routeEnv, ledger, cur, copies, answer, laneMoves, events>>

-----------------------------------------------------------------------------
RouteNext ==
    \/ \E t \in RouteTexts, route \in {"auto", "terminal", "inbox", "module"},
          shape \in {"plain", "composer"} : Send(t, route, shape)
    \/ FromLedger \/ Inbox \/ InboxAnswers
    \/ Module \/ ModuleSends \/ ModuleAnswers \/ Pane \/ PaneAnswers
    \/ \E c \in copies : Reaches(c)
    \/ LaneChanges \/ RenamesSession \/ Crash \/ Succeeded

RouteSpec == RouteInit /\ [][RouteNext]_routeVars

-----------------------------------------------------------------------------
(* Properties *)

RouteKinds == {"auto", "terminal", "inbox", "module"}
RunningSends ==
    [at : {"ledger", "inbox", "inboxed", "module", "sending", "written", "pane", "pasted"},
     t : RouteTexts, route : RouteKinds, shape : {"plain", "composer"}, name : RouteNames,
     pinned : BOOLEAN]
Copies == [send : Nat, t : RouteTexts, run : 1 .. 2, via : {"inbox", "module", "pane"},
           fate : {"going", "lost", "taken", "rejected"}]
Entries == [t : RouteTexts, via : {"inbox", "module"}, dir : 0 .. 2, handle : Nat, place : Nat]
RouteAnswers == {NoText, "refused", "held", "unknown", "queued", "delivered"}

\* The types of the variables, and that a send that runs is counted.
RouteTypeOK ==
    /\ routeEnv \in RouteEnvironments
    /\ sess \in [name : RouteNames, run : 1 .. 2]
    /\ lane \in [RouteNames -> {NoText, "usable", "degraded", "closing"}]
    /\ ledger \in [RouteNames -> SUBSET Entries]
    /\ stranded \in [RouteNames -> RouteTexts \cup {NoText}] /\ box \in RouteTexts \cup {NoText}
    /\ cur \in RunningSends \cup {NoSend} /\ (cur # NoSend => Id # 0)
    /\ copies \subseteq Copies
    /\ last \in [RouteTexts -> RouteAnswers] /\ answer \in Seq(RouteAnswers)
    /\ laneMoves \in Nat /\ events \in Nat

Arrived(t, run) == {c \in copies : c.t = t /\ c.run = run /\ c.fate = "taken"}

(***************************************************************************)
(* What the ledger rests on: a session is not renamed and the service does *)
(* not stop while a send is under way, no lane is closed, and the lane's   *)
(* directory is the pane's; it has room for every text that is not         *)
(* confirmed; and where sessions follow one another under one name they    *)
(* can be listed.                                                          *)
(***************************************************************************)
Undisturbed == routeEnv.may \subseteq {"rest", "blind", "succeed"}
RoomForAll == Cardinality(RouteTexts) <= LedgerMax
Recognised == ~(Allows("blind") /\ Allows("succeed"))

\* "An unknown is remembered so the retry a caller is invited to make cannot deliver
\* the text a second time by any path" (modulelane_send.go): however often a text is
\* sent again, by whichever route, one copy arrives.
ArrivesOnce ==
    Undisturbed /\ RoomForAll =>
        \A t \in RouteTexts, run \in 1 .. 2 : Cardinality(Arrived(t, run)) <= 1

\* What a caller is told is so: a text reported queued or delivered has arrived, and
\* one that was refused is nowhere on its way.
AnswersAreTrue ==
    /\ \A t \in RouteTexts : last[t] \in {"queued", "delivered"} => Arrived(t, sess.run) # {}
    /\ \A i \in DOMAIN answer : answer[i] = "refused" =>
          ~\E c \in copies : c.send = i /\ c.fate \in {"going", "taken"}

\* A send is held back only for an earlier write to this very session, never for one
\* to another session that had its name.
HeldForItself ==
    \A t \in RouteTexts : last[t] = "held" => \E c \in copies : c.t = t /\ c.run = sess.run

\* "Pinned remembers the live module so the module step below refuses, instead of
\* falling back to the terminal, if the lane is lost between here and the write" (Send).
PinnedKeepsOff == cur # NoSend => ~(cur.pinned /\ cur.at \in {"pane", "pasted"})

\* What a caller is told of a send is so; a send is held back only for an earlier one to
\* this very session; and one that was pinned to the module never goes to the terminal
\* (modulelane_send.go).
SendsAreAsAnswered ==
    Undisturbed /\ Recognised => AnswersAreTrue /\ HeldForItself /\ PinnedKeepsOff
=============================================================================
