------------------------------ MODULE TurnCounts -------------------------------
(***************************************************************************)
(* How many turns an agent has finished since the driver's last delivery   *)
(* to it (drivers/tmux/runtimerecord.go, and the delivery marks in         *)
(* tmux.go).  The agent's runtime appends a line to its own record for     *)
(* everything that happens; a mark remembers the delivery, a count, and    *)
(* the size that the record had when it was counted, so that the next      *)
(* reader counts only what came after.  Readers overlap, and the runtime   *)
(* appends while they read.                                                *)
(*                                                                         *)
(* A line has two halves, in which sizes are measured.                     *)
(***************************************************************************)
EXTENDS Naturals, Sequences, FiniteSets, FiniteSetsExt

CONSTANTS
    TurnEnvironments    \* what may happen to the record, a set of records

(***************************************************************************)
(*   may      a reader arrives in the middle of a line ("torn"), the       *)
(*            record grows between a reader's look at its size and its     *)
(*            reading ("meanwhile"), it is started anew ("rotate"), it     *)
(*            cannot be opened for once ("fail")                           *)
(*   lines, deliveries, readers   bounds                                   *)
(*   window   the lines of the tail that is read without a checkpoint      *)
(***************************************************************************)
ASSUME TurnAssumption ==
    \A e \in TurnEnvironments :
       /\ e.may \subseteq {"torn", "meanwhile", "rotate", "fail"}
       /\ {e.lines, e.deliveries, e.readers, e.window} \subseteq Nat

VARIABLES
    turnEnv,     \* the environment of this behaviour
    record,      \* the lines so far, and whether the last one is half written
    appended,    \* lines so far, over all records
    delivery,    \* deliveries so far
    mark,        \* the deliveryMark, as in memory and in the file
    readers,     \* turnsFor, for each reader
    answer       \* what the last reader answered, and what was true around it

turnVars == <<turnEnv, record, appended, delivery, mark, readers, answer>>

TurnMay(what) == what \in turnEnv.may
NoDelivery == [at |-> 0, count |-> 0, size |-> 0]
NotReading == [at |-> "no"]
TurnReaders == 1 .. turnEnv.readers
NoAnswer == [turns |-> 0, low |-> 0, high |-> 0]

Size == 2 * Len(record.lines) - (IF record.torn THEN 1 ELSE 0)

\* The turns in the lines that a reader of [from, to) can decode.  A line's time is the
\* number of deliveries before it.
TurnsIn(from, to, since) ==
    Cardinality({k \in DOMAIN record.lines :
                   /\ 2 * (k - 1) >= from /\ 2 * k <= to
                   /\ record.lines[k].turn /\ record.lines[k].time >= since})

TurnInit ==
    /\ turnEnv \in TurnEnvironments
    /\ record = [lines |-> <<>>, torn |-> FALSE] /\ appended = 0
    /\ delivery = 0 /\ mark = NoDelivery
    /\ readers = [r \in TurnReaders |-> NotReading] /\ answer = NoAnswer

-----------------------------------------------------------------------------
(* The runtime's record *)

\* Some reader is between its look at the size and its reading.
BetweenLooks == \E r \in TurnReaders : readers[r].at \in {"forward", "restat"}

RuntimeAppends ==
    \E turn, torn \in BOOLEAN :
       /\ ~record.torn /\ appended < turnEnv.lines
       /\ torn => TurnMay("torn")
       /\ BetweenLooks => TurnMay("meanwhile")
       /\ record' = [lines |-> Append(record.lines, [turn |-> turn, time |-> delivery]),
                     torn |-> torn]
       /\ appended' = appended + 1
       /\ UNCHANGED <<turnEnv, delivery, mark, readers, answer>>

RuntimeEndsLine ==
    /\ record.torn /\ (BetweenLooks => TurnMay("meanwhile"))
    /\ record' = [record EXCEPT !.torn = FALSE]
    /\ UNCHANGED <<turnEnv, appended, delivery, mark, readers, answer>>

\* Nothing comes after it here: a record that grows past a checkpoint of the one before
\* cannot be told from it.
RuntimeRotates ==
    /\ TurnMay("rotate") /\ appended = turnEnv.lines /\ record.lines # <<>>
    /\ record' = [lines |-> <<>>, torn |-> FALSE]
    /\ \A r \in TurnReaders : readers[r] = NotReading
    /\ answer' = NoAnswer
    /\ UNCHANGED <<turnEnv, appended, delivery, mark, readers>>

-----------------------------------------------------------------------------
(* The mark *)

\* noteDelivery
Deliver ==
    /\ delivery < turnEnv.deliveries
    /\ delivery' = delivery + 1
    /\ mark' = [NoDelivery EXCEPT !.at = delivery + 1]
    /\ UNCHANGED <<turnEnv, record, appended, readers, answer>>

\* forgetDelivery, at a close, and sweepDeliveryLocked.
Forget ==
    /\ mark # NoDelivery /\ mark' = NoDelivery
    /\ UNCHANGED <<turnEnv, record, appended, delivery, readers, answer>>

\* Mutant: the count of an earlier delivery is kept for the next.
RefreshedAnyway(r) ==
    IF mark # NoDelivery THEN [mark EXCEPT !.count = r.n, !.size = r.size] ELSE mark

\* updateDeliveryMarkCount: nothing, if the mark is another one by now.
Refreshed(r) ==
    IF mark # NoDelivery /\ mark.at = r.since
    THEN [mark EXCEPT !.count = r.n, !.size = r.size] ELSE mark

-----------------------------------------------------------------------------
(* A reader *)

ReaderTo(r, fields) == readers' = [readers EXCEPT ![r] = fields]
\* The turns of the session since the delivery that the reader counts from.
Finished(since) == TurnsIn(0, Size, since)
Answered(r, n, low) ==
    /\ readers' = [readers EXCEPT ![r] = NotReading]
    /\ answer' = [turns |-> n, low |-> low, high |-> Finished(readers[r].since)]

\* turnsFor takes the mark.
ReadMark ==
    \E r \in TurnReaders :
       /\ readers[r] = NotReading /\ mark # NoDelivery
       /\ ReaderTo(r, [at |-> "stat", since |-> mark.at, n |-> mark.count, size |-> mark.size,
                       low |-> Finished(mark.at)])
       /\ UNCHANGED <<turnEnv, record, appended, delivery, mark, answer>>

\* It looks at the size: unchanged, grown since the checkpoint, or no use.
ReadSize ==
    \E r \in TurnReaders :
       LET t == readers[r]
       IN /\ t.at = "stat"
          /\ \/ /\ t.size > 0 /\ Size = t.size
                /\ Answered(r, t.n, t.low)
             \/ /\ t.size > 0 /\ Size > t.size
                /\ ReaderTo(r, [at |-> "forward", since |-> t.since, low |-> t.low, n |-> t.n,
                                size |-> t.size, to |-> Size])
                /\ UNCHANGED answer
             \/ /\ t.size = 0 \/ Size < t.size \/ TurnMay("fail")
                /\ ReaderTo(r, [t EXCEPT !.at = "tail"])
                /\ UNCHANGED answer
          /\ UNCHANGED <<turnEnv, record, appended, delivery, mark>>

\* Mutant: the checkpoint moves to where the first look ended, and the count starts anew.
CountedAnew(t) == TurnsIn(t.size, Size, 0)

\* turnsSinceOffset: everything after the checkpoint, to the end that the file has by now.
CountedForward(t) == t.n + TurnsIn(t.size, Size, 0)

ReadForward ==
    \E r \in TurnReaders :
       LET t == readers[r]
       IN /\ t.at = "forward"
          /\ \/ /\ Size >= t.size
                /\ ReaderTo(r, [at |-> "save", since |-> t.since, low |-> t.low,
                                n |-> CountedForward(t), size |-> t.to])
             \/ /\ Size < t.size \/ TurnMay("fail")
                /\ ReaderTo(r, [at |-> "tail", since |-> t.since, low |-> t.low,
                                n |-> t.n, size |-> t.size])
          /\ UNCHANGED <<turnEnv, record, appended, delivery, mark, answer>>

\* Mutant: a tail that does not reach back is counted all the same.
ReachesAnyhow(since) == TRUE

\* turnsSince vouches for the tail if it is the whole record, or has a line from before.
TailStart == Max({0, Size - 2 * turnEnv.window})
FirstWhole == IF TailStart = 0 THEN 0 ELSE TailStart + 1
ReachesBack(since) ==
    \/ TailStart = 0
    \/ \E k \in DOMAIN record.lines :
          /\ 2 * (k - 1) >= FirstWhole /\ 2 * k <= Size /\ record.lines[k].time < since

\* It falls back on the count that it has, if there is one, and answers nothing otherwise.
ReadTail ==
    \E r \in TurnReaders :
       LET t == readers[r]
       IN /\ t.at = "tail"
          /\ \/ /\ ReachesBack(t.since)
                /\ ReaderTo(r, [t EXCEPT !.at = "restat", !.n = TurnsIn(FirstWhole, Size, t.since)])
                /\ UNCHANGED answer
             \/ /\ ~ReachesBack(t.since) \/ TurnMay("fail")
                /\ IF t.size > 0 THEN Answered(r, t.n, 0)
                   ELSE readers' = [readers EXCEPT ![r] = NotReading] /\ UNCHANGED answer
          /\ UNCHANGED <<turnEnv, record, appended, delivery, mark>>

\* Only now does it look at the size that goes with the count.
ReadSizeAgain ==
    \E r \in TurnReaders :
       /\ readers[r].at = "restat"
       /\ \E size \in {Size} \cup (IF TurnMay("fail") THEN {0} ELSE {}) :
             ReaderTo(r, [readers[r] EXCEPT !.size = size, !.at = "save"])
       /\ UNCHANGED <<turnEnv, record, appended, delivery, mark, answer>>

SaveCount ==
    \E r \in TurnReaders :
       /\ readers[r].at = "save"
       /\ mark' = Refreshed(readers[r])
       /\ Answered(r, readers[r].n, readers[r].low)
       /\ UNCHANGED <<turnEnv, record, appended, delivery>>

TurnNext ==
    \/ RuntimeAppends \/ RuntimeEndsLine \/ RuntimeRotates
    \/ Deliver \/ Forget
    \/ ReadMark \/ ReadSize \/ ReadForward \/ ReadTail \/ ReadSizeAgain \/ SaveCount

TurnSpec == TurnInit /\ [][TurnNext]_turnVars

-----------------------------------------------------------------------------
(* A reader answers with no fewer turns than had ended since the delivery when it     *)
(* began, unless it could not read the record and repeats the last count, and with no *)
(* more than have ended now; and the checkpoint that it leaves holds the turns up to  *)
(* its size, so that the next reader may go on from there.                            *)
TurnsAreTrue ==
    /\ answer.low <= answer.turns /\ answer.turns <= answer.high
    /\ mark.size \in 1 .. Size => mark.count = TurnsIn(0, mark.size, mark.at)
=============================================================================
