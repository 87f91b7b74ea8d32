-------------------------- MODULE ComposerDelivery --------------------------
(***************************************************************************)
(* The terminal path of Driver.Send (deliverViaPane) and Discard, on one   *)
(* session's composer (internal/drivers/tmux/tmux.go, terminalpath2.go,    *)
(* draftrule.go): a text is pasted into the composer, seen to have landed, *)
(* submitted with Enter and confirmed; one that could not be confirmed     *)
(* leaves a stranded record that a later resume or replace relies on.      *)
(*                                                                         *)
(* The calls on a composer are serialised by its lock (lockComposerOpsCtx) *)
(* so there is one call at a time.  What the driver does not serialise is  *)
(* the person at the keyboard and the runtime itself.                      *)
(*                                                                         *)
(* A composer's content is the sequence of the pieces in it.  Its digest   *)
(* and its rendering are modelled by that sequence, so the several ways in *)
(* which the code recognises a text on the screen are one comparison.      *)
(***************************************************************************)
EXTENDS Naturals, Sequences, SequencesExt

CONSTANTS
    Texts,         \* the messages callers send
    Clients,       \* who sends them
    TextOf,        \* [Clients -> Texts]
    None,
    Environments   \* what may happen around the driver, a set of records

(***************************************************************************)
(* Each behaviour has one environment:                                     *)
(*   clients  those who call, and                                          *)
(*   modes    the calls they make                                          *)
(*   may      what may happen: the composer changes under a call that has  *)
(*            looked at it ("race"), a paste renders after the driver      *)
(*            stopped watching ("late"), a submit that was accepted is     *)
(*            reported as failed or unconfirmed ("unsure"), a paste that   *)
(*            reported an error has taken effect ("unsurePaste"), the      *)
(*            runtime returns a queued message to the composer             *)
(*            ("handBack"), the retention of a record ends ("lapse")       *)
(*   entries, pieces, crashes  bounds: entries in the transcript, pieces   *)
(*            in the composer, restarts of the service                     *)
(***************************************************************************)
ASSUME ComposerAssumption ==
    /\ TextOf \in [Clients -> Texts]
    /\ \A e \in Environments :
          /\ e.clients \subseteq Clients
          /\ e.modes \subseteq {"send", "place", "resume", "replace", "discard"}
          /\ e.may \subseteq {"race", "late", "unsure", "unsurePaste", "handBack", "lapse"}
          /\ {e.entries, e.pieces, e.crashes} \subseteq Nat

VARIABLES
    env,       \* the environment of this behaviour
    composer,  \* what the composer holds
    late,      \* pasted and not yet rendered
    queue,     \* what the runtime has queued behind a running turn
    transcript, \* the entries the runtime wrote
    record,    \* Driver.stranded for the session
    tombs,     \* Driver.tombstones for the session
    call,      \* the call that holds the composer's lock
    client,    \* what each client knows of its message
    crashes

vars == <<env, composer, late, queue, transcript, record, tombs, call, client, crashes>>

Draft == "draft"   \* something a person typed
Rest == "rest"     \* what a clear that stopped half-way left

Pieces == Texts \union {Draft, Rest}

\* A user turn, one taken from the queue, or a message put in the queue.
Entry(kind, content) == [kind |-> kind, content |-> content]

\* A transcript source is its length when it was resolved, if it was.
Sources == (0 .. env.entries) \union {None}

Idle == [pc |-> "idle", by |-> None, mode |-> None, expect |-> None, src |-> None,
         resumed |-> FALSE]

Init ==
    /\ env \in Environments
    /\ composer = <<>> /\ late = <<>> /\ queue = <<>>
    /\ transcript = <<>>
    /\ record = None /\ tombs = {}
    /\ call = Idle
    /\ client = [c \in Clients |-> "new"]
    /\ crashes = 0

Text == TextOf[call.by]

Goto(pc) == call' = [call EXCEPT !.pc = pc]

Proceed(pc) == Goto(pc) /\ UNCHANGED client

\* The call returns; its client learns "status" ("same": nothing was written).
Answer(status) ==
    /\ call' = Idle
    /\ client' = IF status = "same" THEN client ELSE [client EXCEPT ![call.by] = status]

-----------------------------------------------------------------------------
(* The driver's memory of what it delivered. *)

\* currentComposerDigest: an empty composer has none.
Digest(content) == IF content = <<>> THEN None ELSE content

Stranded(t, digest, src, never) == [text |-> t, digest |-> digest, src |-> src, never |-> never]

Tomb(rec) == [text |-> rec.text, digest |-> rec.digest, src |-> None, provisional |-> FALSE]

\* Mutant: a record is proof, whatever the composer holds by now.
RecordProvesAlways(content) == record # None

\* recordProves: its digest still matches, or the composer renders its text.
RecordProves(content) == record # None /\ content \in {record.digest, <<record.text>>}

Since(src) == SubSeq(transcript, src + 1, Len(transcript))

\* transcriptTailScanKind: a turn taken from the queue counts if the source
\* was resolved before something was put in it; the first match ends the scan.
Scan(t, src) ==
    LET Read(acc, e) ==
            IF acc.found \in {"turn", "queued"} THEN acc
            ELSE IF e.kind = "enqueue"
            THEN IF e.content = <<t>> THEN [acc EXCEPT !.found = "queued"]
                 ELSE [acc EXCEPT !.depth = @ + 1]
            ELSE IF e.kind = "dequeue" /\ acc.depth = 0 THEN acc
            ELSE [found |-> IF e.content = <<t>> THEN "turn" ELSE "different",
                  depth |-> IF e.kind = "dequeue" THEN acc.depth - 1 ELSE acc.depth]
    IN  IF src = None THEN "none"
        ELSE FoldLeft(Read, [found |-> "silent", depth |-> 0], Since(src)).found

\* transcriptUserTurnSince
RanSince(t, src) ==
    src # None /\ \E i \in DOMAIN Since(src) :
        Since(src)[i].kind # "enqueue" /\ Since(src)[i].content = <<t>>

\* tombstoneProvesKind
TombProves(content) ==
    \E tomb \in tombs :
        /\ content \in {tomb.digest, <<tomb.text>>}
        /\ ~(tomb.provisional /\ RanSince(tomb.text, tomb.src))

\* ownDeliveryLocked: what List and State report as strandedDelivery.
OwnDelivery(content) == content # <<>> /\ (RecordProves(content) \/ TombProves(content))

\* noteStrandedLanding; a record of another text becomes a tombstone.
NoteStranded(t, digest, src, never) ==
    /\ record' = Stranded(t, digest, src, never)
    /\ tombs' = IF record # None /\ record.text # t THEN tombs \union {Tomb(record)} ELSE tombs

\* noteProvisional: one entry for a text.
NoteProvisional(t, src) ==
    tombs' = {tomb \in tombs : ~(tomb.provisional /\ tomb.text = t)}
                \union {[text |-> t, digest |-> None, src |-> src, provisional |-> TRUE]}

-----------------------------------------------------------------------------
(* The call: Begin is the client's request, with the lock acquired. *)

\* api.md: resume what is unknown or was handed back, else do not repeat it.
MayBegin(c, mode) ==
    CASE mode \in {"send", "place"} -> client[c] = "new"
      [] mode = "replace" -> client[c] \in {"new", "pending"}
      [] mode = "resume" -> \/ client[c] = "pending"
                            \/ client[c] = "done" /\ composer = <<TextOf[c]>>
                                                  /\ OwnDelivery(composer)
      [] OTHER -> TRUE

Begin(c, mode, expect) ==
    /\ call.pc = "idle"
    /\ MayBegin(c, mode)
    /\ expect # None => mode \in {"resume", "replace", "discard"}
    /\ call' = [Idle EXCEPT !.pc = "look", !.by = c, !.mode = mode, !.expect = expect]
    /\ UNCHANGED <<composer, late, queue, transcript, record, tombs, client, crashes, env>>

Sends == call.mode # "discard"

\* No such session, dead, not receptive, a menu, a clipped composer.
Refuse ==
    /\ call.pc = "look"
    /\ Answer("same")
    /\ UNCHANGED <<composer, late, queue, transcript, record, tombs, crashes, env>>

OwnRecord == record # None /\ record.text = Text

\* Mutant: the transcript is not consulted and neither is the record (before #180).
ResumesOnEmptyNever == FALSE

\* A resume that finds the composer empty and a record of its text.
ResumesOnEmpty == call.mode = "resume" /\ OwnRecord /\ composer = <<>>

AcceptedSince(t, src) == Scan(t, src) \in {"turn", "queued"}

ResumeFindsAccepted ==
    /\ call.pc = "look" /\ ResumesOnEmpty
    /\ AcceptedSince(Text, record.src)
    /\ record' = None
    /\ Answer("done")
    /\ UNCHANGED <<composer, late, queue, transcript, tombs, crashes, env>>

ResumeHeld ==
    /\ call.pc = "look" /\ ResumesOnEmpty
    /\ ~AcceptedSince(Text, record.src)
    /\ ~record.never
    /\ Answer("pending")
    /\ UNCHANGED <<composer, late, queue, transcript, record, tombs, crashes, env>>

\* A composer that holds the record's text, unchanged.
MaySubmit ==
    /\ call.mode = "resume" /\ OwnRecord
    /\ record.digest # None => RecordProves(composer)

ResumeSubmits ==
    /\ call.pc = "look" /\ composer # <<>> /\ MaySubmit
    /\ call' = [call EXCEPT !.pc = "land", !.resumed = TRUE]
    /\ UNCHANGED <<composer, late, queue, transcript, record, tombs, client, crashes, env>>

\* The draft rule: clear on the record's, a tombstone's or the caller's proof.
MayClear ==
    \/ call.expect = composer
    \/ Sends /\ record # None /\ call.mode = "replace" /\ RecordProves(composer)
    \/ Sends /\ record = None /\ TombProves(composer)

MayTryClear ==
    \/ call.mode \in {"replace", "discard"}
    \/ call.mode = "resume" /\ record = None

Clear ==
    /\ call.pc = "look" /\ composer # <<>>
    /\ MayTryClear /\ MayClear
    /\ Goto("clear")
    /\ UNCHANGED <<composer, late, queue, transcript, record, tombs, client, crashes, env>>

\* Everything else in a composer is refused and kept.
RefuseBusy ==
    /\ call.pc = "look" /\ composer # <<>>
    /\ ~(MayTryClear /\ MayClear) /\ ~MaySubmit
    /\ Answer("same")
    /\ UNCHANGED <<composer, late, queue, transcript, record, tombs, crashes, env>>

\* Discard of an empty composer forgets the record.
DiscardNothing ==
    /\ call.pc = "look" /\ ~Sends /\ composer = <<>>
    /\ record' = None
    /\ Answer("same")
    /\ UNCHANGED <<composer, late, queue, transcript, tombs, crashes, env>>

\* clearComposer emptied it: the record goes, and a send goes on to its paste.
Cleared ==
    /\ call.pc = "clear"
    /\ composer' = <<>>
    /\ record' = None
    /\ IF Sends THEN Proceed("paste") ELSE Answer("same")
    /\ UNCHANGED <<late, queue, transcript, tombs, crashes, env>>

\* The keys did not register, or stopped registering half-way.
ClearStops ==
    /\ call.pc = "clear"
    /\ composer' \in {composer, <<Rest>>}
    /\ Answer("same")
    /\ UNCHANGED <<late, queue, transcript, record, tombs, crashes, env>>

\* Mutant: a busy composer is pasted into.
FreshAnywhere == ResumesOnEmpty => record.never

\* An empty composer: paste, unless a resume has a record that says otherwise.
Fresh == composer = <<>> /\ (ResumesOnEmpty => record.never /\ ~AcceptedSince(Text, record.src))

GoPaste ==
    /\ call.pc = "look" /\ Sends /\ Fresh
    /\ Goto("paste")
    /\ UNCHANGED <<composer, late, queue, transcript, record, tombs, client, crashes, env>>

-----------------------------------------------------------------------------
(* Paste, land, submit, confirm. *)

\* The foreground is not the runtime, or bracketed paste is not available.
PasteRefused ==
    /\ call.pc = "paste"
    /\ Answer("same")
    /\ UNCHANGED <<composer, late, queue, transcript, record, tombs, crashes, env>>

\* The pasted text renders now, or later, or is swallowed by the runtime.
Paste ==
    /\ call.pc = "paste"
    /\ \/ composer' = Append(composer, Text) /\ UNCHANGED late
       \/ "late" \in env.may /\ late = <<>> /\ late' = <<Text>> /\ UNCHANGED composer
       \/ UNCHANGED <<composer, late>>
    /\ IF call.mode = "place" THEN Answer("placed") ELSE Proceed("land")
    /\ UNCHANGED <<queue, transcript, record, tombs, crashes, env>>

\* An error from the multiplexer is returned as it is; no record is made.
PasteFails ==
    /\ call.pc = "paste"
    /\ composer' \in {composer} \union (IF "unsurePaste" \in env.may THEN {Append(composer, Text)} ELSE {})
    /\ Answer("pending")
    /\ UNCHANGED <<late, queue, transcript, record, tombs, crashes, env>>

\* landedOn: a resume's check is strict, a fresh one finds the text among others.
Held == IF call.resumed THEN composer = <<Text>> ELSE Contains(composer, Text)

Landed ==
    /\ call.pc = "land"
    /\ Held
    /\ \E src \in {None, Len(transcript)} : call' = [call EXCEPT !.pc = "ready", !.src = src]
    /\ UNCHANGED <<composer, late, queue, transcript, record, tombs, client, crashes, env>>

\* The window closed, a menu appeared or a respond wants the lock.
LandFails ==
    /\ call.pc = "land"
    /\ IF call.resumed THEN Answer("pending") ELSE Proceed("unlanded")
    /\ UNCHANGED <<composer, late, queue, transcript, record, tombs, crashes, env>>

\* A fresh delivery that never landed; "never" if nothing of it rendered.
StrandUnlanded ==
    /\ call.pc = "unlanded"
    /\ \E src \in {None, Len(transcript)} :
          NoteStranded(Text, Digest(composer), src, Digest(composer) = None)
    /\ Answer("pending")
    /\ UNCHANGED <<composer, late, queue, transcript, crashes, env>>

\* preSubmitCheck
LastLook ==
    /\ call.pc = "ready"
    /\ Held
    /\ Goto("enter")
    /\ UNCHANGED <<composer, late, queue, transcript, record, tombs, client, crashes, env>>

GiveUp == IF call.resumed THEN Answer("pending") ELSE Proceed("strand")

LastLookFails ==
    /\ call.pc = "ready"
    /\ GiveUp
    /\ UNCHANGED <<composer, late, queue, transcript, record, tombs, crashes, env>>

\* What the runtime does with a submitted content: a turn, or its queue.
Runs(content) ==
    /\ composer # <<>> /\ Len(transcript) < env.entries
    /\ composer' = <<>>
    /\ transcript' = Append(transcript, Entry("user", content))
    /\ UNCHANGED queue

Queues(content) ==
    /\ composer # <<>> /\ Len(transcript) < env.entries
    /\ composer' = <<>>
    /\ queue' = Append(queue, content)
    /\ transcript' = Append(transcript, Entry("enqueue", content))

Swallows == UNCHANGED <<composer, transcript, queue>>

\* The wake key and Enter; the runtime runs the content, queues it or drops the key.
Enter ==
    /\ call.pc = "enter"
    /\ Runs(composer) \/ Queues(composer) \/ Swallows
    /\ Goto("confirm")
    /\ UNCHANGED <<late, record, tombs, client, crashes, env>>

\* Mutant: the error is returned and nothing is recorded (before #192).
EnterFailsUnrecorded ==
    /\ call.pc = "enter"
    /\ Swallows
    /\ Answer("pending")
    /\ UNCHANGED <<late, record, tombs, crashes, env>>

EnterFails ==
    /\ call.pc = "enter"
    /\ Swallows \/ ("unsure" \in env.may /\ (Runs(composer) \/ Queues(composer)))
    /\ GiveUp
    /\ UNCHANGED <<late, record, tombs, crashes, env>>

Strand ==
    /\ call.pc = "strand"
    /\ NoteStranded(Text, Digest(composer), call.src, FALSE)
    /\ Answer("pending")
    /\ UNCHANGED <<composer, late, queue, transcript, crashes, env>>

\* Mutant: the absence of an error is taken for a confirmation.
OffScreenAlways == TRUE

\* confirmSubmitted: the composer emptied, or the delivery's own block cleared.
OffScreen == ~Contains(composer, Text)

\* The transcript decides if it says anything, else the screen does.
Evidence ==
    LET scan == Scan(Text, call.src)
    IN  IF scan \in {"none", "silent"} THEN IF OffScreen THEN "screen" ELSE "none"
        ELSE scan

Confirm ==
    /\ call.pc = "confirm"
    /\ Evidence \in {"turn", "queued", "screen"}
    /\ record' = None
    /\ IF Evidence = "turn" THEN UNCHANGED tombs ELSE NoteProvisional(Text, call.src)
    /\ Answer("done")
    /\ UNCHANGED <<composer, late, queue, transcript, crashes, env>>

NotConfirmed ==
    /\ call.pc = "confirm"
    /\ "unsure" \in env.may \/ Evidence \in {"none", "different"}
    /\ GiveUp
    /\ UNCHANGED <<composer, late, queue, transcript, record, tombs, crashes, env>>

Call ==
    \/ \E c \in env.clients, mode \in env.modes, expect \in {None, composer} : Begin(c, mode, expect)
    \/ Refuse \/ ResumeFindsAccepted \/ ResumeHeld \/ ResumeSubmits
    \/ Clear \/ RefuseBusy \/ DiscardNothing \/ Cleared \/ ClearStops
    \/ GoPaste \/ PasteRefused \/ Paste \/ PasteFails
    \/ Landed \/ LandFails \/ StrandUnlanded \/ LastLook \/ LastLookFails
    \/ Enter \/ EnterFails \/ Strand \/ Confirm \/ NotConfirmed

-----------------------------------------------------------------------------
(* The person at the keyboard, the runtime, time and restarts. *)

Quiet == call.pc \in {"idle", "look"} \/ "race" \in env.may

Type ==
    /\ Quiet /\ Len(composer) < env.pieces
    /\ composer' = Append(composer, Draft)
    /\ UNCHANGED <<late, queue, transcript, record, tombs, call, client, crashes, env>>

Submit ==
    /\ Quiet
    /\ Runs(composer)
    /\ UNCHANGED <<late, record, tombs, call, client, crashes, env>>

Erase ==
    /\ Quiet /\ composer # <<>>
    /\ composer' = <<>>
    /\ UNCHANGED <<late, queue, transcript, record, tombs, call, client, crashes, env>>

Render ==
    /\ Quiet /\ late # <<>> /\ Len(composer) < env.pieces
    /\ composer' = Append(composer, Head(late))
    /\ late' = Tail(late)
    /\ UNCHANGED <<queue, transcript, record, tombs, call, client, crashes, env>>

RunQueued ==
    /\ queue # <<>> /\ Len(transcript) < env.entries
    /\ transcript' = Append(transcript, Entry("dequeue", Head(queue)))
    /\ queue' = Tail(queue)
    /\ UNCHANGED <<composer, late, record, tombs, call, client, crashes, env>>

\* The running turn was interrupted or failed: a queued message comes back.
HandBack ==
    /\ "handBack" \in env.may /\ Quiet /\ queue # <<>>
    /\ Len(composer) + Len(Head(queue)) <= env.pieces
    /\ composer' = Head(queue) \o composer
    /\ queue' = Tail(queue)
    /\ UNCHANGED <<late, transcript, record, tombs, call, client, crashes, env>>

\* sweepStrandedLocked: the record lapses, its proof does not.
Lapse ==
    /\ "lapse" \in env.may /\ call.pc = "idle" /\ record # None
    /\ tombs' = tombs \union {Tomb(record)}
    /\ record' = None
    /\ UNCHANGED <<composer, late, queue, transcript, call, client, crashes, env>>

\* What stranded.json holds is what memory held; the call's client hears nothing.
CrashAndRestart ==
    /\ crashes < env.crashes /\ call.pc # "idle"
    /\ crashes' = crashes + 1
    /\ call' = Idle
    /\ client' = IF Sends /\ call.mode # "place" /\ call.pc # "look"
                 THEN [client EXCEPT ![call.by] = "pending"] ELSE client
    /\ UNCHANGED <<composer, late, queue, transcript, record, tombs, env>>

World ==
    \/ Type \/ Submit \/ Erase \/ Render \/ RunQueued \/ HandBack \/ Lapse \/ CrashAndRestart

Next == Call \/ World

Spec == Init /\ [][Next]_vars
-----------------------------------------------------------------------------
(* Properties. *)

Contents == Seq(Pieces)
PCs == {"idle", "look", "clear", "paste", "land", "unlanded", "ready", "enter", "strand",
        "confirm"}

TypeOK ==
    /\ env \in Environments
    /\ composer \in Contents
    /\ late \in Seq(Texts)
    /\ queue \in Seq(Contents)
    /\ \A i \in DOMAIN transcript : transcript[i].content \in Contents \ {<<>>}
    /\ Len(transcript) <= env.entries
    /\ record = None \/ /\ record.text \in Texts
                        /\ record.digest \in (Contents \ {<<>>}) \union {None}
                        /\ record.src \in Sources /\ record.never \in BOOLEAN
    /\ \A tomb \in tombs : /\ tomb.text \in Texts
                           /\ tomb.digest \in (Contents \ {<<>>}) \union {None}
                           /\ tomb.src \in Sources /\ tomb.provisional \in BOOLEAN
    /\ call.pc \in PCs /\ call.by \in Clients \union {None} /\ call.src \in Sources
    /\ client \in [Clients -> {"new", "pending", "done", "placed"}]
    /\ crashes \in 0 .. env.crashes

(***************************************************************************)
(* The draft rule: the driver clears or submits a composer with something  *)
(* a person typed in it only for a caller that quoted exactly what is      *)
(* there (draftrule.go).                                                   *)
(***************************************************************************)
DraftsAreKept ==
    [][(/\ call.pc \in {"clear", "enter"} /\ call' # call
        /\ Contains(composer, Draft) /\ ~Contains(composer', Draft))
           => call.expect = composer]_vars

\* What the driver submits is one message, whole and alone (Send, section 2.4).
SubmitsOneMessage ==
    [][(call.pc = "enter" /\ call' # call /\ composer' # composer)
           => composer = <<Text>>]_vars

\* The properties that ask for it hold only in quiet environments; README.md
\* says what happens in the others.
MayOnly(what) == env.may \subseteq what

(***************************************************************************)
(* A text of the driver's that is left unsent in the composer, stranded or *)
(* handed back by the runtime, is known for what it is, so that its sender *)
(* can finish it (#192, #240).                                             *)
(***************************************************************************)
OwnTextIsKnown ==
    (MayOnly({"handBack"}) /\ call.pc = "idle" /\ \E t \in Texts : composer = <<t>>) => OwnDelivery(composer)

\* A client told "queued" has a message that the runtime took.
QueuedIsTrue ==
    [][\A c \in Clients :
          (client[c] # "done" /\ client'[c] = "done")
              => \E i \in DOMAIN transcript : Contains(transcript[i].content, TextOf[c])]_vars

(***************************************************************************)
(* A resume finishes one delivery and does not start another: repeated as  *)
(* the API documents it, a message is run at most once (client-guide.md).  *)
(***************************************************************************)
NeverTwice ==
    MayOnly({"unsure"}) /\ Cardinality(env.clients) = 1 =>
    \A t \in Texts, i, j \in DOMAIN transcript :
        (/\ transcript[i].kind # "enqueue" /\ Contains(transcript[i].content, t)
         /\ transcript[j].kind # "enqueue" /\ Contains(transcript[j].content, t)) => i = j
=============================================================================
