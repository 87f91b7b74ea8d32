---------------------------- MODULE TmuxSessionProofs ---------------------------
(***************************************************************************)
(* Theorems about PaneStream, TurnCounts and QuestionAnswers: what the     *)
(* tmux driver learns of a session and what it tells it, for any bounds    *)
(* and in any environment that a theorem allows.                           *)
(***************************************************************************)
EXTENDS PaneStream, TurnCounts, QuestionAnswers, SequenceTheorems, FiniteSetTheorems, TLAPS

-----------------------------------------------------------------------------
(* Sequences of clients *)

(* One client changes, if it is there.                                      *)
LEMMA OneChanges ==
  ASSUME NEW s \in Seq(ControlClients), NEW c, NEW r, c \in DOMAIN s => r \in ControlClients,
         NEW t, t = [s EXCEPT ![c] = r]
  PROVE  /\ t \in Seq(ControlClients) /\ DOMAIN t = DOMAIN s
         /\ c \in DOMAIN s => t[c] = r
         /\ \A d \in DOMAIN s : d # c => t[d] = s[d]
<1>1. CASE c \in DOMAIN s
  BY <1>1, ExceptSeq, LenProperties
<1>2. CASE c \notin DOMAIN s
  <2>1. s = [d \in DOMAIN s |-> s[d]] /\ DOMAIN t = DOMAIN s /\ \A d \in DOMAIN s : t[d] = s[d]
    BY <1>2, LenProperties
  <2>2. t = s
    BY <2>1
  <2> QED
    BY <1>2, <2>2
<1> QED
  BY <1>1, <1>2

(* All of them change, each by itself.                                      *)
LEMMA EachChanges ==
  ASSUME NEW s \in Seq(ControlClients), NEW t, t = [c \in DOMAIN s |-> t[c]],
         \A c \in DOMAIN s : t[c] \in ControlClients
  PROVE  t \in Seq(ControlClients) /\ DOMAIN t = DOMAIN s
<1>1. DOMAIN s = 1 .. Len(s) /\ Len(s) \in Nat
  BY LenProperties
<1>2. t = [c \in 1 .. Len(s) |-> t[c]] /\ \A c \in 1 .. Len(s) : t[c] \in ControlClients
  BY <1>1
<1>3. t \in [1 .. Len(s) -> ControlClients]
  BY <1>2
<1> QED
  BY <1>1, <1>3, SeqDef

(* One more client.                                                         *)
LEMMA OneJoins ==
  ASSUME NEW s \in Seq(ControlClients), NEW r \in ControlClients, NEW t, t = Append(s, r)
  PROVE  /\ t \in Seq(ControlClients) /\ DOMAIN t = DOMAIN s \cup {Len(s) + 1}
         /\ Len(s) + 1 \notin DOMAIN s /\ Len(s) + 1 \in Nat \ {0}
         /\ t[Len(s) + 1] = r /\ \A c \in DOMAIN s : t[c] = s[c]
  BY AppendProperties, LenProperties

(* A client is opened, and a client is closed.                              *)
LEMMA Opens ==
  ASSUME ClientTypes, NEW n \in StreamNames, NEW what \in {"lifecycle", "content"},
         clients' = Append(clients, Client(n, what))
  PROVE  /\ ClientTypes' /\ DOMAIN clients' = DOMAIN clients \cup {Len(clients) + 1}
         /\ Len(clients) + 1 \notin DOMAIN clients /\ Len(clients) + 1 \in Nat \ {0}
         /\ clients'[Len(clients) + 1] = Client(n, what)
         /\ \A c \in DOMAIN clients : clients'[c] = clients[c]
<1>1. Client(n, what) \in ControlClients
  BY DEF Client, ControlClients
<1> QED
  BY <1>1, OneJoins DEF ClientTypes

(* In what is left of a client, it is another state at most.                *)
LEMMA IsClosed ==
  ASSUME ClientTypes, NEW c, clients' = ClientClosed(clients, c)
  PROVE  /\ ClientTypes' /\ DOMAIN clients' = DOMAIN clients
         /\ \A d \in DOMAIN clients :
               /\ clients'[d].to = clients[d].to /\ clients'[d].what = clients[d].what
               /\ clients'[d].is = IF d = c THEN "closed" ELSE clients[d].is
<1>1. c \in DOMAIN clients => clients[c] \in ControlClients
  BY ElementOfSeq, LenProperties DEF ClientTypes
<1>2. c \in DOMAIN clients => [clients[c] EXCEPT !.is = "closed"] \in ControlClients
  BY <1>1 DEF ControlClients
<1>3. clients' = [clients EXCEPT ![c] = [clients[c] EXCEPT !.is = "closed"]]
  BY DEF ClientClosed
<1>4. /\ clients' \in Seq(ControlClients) /\ DOMAIN clients' = DOMAIN clients
      /\ c \in DOMAIN clients => clients'[c] = [clients[c] EXCEPT !.is = "closed"]
      /\ \A d \in DOMAIN clients : d # c => clients'[d] = clients[d]
  BY <1>2, <1>3, OneChanges DEF ClientTypes
<1> QED
  BY <1>1, <1>4 DEF ClientTypes, ControlClients

(* What the clients hear and suffer leaves them to their sessions, and what *)
(* was closed stays closed.                                                 *)
GoesOn ==
  /\ ClientTypes' /\ DOMAIN clients' = DOMAIN clients
  /\ \A c \in DOMAIN clients :
        /\ clients'[c].to = clients[c].to /\ clients'[c].what = clients[c].what
        /\ clients[c].is = "closed" => clients'[c].is = "closed"
        /\ clients'[c].is = "open" => clients[c].is = "open"

(* A client among the clients.                                              *)
LEMMA ClientOfType ==
  ASSUME ClientTypes, NEW c \in DOMAIN clients
  PROVE  /\ clients[c] \in ControlClients /\ c \in Nat \ {0}
         /\ clients[c].to \in StreamNames /\ clients[c].what \in {"lifecycle", "content"}
<1>1. clients[c] \in ControlClients /\ c \in Nat \ {0}
  BY ElementOfSeq, LenProperties DEF ClientTypes
<1> QED
  BY <1>1 DEF ControlClients

(* A client in another state.                                               *)
LEMMA InState ==
  ASSUME NEW d \in ControlClients, NEW is \in {"open", "dead", "closed"}, NEW e,
         e = [d EXCEPT !.is = is]
  PROVE  e \in ControlClients /\ e.to = d.to /\ e.what = d.what /\ e.is = is
  BY DEF ControlClients

(* A step that changes each client by itself, and only what may change.     *)
LEMMA EachGoesOn ==
  ASSUME ClientTypes, clients' = [c \in DOMAIN clients |-> clients'[c]],
         \A c \in DOMAIN clients :
            /\ clients'[c] \in ControlClients
            /\ clients'[c].to = clients[c].to /\ clients'[c].what = clients[c].what
            /\ clients[c].is = "closed" => clients'[c].is = "closed"
            /\ clients'[c].is = "open" => clients[c].is = "open"
  PROVE  GoesOn
  BY EachChanges DEF ClientTypes, GoesOn

(* The steps of the machine and of a pump, to the clients.                  *)
LEMMA ClientsGoOn ==
  ASSUME PaneTypes
  PROVE  /\ clients' = Noted(clients) => GoesOn
         /\ \A n : clients' = Died(Noted(clients), n) => GoesOn
         /\ \A n \in StreamNames : ScreenChanges(n) => GoesOn
         /\ \A c \in DOMAIN clients : Pump(c) \/ ClientDies(c) => GoesOn
         /\ UNCHANGED clients => GoesOn
<1> USE DEF PaneTypes
<1>0. \A c \in DOMAIN clients : clients[c] \in ControlClients
  BY ClientOfType
<1>1. ASSUME clients' = Noted(clients) PROVE GoesOn
  <2>1. clients' = [c \in DOMAIN clients |-> clients'[c]]
    BY <1>1 DEF Noted
  <2>2. ASSUME NEW c \in DOMAIN clients
        PROVE  /\ clients'[c] \in ControlClients
               /\ clients'[c].to = clients[c].to /\ clients'[c].what = clients[c].what
               /\ clients'[c].is = clients[c].is
    <3>1. clients'[c] = clients[c]
          \/ clients'[c] = [clients[c] EXCEPT !.spoke = TRUE,
                              !.note = clients[c].note \/ clients[c].what = "lifecycle"]
      BY <1>1 DEF Noted
    <3> QED
      BY <1>0, <3>1 DEF ControlClients
  <2> QED
    BY <2>1, <2>2, EachGoesOn
<1>2. ASSUME NEW n, clients' = Died(Noted(clients), n) PROVE GoesOn
  <2>0. DOMAIN Noted(clients) = DOMAIN clients
    BY DEF Noted
  <2>1. clients' = [c \in DOMAIN clients |-> clients'[c]]
    BY <1>2, <2>0 DEF Died
  <2>2. ASSUME NEW c \in DOMAIN clients
        PROVE  /\ clients'[c] \in ControlClients
               /\ clients'[c].to = clients[c].to /\ clients'[c].what = clients[c].what
               /\ \/ clients'[c].is = clients[c].is
                  \/ clients[c].is = "open" /\ clients'[c].is = "dead"
    <3> DEFINE d == Noted(clients)[c]
    <3>1. d = clients[c]
          \/ d = [clients[c] EXCEPT !.spoke = TRUE, !.note = clients[c].note \/ clients[c].what = "lifecycle"]
      BY DEF Noted
    <3>2. /\ d \in ControlClients /\ d.is = clients[c].is /\ d.to = clients[c].to
          /\ d.what = clients[c].what
      BY <1>0, <3>1 DEF ControlClients
    <3>3. clients'[c] = d \/ (d.is = "open" /\ clients'[c] = [d EXCEPT !.is = "dead"])
      BY <1>2, <2>0 DEF Died
    <3> HIDE DEF d
    <3> QED
      <4>1. CASE clients'[c] = d
        BY <3>2, <4>1
      <4>2. CASE d.is = "open" /\ clients'[c] = [d EXCEPT !.is = "dead"]
        <5>1. "dead" \in {"open", "dead", "closed"}
          OBVIOUS
        <5> QED
          BY <3>2, <4>2, <5>1, InState
      <4> QED
        BY <3>3, <4>1, <4>2
  <2> QED
    BY <2>1, <2>2, EachGoesOn
<1>3. ASSUME NEW n \in StreamNames, ScreenChanges(n) PROVE GoesOn
  <2>1. clients' = [c \in DOMAIN clients |-> clients'[c]]
    BY <1>3 DEF ScreenChanges
  <2>2. ASSUME NEW c \in DOMAIN clients
        PROVE  /\ clients'[c] \in ControlClients
               /\ clients'[c].to = clients[c].to /\ clients'[c].what = clients[c].what
               /\ clients'[c].is = clients[c].is
    <3>1. clients'[c] = clients[c] \/ clients'[c] = [clients[c] EXCEPT !.note = TRUE, !.spoke = TRUE]
      BY <1>3 DEF ScreenChanges
    <3> QED
      BY <1>0, <3>1 DEF ControlClients
  <2> QED
    BY <2>1, <2>2, EachGoesOn
<1>4. ASSUME NEW c \in DOMAIN clients, Pump(c) \/ ClientDies(c) PROVE GoesOn
  <2>1. clients' = [clients EXCEPT ![c] = [clients[c] EXCEPT !.note = FALSE]]
        \/ (clients[c].is = "open" /\ clients' = [clients EXCEPT ![c] = [clients[c] EXCEPT !.is = "dead"]])
    BY <1>4 DEF Pump, ClientDies, Open
  <2>2. clients' = [d \in DOMAIN clients |-> clients'[d]]
    BY <2>1
  <2>3. clients'[c] = [clients[c] EXCEPT !.note = FALSE]
        \/ (clients[c].is = "open" /\ clients'[c] = [clients[c] EXCEPT !.is = "dead"])
    BY <2>1
  <2>4. \A d \in DOMAIN clients : d # c => clients'[d] = clients[d]
    BY <2>1
  <2>5. /\ clients'[c] \in ControlClients
        /\ clients'[c].to = clients[c].to /\ clients'[c].what = clients[c].what
        /\ \/ clients'[c].is = clients[c].is
           \/ clients[c].is = "open" /\ clients'[c].is = "dead"
    <3>1. CASE clients'[c] = [clients[c] EXCEPT !.note = FALSE]
      <4>1. clients[c] \in ControlClients
        BY <1>0
      <4> QED
        BY <3>1, <4>1 DEF ControlClients
    <3>2. CASE clients[c].is = "open" /\ clients'[c] = [clients[c] EXCEPT !.is = "dead"]
      BY <1>0, <3>2, InState
    <3> QED
      BY <2>3, <3>1, <3>2
  <2> QED
    BY <1>0, <2>2, <2>4, <2>5, EachGoesOn
<1>5. ASSUME UNCHANGED clients PROVE GoesOn
  BY <1>5 DEF GoesOn, ClientTypes
<1> QED
  BY <1>1, <1>2, <1>3, <1>4, <1>5

-----------------------------------------------------------------------------
(* Types *)

(* The types hold at first.                                                 *)
LEMMA TypesAtFirst == PaneInit => PaneTypes
<1> SUFFICES ASSUME PaneInit PROVE PaneTypes
  OBVIOUS
<1>1. WorldTypes
  BY DEF PaneInit, WorldTypes, NoSession, NoneKnown, Screens
<1>2. ClientTypes
  BY EmptySeq DEF PaneInit, ClientTypes
<1>3. StreamTypes
  BY DEF PaneInit, StreamTypes, NoneKnown, NoMark, Screens
<1> QED
  BY <1>1, <1>2, <1>3 DEF PaneTypes

(* What a listing shows has its type.                                       *)
LEMMA ListedOfType == WorldTypes => Listed \in [StreamNames -> Screens]
  BY DEF WorldTypes, Listed, NoSession, Screens

(* The machine.                                                             *)
LEMMA WorldIsTyped ==
  ASSUME PaneTypes,
         \/ \E n \in StreamNames : SessionStarts(n) \/ SessionEnds(n) \/ ScreenChanges(n)
         \/ \E c \in DOMAIN clients : ClientDies(c)
  PROVE  PaneTypes'
<1>1. ClientTypes'
  BY ClientsGoOn DEF GoesOn, SessionStarts, SessionEnds
<1>2. StreamTypes'
  BY DEF PaneTypes, StreamTypes, SessionStarts, SessionEnds, ScreenChanges, ClientDies
<1>3. WorldTypes'
  <2>1. ASSUME NEW n \in StreamNames, SessionStarts(n) PROVE WorldTypes'
    <3>1. spent.starts + 2 \in Nat \ {0} /\ spent' \in [starts : Nat, changes : Nat, deaths : Nat]
      BY <2>1 DEF PaneTypes, WorldTypes, SessionStarts
    <3> QED
      BY <2>1, <3>1 DEF PaneTypes, WorldTypes, SessionStarts
  <2>2. ASSUME NEW n \in StreamNames, SessionEnds(n) PROVE WorldTypes'
    BY <2>2 DEF PaneTypes, WorldTypes, SessionEnds, NoSession
  <2>3. ASSUME NEW n \in StreamNames, ScreenChanges(n) PROVE WorldTypes'
    <3>0. /\ world[n].run # 0 /\ UNCHANGED <<paneEnv, told>>
          /\ world' = [world EXCEPT ![n] = [world[n] EXCEPT !.screen = 3 - world[n].screen]]
          /\ spent' = [spent EXCEPT !.changes = @ + 1]
      BY <2>3 DEF ScreenChanges
    <3>1. world[n] \in [run : Nat \ {0}, screen : {1, 2}]
      BY <3>0 DEF PaneTypes, WorldTypes, NoSession
    <3>2. [world[n] EXCEPT !.screen = 3 - world[n].screen] \in [run : Nat \ {0}, screen : {1, 2}]
      BY <3>1
    <3>3. spent' \in [starts : Nat, changes : Nat, deaths : Nat]
      BY <3>0 DEF PaneTypes, WorldTypes
    <3> QED
      BY <3>0, <3>2, <3>3 DEF PaneTypes, WorldTypes
  <2>4. ASSUME NEW c \in DOMAIN clients, ClientDies(c) PROVE WorldTypes'
    BY <2>4 DEF PaneTypes, WorldTypes, ClientDies
  <2> QED
    BY <2>1, <2>2, <2>3, <2>4
<1> QED
  BY <1>1, <1>2, <1>3 DEF PaneTypes

(* Subscribe.                                                               *)
LEMMA SubscribingIsTyped == ASSUME PaneTypes, Subscribing PROVE PaneTypes'
<1>1. CASE SubscribeDialsLifecycle
  <2>1. ClientTypes' /\ Len(clients) + 1 \in Nat
    BY <1>1, Opens DEF SubscribeDialsLifecycle, PaneTypes
  <2> QED
    BY <1>1, <2>1 DEF SubscribeDialsLifecycle, PaneTypes, WorldTypes, StreamTypes
<1>2. CASE SubscribeDialsContent
  <2>1. ClientTypes' /\ Len(clients) + 1 \in Nat
    <3>1. Len(clients) \in Nat
      BY LenProperties DEF PaneTypes, ClientTypes
    <3>2. PICK n \in StreamNames : UNCHANGED clients \/ clients' = Append(clients, Client(n, "content"))
      BY <1>2 DEF SubscribeDialsContent, PaneTypes, StreamTypes
    <3> QED
      BY <3>1, <3>2, Opens DEF PaneTypes, ClientTypes
  <2>2. \A n \in StreamNames : [stream.conns EXCEPT ![n] = Len(clients) + 1] \in [StreamNames -> Nat]
    BY <2>1 DEF PaneTypes, StreamTypes
  <2>3. PICK n \in StreamNames :
           /\ UNCHANGED <<life, engine>>
           /\ subscribe' = [subscribe EXCEPT !.todo = {}] \/ subscribe' = [subscribe EXCEPT !.todo = @ \ {n}]
           /\ \/ UNCHANGED stream
              \/ stream' = [stream EXCEPT !.conns = [stream.conns EXCEPT ![n] = Len(clients) + 1]]
    BY <1>2 DEF SubscribeDialsContent, PaneTypes, StreamTypes
  <2>4. StreamTypes'
    <3> DEFINE conns == [stream.conns EXCEPT ![n] = Len(clients) + 1]
    <3>1. conns \in [StreamNames -> Nat]
      BY <2>2
    <3>2. stream' = stream \/ stream' = [stream EXCEPT !.conns = conns]
      BY <2>3
    <3> HIDE DEF conns
    <3>3. stream' \in [conns : [StreamNames -> Nat], lifecycle : Nat,
                      marks : [StreamNames -> [pending : BOOLEAN, futile : Nat]],
                      trigger : BOOLEAN, closed : BOOLEAN]
      BY <3>1, <3>2 DEF PaneTypes, StreamTypes
    <3>4. subscribe' \in [at : {"rows", "content", "seed", "running"}, todo : SUBSET StreamNames]
      BY <2>3 DEF PaneTypes, StreamTypes
    <3> QED
      BY <2>3, <3>3, <3>4 DEF PaneTypes, StreamTypes
  <2> QED
    BY <1>2, <2>1, <2>4 DEF SubscribeDialsContent, PaneTypes, WorldTypes
<1>3. CASE SubscribeStoresLifecycle
  BY <1>3 DEF SubscribeStoresLifecycle, PaneTypes, WorldTypes, ClientTypes, StreamTypes
<1>4. CASE SubscribeSeeds
  BY <1>4, ListedOfType DEF SubscribeSeeds, PaneTypes, WorldTypes, ClientTypes, StreamTypes
<1> QED
  BY <1>1, <1>2, <1>3, <1>4 DEF Subscribing

(* The pumps, the supervisor and Close.                                     *)
LEMMA PumpingIsTyped ==
  ASSUME PaneTypes, Pumping \/ Supervising \/ StreamCloses
  PROVE  PaneTypes'
<1>1. ASSUME NEW c \in DOMAIN clients, Pump(c) PROVE PaneTypes'
  <2>1. ClientTypes'
    BY <1>1, ClientsGoOn DEF GoesOn
  <2> QED
    BY <1>1, <2>1 DEF Pump, PaneTypes, WorldTypes, StreamTypes
<1>2. ASSUME NEW c \in DOMAIN clients, PumpContentEnds(c) PROVE PaneTypes'
  <2>1. ClientTypes' /\ clients[c].to \in StreamNames
    BY <1>2, IsClosed, ClientOfType DEF PumpContentEnds, PaneTypes
  <2> DEFINE n == clients[c].to
             died == [pending |-> TRUE, futile |-> IF clients[c].spoke THEN 0 ELSE stream.marks[n].futile + 1]
  <2>2. died \in [pending : BOOLEAN, futile : Nat]
    BY <2>1 DEF PaneTypes, StreamTypes
  <2>3. /\ [stream.conns EXCEPT ![n] = 0] \in [StreamNames -> Nat]
        /\ [stream.marks EXCEPT ![n] = died] \in [StreamNames -> [pending : BOOLEAN, futile : Nat]]
    BY <2>2 DEF PaneTypes, StreamTypes
  <2>4. \/ stream' = [stream EXCEPT !.conns = [stream.conns EXCEPT ![n] = 0],
                                    !.marks = [stream.marks EXCEPT ![n] = died], !.trigger = TRUE]
        \/ stream' = [stream EXCEPT !.trigger = TRUE]
    BY <1>2 DEF PumpContentEnds
  <2> HIDE DEF died
  <2>5. StreamTypes'
    BY <1>2, <2>3, <2>4 DEF PumpContentEnds, PaneTypes, StreamTypes
  <2> QED
    BY <1>2, <2>1, <2>5 DEF PumpContentEnds, PaneTypes, WorldTypes
<1>3. CASE LifecycleLost
  <2>1. ClientTypes'
    BY <1>3, IsClosed DEF LifecycleLost, PaneTypes
  <2> QED
    BY <1>3, <2>1 DEF LifecycleLost, PaneTypes, WorldTypes, StreamTypes
<1>4. CASE LifecycleFound
  <2>1. ClientTypes' /\ Len(clients) + 1 \in Nat
    BY <1>4, Opens DEF LifecycleFound, PaneTypes
  <2> QED
    BY <1>4, <2>1 DEF LifecycleFound, PaneTypes, WorldTypes, StreamTypes
<1>5. CASE LifecycleStored
  <2>1. ClientTypes'
    BY <1>5, IsClosed DEF LifecycleStored, PaneTypes, ClientTypes
  <2> QED
    BY <1>5, <2>1, SMTT(30) DEF LifecycleStored, PaneTypes, WorldTypes, StreamTypes
<1>6. CASE StreamCloses
  <2>1. clients' = [c \in DOMAIN clients |-> clients'[c]]
    BY <1>6 DEF StreamCloses
  <2>2. ASSUME NEW c \in DOMAIN clients PROVE clients'[c] \in ControlClients
    <3>1. clients'[c] = clients[c] \/ clients'[c] = [clients[c] EXCEPT !.is = "closed"]
      BY <1>6 DEF StreamCloses
    <3> QED
      BY <3>1, ClientOfType DEF PaneTypes, ControlClients
  <2>3. ClientTypes'
    BY <2>1, <2>2, EachChanges DEF PaneTypes, ClientTypes
  <2> QED
    BY <1>6, <2>3 DEF StreamCloses, PaneTypes, WorldTypes, StreamTypes, NoneKnown
<1> QED
  BY <1>1, <1>2, <1>3, <1>4, <1>5, <1>6 DEF Pumping, Supervising

(* What the engine sees of a session, and what it misses.                   *)
LEMMA SeeingIsTyped ==
  ASSUME PaneTypes, NEW n \in StreamNames, EngineSees(n) \/ EngineMisses(n)
  PROVE  PaneTypes'
<1> DEFINE conns == [stream.conns EXCEPT ![n] = Len(clients) + 1]
           none == [stream.conns EXCEPT ![n] = 0]
           marks == [stream.marks EXCEPT ![n] = [@ EXCEPT !.pending = FALSE]]
<1>1. conns \in [StreamNames -> Nat] /\ none \in [StreamNames -> Nat]
  BY LenProperties, SMTT(30) DEF PaneTypes, ClientTypes, StreamTypes
<1>2. marks \in [StreamNames -> [pending : BOOLEAN, futile : Nat]]
  BY ZenonT(60) DEF PaneTypes, StreamTypes
<1>3. stream' \in [conns : [StreamNames -> Nat], lifecycle : Nat,
                   marks : [StreamNames -> [pending : BOOLEAN, futile : Nat]],
                   trigger : BOOLEAN, closed : BOOLEAN]
  <2>1. \/ stream' = stream
        \/ stream' = [stream EXCEPT !.marks = marks]
        \/ stream' = [stream EXCEPT !.conns = conns]
        \/ stream' = [stream EXCEPT !.conns = none]
        \/ stream' = [[stream EXCEPT !.marks = marks] EXCEPT !.conns = conns]
    <3>1. Spent(stream, n) = stream \/ Spent(stream, n) = [stream EXCEPT !.marks = marks]
      BY DEF Spent
    <3>2. CASE EngineSees(n)
      <4>1. stream' = Spent(stream, n) \/ stream' = [Spent(stream, n) EXCEPT !.conns = [@ EXCEPT ![n] = Len(clients) + 1]]
        BY <3>2 DEF EngineSees
      <4>2. Spent(stream, n).conns = stream.conns
        BY <3>1 DEF PaneTypes, StreamTypes
      <4> QED
        BY <3>1, <4>1, <4>2
    <3>3. CASE EngineMisses(n)
      BY <3>3 DEF EngineMisses
    <3> QED
      BY <3>2, <3>3
  <2> HIDE DEF conns, none, marks
  <2> QED
    BY <1>1, <1>2, <2>1, ZenonT(60) DEF PaneTypes, StreamTypes
<1>4. engine' \in [at : {"none", "wait", "settle", "diff", "clear"}, read : [StreamNames -> Screens],
                   todo : SUBSET StreamNames, clear : SUBSET StreamNames, known : [StreamNames -> Screens]]
  <2> DEFINE seen == [engine.known EXCEPT ![n] = engine.read[n]]
             gone == [engine.known EXCEPT ![n] = 0]
  <2>1. seen \in [StreamNames -> Screens] /\ gone \in [StreamNames -> Screens]
    BY DEF PaneTypes, StreamTypes, Screens
  <2>2. \/ engine' = [engine EXCEPT !.todo = @ \ {n}, !.known = seen]
        \/ engine' = [engine EXCEPT !.todo = @ \ {n}, !.known = gone,
                                    !.clear = IF engine.known[n] # 0 THEN {n} ELSE {},
                                    !.at = IF engine.known[n] # 0 THEN "clear" ELSE "diff"]
    BY DEF EngineSees, EngineMisses
  <2> HIDE DEF seen, gone
  <2>3. CASE engine' = [engine EXCEPT !.todo = @ \ {n}, !.known = seen]
    BY <2>1, <2>3 DEF PaneTypes, StreamTypes
  <2>4. ASSUME NEW clear \in SUBSET StreamNames, NEW at \in {"clear", "diff"},
               engine' = [engine EXCEPT !.todo = @ \ {n}, !.known = gone, !.clear = clear, !.at = at]
        PROVE  engine' \in [at : {"none", "wait", "settle", "diff", "clear"}, read : [StreamNames -> Screens],
                            todo : SUBSET StreamNames, clear : SUBSET StreamNames,
                            known : [StreamNames -> Screens]]
    BY <2>1, <2>4 DEF PaneTypes, StreamTypes
  <2> QED
    BY <2>2, <2>3, <2>4
<1>5. ClientTypes'
  BY Opens, IsClosed DEF EngineSees, EngineMisses, PaneTypes, ClientTypes
<1>6. WorldTypes'
  BY ZenonT(60) DEF EngineSees, EngineMisses, PaneTypes, WorldTypes, StreamTypes, Screens
<1>7. StreamTypes'
  <2>1. UNCHANGED <<subscribe, life>>
    BY DEF EngineSees, EngineMisses
  <2> QED
    BY <1>3, <1>4, <2>1 DEF PaneTypes, StreamTypes
<1> QED
  BY <1>5, <1>6, <1>7 DEF PaneTypes

(* The rest of the engine.                                                  *)
LEMMA ComparingIsTyped == ASSUME PaneTypes, Comparing PROVE PaneTypes'
<1>1. CASE EngineWakes
  BY <1>1 DEF EngineWakes, PaneTypes, WorldTypes, ClientTypes, StreamTypes
<1>2. CASE EngineReads
  BY <1>2, ListedOfType DEF EngineReads, PaneTypes, WorldTypes, ClientTypes, StreamTypes
<1>3. CASE EngineClears
  <2> DEFINE marks == [n \in StreamNames |-> IF n \in engine.clear THEN NoMark ELSE stream.marks[n]]
  <2>1. marks \in [StreamNames -> [pending : BOOLEAN, futile : Nat]]
    BY DEF PaneTypes, StreamTypes, NoMark
  <2>2. stream' = [stream EXCEPT !.marks = marks]
    BY <1>3 DEF EngineClears
  <2> HIDE DEF marks
  <2> QED
    BY <1>3, <2>1, <2>2 DEF EngineClears, PaneTypes, WorldTypes, ClientTypes, StreamTypes
<1>4. CASE EngineRests
  BY <1>4 DEF EngineRests, PaneTypes, WorldTypes, ClientTypes, StreamTypes, NoneKnown, Screens
<1> QED
  BY <1>1, <1>2, <1>3, <1>4, SeeingIsTyped DEF Comparing

(* Every variable of a stream keeps its type.                               *)
THEOREM StreamTypeCorrect == PaneSpec => []PaneTypes
<1>1. PaneTypes /\ [PaneNext]_paneVars => PaneTypes'
  <2> SUFFICES ASSUME PaneTypes, [PaneNext]_paneVars PROVE PaneTypes'
    OBVIOUS
  <2>1. CASE UNCHANGED paneVars
    BY <2>1 DEF paneVars, PaneTypes, WorldTypes, ClientTypes, StreamTypes
  <2> QED
    BY <2>1, WorldIsTyped, SubscribingIsTyped, PumpingIsTyped, ComparingIsTyped DEF PaneNext
<1> QED
  BY <1>1, TypesAtFirst, PTL DEF PaneSpec

-----------------------------------------------------------------------------
(* What a stream holds *)

(* The invariant holds at first.                                            *)
LEMMA HeldAtFirst == PaneInit => StreamInvariant
<1> SUFFICES ASSUME PaneInit PROVE StreamInvariant
  OBVIOUS
<1>1. clients = <<>> /\ DOMAIN clients = {}
  BY EmptySeq DEF PaneInit
<1>2. Watching = {}
  BY DEF PaneInit, Watching, NoneKnown
<1>3. WatchingIsBounded
  BY <1>2, FS_EmptySet, StreamAssumption DEF WatchingIsBounded
<1>4. ClientsAreHeld /\ ClosedLeavesNone
  BY <1>1 DEF ClientsAreHeld, ClosedLeavesNone
<1>5. LifecycleIsStored /\ SubscribeIsAlone /\ ClosedHoldsNone
  BY <1>1 DEF PaneInit, LifecycleIsStored, SubscribeIsAlone, ClosedHoldsNone
<1> QED
  BY <1>3, <1>4, <1>5 DEF StreamInvariant

(* The parts of the stream that the invariant is about.                     *)
Holding == <<stream.conns, stream.lifecycle, stream.closed>>

(* Clients that go on disturb nothing, if the one that Subscribe has just   *)
(* dialled lives.                                                           *)
LEMMA GoingOnIsHeld ==
  ASSUME PaneTypes, StreamInvariant, GoesOn, UNCHANGED <<subscribe, life, Holding>>,
         subscribe.at # "running" => engine'.at = engine.at,
         subscribe.at \in {"content", "seed"} => clients'[1].is = "open"
  PROVE  StreamInvariant'
<1> USE DEF Holding
<1>1. ClientsAreHeld' /\ ClosedLeavesNone'
  BY DEF StreamInvariant, ClientsAreHeld, ClosedLeavesNone, GoesOn
<1>2. WatchingIsBounded'
  <2>1. Watching' = Watching
    BY DEF Watching
  <2> QED
    BY <2>1 DEF StreamInvariant, WatchingIsBounded
<1>3. SubscribeIsAlone'
  <2>1. subscribe.at = "rows" => clients' = <<>>
    <3> SUFFICES ASSUME subscribe.at = "rows" PROVE clients' = <<>>
      OBVIOUS
    <3>1. DOMAIN clients' = {}
      BY EmptySeq DEF StreamInvariant, SubscribeIsAlone, GoesOn
    <3> QED
      BY <3>1, EmptySeq, LenProperties DEF GoesOn, ClientTypes
  <2>2. subscribe.at \in {"content", "seed"} => 1 \in DOMAIN clients' /\ clients'[1].what = "lifecycle"
    BY DEF StreamInvariant, SubscribeIsAlone, GoesOn
  <2> QED
    BY <2>1, <2>2 DEF StreamInvariant, SubscribeIsAlone
<1>4. LifecycleIsStored' /\ ClosedHoldsNone'
  BY DEF StreamInvariant, LifecycleIsStored, ClosedHoldsNone
<1> QED
  BY <1>1, <1>2, <1>3, <1>4 DEF StreamInvariant

(* The machine, before whom Subscribe has returned; the pumps' notes.       *)
LEMMA WorldIsHeld ==
  ASSUME PaneTypes, StreamInvariant, ~PaneMay("early"),
         \/ \E n \in StreamNames : SessionStarts(n) \/ SessionEnds(n) \/ ScreenChanges(n)
         \/ \E c \in DOMAIN clients : ClientDies(c) \/ Pump(c)
  PROVE  StreamInvariant'
<1>1. GoesOn
  BY ClientsGoOn DEF SessionStarts, SessionEnds
<1>2. UNCHANGED <<subscribe, life, engine, Holding>>
  <2>1. UNCHANGED <<subscribe, life, engine>>
    BY DEF SessionStarts, SessionEnds, ScreenChanges, ClientDies, Pump
  <2>2. stream' = stream \/ stream' = [stream EXCEPT !.trigger = TRUE]
    BY DEF SessionStarts, SessionEnds, ScreenChanges, ClientDies, Pump
  <2> QED
    BY <2>1, <2>2 DEF Holding, PaneTypes, StreamTypes
<1>3. ASSUME subscribe.at \in {"content", "seed"} PROVE clients'[1].is = "open"
  <2>1. PICK c \in DOMAIN clients : ClientDies(c) \/ Pump(c)
    BY <1>3 DEF SessionStarts, SessionEnds, ScreenChanges, WorldMoves
  <2>2. 1 \in DOMAIN clients /\ clients[1].is = "open" /\ clients[1].what = "lifecycle"
    BY <1>3 DEF StreamInvariant, SubscribeIsAlone
  <2>3. CASE ClientDies(c)
    BY <2>2, <2>3 DEF ClientDies
  <2>4. CASE Pump(c)
    BY <2>2, <2>4, ClientOfType DEF Pump, PaneTypes, ControlClients
  <2> QED
    BY <2>1, <2>3, <2>4
<1> QED
  BY <1>1, <1>2, <1>3, GoingOnIsHeld

(* The engine, but for what it sees and misses.                             *)
LEMMA RestIsHeld ==
  ASSUME PaneTypes, StreamInvariant, EngineWakes \/ EngineReads \/ EngineClears \/ EngineRests
  PROVE  StreamInvariant'
<1>1. GoesOn
  BY ClientsGoOn DEF EngineWakes, EngineReads, EngineClears, EngineRests
<1>2. UNCHANGED <<subscribe, life, Holding>>
  <2>1. UNCHANGED <<subscribe, life>>
    BY DEF EngineWakes, EngineReads, EngineClears, EngineRests
  <2>2. \/ UNCHANGED stream
        \/ stream' = [stream EXCEPT !.trigger = FALSE]
        \/ \E marks : stream' = [stream EXCEPT !.marks = marks]
    BY DEF EngineWakes, EngineReads, EngineClears, EngineRests
  <2> QED
    BY <2>1, <2>2 DEF Holding, PaneTypes, StreamTypes
<1>3. subscribe.at = "running"
  BY DEF EngineWakes, EngineReads, EngineClears, EngineRests, StreamInvariant, SubscribeIsAlone
<1> QED
  BY <1>1, <1>2, <1>3, GoingOnIsHeld

(* The stream watches one session more, below the bound, or one less.       *)
LEMMA WatchesOneMore ==
  ASSUME PaneTypes, WatchingIsBounded, NEW n \in StreamNames, NEW k \in Nat,
         k # 0 => Cardinality(Watching) < maxContentClients,
         stream'.conns = [stream.conns EXCEPT ![n] = k]
  PROVE  WatchingIsBounded'
<1>1. Cardinality(Watching) \in Nat /\ maxContentClients \in Nat
  BY FS_CardinalityType, StreamAssumption DEF WatchingIsBounded
<1>2. CASE k = 0
  <2>1. Watching' \in SUBSET Watching
    BY <1>2 DEF Watching, PaneTypes, StreamTypes
  <2>2. IsFiniteSet(Watching') /\ Cardinality(Watching') <= Cardinality(Watching)
    BY <2>1, FS_Subset DEF WatchingIsBounded
  <2> QED
    BY <1>1, <2>2, FS_CardinalityType DEF WatchingIsBounded
<1>3. CASE k # 0
  <2>1. Watching' = Watching \cup {n}
    BY <1>3 DEF Watching, PaneTypes, StreamTypes
  <2>2. /\ IsFiniteSet(Watching \cup {n})
        /\ Cardinality(Watching \cup {n}) = IF n \in Watching THEN Cardinality(Watching)
                                           ELSE Cardinality(Watching) + 1
    BY FS_AddElement DEF WatchingIsBounded
  <2>3. Cardinality(Watching \cup {n}) <= maxContentClients
    BY <1>1, <1>3, <2>2
  <2> QED
    BY <2>1, <2>2, <2>3 DEF WatchingIsBounded
<1> QED
  BY <1>2, <1>3

(* Subscribe's first client is the one its supervisor has.                  *)
LEMMA DialingLifecycleIsHeld ==
  ASSUME PaneTypes, StreamInvariant, SubscribeDialsLifecycle
  PROVE  StreamInvariant'
<1>1. clients = <<>> /\ Len(clients) = 0 /\ DOMAIN clients = {}
  BY EmptySeq DEF SubscribeDialsLifecycle, StreamInvariant, SubscribeIsAlone
<1>2. PICK n \in StreamNames : clients' = Append(clients, Client(n, "lifecycle"))
  BY DEF SubscribeDialsLifecycle
<1>3. DOMAIN clients' = {1} /\ clients'[1] = Client(n, "lifecycle")
  BY <1>1, <1>2, Opens DEF PaneTypes
<1>4. /\ life' = [at |-> "pump", conn |-> 1] /\ subscribe'.at = "content"
      /\ UNCHANGED <<stream, engine>>
  BY <1>1 DEF SubscribeDialsLifecycle
<1>5. stream.conns = NoneKnown /\ ~stream.closed /\ engine.at = "none"
  BY DEF SubscribeDialsLifecycle, StreamInvariant, SubscribeIsAlone
<1>6. ClientsAreHeld' /\ ClosedLeavesNone'
  BY <1>3, <1>4, <1>5 DEF ClientsAreHeld, ClosedLeavesNone, Client
<1>7. WatchingIsBounded'
  BY <1>4 DEF StreamInvariant, WatchingIsBounded, Watching
<1>8. SubscribeIsAlone'
  <2>1. \A m \in subscribe'.todo : stream'.conns[m] = 0
    BY <1>4, <1>5 DEF SubscribeDialsLifecycle, NoneKnown
  <2> QED
    BY <1>3, <1>4, <1>5, <2>1 DEF SubscribeIsAlone, Client
<1>9. LifecycleIsStored' /\ ClosedHoldsNone'
  BY <1>4, <1>5 DEF LifecycleIsStored, ClosedHoldsNone
<1> QED
  BY <1>6, <1>7, <1>8, <1>9 DEF StreamInvariant

(* A content client that is dialled for a session without one is held.      *)
LEMMA DialledIsHeld ==
  ASSUME PaneTypes, ClientsAreHeld, WatchingIsBounded, NEW n \in StreamNames,
         clients' = Append(clients, Client(n, "content")), stream.conns[n] = 0, UNCHANGED life,
         Cardinality(Watching) < maxContentClients,
         stream'.conns = [stream.conns EXCEPT ![n] = Len(clients) + 1]
  PROVE  ClientsAreHeld' /\ WatchingIsBounded'
<1> DEFINE k == Len(clients) + 1
<1>1. /\ DOMAIN clients' = DOMAIN clients \cup {k} /\ k \in Nat \ {0}
      /\ clients'[k] = Client(n, "content")
      /\ \A c \in DOMAIN clients : clients'[c] = clients[c] /\ c # k
  BY Opens DEF PaneTypes
<1>2. stream'.conns = [stream.conns EXCEPT ![n] = k]
  OBVIOUS
<1> HIDE DEF k
<1>3. ASSUME NEW c \in DOMAIN clients', clients'[c].is # "closed"
      PROVE  IF clients'[c].what = "content" THEN stream'.conns[clients'[c].to] = c
             ELSE life'.conn = c /\ life'.at \in {"pump", "store"}
  <2>1. CASE c = k
    BY <1>1, <1>2, <2>1 DEF Client, PaneTypes, StreamTypes
  <2>2. CASE c # k
    <3>1. c \in DOMAIN clients /\ clients'[c] = clients[c] /\ c # 0
      BY <1>1, <2>2, ClientOfType DEF PaneTypes
    <3>2. clients[c].what = "content" => clients[c].to # n
      BY <1>3, <3>1 DEF ClientsAreHeld
    <3>3. clients[c].to \in StreamNames
      BY <3>1, ClientOfType DEF PaneTypes
    <3> QED
      BY <1>2, <1>3, <3>1, <3>2, <3>3 DEF ClientsAreHeld, PaneTypes, StreamTypes
  <2> QED
    BY <2>1, <2>2
<1>4. ClientsAreHeld'
  BY <1>3 DEF ClientsAreHeld
<1>5. WatchingIsBounded'
  BY <1>1, <1>2, WatchesOneMore
<1> QED
  BY <1>4, <1>5

(* Subscribe dials a client for each session, below the bound.              *)
LEMMA DialingContentIsHeld ==
  ASSUME PaneTypes, StreamInvariant, SubscribeDialsContent
  PROVE  StreamInvariant'
<1>1. PICK n \in subscribe.todo :
         IF Cardinality(Watching) >= maxContentClients
         THEN subscribe' = [subscribe EXCEPT !.todo = {}] /\ UNCHANGED <<clients, stream>>
         ELSE /\ subscribe' = [subscribe EXCEPT !.todo = @ \ {n}]
              /\ IF world[n].run = 0 THEN UNCHANGED <<clients, stream>>
                 ELSE /\ clients' = Append(clients, Client(n, "content"))
                      /\ stream' = [stream EXCEPT !.conns = [@ EXCEPT ![n] = Len(clients) + 1]]
  BY DEF SubscribeDialsContent
<1>2. /\ subscribe.at = "content" /\ UNCHANGED <<life, engine>> /\ n \in StreamNames
      /\ subscribe'.at = "content" /\ subscribe'.todo \subseteq subscribe.todo
  BY <1>1 DEF SubscribeDialsContent, PaneTypes, StreamTypes
<1>3. /\ life = [at |-> "pump", conn |-> 1]
      /\ 1 \in DOMAIN clients /\ clients[1].is = "open" /\ clients[1].what = "lifecycle"
      /\ \A m \in subscribe.todo : stream.conns[m] = 0
      /\ ~stream.closed /\ engine.at = "none"
  BY <1>2 DEF StreamInvariant, SubscribeIsAlone
<1>4. CASE UNCHANGED <<clients, stream>>
  BY <1>2, <1>3, <1>4 DEF StreamInvariant, ClientsAreHeld, WatchingIsBounded, Watching, LifecycleIsStored,
                          SubscribeIsAlone, ClosedHoldsNone, ClosedLeavesNone
<1>5. CASE ~UNCHANGED <<clients, stream>>
  <2>1. /\ clients' = Append(clients, Client(n, "content"))
        /\ stream' = [stream EXCEPT !.conns = [stream.conns EXCEPT ![n] = Len(clients) + 1]]
        /\ subscribe'.todo = subscribe.todo \ {n}
        /\ ~(Cardinality(Watching) >= maxContentClients)
    BY <1>1, <1>5 DEF PaneTypes, StreamTypes
  <2>2. stream'.conns = [stream.conns EXCEPT ![n] = Len(clients) + 1] /\ ~stream'.closed
    BY <1>3, <2>1 DEF PaneTypes, StreamTypes
  <2>3. Cardinality(Watching) < maxContentClients
    BY <2>1, FS_CardinalityType, StreamAssumption DEF StreamInvariant, WatchingIsBounded
  <2>4. ClientsAreHeld' /\ WatchingIsBounded'
    BY <1>2, <1>3, <2>1, <2>2, <2>3, DialledIsHeld DEF StreamInvariant
  <2>5. 1 \in DOMAIN clients' /\ clients'[1] = clients[1]
    BY <1>2, <1>3, <2>1, Opens DEF PaneTypes
  <2>6. \A m \in subscribe'.todo : stream'.conns[m] = 0
    BY <1>2, <1>3, <2>1, <2>2 DEF PaneTypes, StreamTypes
  <2>7. SubscribeIsAlone'
    BY <1>2, <1>3, <2>2, <2>5, <2>6 DEF SubscribeIsAlone
  <2> QED
    BY <1>2, <2>2, <2>4, <2>7 DEF StreamInvariant, LifecycleIsStored, ClosedHoldsNone, ClosedLeavesNone
<1> QED
  BY <1>4, <1>5

(* Subscribe stores its client and returns.                                 *)
LEMMA SubscribedIsHeld ==
  ASSUME PaneTypes, StreamInvariant, SubscribeStoresLifecycle \/ SubscribeSeeds
  PROVE  StreamInvariant'
<1>1. CASE SubscribeStoresLifecycle
  <2>1. /\ subscribe.at = "content" /\ subscribe'.at = "seed" /\ UNCHANGED <<clients, life, engine>>
        /\ stream'.conns = stream.conns /\ stream'.closed = stream.closed /\ stream'.lifecycle = 1
    BY <1>1 DEF SubscribeStoresLifecycle, PaneTypes, StreamTypes
  <2> QED
    BY <2>1 DEF StreamInvariant, ClientsAreHeld, WatchingIsBounded, Watching, LifecycleIsStored,
                SubscribeIsAlone, ClosedHoldsNone, ClosedLeavesNone
<1>2. CASE SubscribeSeeds
  <2>1. /\ subscribe.at = "seed" /\ subscribe'.at = "running" /\ UNCHANGED <<clients, life, stream>>
    BY <1>2 DEF SubscribeSeeds, PaneTypes, StreamTypes
  <2> QED
    BY <2>1 DEF StreamInvariant, ClientsAreHeld, WatchingIsBounded, Watching, LifecycleIsStored,
                SubscribeIsAlone, ClosedHoldsNone, ClosedLeavesNone
<1> QED
  BY <1>1, <1>2

(* A content client that has died is closed, and the stream lets go of it.  *)
LEMMA ContentEndIsHeld ==
  ASSUME PaneTypes, StreamInvariant, NEW c \in DOMAIN clients, PumpContentEnds(c)
  PROVE  StreamInvariant'
<1> DEFINE n == clients[c].to
<1>1. /\ clients[c].what = "content" /\ ~stream.closed /\ n \in StreamNames
      /\ clients' = ClientClosed(clients, c) /\ UNCHANGED <<subscribe, life, engine>>
  BY ClientOfType DEF PumpContentEnds, Ended, PaneTypes
<1>2. /\ DOMAIN clients' = DOMAIN clients
      /\ \A d \in DOMAIN clients :
            /\ clients'[d].to = clients[d].to /\ clients'[d].what = clients[d].what
            /\ clients'[d].is = IF d = c THEN "closed" ELSE clients[d].is
  BY <1>1, IsClosed DEF PaneTypes
<1>3. /\ stream'.lifecycle = stream.lifecycle /\ ~stream'.closed
      /\ \/ stream.conns[n] = c /\ stream'.conns = [stream.conns EXCEPT ![n] = 0]
         \/ stream'.conns = stream.conns
  <2>1. CASE stream.conns[n] = c
    <3>1. PICK marks : stream' = [stream EXCEPT !.conns = [stream.conns EXCEPT ![n] = 0],
                                                !.marks = marks, !.trigger = TRUE]
      BY <2>1 DEF PumpContentEnds
    <3> QED
      BY <1>1, <2>1, <3>1 DEF PaneTypes, StreamTypes
  <2>2. CASE stream.conns[n] # c
    BY <1>1, <2>2 DEF PumpContentEnds, PaneTypes, StreamTypes
  <2> QED
    BY <2>1, <2>2
<1> HIDE DEF n
<1>4. ClientsAreHeld'
  <2> SUFFICES ASSUME NEW d \in DOMAIN clients', clients'[d].is # "closed"
               PROVE  IF clients'[d].what = "content" THEN stream'.conns[clients'[d].to] = d
                      ELSE life'.conn = d /\ life'.at \in {"pump", "store"}
    BY DEF ClientsAreHeld
  <2>1. d \in DOMAIN clients /\ d # c /\ clients[d].is # "closed" /\ clients[d].to \in StreamNames
    BY <1>2, ClientOfType DEF PaneTypes
  <2>2. clients[d].what = "content" => stream'.conns[clients[d].to] = stream.conns[clients[d].to]
    BY <1>1, <1>3, <2>1 DEF StreamInvariant, ClientsAreHeld, PaneTypes, StreamTypes
  <2> QED
    BY <1>1, <1>2, <2>1, <2>2 DEF StreamInvariant, ClientsAreHeld
<1>5. WatchingIsBounded'
  <2>1. CASE stream'.conns = stream.conns
    BY <2>1 DEF StreamInvariant, WatchingIsBounded, Watching
  <2>2. CASE stream'.conns = [stream.conns EXCEPT ![n] = 0]
    BY <1>1, <2>2, WatchesOneMore DEF StreamInvariant
  <2> QED
    BY <1>3, <2>1, <2>2
<1>6. SubscribeIsAlone'
  <2>1. subscribe.at # "rows"
    BY EmptySeq DEF StreamInvariant, SubscribeIsAlone
  <2>2. subscribe.at \in {"content", "seed"} => 1 # c
    BY <1>1 DEF StreamInvariant, SubscribeIsAlone
  <2>3. \A m \in subscribe.todo : stream.conns[m] = 0 => stream'.conns[m] = 0
    BY <1>1, <1>3 DEF PaneTypes, StreamTypes
  <2> QED
    BY <1>1, <1>2, <1>3, <2>1, <2>2, <2>3 DEF StreamInvariant, SubscribeIsAlone
<1>7. LifecycleIsStored' /\ ClosedHoldsNone' /\ ClosedLeavesNone'
  BY <1>1, <1>3 DEF StreamInvariant, LifecycleIsStored, ClosedHoldsNone, ClosedLeavesNone
<1> QED
  BY <1>4, <1>5, <1>6, <1>7 DEF StreamInvariant

(* The supervisor closes the client that it has lost, and finds another.    *)
LEMMA SupervisingIsHeld ==
  ASSUME PaneTypes, StreamInvariant, Supervising
  PROVE  StreamInvariant'
<1>0. /\ UNCHANGED <<subscribe, engine>>
      /\ stream'.conns = stream.conns /\ stream'.closed = stream.closed
  BY DEF Supervising, LifecycleLost, LifecycleFound, LifecycleStored, PaneTypes, StreamTypes
<1>1. WatchingIsBounded' /\ ClosedHoldsNone'
  BY <1>0 DEF StreamInvariant, WatchingIsBounded, Watching, ClosedHoldsNone
<1>2. subscribe.at = "running"
  <2>1. subscribe.at \notin {"content", "seed"}
    BY DEF StreamInvariant, SubscribeIsAlone, Supervising, LifecycleLost, LifecycleFound, LifecycleStored,
           Ended, Open
  <2>2. life.at # "none"
    BY DEF Supervising, LifecycleLost, LifecycleFound, LifecycleStored
  <2> QED
    BY <2>1, <2>2 DEF StreamInvariant, SubscribeIsAlone, PaneTypes, StreamTypes
<1>3. SubscribeIsAlone'
  BY <1>0, <1>2 DEF SubscribeIsAlone
<1>4. CASE LifecycleLost
  <2>1. /\ life.at = "pump" /\ life'.at = "find" /\ ~stream.closed
        /\ clients' = ClientClosed(clients, life.conn)
    BY <1>4 DEF LifecycleLost, Ended, PaneTypes, StreamTypes
  <2>2. /\ DOMAIN clients' = DOMAIN clients
        /\ \A d \in DOMAIN clients :
              /\ clients'[d].to = clients[d].to /\ clients'[d].what = clients[d].what
              /\ clients'[d].is = IF d = life.conn THEN "closed" ELSE clients[d].is
    BY <2>1, IsClosed DEF PaneTypes
  <2>3. ClientsAreHeld' /\ LifecycleIsStored' /\ ClosedLeavesNone'
    BY <1>0, <2>1, <2>2 DEF StreamInvariant, ClientsAreHeld, LifecycleIsStored, ClosedLeavesNone
  <2> QED
    BY <1>1, <1>3, <2>3 DEF StreamInvariant
<1>5. CASE LifecycleFound
  <2> DEFINE k == Len(clients) + 1
  <2>1. /\ life.at = "find" /\ life' = [at |-> "store", conn |-> k] /\ ~stream.closed
    BY <1>5 DEF LifecycleFound
  <2>2. PICK n \in StreamNames : clients' = Append(clients, Client(n, "lifecycle"))
    BY <1>5 DEF LifecycleFound
  <2>3. /\ DOMAIN clients' = DOMAIN clients \cup {k}
        /\ clients'[k] = Client(n, "lifecycle")
        /\ \A c \in DOMAIN clients : clients'[c] = clients[c]
    BY <2>2, Opens DEF PaneTypes
  <2> HIDE DEF k
  <2>4. ClientsAreHeld' /\ LifecycleIsStored' /\ ClosedLeavesNone'
    BY <1>0, <2>1, <2>3 DEF StreamInvariant, ClientsAreHeld, LifecycleIsStored, ClosedLeavesNone, Client
  <2> QED
    BY <1>1, <1>3, <2>4 DEF StreamInvariant
<1>6. CASE LifecycleStored /\ stream.closed
  <2>1. life.at = "store" /\ life'.at = "over" /\ clients' = ClientClosed(clients, life.conn)
    BY <1>6 DEF LifecycleStored, PaneTypes, StreamTypes
  <2>2. /\ DOMAIN clients' = DOMAIN clients
        /\ \A d \in DOMAIN clients :
              /\ clients'[d].to = clients[d].to /\ clients'[d].what = clients[d].what
              /\ clients'[d].is = IF d = life.conn THEN "closed" ELSE clients[d].is
    BY <2>1, IsClosed DEF PaneTypes
  <2>3. ClientsAreHeld' /\ LifecycleIsStored' /\ ClosedLeavesNone'
    BY <1>0, <2>1, <2>2 DEF StreamInvariant, ClientsAreHeld, LifecycleIsStored, ClosedLeavesNone
  <2> QED
    BY <1>1, <1>3, <2>3 DEF StreamInvariant
<1>7. CASE LifecycleStored /\ ~stream.closed
  <2>1. /\ life.at = "store" /\ life'.at = "pump" /\ life'.conn = life.conn /\ UNCHANGED clients
        /\ stream'.lifecycle = life.conn
    BY <1>7 DEF LifecycleStored, PaneTypes, StreamTypes
  <2>2. ClientsAreHeld' /\ LifecycleIsStored' /\ ClosedLeavesNone'
    BY <1>0, <1>7, <2>1 DEF StreamInvariant, ClientsAreHeld, LifecycleIsStored, ClosedLeavesNone
  <2> QED
    BY <1>1, <1>3, <2>2 DEF StreamInvariant
<1> QED
  BY <1>4, <1>5, <1>6, <1>7 DEF Supervising

(* The engine attaches to a session that it sees, if it may.                *)
LEMMA SeeingIsHeld ==
  ASSUME PaneTypes, StreamInvariant, NEW n \in StreamNames, EngineSees(n)
  PROVE  StreamInvariant'
<1>1. /\ subscribe.at = "running" /\ ~stream.closed /\ UNCHANGED <<subscribe, life>>
      /\ stream'.lifecycle = stream.lifecycle /\ ~stream'.closed
  <2>1. subscribe.at = "running" /\ ~stream.closed /\ UNCHANGED <<subscribe, life>>
    BY DEF EngineSees, StreamInvariant, SubscribeIsAlone
  <2>2. /\ Spent(stream, n).lifecycle = stream.lifecycle /\ Spent(stream, n).closed = stream.closed
        /\ DOMAIN Spent(stream, n) = DOMAIN stream
    BY DEF Spent, PaneTypes, StreamTypes
  <2>3. PICK conns : stream' \in {Spent(stream, n), [Spent(stream, n) EXCEPT !.conns = conns]}
    BY DEF EngineSees
  <2> QED
    BY <2>1, <2>2, <2>3 DEF PaneTypes, StreamTypes
<1>2. ClientsAreHeld' /\ WatchingIsBounded'
  <2>1. Spent(stream, n).conns = stream.conns /\ DOMAIN Spent(stream, n) = DOMAIN stream
    BY DEF Spent, PaneTypes, StreamTypes
  <2>2. CASE UNCHANGED clients /\ stream' = Spent(stream, n)
    BY <1>1, <2>1, <2>2 DEF StreamInvariant, ClientsAreHeld, WatchingIsBounded, Watching
  <2>3. CASE /\ CanAttach(n)
             /\ clients' = Append(clients, Client(n, "content"))
             /\ stream' = [Spent(stream, n) EXCEPT !.conns = [@ EXCEPT ![n] = Len(clients) + 1]]
    <3>1. stream'.conns = [stream.conns EXCEPT ![n] = Len(clients) + 1]
      BY <2>1, <2>3 DEF PaneTypes, StreamTypes
    <3> QED
      BY <1>1, <2>3, <3>1, DialledIsHeld DEF StreamInvariant, CanAttach
  <2> QED
    BY <2>2, <2>3 DEF EngineSees
<1>3. LifecycleIsStored' /\ ClosedHoldsNone' /\ ClosedLeavesNone' /\ SubscribeIsAlone'
  BY <1>1 DEF StreamInvariant, LifecycleIsStored, ClosedHoldsNone, ClosedLeavesNone, SubscribeIsAlone
<1> QED
  BY <1>2, <1>3 DEF StreamInvariant

(* The engine closes the client of a session that has gone.                 *)
LEMMA MissingIsHeld ==
  ASSUME PaneTypes, StreamInvariant, NEW n \in StreamNames, EngineMisses(n)
  PROVE  StreamInvariant'
<1>1. subscribe.at = "running" /\ ~stream.closed /\ UNCHANGED <<subscribe, life>>
  BY DEF EngineMisses, StreamInvariant, SubscribeIsAlone
<1>2. CASE UNCHANGED <<stream, clients>>
  BY <1>1, <1>2 DEF StreamInvariant, ClientsAreHeld, WatchingIsBounded, Watching, LifecycleIsStored,
                    SubscribeIsAlone, ClosedHoldsNone, ClosedLeavesNone
<1>3. CASE /\ stream' = [stream EXCEPT !.conns = [@ EXCEPT ![n] = 0]]
           /\ clients' = ClientClosed(clients, stream.conns[n])
  <2>1. /\ stream'.conns = [stream.conns EXCEPT ![n] = 0] /\ ~stream'.closed
        /\ stream'.lifecycle = stream.lifecycle
    BY <1>1, <1>3 DEF PaneTypes, StreamTypes
  <2>2. /\ DOMAIN clients' = DOMAIN clients
        /\ \A d \in DOMAIN clients :
              /\ clients'[d].to = clients[d].to /\ clients'[d].what = clients[d].what
              /\ clients'[d].is = IF d = stream.conns[n] THEN "closed" ELSE clients[d].is
    BY <1>3, IsClosed DEF PaneTypes
  <2>3. ASSUME NEW d \in DOMAIN clients', clients'[d].is # "closed"
        PROVE  IF clients'[d].what = "content" THEN stream'.conns[clients'[d].to] = d
               ELSE life'.conn = d /\ life'.at \in {"pump", "store"}
    <3>1. d \in DOMAIN clients /\ d # stream.conns[n] /\ clients[d].is # "closed"
          /\ clients[d].to \in StreamNames
      BY <2>2, <2>3, ClientOfType DEF PaneTypes
    <3>2. clients[d].what = "content" => stream'.conns[clients[d].to] = stream.conns[clients[d].to]
      BY <2>1, <3>1 DEF StreamInvariant, ClientsAreHeld, PaneTypes, StreamTypes
    <3> QED
      BY <1>1, <2>2, <3>1, <3>2 DEF StreamInvariant, ClientsAreHeld
  <2>4. ClientsAreHeld'
    BY <2>3 DEF ClientsAreHeld
  <2>5. WatchingIsBounded'
    BY <2>1, WatchesOneMore DEF StreamInvariant
  <2>6. LifecycleIsStored' /\ ClosedHoldsNone' /\ ClosedLeavesNone' /\ SubscribeIsAlone'
    BY <1>1, <2>1 DEF StreamInvariant, LifecycleIsStored, ClosedHoldsNone, ClosedLeavesNone, SubscribeIsAlone
  <2> QED
    BY <2>4, <2>5, <2>6 DEF StreamInvariant
<1> QED
  BY <1>2, <1>3 DEF EngineMisses

(* Close finds every client that has not been closed.                       *)
LEMMA ClosingLeavesNone ==
  ASSUME PaneTypes, StreamInvariant, StreamCloses
  PROVE  StreamInvariant'
<1> DEFINE theirs == {stream.conns[n] : n \in Watching} \cup {stream.lifecycle}
<1>1. /\ subscribe.at = "running" /\ ~stream.closed /\ UNCHANGED <<subscribe, life, engine>>
      /\ clients' = [c \in DOMAIN clients |->
            IF c \in theirs THEN [clients[c] EXCEPT !.is = "closed"] ELSE clients[c]]
      /\ stream'.closed /\ stream'.conns = NoneKnown
  BY DEF StreamCloses, PaneTypes, StreamTypes
<1>2. ASSUME NEW c \in DOMAIN clients', clients'[c].is # "closed"
      PROVE  life.at = "store" /\ life.conn = c /\ clients'[c].what # "content"
  <2>1. c \in DOMAIN clients /\ clients[c] \in ControlClients /\ c # 0
    BY <1>1, <1>2, ClientOfType DEF PaneTypes
  <2>2. c \notin theirs /\ clients'[c] = clients[c]
    BY <1>1, <1>2, <2>1 DEF ControlClients
  <2>3. clients[c].what # "content"
    <3> SUFFICES ASSUME clients[c].what = "content" PROVE FALSE
      OBVIOUS
    <3>1. clients[c].to \in StreamNames /\ stream.conns[clients[c].to] = c
      BY <1>2, <2>1, <2>2 DEF StreamInvariant, ClientsAreHeld, ControlClients
    <3> QED
      BY <2>1, <2>2, <3>1 DEF Watching
  <2>4. life.conn = c /\ life.at \in {"pump", "store"}
    BY <1>2, <2>1, <2>2, <2>3 DEF StreamInvariant, ClientsAreHeld
  <2>5. life.at # "pump"
    BY <1>1, <2>2, <2>4 DEF StreamInvariant, LifecycleIsStored
  <2> QED
    BY <2>2, <2>3, <2>4, <2>5
<1>3. ClientsAreHeld' /\ ClosedLeavesNone'
  BY <1>1, <1>2 DEF ClientsAreHeld, ClosedLeavesNone
<1>4. WatchingIsBounded'
  <2>1. Watching' = {}
    BY <1>1 DEF Watching, NoneKnown
  <2> QED
    BY <2>1, FS_EmptySet, StreamAssumption DEF WatchingIsBounded
<1>5. LifecycleIsStored' /\ ClosedHoldsNone' /\ SubscribeIsAlone'
  BY <1>1 DEF LifecycleIsStored, ClosedHoldsNone, SubscribeIsAlone
<1> QED
  BY <1>3, <1>4, <1>5 DEF StreamInvariant

-----------------------------------------------------------------------------
(* The theorems *)

EarlyInvariant == PaneTypes /\ (~PaneMay("early") => StreamInvariant)

(* What a stream that is left alone at first holds, for ever.               *)
LEMMA StreamInvariantHolds == PaneSpec => []EarlyInvariant
<1>1. PaneInit => EarlyInvariant
  BY TypesAtFirst, HeldAtFirst DEF EarlyInvariant
<1>2. EarlyInvariant /\ [PaneNext]_paneVars => EarlyInvariant'
  <2> SUFFICES ASSUME PaneTypes, ~PaneMay("early") => StreamInvariant, [PaneNext]_paneVars
               PROVE  PaneTypes' /\ (~PaneMay("early")' => StreamInvariant')
    BY DEF EarlyInvariant
  <2>1. PaneTypes'
    <3>1. CASE UNCHANGED paneVars
      BY <3>1 DEF paneVars, PaneTypes, WorldTypes, ClientTypes, StreamTypes
    <3> QED
      BY <3>1, WorldIsTyped, SubscribingIsTyped, PumpingIsTyped, ComparingIsTyped DEF PaneNext
  <2>2. UNCHANGED paneEnv
    BY DEF PaneNext, paneVars, SessionStarts, SessionEnds, ScreenChanges, ClientDies, Pumping, Pump,
           PumpContentEnds, Subscribing, SubscribeDialsLifecycle, SubscribeDialsContent,
           SubscribeStoresLifecycle, SubscribeSeeds, Supervising, LifecycleLost, LifecycleFound,
           LifecycleStored, Comparing, EngineWakes, EngineReads, EngineClears, EngineRests,
           EngineSees, EngineMisses, StreamCloses
  <2>3. ASSUME ~PaneMay("early") PROVE StreamInvariant'
    <3>1. StreamInvariant
      BY <2>3
    <3>2. CASE UNCHANGED paneVars
      BY <3>1, <3>2 DEF paneVars, StreamInvariant, ClientsAreHeld, WatchingIsBounded, Watching,
                        LifecycleIsStored, SubscribeIsAlone, ClosedHoldsNone, ClosedLeavesNone
    <3>3. CASE Subscribing
      BY <3>1, <3>3, DialingLifecycleIsHeld, DialingContentIsHeld, SubscribedIsHeld DEF Subscribing
    <3>4. CASE Comparing
      BY <3>1, <3>4, RestIsHeld, SeeingIsHeld, MissingIsHeld DEF Comparing
    <3>5. CASE Pumping
      BY <2>3, <3>1, <3>5, WorldIsHeld, ContentEndIsHeld DEF Pumping
    <3> QED
      BY <2>3, <3>1, <3>2, <3>3, <3>4, <3>5, WorldIsHeld, SupervisingIsHeld, ClosingLeavesNone
         DEF PaneNext
  <2> QED
    BY <2>1, <2>2, <2>3 DEF PaneMay
<1> QED
  BY <1>1, <1>2, PTL DEF PaneSpec

(* No control client outlives its stream, and a stream has at most one for  *)
(* a session and no more than the bound: Close looks for them where the     *)
(* pumps, the engine and the supervisor have put them.                      *)
THEOREM NoClientIsEverLeft == PaneSpec => []NoClientIsLeft
<1>1. PaneTypes /\ StreamInvariant => WatchersAreFew
  <2> SUFFICES ASSUME PaneTypes, StreamInvariant PROVE WatchersAreFew
    OBVIOUS
  <2> DEFINE watch == {c \in DOMAIN clients : Open(c) /\ clients[c].what = "content"}
             to == [c \in watch |-> clients[c].to]
  <2>1. \A c \in watch : clients[c].to \in Watching /\ stream.conns[clients[c].to] = c
    BY ClientOfType DEF PaneTypes, StreamInvariant, ClientsAreHeld, Open, Watching
  <2>2. to \in Injection(watch, Watching)
    BY <2>1 DEF Injection, IsInjective
  <2>3. IsFiniteSet(watch) /\ Cardinality(watch) <= Cardinality(Watching)
    <3> HIDE DEF watch, to
    <3> QED
      BY <2>2, FS_Injection DEF StreamInvariant, WatchingIsBounded
  <2>4. Cardinality(watch) <= maxContentClients
    <3> HIDE DEF watch
    <3> QED
      BY <2>3, FS_CardinalityType, StreamAssumption DEF StreamInvariant, WatchingIsBounded
  <2> QED
    BY <2>1, <2>4 DEF WatchersAreFew
<1>2. EarlyInvariant => NoClientIsLeft
  BY <1>1 DEF EarlyInvariant, NoClientIsLeft, StreamInvariant
<1> QED
  BY <1>2, StreamInvariantHolds, PTL

-----------------------------------------------------------------------------
(* TurnCounts: the inductive invariant                                      *)

TurnLines == [turn : BOOLEAN, time : Nat]
Plainly == {"stat", "tail", "restat", "save"}
TurnReads == [at : Plainly, since : Nat, low : Nat, n : Nat, size : Nat]
               \cup [at : {"forward"}, since : Nat, low : Nat, n : Nat, size : Nat, to : Nat]

TurnTypeOK ==
    /\ turnEnv \in TurnEnvironments
    /\ record \in [lines : Seq(TurnLines), torn : BOOLEAN] /\ (record.torn => Len(record.lines) > 0)
    /\ appended \in Nat /\ delivery \in Nat
    /\ mark \in [at : Nat, count : Nat, size : Nat]
    /\ readers \in [TurnReaders -> {NotReading} \cup TurnReads]
    /\ answer \in [turns : Nat, low : Nat, high : Nat]

(* No reader meets half a line, or a record that grows between its looks,   *)
(* or, where records are started anew, one that cannot be opened.           *)
TurnPlain ==
    /\ ~TurnMay("torn") /\ ~TurnMay("meanwhile")
    /\ ~(TurnMay("rotate") /\ TurnMay("fail"))

(* Every line was written after the deliveries that it counts, and the      *)
(* lines are in the order of their times.                                   *)
LinesAreTimed ==
    /\ ~record.torn
    /\ \A k \in DOMAIN record.lines :
          /\ record.lines[k].time <= delivery
          /\ \A j \in 1 .. k : record.lines[j].time <= record.lines[k].time

(* The record was started anew, for the last time.                          *)
StartedAnew == TurnMay("rotate") /\ record.lines = <<>> /\ appended = turnEnv.lines

(* A count and a size from which a reader may go on: the size is where a    *)
(* line ends, the turns up to there are counted, and what comes after it is *)
(* later than the delivery.                                                 *)
MayGoOn(n, size, since) ==
    /\ \E half \in 0 .. Len(record.lines) : size = 2 * half
    /\ n = TurnsIn(0, size, since)
    /\ \A k \in DOMAIN record.lines : 2 * (k - 1) >= size => record.lines[k].time >= since
CheckpointIsTrue(n, size, since) == size = 0 \/ StartedAnew \/ MayGoOn(n, size, since)

(* What a reader has found so far.                                          *)
ReadIsTrue(t) ==
    /\ t.since <= delivery /\ t.low <= Finished(t.since)
    /\ t.at \in {"stat", "tail", "save"} => CheckpointIsTrue(t.n, t.size, t.since)
    /\ t.at = "forward" => t.size > 0 /\ t.to = Size /\ MayGoOn(t.n, t.size, t.since)
    /\ t.at = "restat" => t.n = Finished(t.since)
    /\ t.at = "save" => t.low <= t.n /\ t.n <= Finished(t.since)

AllReaders == {readers[r] : r \in TurnReaders}
TurnInv ==
    /\ TurnTypeOK
    /\ TurnPlain =>
          /\ LinesAreTimed
          /\ mark.at <= delivery /\ CheckpointIsTrue(mark.count, mark.size, mark.at)
          /\ answer.low <= answer.turns /\ answer.turns <= answer.high
          /\ \A t \in AllReaders : t # NotReading => ReadIsTrue(t)

-----------------------------------------------------------------------------
(* TurnCounts: lines and how many of them are counted                       *)

CountedIn(lines, from, to, since) ==
    {k \in DOMAIN lines : 2 * (k - 1) >= from /\ 2 * k <= to /\ lines[k].turn /\ lines[k].time >= since}

(* A count is a number.                                                     *)
LEMMA CountIs ==
  ASSUME NEW lines \in Seq(TurnLines), NEW from, NEW to, NEW since
  PROVE  /\ IsFiniteSet(CountedIn(lines, from, to, since))
         /\ Cardinality(CountedIn(lines, from, to, since)) \in Nat
<1>1. Len(lines) \in Nat /\ DOMAIN lines = 1 .. Len(lines)
  OBVIOUS
<1>2. IsFiniteSet(1 .. Len(lines))
  BY <1>1, FS_Interval
<1>3. CountedIn(lines, from, to, since) \in SUBSET (1 .. Len(lines))
  BY <1>1 DEF CountedIn
<1>4. IsFiniteSet(CountedIn(lines, from, to, since))
  BY <1>2, <1>3, FS_Subset
<1> QED
  BY <1>4, FS_CardinalityType

(* Fewer lines make no greater count.                                       *)
LEMMA FewerCount ==
  ASSUME NEW lines \in Seq(TurnLines), NEW from, NEW to, NEW since, NEW S, S \subseteq CountedIn(lines, from, to, since)
  PROVE  Cardinality(S) <= Cardinality(CountedIn(lines, from, to, since))
<1>1. IsFiniteSet(CountedIn(lines, from, to, since))
  BY CountIs
<1>2. S \in SUBSET CountedIn(lines, from, to, since)
  OBVIOUS
<1> QED
  BY <1>1, <1>2, FS_Subset

(* The turns in a part of the record are that count.                        *)
LEMMA TurnsAre ==
  ASSUME NEW from, NEW to, NEW since
  PROVE  TurnsIn(from, to, since) = Cardinality(CountedIn(record.lines, from, to, since))
  BY DEF TurnsIn, CountedIn

(* And they are a number.                                                   *)
LEMMA TurnsNat ==
  ASSUME TurnTypeOK, NEW from, NEW to, NEW since
  PROVE  TurnsIn(from, to, since) \in Nat
<1>1. record.lines \in Seq(TurnLines)
  BY DEF TurnTypeOK
<1> QED
  BY <1>1, TurnsAre, CountIs

(* The size of a record of whole lines.                                     *)
LEMMA WholeSize ==
  ASSUME TurnTypeOK, ~record.torn
  PROVE  /\ record.lines \in Seq(TurnLines) /\ Len(record.lines) \in Nat
         /\ DOMAIN record.lines = 1 .. Len(record.lines)
         /\ Size = 2 * Len(record.lines) /\ Size \in Nat
         /\ \A k \in DOMAIN record.lines : /\ k \in Nat /\ k >= 1 /\ 2 * k <= Size
                                           /\ record.lines[k].time \in Nat
<1>1. record.lines \in Seq(TurnLines)
  BY DEF TurnTypeOK
<1>2. Len(record.lines) \in Nat /\ DOMAIN record.lines = 1 .. Len(record.lines)
  BY <1>1
<1>3. Size = 2 * Len(record.lines)
  BY <1>2 DEF Size
<1>4. \A k \in DOMAIN record.lines : record.lines[k] \in TurnLines
  BY <1>1
<1> QED
  BY <1>1, <1>2, <1>3, <1>4 DEF TurnLines

(* The turns up to one size and from there on are the turns up to the end.  *)
LEMMA TurnsAdd ==
  ASSUME TurnTypeOK, ~record.torn, NEW half \in 0 .. Len(record.lines), NEW size, size = 2 * half,
         NEW since \in Nat,
         \A k \in DOMAIN record.lines : 2 * (k - 1) >= size => record.lines[k].time >= since
  PROVE  TurnsIn(0, Size, since) = TurnsIn(0, size, since) + TurnsIn(size, Size, 0)
<1>1. PICK lines : lines = record.lines
  OBVIOUS
<1>2. lines \in Seq(TurnLines)
  BY <1>1, WholeSize
<1>3. PICK old : old = CountedIn(lines, 0, size, since)
  OBVIOUS
<1>4. PICK new : new = CountedIn(lines, size, Size, 0)
  OBVIOUS
<1>5. half \in Nat /\ size \in Nat /\ size <= Size
  BY WholeSize
<1>6. CountedIn(lines, 0, Size, since) = old \cup new
  <2>1. \A k \in DOMAIN lines : k \in Nat /\ k >= 1 /\ 2 * k <= Size /\ lines[k].time \in Nat
    BY <1>1, WholeSize
  <2>2. \A k \in DOMAIN lines : 2 * k <= size \/ 2 * (k - 1) >= size
    BY <2>1, <1>5
  <2>3. \A k \in DOMAIN lines : 2 * (k - 1) >= size => lines[k].time >= since
    BY <1>1
  <2>4. \A k \in DOMAIN lines : 2 * (k - 1) >= 0 /\ lines[k].time >= 0 /\ (2 * k <= size => 2 * k <= Size)
    BY <2>1, WholeSize
  <2> QED
    BY <2>1, <2>2, <2>3, <2>4, <1>3, <1>4 DEF CountedIn
<1>7. old \cap new = {}
  <2>1. \A k \in DOMAIN lines : k \in Nat
    BY <1>1, WholeSize
  <2>2. \A k \in DOMAIN lines : ~(2 * k <= size /\ 2 * (k - 1) >= size)
    BY <2>1
  <2> QED
    BY <2>2, <1>3, <1>4 DEF CountedIn
<1>8. IsFiniteSet(old) /\ IsFiniteSet(new) /\ Cardinality(old) \in Nat /\ Cardinality(new) \in Nat
  BY <1>2, <1>3, <1>4, CountIs
<1>9. Cardinality(old \cup new) = Cardinality(old) + Cardinality(new)
  <2>1. Cardinality(old \cup new) = Cardinality(old) + Cardinality(new) - Cardinality(old \cap new)
    BY <1>8, FS_Union
  <2>2. Cardinality(old \cap new) = 0
    BY <1>7, FS_EmptySet
  <2> QED
    BY <2>1, <2>2, <1>8
<1> QED
  BY <1>1, <1>3, <1>4, <1>6, <1>9, TurnsAre

(* A count up to a size is at most the count of the whole record.           *)
LEMMA PartIsFewer ==
  ASSUME TurnTypeOK, ~record.torn, NEW size \in Nat, size <= Size, NEW since
  PROVE  TurnsIn(0, size, since) <= Finished(since)
<1>1. record.lines \in Seq(TurnLines)
  BY WholeSize
<1>2. \A k \in DOMAIN record.lines : 2 * k <= size => 2 * k <= Size
  BY WholeSize
<1>3. CountedIn(record.lines, 0, size, since) \subseteq CountedIn(record.lines, 0, Size, since)
  BY <1>2 DEF CountedIn
<1> QED
  BY <1>1, <1>3, FewerCount, TurnsAre DEF Finished

(* What a checkpoint tells of the size that goes with it.                   *)
LEMMA GoesOnIs ==
  ASSUME TurnTypeOK, ~record.torn, NEW n, NEW size, NEW since, MayGoOn(n, size, since)
  PROVE  size \in Nat /\ size <= Size /\ n <= Finished(since)
<1>1. PICK half \in 0 .. Len(record.lines) : size = 2 * half
  BY DEF MayGoOn
<1>2. size \in Nat /\ size <= Size
  BY <1>1, WholeSize
<1> QED
  BY <1>2, PartIsFewer DEF MayGoOn

(* The whole record, counted at its end, is a checkpoint.                   *)
LEMMA WholeGoesOn ==
  ASSUME TurnTypeOK, ~record.torn, NEW since
  PROVE  MayGoOn(Finished(since), Size, since)
<1>1. Len(record.lines) \in 0 .. Len(record.lines) /\ Size = 2 * Len(record.lines)
  BY WholeSize
<1>2. \A k \in DOMAIN record.lines : ~(2 * (k - 1) >= Size)
  BY WholeSize
<1> QED
  BY <1>1, <1>2 DEF MayGoOn, Finished

(* Counting forward from a checkpoint counts everything.                    *)
LEMMA ForwardIsWhole ==
  ASSUME TurnTypeOK, ~record.torn, NEW n, NEW size, NEW since \in Nat, MayGoOn(n, size, since)
  PROVE  n + TurnsIn(size, Size, 0) = Finished(since)
<1>1. PICK half \in 0 .. Len(record.lines) : size = 2 * half
  BY DEF MayGoOn
<1>2. \A k \in DOMAIN record.lines : 2 * (k - 1) >= size => record.lines[k].time >= since
  BY DEF MayGoOn
<1>3. n = TurnsIn(0, size, since)
  BY DEF MayGoOn
<1> QED
  BY <1>1, <1>2, <1>3, TurnsAdd DEF Finished

(* Where the tail begins.                                                   *)
LEMMA TailStartIs ==
  ASSUME TurnTypeOK, ~record.torn
  PROVE  TailStart \in Int /\ FirstWhole \in Int /\ (TailStart = 0 => FirstWhole = 0) /\ TailStart >= 0
         /\ (Size = 0 => TailStart = 0)
<1>1. turnEnv.window \in Nat
  BY TurnAssumption DEF TurnTypeOK
<1>2. PICK a \in Int : a = Size - 2 * turnEnv.window
  BY <1>1, WholeSize
<1>3. \E x \in {0, a} : \A y \in {0, a} : x >= y
  BY <1>2
<1>4. TailStart \in {0, a} /\ TailStart >= 0 /\ TailStart >= a
  BY <1>2, <1>3 DEF TailStart, Max
<1>5. Size = 0 => a <= 0
  BY <1>1, <1>2
<1> QED
  BY <1>2, <1>4, <1>5 DEF FirstWhole

(* A tail that reaches back is as good as the whole.                        *)
LEMMA TailIsWhole ==
  ASSUME TurnTypeOK, LinesAreTimed, NEW since \in Nat, ReachesBack(since)
  PROVE  TurnsIn(FirstWhole, Size, since) = Finished(since)
<1>1. PICK lines : lines = record.lines
  OBVIOUS
<1>2. \A k \in DOMAIN lines : k \in Nat /\ k >= 1 /\ lines[k].time \in Nat
  BY <1>1, WholeSize DEF LinesAreTimed
<1>3. FirstWhole \in Int /\ (TailStart = 0 => FirstWhole = 0) /\ FirstWhole >= 0
  BY TailStartIs DEF LinesAreTimed, FirstWhole
<1>4. \A k \in DOMAIN lines : lines[k].time >= since => 2 * (k - 1) >= FirstWhole
  <2>1. CASE TailStart = 0
    BY <2>1, <1>2, <1>3
  <2>2. CASE TailStart # 0
    <3>1. PICK back \in DOMAIN lines : 2 * (back - 1) >= FirstWhole /\ lines[back].time < since
      BY <2>2, <1>1 DEF ReachesBack
    <3>2. SUFFICES ASSUME NEW k \in DOMAIN lines, lines[k].time >= since PROVE k >= back
      BY <3>1, <1>2, <1>3
    <3>3. k \notin 1 .. back
      <4>1. \A j \in 1 .. back : lines[j].time <= lines[back].time
        BY <1>1 DEF LinesAreTimed
      <4> QED
        BY <3>1, <3>2, <4>1, <1>2
    <3> QED
      BY <3>3, <1>2
  <2> QED
    BY <2>1, <2>2
<1>5. CountedIn(lines, FirstWhole, Size, since) = CountedIn(lines, 0, Size, since)
  <2>1. \A k \in DOMAIN lines : 2 * (k - 1) >= 0
    BY <1>2
  <2> QED
    BY <1>4, <2>1 DEF CountedIn
<1> QED
  BY <1>1, <1>5, TurnsAre DEF Finished

-----------------------------------------------------------------------------
(* TurnCounts: steps that leave the record alone                            *)

(* The fields of a reader.                                                  *)
LEMMA ReadFields ==
  ASSUME NEW t \in TurnReads
  PROVE  /\ t # NotReading /\ t.at \in Plainly \cup {"forward"}
         /\ t.since \in Nat /\ t.low \in Nat /\ t.n \in Nat /\ t.size \in Nat
         /\ t.at = "forward" => t.to \in Nat
<1>1. t.at # "no" /\ NotReading.at = "no"
  BY DEF TurnReads, Plainly, NotReading
<1> QED
  BY <1>1 DEF TurnReads, Plainly

(* A reader that is under way.                                              *)
LEMMA ReaderIs ==
  ASSUME TurnTypeOK, NEW r \in TurnReaders, readers[r].at # "no"
  PROVE  readers[r] \in TurnReads
<1>1. readers[r] \in {NotReading} \cup TurnReads
  BY DEF TurnTypeOK
<1> QED
  BY <1>1 DEF NotReading

(* What it has found is true.                                               *)
LEMMA ReaderHas ==
  ASSUME TurnInv, TurnPlain, NEW r \in TurnReaders, readers[r].at # "no"
  PROVE  ReadIsTrue(readers[r])
<1>1. readers[r] \in AllReaders /\ readers[r] # NotReading
  BY DEF AllReaders, NotReading
<1> QED
  BY <1>1 DEF TurnInv

(* What was found stays true while the record stands.                       *)
LEMMA StandsStill ==
  ASSUME TurnTypeOK, UNCHANGED <<turnEnv, record, appended>>, delivery' \in Nat, delivery' >= delivery
  PROVE  /\ TurnPlain' = TurnPlain /\ TurnReaders' = TurnReaders
         /\ LinesAreTimed => LinesAreTimed'
         /\ \A n, size, since : CheckpointIsTrue(n, size, since) => CheckpointIsTrue(n, size, since)'
         /\ \A t \in TurnReads : ReadIsTrue(t) => ReadIsTrue(t)'
<1>1. TurnPlain' = TurnPlain /\ TurnReaders' = TurnReaders
  BY DEF TurnPlain, TurnReaders, TurnMay
<1>2. LinesAreTimed => LinesAreTimed'
  <2> SUFFICES ASSUME LinesAreTimed PROVE LinesAreTimed'
    OBVIOUS
  <2>1. \A k \in DOMAIN record.lines : record.lines[k].time <= delivery'
    BY WholeSize DEF LinesAreTimed, TurnTypeOK
  <2> QED
    BY <2>1 DEF LinesAreTimed
<1>3. Size' = Size /\ \A from, to, since : TurnsIn(from, to, since)' = TurnsIn(from, to, since)
  BY DEF Size, TurnsIn
<1>4. \A n, size, since : MayGoOn(n, size, since)' = MayGoOn(n, size, since)
  BY <1>3 DEF MayGoOn
<1>5. \A n, size, since : CheckpointIsTrue(n, size, since)' = CheckpointIsTrue(n, size, since)
  BY <1>4 DEF CheckpointIsTrue, StartedAnew, TurnMay
<1>6. \A since : Finished(since)' = Finished(since)
  BY <1>3 DEF Finished
<1>7. \A t \in TurnReads : ReadIsTrue(t) => ReadIsTrue(t)'
  <2> SUFFICES ASSUME NEW t \in TurnReads, ReadIsTrue(t) PROVE ReadIsTrue(t)'
    OBVIOUS
  <2>1. t.since <= delivery'
    BY ReadFields DEF ReadIsTrue, TurnTypeOK
  <2> QED
    BY <2>1, <1>3, <1>4, <1>5, <1>6 DEF ReadIsTrue
<1> QED
  BY <1>1, <1>2, <1>5, <1>7

(* One reader moves, and the mark and the answer may.                       *)
LEMMA ReaderMoves ==
  ASSUME TurnInv, UNCHANGED <<turnEnv, record, appended, delivery>>,
         NEW r \in TurnReaders, NEW new \in {NotReading} \cup TurnReads, readers' = [readers EXCEPT ![r] = new],
         mark' \in [at : Nat, count : Nat, size : Nat], answer' \in [turns : Nat, low : Nat, high : Nat],
         TurnPlain => /\ new # NotReading => ReadIsTrue(new)
                      /\ mark'.at <= delivery /\ CheckpointIsTrue(mark'.count, mark'.size, mark'.at)
                      /\ answer'.low <= answer'.turns /\ answer'.turns <= answer'.high
  PROVE  TurnInv'
<1>1. TurnTypeOK
  BY DEF TurnInv
<1>2. TurnTypeOK'
  BY <1>1 DEF TurnTypeOK, TurnReaders
<1>3. delivery' \in Nat /\ delivery' >= delivery
  BY <1>1 DEF TurnTypeOK
<1>4. TurnPlain' = TurnPlain
  BY <1>1, <1>3, StandsStill
<1>5. ASSUME TurnPlain
      PROVE  /\ LinesAreTimed'
             /\ (mark.at <= delivery /\ CheckpointIsTrue(mark.count, mark.size, mark.at))'
             /\ (answer.low <= answer.turns /\ answer.turns <= answer.high)'
             /\ (\A t \in AllReaders : t # NotReading => ReadIsTrue(t))'
  <2>1. LinesAreTimed'
    BY <1>1, <1>3, <1>5, StandsStill DEF TurnInv
  <2>2. (mark.at <= delivery /\ CheckpointIsTrue(mark.count, mark.size, mark.at))'
    <3>1. PICK m : m = mark'
      OBVIOUS
    <3>2. CheckpointIsTrue(m.count, m.size, m.at)
      BY <3>1, <1>5
    <3>3. CheckpointIsTrue(m.count, m.size, m.at)'
      BY <3>2, <1>1, <1>3, StandsStill
    <3> QED
      BY <3>1, <3>3, <1>5
  <2>3. \A t \in TurnReads : t \in AllReaders' => ReadIsTrue(t)'
    <3> SUFFICES ASSUME NEW t \in TurnReads, t \in AllReaders' PROVE ReadIsTrue(t)
      BY <1>1, <1>3, StandsStill
    <3>1. t = new \/ t \in AllReaders
      BY <1>1, StandsStill DEF AllReaders, TurnTypeOK, TurnReaders
    <3>2. t # NotReading
      BY ReadFields
    <3> QED
      BY <3>1, <3>2, <1>5 DEF TurnInv
  <2>4. \A t \in AllReaders' : t \in {NotReading} \cup TurnReads
    BY <1>2 DEF TurnTypeOK, AllReaders
  <2>5. (\A t \in AllReaders : t # NotReading => ReadIsTrue(t))'
    BY <2>3, <2>4
  <2> QED
    BY <2>1, <2>2, <2>5, <1>5
<1> QED
  BY <1>2, <1>4, <1>5 DEF TurnInv

-----------------------------------------------------------------------------
(* TurnCounts: the steps of a reader                                        *)

(* The turns since a delivery are a number.                                 *)
LEMMA FinishedNat ==
  ASSUME TurnTypeOK, NEW since
  PROVE  Finished(since) \in Nat
  BY TurnsNat DEF Finished

(* turnsFor takes the mark.                                                 *)
LEMMA ReadMarkIsTrue ==
  ASSUME TurnInv, ReadMark
  PROVE  TurnInv'
<1>1. PICK r \in TurnReaders :
         /\ readers[r] = NotReading /\ mark # NoDelivery
         /\ ReaderTo(r, [at |-> "stat", since |-> mark.at, n |-> mark.count, size |-> mark.size,
                         low |-> Finished(mark.at)])
         /\ UNCHANGED <<turnEnv, record, appended, delivery, mark, answer>>
  BY DEF ReadMark
<1>2. PICK new : new = [at |-> "stat", since |-> mark.at, n |-> mark.count, size |-> mark.size,
                        low |-> Finished(mark.at)]
  OBVIOUS
<1>3. new \in TurnReads
  BY <1>2, FinishedNat DEF TurnInv, TurnTypeOK, TurnReads, Plainly
<1>4. ASSUME TurnPlain PROVE ReadIsTrue(new)
  <2>1. new.low <= Finished(new.since)
    BY <1>2, FinishedNat DEF TurnInv
  <2> QED
    BY <2>1, <1>2, <1>4 DEF TurnInv, ReadIsTrue
<1>5. readers' = [readers EXCEPT ![r] = new]
  BY <1>1, <1>2 DEF ReaderTo
<1> QED
  BY <1>1, <1>3, <1>4, <1>5, ReaderMoves DEF TurnInv, TurnTypeOK

(* It looks at the size.                                                    *)
LEMMA ReadSizeIsTrue ==
  ASSUME TurnInv, ReadSize
  PROVE  TurnInv'
<1>1. PICK r \in TurnReaders, t \in AllReaders :
         /\ t = readers[r] /\ t.at = "stat"
         /\ \/ t.size > 0 /\ Size = t.size /\ Answered(r, t.n, t.low)
            \/ /\ t.size > 0 /\ Size > t.size
               /\ ReaderTo(r, [at |-> "forward", since |-> t.since, low |-> t.low, n |-> t.n,
                               size |-> t.size, to |-> Size])
               /\ UNCHANGED answer
            \/ ReaderTo(r, [t EXCEPT !.at = "tail"]) /\ UNCHANGED answer
         /\ UNCHANGED <<turnEnv, record, appended, delivery, mark>>
  BY DEF ReadSize, AllReaders
<1>2. TurnTypeOK
  BY DEF TurnInv
<1>3. t \in TurnReads
  BY <1>1, <1>2, ReaderIs
<1>4. TurnPlain => ReadIsTrue(t)
  BY <1>1, ReaderHas
<1>5. Size \in Int /\ (Size > 0 => Size \in Nat)
  <2>1. Len(record.lines) \in Nat
    BY <1>2 DEF TurnTypeOK
  <2>2. PICK half \in {0, 1} : Size = 2 * Len(record.lines) - half
    BY DEF Size
  <2> QED
    BY <2>1, <2>2
<1>6. CASE t.size > 0 /\ Size = t.size /\ Answered(r, t.n, t.low)
  <2>1. answer' = [turns |-> t.n, low |-> t.low, high |-> Finished(t.since)]
    BY <1>6, <1>1 DEF Answered
  <2>2. answer' \in [turns : Nat, low : Nat, high : Nat]
    BY <2>1, <1>2, <1>3, ReadFields, FinishedNat
  <2>3. ASSUME TurnPlain PROVE t.low <= t.n /\ t.n <= Finished(t.since)
    <3>1. LinesAreTimed
      BY <2>3 DEF TurnInv
    <3>2. ~StartedAnew
      BY <1>6, <1>2, <3>1, WholeSize DEF StartedAnew, LinesAreTimed
    <3>3. MayGoOn(t.n, t.size, t.since)
      BY <3>2, <2>3, <1>4, <1>1, <1>6, <1>3, ReadFields DEF ReadIsTrue, CheckpointIsTrue
    <3>4. t.n = Finished(t.since)
      BY <3>3, <1>6 DEF MayGoOn, Finished
    <3>5. t.low <= Finished(t.since)
      BY <2>3, <1>4 DEF ReadIsTrue
    <3> QED
      BY <3>4, <3>5, <1>2, FinishedNat
  <2>4. readers' = [readers EXCEPT ![r] = NotReading]
    BY <1>6 DEF Answered
  <2> QED
    BY <2>1, <2>2, <2>3, <2>4, <1>1, ReaderMoves DEF TurnInv, TurnTypeOK
<1>7. CASE /\ t.size > 0 /\ Size > t.size
           /\ ReaderTo(r, [at |-> "forward", since |-> t.since, low |-> t.low, n |-> t.n,
                           size |-> t.size, to |-> Size])
           /\ UNCHANGED answer
  <2>1. PICK new : new = [at |-> "forward", since |-> t.since, low |-> t.low, n |-> t.n,
                          size |-> t.size, to |-> Size]
    OBVIOUS
  <2>2. t.since \in Nat /\ t.low \in Nat /\ t.n \in Nat /\ t.size \in Nat
    BY <1>3, ReadFields
  <2>3. Size \in Nat
    BY <1>5, <1>7, <2>2
  <2>4. new \in TurnReads
    BY <2>1, <2>2, <2>3 DEF TurnReads
  <2>5. ASSUME TurnPlain PROVE ReadIsTrue(new)
    <3>1. ~StartedAnew
      BY <1>7, <1>2, <2>2, <2>5, WholeSize DEF StartedAnew, LinesAreTimed, TurnInv
    <3>2. MayGoOn(t.n, t.size, t.since)
      BY <3>1, <2>5, <1>4, <1>1, <1>7, <2>2 DEF ReadIsTrue, CheckpointIsTrue
    <3> QED
      BY <3>2, <2>5, <1>4, <1>7, <2>1 DEF ReadIsTrue
  <2>6. readers' = [readers EXCEPT ![r] = new]
    BY <1>7, <2>1 DEF ReaderTo
  <2> QED
    BY <2>4, <2>5, <2>6, <1>1, <1>7, ReaderMoves DEF TurnInv, TurnTypeOK
<1>8. CASE ReaderTo(r, [t EXCEPT !.at = "tail"]) /\ UNCHANGED answer
  <2>1. PICK new : new = [t EXCEPT !.at = "tail"]
    OBVIOUS
  <2>2. new \in TurnReads /\ new.at = "tail" /\ new.since = t.since /\ new.low = t.low
        /\ new.n = t.n /\ new.size = t.size
    BY <2>1, <1>1, <1>3 DEF TurnReads, Plainly
  <2>3. TurnPlain => ReadIsTrue(new)
    BY <2>2, <1>4, <1>1 DEF ReadIsTrue
  <2>4. readers' = [readers EXCEPT ![r] = new]
    BY <1>8, <2>1 DEF ReaderTo
  <2> QED
    BY <2>2, <2>3, <2>4, <1>1, <1>8, ReaderMoves DEF TurnInv, TurnTypeOK
<1> QED
  BY <1>1, <1>6, <1>7, <1>8

(* It counts what came after the checkpoint.                                *)
LEMMA ReadForwardIsTrue ==
  ASSUME TurnInv, ReadForward
  PROVE  TurnInv'
<1>1. PICK r \in TurnReaders, t \in AllReaders :
         /\ t = readers[r] /\ t.at = "forward"
         /\ \/ ReaderTo(r, [at |-> "save", since |-> t.since, low |-> t.low,
                            n |-> CountedForward(t), size |-> t.to])
            \/ ReaderTo(r, [at |-> "tail", since |-> t.since, low |-> t.low,
                            n |-> t.n, size |-> t.size])
         /\ UNCHANGED <<turnEnv, record, appended, delivery, mark, answer>>
  BY DEF ReadForward, AllReaders
<1>2. TurnTypeOK
  BY DEF TurnInv
<1>3. t \in TurnReads
  BY <1>1, <1>2, ReaderIs
<1>4. t.since \in Nat /\ t.low \in Nat /\ t.n \in Nat /\ t.size \in Nat /\ t.to \in Nat
  BY <1>1, <1>3, ReadFields
<1>5. TurnPlain => ReadIsTrue(t)
  BY <1>1, ReaderHas
<1>6. CASE ReaderTo(r, [at |-> "save", since |-> t.since, low |-> t.low,
                        n |-> CountedForward(t), size |-> t.to])
  <2>1. PICK new : new = [at |-> "save", since |-> t.since, low |-> t.low,
                          n |-> CountedForward(t), size |-> t.to]
    OBVIOUS
  <2>2. CountedForward(t) \in Nat
    <3>1. TurnsIn(t.size, Size, 0) \in Nat
      BY <1>2, TurnsNat
    <3> QED
      BY <3>1, <1>4 DEF CountedForward
  <2>3. new \in TurnReads
    BY <2>1, <2>2, <1>4 DEF TurnReads, Plainly
  <2>4. ASSUME TurnPlain PROVE ReadIsTrue(new)
    <3>1. ~record.torn
      BY <2>4 DEF TurnInv, LinesAreTimed
    <3>2. t.to = Size /\ MayGoOn(t.n, t.size, t.since) /\ t.since <= delivery /\ t.low <= Finished(t.since)
      BY <2>4, <1>5, <1>1 DEF ReadIsTrue
    <3>3. CountedForward(t) = Finished(t.since)
      BY <3>1, <3>2, <1>2, <1>4, ForwardIsWhole DEF CountedForward
    <3>4. MayGoOn(Finished(t.since), Size, t.since)
      BY <3>1, <1>2, WholeGoesOn
    <3>5. Finished(t.since) \in Nat
      BY <1>2, FinishedNat
    <3> QED
      BY <3>2, <3>3, <3>4, <3>5, <2>1 DEF ReadIsTrue, CheckpointIsTrue
  <2>5. readers' = [readers EXCEPT ![r] = new]
    BY <1>6, <2>1 DEF ReaderTo
  <2> QED
    BY <2>3, <2>4, <2>5, <1>1, ReaderMoves DEF TurnInv, TurnTypeOK
<1>7. CASE ReaderTo(r, [at |-> "tail", since |-> t.since, low |-> t.low, n |-> t.n, size |-> t.size])
  <2>1. PICK new : new = [at |-> "tail", since |-> t.since, low |-> t.low, n |-> t.n, size |-> t.size]
    OBVIOUS
  <2>2. new \in TurnReads
    BY <2>1, <1>4 DEF TurnReads, Plainly
  <2>3. TurnPlain => ReadIsTrue(new)
    BY <2>1, <1>5, <1>1 DEF ReadIsTrue, CheckpointIsTrue
  <2>4. readers' = [readers EXCEPT ![r] = new]
    BY <1>7, <2>1 DEF ReaderTo
  <2> QED
    BY <2>2, <2>3, <2>4, <1>1, ReaderMoves DEF TurnInv, TurnTypeOK
<1> QED
  BY <1>1, <1>6, <1>7

(* It counts the tail, or falls back on the count that it has.              *)
LEMMA ReadTailIsTrue ==
  ASSUME TurnInv, ReadTail
  PROVE  TurnInv'
<1>1. PICK r \in TurnReaders, t \in AllReaders :
         /\ t = readers[r] /\ t.at = "tail"
         /\ \/ /\ ReachesBack(t.since)
               /\ ReaderTo(r, [t EXCEPT !.at = "restat", !.n = TurnsIn(FirstWhole, Size, t.since)])
               /\ UNCHANGED answer
            \/ /\ ~ReachesBack(t.since) \/ TurnMay("fail")
               /\ t.size > 0 /\ Answered(r, t.n, 0)
            \/ readers' = [readers EXCEPT ![r] = NotReading] /\ UNCHANGED answer
         /\ UNCHANGED <<turnEnv, record, appended, delivery, mark>>
  BY DEF ReadTail, AllReaders
<1>2. TurnTypeOK
  BY DEF TurnInv
<1>3. t \in TurnReads
  BY <1>1, <1>2, ReaderIs
<1>4. t.since \in Nat /\ t.low \in Nat /\ t.n \in Nat /\ t.size \in Nat
  BY <1>3, ReadFields
<1>5. TurnPlain => ReadIsTrue(t) /\ LinesAreTimed /\ ~record.torn
  BY <1>1, ReaderHas DEF TurnInv, LinesAreTimed
<1>6. CASE /\ ReachesBack(t.since)
           /\ ReaderTo(r, [t EXCEPT !.at = "restat", !.n = TurnsIn(FirstWhole, Size, t.since)])
           /\ UNCHANGED answer
  <2>1. PICK n \in Nat : n = TurnsIn(FirstWhole, Size, t.since)
    BY <1>2, TurnsNat
  <2>2. PICK new : new = [t EXCEPT !.at = "restat", !.n = n]
    OBVIOUS
  <2>3. new \in TurnReads /\ new.at = "restat" /\ new.since = t.since /\ new.low = t.low /\ new.n = n
    BY <2>1, <2>2, <1>1, <1>3 DEF TurnReads, Plainly
  <2>4. ASSUME TurnPlain PROVE ReadIsTrue(new)
    <3>1. n = Finished(t.since)
      BY <2>1, <2>4, <1>2, <1>4, <1>5, <1>6, TailIsWhole
    <3> QED
      BY <3>1, <2>3, <2>4, <1>5 DEF ReadIsTrue
  <2>5. readers' = [readers EXCEPT ![r] = new]
    BY <1>6, <2>1, <2>2 DEF ReaderTo
  <2> QED
    BY <2>3, <2>4, <2>5, <1>1, <1>6, ReaderMoves DEF TurnInv, TurnTypeOK
<1>7. CASE (~ReachesBack(t.since) \/ TurnMay("fail")) /\ t.size > 0 /\ Answered(r, t.n, 0)
  <2>1. answer' = [turns |-> t.n, low |-> 0, high |-> Finished(t.since)]
    BY <1>7, <1>1 DEF Answered
  <2>2. answer' \in [turns : Nat, low : Nat, high : Nat]
    BY <2>1, <1>2, <1>4, FinishedNat
  <2>3. ASSUME TurnPlain PROVE t.n <= Finished(t.since)
    <3>1. ~StartedAnew
      <4>1. CASE TurnMay("fail")
        BY <4>1, <2>3 DEF TurnPlain, StartedAnew
      <4>2. CASE ~ReachesBack(t.since)
        <5>1. TailStart # 0
          BY <4>2 DEF ReachesBack
        <5>2. Size # 0
          BY <5>1, <2>3, <1>2, <1>5, TailStartIs
        <5> QED
          BY <5>2, <2>3, <1>2, <1>5, WholeSize DEF StartedAnew
      <4> QED
        BY <4>1, <4>2, <1>7
    <3>2. MayGoOn(t.n, t.size, t.since)
      BY <3>1, <2>3, <1>5, <1>1, <1>7, <1>4 DEF ReadIsTrue, CheckpointIsTrue
    <3> QED
      BY <3>2, <2>3, <1>2, <1>5, GoesOnIs
  <2>4. readers' = [readers EXCEPT ![r] = NotReading]
    BY <1>7 DEF Answered
  <2>5. TurnPlain => answer'.low <= answer'.turns /\ answer'.turns <= answer'.high
    BY <2>1, <2>3, <1>4
  <2>6. mark' \in [at : Nat, count : Nat, size : Nat]
    BY <1>1, <1>2 DEF TurnTypeOK
  <2>7. TurnPlain => mark'.at <= delivery /\ CheckpointIsTrue(mark'.count, mark'.size, mark'.at)
    BY <1>1 DEF TurnInv
  <2> QED
    BY <2>2, <2>4, <2>5, <2>6, <2>7, <1>1, ReaderMoves
<1>8. CASE readers' = [readers EXCEPT ![r] = NotReading] /\ UNCHANGED answer
  BY <1>1, <1>8, ReaderMoves DEF TurnInv, TurnTypeOK
<1> QED
  BY <1>1, <1>6, <1>7, <1>8

(* Only now does it look at the size that goes with the count.              *)
LEMMA ReadSizeAgainIsTrue ==
  ASSUME TurnInv, ReadSizeAgain
  PROVE  TurnInv'
<1>1. PICK r \in TurnReaders, t \in AllReaders :
         /\ t = readers[r] /\ t.at = "restat"
         /\ \E size \in {Size} \cup (IF TurnMay("fail") THEN {0} ELSE {}) :
               ReaderTo(r, [readers[r] EXCEPT !.size = size, !.at = "save"])
         /\ UNCHANGED <<turnEnv, record, appended, delivery, mark, answer>>
  BY DEF ReadSizeAgain, AllReaders
<1>2. PICK size \in {Size, 0} : ReaderTo(r, [t EXCEPT !.size = size, !.at = "save"])
  BY <1>1
<1>3. TurnTypeOK
  BY DEF TurnInv
<1>4. t \in TurnReads
  BY <1>1, <1>3, ReaderIs
<1>5. size \in Nat
  <2>1. Len(record.lines) \in Nat /\ (record.torn => Len(record.lines) > 0)
    BY <1>3 DEF TurnTypeOK
  <2>2. Size \in Nat
    BY <2>1 DEF Size
  <2> QED
    BY <2>2, <1>2
<1>6. PICK new : new = [t EXCEPT !.size = size, !.at = "save"]
  OBVIOUS
<1>7. new \in TurnReads /\ new.at = "save" /\ new.since = t.since /\ new.low = t.low
      /\ new.n = t.n /\ new.size = size
  BY <1>1, <1>4, <1>5, <1>6 DEF TurnReads, Plainly
<1>8. ASSUME TurnPlain PROVE ReadIsTrue(new)
  <2>1. ReadIsTrue(t) /\ ~record.torn
    BY <1>8, <1>1, ReaderHas DEF TurnInv, LinesAreTimed
  <2>2. t.n = Finished(t.since) /\ t.low <= Finished(t.since) /\ t.since <= delivery
    BY <2>1, <1>1 DEF ReadIsTrue
  <2>3. MayGoOn(Finished(t.since), Size, t.since)
    BY <2>1, <1>3, WholeGoesOn
  <2>4. Finished(t.since) \in Nat
    BY <1>3, FinishedNat
  <2> QED
    BY <2>2, <2>3, <2>4, <1>7 DEF ReadIsTrue, CheckpointIsTrue
<1>9. readers' = [readers EXCEPT ![r] = new]
  BY <1>2, <1>6 DEF ReaderTo
<1> QED
  BY <1>1, <1>7, <1>8, <1>9, ReaderMoves DEF TurnInv, TurnTypeOK

(* It answers, and leaves what it found for the next.                       *)
LEMMA SaveCountIsTrue ==
  ASSUME TurnInv, SaveCount
  PROVE  TurnInv'
<1>1. PICK r \in TurnReaders, t \in AllReaders :
         /\ t = readers[r] /\ t.at = "save" /\ mark' = Refreshed(t) /\ Answered(r, t.n, t.low)
         /\ UNCHANGED <<turnEnv, record, appended, delivery>>
  BY DEF SaveCount, AllReaders
<1>2. TurnTypeOK
  BY DEF TurnInv
<1>3. t \in TurnReads
  BY <1>1, <1>2, ReaderIs
<1>4. t.since \in Nat /\ t.low \in Nat /\ t.n \in Nat /\ t.size \in Nat
  BY <1>3, ReadFields
<1>5. TurnPlain => ReadIsTrue(t)
  BY <1>1, ReaderHas
<1>6. answer' = [turns |-> t.n, low |-> t.low, high |-> Finished(t.since)]
  BY <1>1 DEF Answered
<1>7. answer' \in [turns : Nat, low : Nat, high : Nat]
  BY <1>6, <1>2, <1>4, FinishedNat
<1>8. TurnPlain => answer'.low <= answer'.turns /\ answer'.turns <= answer'.high
  BY <1>6, <1>5, <1>1 DEF ReadIsTrue
<1>9. mark \in [at : Nat, count : Nat, size : Nat]
  BY <1>2 DEF TurnTypeOK
<1>10. \/ mark' = mark
       \/ mark.at = t.since /\ mark' = [mark EXCEPT !.count = t.n, !.size = t.size]
  BY <1>1 DEF Refreshed
<1>11. mark' \in [at : Nat, count : Nat, size : Nat]
  BY <1>4, <1>9, <1>10
<1>12. ASSUME TurnPlain
       PROVE  mark'.at <= delivery /\ CheckpointIsTrue(mark'.count, mark'.size, mark'.at)
  <2>1. CASE mark' = mark
    BY <2>1, <1>12 DEF TurnInv
  <2>2. CASE mark.at = t.since /\ mark' = [mark EXCEPT !.count = t.n, !.size = t.size]
    <3>1. mark'.at = t.since /\ mark'.count = t.n /\ mark'.size = t.size
      BY <2>2, <1>9
    <3>2. t.since <= delivery /\ CheckpointIsTrue(t.n, t.size, t.since)
      BY <1>12, <1>5, <1>1 DEF ReadIsTrue
    <3> QED
      BY <3>1, <3>2
  <2> QED
    BY <2>1, <2>2, <1>10
<1>13. readers' = [readers EXCEPT ![r] = NotReading]
  BY <1>1 DEF Answered
<1> QED
  BY <1>1, <1>7, <1>8, <1>11, <1>12, <1>13, ReaderMoves

-----------------------------------------------------------------------------
(* TurnCounts: the runtime, the deliveries, and all together                *)

(* A line more: what a checkpoint says is not disturbed, and more turns are *)
(* finished.                                                                *)
LEMMA LineMore ==
  ASSUME TurnTypeOK, LinesAreTimed, NEW x \in TurnLines, x.time = delivery,
         record' = [lines |-> Append(record.lines, x), torn |-> FALSE]
  PROVE  /\ Size <= Size'
         /\ \A n, size, since : since \in Nat /\ since <= delivery /\ MayGoOn(n, size, since)
                                   => MayGoOn(n, size, since)'
         /\ \A since : /\ Finished(since) \in Nat /\ Finished(since)' \in Nat
                       /\ Finished(since) <= Finished(since)'
<1>1. PICK lines, more : lines = record.lines /\ more = Append(lines, x)
  OBVIOUS
<1>2. /\ lines \in Seq(TurnLines) /\ Len(lines) \in Nat /\ DOMAIN lines = 1 .. Len(lines)
      /\ Size = 2 * Len(lines) /\ delivery \in Nat
  BY <1>1, WholeSize DEF LinesAreTimed, TurnTypeOK
<1>3. /\ more \in Seq(TurnLines) /\ Len(more) = Len(lines) + 1 /\ DOMAIN more = 1 .. Len(more)
      /\ more[Len(more)] = x /\ \A k \in DOMAIN lines : more[k] = lines[k]
  BY <1>1, <1>2
<1>4. record'.lines = more /\ ~record'.torn
  BY <1>1
<1>5. Size' = 2 * Len(more)
  <2>1. Size' = 2 * Len(more) - 0
    BY <1>4 DEF Size
  <2> QED
    BY <2>1, <1>2, <1>3
<1>6. \A from, to, since : to \in Nat /\ to <= Size =>
         CountedIn(more, from, to, since) = CountedIn(lines, from, to, since)
  <2> SUFFICES ASSUME NEW from, NEW to \in Nat, to <= Size, NEW since
               PROVE  CountedIn(more, from, to, since) = CountedIn(lines, from, to, since)
    OBVIOUS
  <2>1. \A k \in DOMAIN more : 2 * k <= to => k \in DOMAIN lines
    BY <1>2, <1>3
  <2>2. DOMAIN lines \subseteq DOMAIN more
    BY <1>2, <1>3
  <2> QED
    BY <2>1, <2>2, <1>3 DEF CountedIn
<1>7. \A from, to, since : TurnsIn(from, to, since)' = Cardinality(CountedIn(more, from, to, since))
  BY <1>4 DEF TurnsIn, CountedIn
<1>8. \A n, size, since : since \in Nat /\ since <= delivery /\ MayGoOn(n, size, since) => MayGoOn(n, size, since)'
  <2> SUFFICES ASSUME NEW n, NEW size, NEW since \in Nat, since <= delivery, MayGoOn(n, size, since)
               PROVE  MayGoOn(n, size, since)'
    OBVIOUS
  <2>1. PICK half \in 0 .. Len(lines) : size = 2 * half
    BY <1>1 DEF MayGoOn
  <2>2. half \in 0 .. Len(more) /\ size \in Nat /\ size <= Size
    BY <2>1, <1>2, <1>3
  <2>3. n = TurnsIn(0, size, since)'
    <3>1. n = Cardinality(CountedIn(lines, 0, size, since))
      BY <1>1, TurnsAre DEF MayGoOn
    <3> QED
      BY <3>1, <2>2, <1>6, <1>7
  <2>4. \A k \in DOMAIN more : 2 * (k - 1) >= size => more[k].time >= since
    <3>1. \A k \in DOMAIN lines : 2 * (k - 1) >= size => lines[k].time >= since
      BY <1>1 DEF MayGoOn
    <3>2. \A k \in DOMAIN more : k \in DOMAIN lines \/ k = Len(more)
      BY <1>2, <1>3
    <3>3. x.time >= since
      BY <1>2
    <3> QED
      BY <3>1, <3>2, <3>3, <1>3
  <2> QED
    BY <2>1, <2>2, <2>3, <2>4, <1>4 DEF MayGoOn
<1>9. \A since : Finished(since) \in Nat /\ Finished(since)' \in Nat /\ Finished(since) <= Finished(since)'
  <2> SUFFICES ASSUME NEW since
               PROVE  Finished(since) \in Nat /\ Finished(since)' \in Nat /\ Finished(since) <= Finished(since)'
    OBVIOUS
  <2>1. CountedIn(lines, 0, Size, since) \subseteq CountedIn(more, 0, 2 * Len(more), since)
    BY <1>2, <1>3 DEF CountedIn
  <2>2. Cardinality(CountedIn(lines, 0, Size, since)) <= Cardinality(CountedIn(more, 0, 2 * Len(more), since))
    BY <2>1, <1>3, FewerCount
  <2>3. Finished(since) = Cardinality(CountedIn(lines, 0, Size, since))
    BY <1>1, TurnsAre DEF Finished
  <2>4. Finished(since)' = Cardinality(CountedIn(more, 0, 2 * Len(more), since))
    BY <1>5, <1>7 DEF Finished
  <2>5. /\ Cardinality(CountedIn(lines, 0, Size, since)) \in Nat
        /\ Cardinality(CountedIn(more, 0, 2 * Len(more), since)) \in Nat
    BY <1>2, <1>3, CountIs
  <2> QED
    BY <2>2, <2>3, <2>4, <2>5
<1> QED
  BY <1>2, <1>3, <1>5, <1>8, <1>9

(* The runtime writes a line.                                               *)
LEMMA RuntimeAppendsIsTrue ==
  ASSUME TurnInv, RuntimeAppends
  PROVE  TurnInv'
<1>1. PICK turn \in BOOLEAN, torn \in BOOLEAN :
         /\ ~record.torn /\ appended < turnEnv.lines
         /\ torn => TurnMay("torn")
         /\ BetweenLooks => TurnMay("meanwhile")
         /\ record' = [lines |-> Append(record.lines, [turn |-> turn, time |-> delivery]), torn |-> torn]
         /\ appended' = appended + 1
         /\ UNCHANGED <<turnEnv, delivery, mark, readers, answer>>
  BY DEF RuntimeAppends
<1>2. TurnTypeOK
  BY DEF TurnInv
<1>3. PICK x \in TurnLines : x = [turn |-> turn, time |-> delivery]
  BY <1>2 DEF TurnLines, TurnTypeOK
<1>4. /\ Append(record.lines, x) \in Seq(TurnLines) /\ Len(Append(record.lines, x)) = Len(record.lines) + 1
      /\ Len(record.lines) \in Nat
  BY <1>2 DEF TurnTypeOK
<1>5. TurnTypeOK'
  <2>1. record' \in [lines : Seq(TurnLines), torn : BOOLEAN] /\ Len(record'.lines) > 0
    BY <1>1, <1>3, <1>4
  <2> QED
    BY <2>1, <1>1, <1>2 DEF TurnTypeOK, TurnReaders
<1>6. ASSUME TurnPlain
      PROVE  /\ LinesAreTimed'
             /\ mark.at <= delivery /\ CheckpointIsTrue(mark.count, mark.size, mark.at)'
             /\ \A t \in AllReaders : t # NotReading => ReadIsTrue(t)'
  <2>1. LinesAreTimed /\ record' = [lines |-> Append(record.lines, x), torn |-> FALSE]
    BY <1>1, <1>3, <1>6 DEF TurnInv, TurnPlain
  <2>2. /\ \A n, size, since : since \in Nat /\ since <= delivery /\ MayGoOn(n, size, since)
                                  => MayGoOn(n, size, since)'
        /\ \A since : /\ Finished(since) \in Nat /\ Finished(since)' \in Nat
                      /\ Finished(since) <= Finished(since)'
    BY <2>1, <1>2, <1>3, LineMore
  <2>3. ~StartedAnew
    <3>1. appended \in Nat /\ turnEnv.lines \in Nat
      BY <1>2, TurnAssumption DEF TurnTypeOK
    <3> QED
      BY <3>1, <1>1 DEF StartedAnew
  <2>4. \A n, size, since : since \in Nat /\ since <= delivery /\ CheckpointIsTrue(n, size, since)
                               => CheckpointIsTrue(n, size, since)'
    BY <2>2, <2>3 DEF CheckpointIsTrue
  <2>5. LinesAreTimed'
    <3>1. PICK more : more = Append(record.lines, x)
      OBVIOUS
    <3>2. /\ DOMAIN more = 1 .. (Len(record.lines) + 1) /\ more[Len(record.lines) + 1] = x
          /\ \A k \in 1 .. Len(record.lines) : more[k] = record.lines[k]
      BY <3>1, <1>2, <1>3 DEF TurnTypeOK
    <3>3. x.time = delivery /\ delivery \in Nat
      BY <1>2, <1>3 DEF TurnTypeOK
    <3>4. \A k \in 1 .. Len(record.lines) :
             /\ more[k].time <= delivery
             /\ \A j \in 1 .. k : more[j].time <= more[k].time
      <4> SUFFICES ASSUME NEW k \in 1 .. Len(record.lines)
                   PROVE  /\ more[k].time <= delivery
                          /\ \A j \in 1 .. k : more[j].time <= more[k].time
        OBVIOUS
      <4>1. k \in DOMAIN record.lines /\ \A j \in 1 .. k : j \in 1 .. Len(record.lines)
        BY <1>4, <2>1, <1>2, WholeSize DEF LinesAreTimed
      <4> QED
        BY <4>1, <3>2, <2>1 DEF LinesAreTimed
    <3>5. \A k \in DOMAIN more :
             /\ more[k].time <= delivery
             /\ \A j \in 1 .. k : more[j].time <= more[k].time
      <4> SUFFICES ASSUME NEW k \in DOMAIN more
                   PROVE  /\ more[k].time <= delivery
                          /\ \A j \in 1 .. k : more[j].time <= more[k].time
        OBVIOUS
      <4>1. CASE k \in 1 .. Len(record.lines)
        BY <4>1, <3>4
      <4>2. CASE k = Len(record.lines) + 1
        <5>1. \A j \in 1 .. k : j = k \/ j \in 1 .. Len(record.lines)
          BY <4>2, <1>4
        <5> QED
          BY <5>1, <4>2, <3>2, <3>3, <3>4
      <4> QED
        BY <4>1, <4>2, <3>2, <1>4
    <3> QED
      BY <3>1, <3>5, <2>1, <1>1 DEF LinesAreTimed
  <2>6. mark.at <= delivery /\ CheckpointIsTrue(mark.count, mark.size, mark.at)'
    <3>1. PICK m : m = mark
      OBVIOUS
    <3>2. m.at \in Nat /\ m.at <= delivery /\ CheckpointIsTrue(m.count, m.size, m.at)
      BY <3>1, <1>2, <1>6 DEF TurnInv, TurnTypeOK
    <3>3. CheckpointIsTrue(m.count, m.size, m.at)'
      BY <3>2, <2>4
    <3> QED
      BY <3>1, <3>2, <3>3, <1>1
  <2>7. ASSUME NEW t \in AllReaders, t # NotReading PROVE ReadIsTrue(t)'
    <3>1. t \in TurnReads /\ ReadIsTrue(t)
      BY <2>7, <1>2, <1>6 DEF TurnInv, TurnTypeOK, AllReaders
    <3>2. t.since \in Nat /\ t.low \in Nat /\ t.n \in Nat
      BY <3>1, ReadFields
    <3>3. t.at \notin {"forward", "restat"}
      BY <2>7, <1>1, <1>6 DEF AllReaders, BetweenLooks, TurnPlain
    <3>4. t.low <= Finished(t.since)' /\ (t.n <= Finished(t.since) => t.n <= Finished(t.since)')
      <4>1. Finished(t.since) \in Nat /\ Finished(t.since)' \in Nat
        BY <2>2
      <4>2. Finished(t.since) <= Finished(t.since)'
        BY <2>2
      <4> QED
        BY <4>1, <4>2, <3>1, <3>2 DEF ReadIsTrue
    <3> QED
      BY <3>1, <3>2, <3>3, <3>4, <2>4, <1>1 DEF ReadIsTrue
  <2> QED
    BY <2>5, <2>6, <2>7
<1>7. TurnPlain' = TurnPlain /\ AllReaders' = AllReaders
  BY <1>1 DEF TurnPlain, TurnMay, AllReaders, TurnReaders
<1> QED
  BY <1>1, <1>5, <1>6, <1>7 DEF TurnInv

(* It ends a line that was half written.                                    *)
LEMMA RuntimeEndsLineIsTrue ==
  ASSUME TurnInv, RuntimeEndsLine
  PROVE  TurnInv'
<1>1. record.torn /\ record' = [record EXCEPT !.torn = FALSE]
      /\ UNCHANGED <<turnEnv, appended, delivery, mark, readers, answer>>
  BY DEF RuntimeEndsLine
<1>2. TurnTypeOK'
  <2>1. record' \in [lines : Seq(TurnLines), torn : BOOLEAN] /\ ~record'.torn
    BY <1>1 DEF TurnInv, TurnTypeOK
  <2> QED
    BY <2>1, <1>1 DEF TurnInv, TurnTypeOK, TurnReaders
<1>3. ~TurnPlain'
  BY <1>1 DEF TurnInv, LinesAreTimed, TurnPlain, TurnMay
<1> QED
  BY <1>2, <1>3 DEF TurnInv

(* It starts its record anew.                                               *)
LEMMA RuntimeRotatesIsTrue ==
  ASSUME TurnInv, RuntimeRotates
  PROVE  TurnInv'
<1>1. /\ TurnMay("rotate") /\ appended = turnEnv.lines
      /\ record' = [lines |-> <<>>, torn |-> FALSE]
      /\ \A r \in TurnReaders : readers[r] = NotReading
      /\ answer' = NoAnswer
      /\ UNCHANGED <<turnEnv, appended, delivery, mark, readers>>
  BY DEF RuntimeRotates
<1>2. TurnTypeOK'
  <2>1. <<>> \in Seq(TurnLines)
    OBVIOUS
  <2> QED
    BY <2>1, <1>1 DEF TurnInv, TurnTypeOK, TurnReaders, NoAnswer
<1>3. StartedAnew'
  BY <1>1 DEF StartedAnew, TurnMay
<1>4. LinesAreTimed'
  <2>1. DOMAIN record'.lines = {}
    BY <1>1
  <2> QED
    BY <2>1, <1>1 DEF LinesAreTimed
<1>5. CheckpointIsTrue(mark.count, mark.size, mark.at)'
  BY <1>3 DEF CheckpointIsTrue
<1>6. (\A t \in AllReaders : t = NotReading)'
  BY <1>1 DEF AllReaders, TurnReaders
<1>7. TurnPlain' => (mark.at <= delivery)'
  BY <1>1 DEF TurnInv, TurnPlain, TurnMay
<1>8. (answer.low <= answer.turns /\ answer.turns <= answer.high)'
  BY <1>1 DEF NoAnswer
<1> QED
  BY <1>2, <1>4, <1>5, <1>6, <1>7, <1>8 DEF TurnInv

(* The mark is another one.                                                 *)
LEMMA MarkMoves ==
  ASSUME TurnInv, UNCHANGED <<turnEnv, record, appended, readers, answer>>,
         delivery' \in Nat, delivery' >= delivery, NEW at \in Nat, at <= delivery', mark' = [NoDelivery EXCEPT !.at = at]
  PROVE  TurnInv'
<1>1. TurnTypeOK
  BY DEF TurnInv
<1>2. TurnTypeOK' /\ mark'.at = at /\ mark'.size = 0
  BY <1>1 DEF TurnTypeOK, TurnReaders, NoDelivery
<1>3. TurnPlain' = TurnPlain
  BY <1>1, StandsStill
<1>4. ASSUME TurnPlain
      PROVE  LinesAreTimed' /\ (\A t \in AllReaders : t # NotReading => ReadIsTrue(t))'
  <2>1. LinesAreTimed'
    BY <1>1, <1>4, StandsStill DEF TurnInv
  <2>2. \A t \in AllReaders : t # NotReading => t \in TurnReads /\ ReadIsTrue(t)
    BY <1>1, <1>4 DEF TurnInv, TurnTypeOK, AllReaders
  <2>3. \A t \in AllReaders : t # NotReading => ReadIsTrue(t)'
    BY <2>2, <1>1, StandsStill
  <2>4. AllReaders' = AllReaders
    BY DEF AllReaders, TurnReaders
  <2> QED
    BY <2>1, <2>3, <2>4
<1>5. CheckpointIsTrue(mark.count, mark.size, mark.at)'
  BY <1>2 DEF CheckpointIsTrue
<1>6. TurnPlain => (answer.low <= answer.turns /\ answer.turns <= answer.high)'
  BY DEF TurnInv
<1> QED
  BY <1>2, <1>3, <1>4, <1>5, <1>6 DEF TurnInv

(* The invariant holds in every behaviour.                                  *)
THEOREM TurnInvariantHolds == TurnSpec => []TurnInv
<1>1. TurnInit => TurnInv
  <2> SUFFICES ASSUME TurnInit PROVE TurnInv
    OBVIOUS
  <2>1. TurnTypeOK
    <3>1. <<>> \in Seq(TurnLines)
      OBVIOUS
    <3> QED
      BY <3>1 DEF TurnInit, TurnTypeOK, NoDelivery, NoAnswer
  <2>2. LinesAreTimed
    <3>1. record = [lines |-> <<>>, torn |-> FALSE] /\ DOMAIN record.lines = {}
      BY DEF TurnInit
    <3> QED
      BY <3>1 DEF LinesAreTimed
  <2>3. mark.at <= delivery /\ CheckpointIsTrue(mark.count, mark.size, mark.at)
    BY DEF TurnInit, NoDelivery, CheckpointIsTrue
  <2>4. \A t \in AllReaders : t = NotReading
    BY DEF TurnInit, AllReaders
  <2>5. answer.low <= answer.turns /\ answer.turns <= answer.high
    BY DEF TurnInit, NoAnswer
  <2> QED
    BY <2>1, <2>2, <2>3, <2>4, <2>5 DEF TurnInv
<1>2. TurnInv /\ [TurnNext]_turnVars => TurnInv'
  <2> SUFFICES ASSUME TurnInv, [TurnNext]_turnVars PROVE TurnInv'
    OBVIOUS
  <2>1. CASE RuntimeAppends
    BY <2>1, RuntimeAppendsIsTrue
  <2>2. CASE RuntimeEndsLine
    BY <2>2, RuntimeEndsLineIsTrue
  <2>3. CASE RuntimeRotates
    BY <2>3, RuntimeRotatesIsTrue
  <2>4. CASE Deliver
    <3>1. delivery \in Nat
      BY DEF TurnInv, TurnTypeOK
    <3>2. delivery' = delivery + 1 /\ mark' = [NoDelivery EXCEPT !.at = delivery + 1]
          /\ UNCHANGED <<turnEnv, record, appended, readers, answer>>
      BY <2>4 DEF Deliver
    <3>3. delivery' \in Nat /\ delivery' >= delivery /\ delivery + 1 \in Nat /\ delivery + 1 <= delivery'
      BY <3>1, <3>2
    <3> QED
      BY <3>2, <3>3, MarkMoves
  <2>5. CASE Forget
    <3>1. delivery \in Nat
      BY DEF TurnInv, TurnTypeOK
    <3>2. mark' = [NoDelivery EXCEPT !.at = 0] /\ UNCHANGED <<turnEnv, record, appended, delivery, readers, answer>>
      BY <2>5 DEF Forget, NoDelivery
    <3>3. delivery' \in Nat /\ delivery' >= delivery /\ 0 \in Nat /\ 0 <= delivery'
      BY <3>1, <3>2
    <3> QED
      BY <3>2, <3>3, MarkMoves
  <2>6. CASE ReadMark
    BY <2>6, ReadMarkIsTrue
  <2>7. CASE ReadSize
    BY <2>7, ReadSizeIsTrue
  <2>8. CASE ReadForward
    BY <2>8, ReadForwardIsTrue
  <2>9. CASE ReadTail
    BY <2>9, ReadTailIsTrue
  <2>10. CASE ReadSizeAgain
    BY <2>10, ReadSizeAgainIsTrue
  <2>11. CASE SaveCount
    BY <2>11, SaveCountIsTrue
  <2>12. CASE UNCHANGED turnVars
    <3>1. UNCHANGED <<turnEnv, record, appended, delivery, mark, readers, answer>>
      BY <2>12 DEF turnVars
    <3>2. TurnTypeOK /\ delivery' \in Nat /\ delivery' >= delivery
      BY <3>1 DEF TurnInv, TurnTypeOK
    <3>3. TurnTypeOK'
      BY <3>1, <3>2 DEF TurnTypeOK, TurnReaders
    <3>4. ASSUME TurnPlain
          PROVE  /\ LinesAreTimed'
                 /\ (mark.at <= delivery /\ CheckpointIsTrue(mark.count, mark.size, mark.at))'
                 /\ (\A t \in AllReaders : t # NotReading => ReadIsTrue(t))'
      <4>1. LinesAreTimed'
        BY <3>1, <3>2, <3>4, StandsStill DEF TurnInv
      <4>2. PICK m : m = mark
        OBVIOUS
      <4>3. CheckpointIsTrue(m.count, m.size, m.at)' /\ m.at <= delivery
        BY <3>1, <3>2, <3>4, <4>2, StandsStill DEF TurnInv
      <4>4. \A t \in AllReaders : t # NotReading => t \in TurnReads /\ ReadIsTrue(t)
        BY <3>2, <3>4 DEF TurnInv, TurnTypeOK, AllReaders
      <4>5. \A t \in AllReaders : t # NotReading => ReadIsTrue(t)'
        BY <4>4, <3>1, <3>2, StandsStill
      <4>6. AllReaders' = AllReaders
        BY <3>1 DEF AllReaders, TurnReaders
      <4> QED
        BY <4>1, <4>2, <4>3, <4>5, <4>6, <3>1
    <3>5. TurnPlain' = TurnPlain
      BY <3>1, <3>2, StandsStill
    <3> QED
      BY <3>1, <3>3, <3>4, <3>5 DEF TurnInv
  <2> QED
    BY <2>1, <2>2, <2>3, <2>4, <2>5, <2>6, <2>7, <2>8, <2>9, <2>10, <2>11, <2>12 DEF TurnNext
<1> QED
  BY <1>1, <1>2, PTL DEF TurnSpec

(* Types, in every environment.                                             *)
THEOREM TurnTypeCorrect == TurnSpec => []TurnTypeOK
<1>1. TurnInv => TurnTypeOK
  BY DEF TurnInv
<1> QED
  BY <1>1, TurnInvariantHolds, PTL

(* A reader answers with no fewer turns than had ended when it began, or    *)
(* repeats the last count, and with no more than have ended now, and the    *)
(* checkpoint it leaves holds the turns up to its size (turnsFor), where no *)
(* reader meets half a line or a record that grows between its looks.       *)
THEOREM TurnsAreAlwaysTrue == TurnSpec /\ []TurnPlain => []TurnsAreTrue
<1>1. TurnInv /\ TurnPlain => TurnsAreTrue
  <2> SUFFICES ASSUME TurnInv, TurnPlain PROVE TurnsAreTrue
    OBVIOUS
  <2>1. TurnTypeOK /\ ~record.torn
    BY DEF TurnInv, LinesAreTimed
  <2>2. ASSUME mark.size \in 1 .. Size PROVE mark.count = TurnsIn(0, mark.size, mark.at)
    <3>1. mark.size # 0
      BY <2>2, <2>1, WholeSize
    <3>2. ~StartedAnew
      BY <2>2, <2>1, WholeSize DEF StartedAnew
    <3> QED
      BY <3>1, <3>2 DEF TurnInv, CheckpointIsTrue, MayGoOn
  <2> QED
    BY <2>2 DEF TurnInv, TurnsAreTrue
<1> QED
  BY <1>1, TurnInvariantHolds, PTL

-----------------------------------------------------------------------------
(* QuestionAnswers: the inductive invariant                                 *)

QuestionKinds == {"list", "menu", "preview", "boxes", "card"}
FieldTexts == {"", "digit", "asked"}
Dialogs ==
    [q : Nat, kind : QuestionKinds \cup {"none"}, sel : 0 .. 4, ticks : SUBSET (0 .. 4), text : FieldTexts]
KeyNames == {"digit", "Enter", "Space", "Escape", "Up", "Down", "Right", "paste"}
StageKeys == [key : KeyNames, row : 0 .. 4]
AskKeys == [key : KeyNames, row : 0 .. 4, by : Nat]
TextPlans ==
    {<<"onto", "flip", "down", "type", "onto", "right">>, <<"flip", "down", "type", "onto", "right">>,
     <<"down", "type", "onto", "right">>, <<"type", "onto", "right">>, <<"onto", "right">>, <<"right">>}
TickPlans == {<<"onto", "flip", "right">>, <<"flip", "right">>, <<"right">>}
FreePlans == {<<"row", "type", "enter">>, <<"type", "enter">>, <<"enter">>}
WalkPlans == {<<"walk", "enter">>, <<"enter">>}
AskPlans ==
    TextPlans \cup TickPlans \cup FreePlans \cup WalkPlans \cup {<<"cancel">>, <<"choose">>, <<"accept">>}
Responding ==
    [at : {"stage", "await"}, n : Nat \ {0}, q : Nat, r : Responses, before : Dialogs, cur : Dialogs,
     plan : AskPlans]
Outcomes == {"refused", "submitted", "unknown"}

AskTypeOK ==
    /\ askEnv \in AskEnvironments
    /\ dialog \in Dialogs /\ tty \in Seq(AskKeys)
    /\ respond \in {Resting} \cup Responding /\ touched \in BOOLEAN
    /\ answers \subseteq [q : Nat, by : Nat, row : 0 .. 4, ticks : SUBSET CheckBoxes, text : FieldTexts]
    /\ receipts \subseteq [n : Nat \ {0}, q : Nat, r : Responses, is : Outcomes, touched : BOOLEAN]
    /\ responds \in Nat

(* Nobody else answers while a Respond is under way, it waits until its     *)
(* keys were taken, and no option is chosen from the free-text field.       *)
AskPlain == ~AskMay("late") /\ ~AskMay("meanwhile") /\ ~AskMay("field") /\ ~AskMay("row")

(* The highlight of a question is on one of its rows.                       *)
DialogIsFit(d) ==
    /\ d.kind = "none" <=> d.q = 0
    /\ d.kind \in {"list", "menu", "preview", "boxes"} => d.sel # 0
    /\ d.kind \in {"list", "menu", "preview"} => d.sel <= 3

(* The stages that are left, and what those before them have brought about. *)
TypedPlans == {<<"onto", "right">>, <<"right">>}
TicksAreSet(o) == o.cur.ticks \cap CheckBoxes = o.r.set
BoxPlan(o) ==
    /\ o.cur.kind = "boxes" /\ o.r.do = "tick"
    /\ o.plan \in IF o.r.text THEN TextPlans ELSE TickPlans
    /\ Head(o.plan) \in {"flip", "right"} => o.cur.sel \in CheckBoxes
    /\ Head(o.plan) \in {"down", "type", "right"} \/ o.plan = <<"onto", "right">> => TicksAreSet(o)
    /\ Head(o.plan) = "type" => o.cur.sel = FreeRow
    /\ o.r.text => (o.cur.text = "asked" <=> o.plan \in TypedPlans)
TextPlan(o) ==
    /\ o.cur.kind = "list" /\ o.r.do = "text" /\ o.plan \in FreePlans
    /\ Head(o.plan) \in {"type", "enter"} => o.cur.sel = FreeRow
    /\ o.cur.text = "asked" <=> Head(o.plan) = "enter"
WalkPlan(o) ==
    /\ o.cur.kind \in {"menu", "preview"} /\ o.r.do \in {"choose", "accept"} /\ WantedRow(o) \in 1 .. 3
    /\ o.plan \in WalkPlans
    /\ Head(o.plan) = "enter" => o.cur.sel = WantedRow(o)
NotInField(o) == ~(o.cur.kind = "list" /\ o.cur.sel = FreeRow)
AcceptPlan(o) ==
    /\ o.plan = <<"accept">> /\ o.cur.kind \in {"list", "menu"} /\ NotInField(o)
    /\ o.r.do = "accept" \/ (o.r.do = "choose" /\ o.r.row = o.cur.sel)
ChoosePlan(o) ==
    o.plan = <<"choose">> /\ o.r.do = "choose" /\ o.cur.kind \in {"list", "card"} /\ NotInField(o)
CancelPlan(o) == o.plan = <<"cancel">> /\ o.r.do = "cancel"

PlanIsTrue(o) ==
    /\ o.cur.q = o.q /\ o.q # 0 /\ DialogIsFit(o.cur)
    /\ CancelPlan(o) \/ BoxPlan(o) \/ TextPlan(o) \/ WalkPlan(o) \/ AcceptPlan(o) \/ ChoosePlan(o)

(* What the runtime shows when it has taken the key of a stage and the      *)
(* question is still there.                                                 *)
Shown(o) ==
    LET stage == Head(o.plan)
        cur == o.cur
    IN IF stage = "choose" \/ stage = "row" THEN [cur EXCEPT !.sel = FreeRow]
       ELSE IF stage = "onto" THEN [cur EXCEPT !.sel = @ - 1]
       ELSE IF stage = "down" THEN [cur EXCEPT !.sel = @ + 1]
       ELSE IF stage = "flip" THEN [cur EXCEPT !.ticks = SymDiff(@, {Min(Unflipped(o))})]
       ELSE IF stage = "type"
            THEN [cur EXCEPT !.text = "asked", !.ticks = IF cur.kind = "boxes" THEN @ \cup {FreeRow} ELSE @]
       ELSE IF stage = "walk" THEN [cur EXCEPT !.sel = WantedRow(o)]
       ELSE cur

(* The keys of a stage are on their way, or were taken or swallowed.        *)
SentKey(o, k) == [key |-> k.key, row |-> k.row, by |-> o.n]
OneKey(o, d, keys) ==
    \/ keys = <<SentKey(o, KeysOf(o)[1])>> /\ d = o.cur
    \/ keys = <<>> /\ d \in {o.cur, Shown(o)}
Accepting(o, d, keys) ==
    LET space == SentKey(o, KeyPress("Space"))
        enter == SentKey(o, KeyPress("Enter"))
    IN d = o.cur /\ keys \in {<<space, enter>>, <<enter>>, <<>>}
Walking(o, d, keys) ==
    /\ d = [o.cur EXCEPT !.sel = d.sel]
    /\ \/ /\ \A i \in 1 .. Len(keys) : keys[i] = SentKey(o, KeyPress("Down"))
          /\ d.sel + Len(keys) <= WantedRow(o)
       \/ /\ \A i \in 1 .. Len(keys) : keys[i] = SentKey(o, KeyPress("Up"))
          /\ d.sel >= WantedRow(o) + Len(keys)

Underway(o, d, keys) ==
    /\ o.at = "stage" => keys = <<>> /\ d = o.cur
    /\ o.at = "await" =>
          /\ ~Reached(o)
          /\ IF Head(o.plan) = "accept" THEN Accepting(o, d, keys)
             ELSE IF Head(o.plan) = "walk" /\ o.cur.kind = "menu" THEN Walking(o, d, keys)
             ELSE OneKey(o, d, keys)

(* The question has left the screen at the keys of the last stage.          *)
LastStages == {"cancel", "choose", "accept", "enter", "right"}
HasLeft(o, d, keys) == o.at = "await" /\ keys = <<>> /\ d.q # o.q /\ Head(o.plan) \in LastStages

AnswersBy(n) == {a \in answers : a.by = n}
RespondIsTrue(o) ==
    /\ o.n = responds /\ \A v \in receipts : v.n # o.n
    /\ PlanIsTrue(o)
    /\ \/ Underway(o, dialog, tty) /\ AnswersBy(o.n) = {}
       \/ /\ HasLeft(o, dialog, tty) /\ AnswersBy(o.n) # {}
          /\ \A a \in AnswersBy(o.n) : a.q = o.q /\ GivenAsAsked(o.r, a)

AskSound ==
    /\ AnsweredAsAsked /\ DialogIsFit(dialog)
    /\ \A a \in answers : a.by <= responds
    /\ \A v \in receipts : v.n <= responds
    /\ IF respond = Resting THEN tty = <<>> ELSE RespondIsTrue(respond)

AskInv == AskTypeOK /\ (AskPlain => AskSound)

-----------------------------------------------------------------------------
(* QuestionAnswers: types                                                   *)

(* The parts of a short sequence.                                           *)
LEMMA HeadIs ==
  ASSUME NEW a, NEW b, NEW c, NEW d, NEW e, NEW f
  PROVE  /\ Head(<<a>>) = a /\ Head(<<a, b>>) = a /\ Head(<<a, b, c>>) = a /\ Head(<<a, b, c, d>>) = a
         /\ Head(<<a, b, c, d, e>>) = a /\ Head(<<a, b, c, d, e, f>>) = a
         /\ Len(<<a>>) = 1 /\ Len(<<a, b>>) = 2 /\ Len(<<a, b, c>>) = 3 /\ Len(<<a, b, c, d>>) = 4
         /\ Len(<<a, b, c, d, e>>) = 5 /\ Len(<<a, b, c, d, e, f>>) = 6
  OBVIOUS

(* And what follows its head.                                               *)
LEMMA TailIs ==
  ASSUME NEW a, NEW b, NEW c, NEW d, NEW e, NEW f
  PROVE  /\ Tail(<<a>>) = <<>> /\ Tail(<<a, b>>) = <<b>> /\ Tail(<<a, b, c>>) = <<b, c>>
         /\ Tail(<<a, b, c, d>>) = <<b, c, d>> /\ Tail(<<a, b, c, d, e>>) = <<b, c, d, e>>
         /\ Tail(<<a, b, c, d, e, f>>) = <<b, c, d, e, f>>
<1>1. Tail(<<a>>) = <<>> /\ Tail(<<a, b>>) = <<b>> /\ Tail(<<a, b, c>>) = <<b, c>>
  OBVIOUS
<1>2. Tail(<<a, b, c, d>>) = <<b, c, d>>
  OBVIOUS
<1>3. Tail(<<a, b, c, d, e>>) = <<b, c, d, e>>
  OBVIOUS
<1>4. Tail(<<a, b, c, d, e, f>>) = <<b, c, d, e, f>>
  OBVIOUS
<1> QED
  BY <1>1, <1>2, <1>3, <1>4

(* A plan by its first stage, and what is left of it after that.            *)
PlanFrom(p, stage, rest) == Head(p) = stage /\ (IF rest = <<>> THEN Len(p) = 1 ELSE Len(p) # 1 /\ Tail(p) = rest)

(* The plans of a review list with a text.                                  *)
LEMMA TextPlanIs ==
  ASSUME NEW p \in TextPlans
  PROVE  \/ p = <<"onto", "flip", "down", "type", "onto", "right">> /\ PlanFrom(p, "onto", <<"flip", "down", "type", "onto", "right">>)
         \/ p = <<"flip", "down", "type", "onto", "right">> /\ PlanFrom(p, "flip", <<"down", "type", "onto", "right">>)
         \/ p = <<"down", "type", "onto", "right">> /\ PlanFrom(p, "down", <<"type", "onto", "right">>)
         \/ p = <<"type", "onto", "right">> /\ PlanFrom(p, "type", <<"onto", "right">>)
         \/ p = <<"onto", "right">> /\ PlanFrom(p, "onto", <<"right">>)
         \/ p = <<"right">> /\ PlanFrom(p, "right", <<>>)
<1>1. p = <<"onto", "flip", "down", "type", "onto", "right">> => PlanFrom(p, "onto", <<"flip", "down", "type", "onto", "right">>)
  BY HeadIs, TailIs DEF PlanFrom
<1>2. p = <<"flip", "down", "type", "onto", "right">> => PlanFrom(p, "flip", <<"down", "type", "onto", "right">>)
  BY HeadIs, TailIs DEF PlanFrom
<1>3. p = <<"down", "type", "onto", "right">> => PlanFrom(p, "down", <<"type", "onto", "right">>)
  BY HeadIs, TailIs DEF PlanFrom
<1>4. p = <<"type", "onto", "right">> => PlanFrom(p, "type", <<"onto", "right">>)
  BY HeadIs, TailIs DEF PlanFrom
<1>5. p = <<"onto", "right">> => PlanFrom(p, "onto", <<"right">>)
  BY HeadIs, TailIs DEF PlanFrom
<1>6. p = <<"right">> => PlanFrom(p, "right", <<>>)
  BY HeadIs, TailIs DEF PlanFrom
<1> QED
  BY <1>1, <1>2, <1>3, <1>4, <1>5, <1>6 DEF TextPlans

(* Of one without.                                                          *)
LEMMA TickPlanIs ==
  ASSUME NEW p \in TickPlans
  PROVE  \/ p = <<"onto", "flip", "right">> /\ PlanFrom(p, "onto", <<"flip", "right">>)
         \/ p = <<"flip", "right">> /\ PlanFrom(p, "flip", <<"right">>)
         \/ p = <<"right">> /\ PlanFrom(p, "right", <<>>)
<1>1. p = <<"onto", "flip", "right">> => PlanFrom(p, "onto", <<"flip", "right">>)
  BY HeadIs, TailIs DEF PlanFrom
<1>2. p = <<"flip", "right">> => PlanFrom(p, "flip", <<"right">>)
  BY HeadIs, TailIs DEF PlanFrom
<1>3. p = <<"right">> => PlanFrom(p, "right", <<>>)
  BY HeadIs, TailIs DEF PlanFrom
<1> QED
  BY <1>1, <1>2, <1>3 DEF TickPlans

(* Of a text for a list.                                                    *)
LEMMA FreePlanIs ==
  ASSUME NEW p \in FreePlans
  PROVE  \/ p = <<"row", "type", "enter">> /\ PlanFrom(p, "row", <<"type", "enter">>)
         \/ p = <<"type", "enter">> /\ PlanFrom(p, "type", <<"enter">>)
         \/ p = <<"enter">> /\ PlanFrom(p, "enter", <<>>)
<1>1. p = <<"row", "type", "enter">> => PlanFrom(p, "row", <<"type", "enter">>)
  BY HeadIs, TailIs DEF PlanFrom
<1>2. p = <<"type", "enter">> => PlanFrom(p, "type", <<"enter">>)
  BY HeadIs, TailIs DEF PlanFrom
<1>3. p = <<"enter">> => PlanFrom(p, "enter", <<>>)
  BY HeadIs, TailIs DEF PlanFrom
<1> QED
  BY <1>1, <1>2, <1>3 DEF FreePlans

(* Of a menu or a preview.                                                  *)
LEMMA WalkPlanIs ==
  ASSUME NEW p \in WalkPlans
  PROVE  \/ p = <<"walk", "enter">> /\ PlanFrom(p, "walk", <<"enter">>)
         \/ p = <<"enter">> /\ PlanFrom(p, "enter", <<>>)
<1>1. p = <<"walk", "enter">> => PlanFrom(p, "walk", <<"enter">>)
  BY HeadIs, TailIs DEF PlanFrom
<1>2. p = <<"enter">> => PlanFrom(p, "enter", <<>>)
  BY HeadIs, TailIs DEF PlanFrom
<1> QED
  BY <1>1, <1>2 DEF WalkPlans

(* And of those of one stage.                                               *)
LEMMA OnePlanIs ==
  ASSUME NEW stage
  PROVE  PlanFrom(<<stage>>, stage, <<>>)
  BY HeadIs DEF PlanFrom

(* What a plan begins with, and that the rest of it is a plan.              *)
LEMMA PlanIs ==
  ASSUME NEW p \in AskPlans
  PROVE  /\ Head(p) \in {"cancel", "choose", "accept", "enter", "onto", "down", "flip", "row", "type", "right", "walk"}
         /\ Len(p) = 1 <=> Head(p) \in LastStages
         /\ Len(p) # 1 => Tail(p) \in AskPlans
<1>1. ASSUME NEW stage, NEW rest \in AskPlans, PlanFrom(p, stage, rest)
      PROVE  Head(p) = stage /\ Len(p) # 1 /\ Tail(p) \in AskPlans
  <2>1. rest # <<>>
    <3>1. Len(rest) # 0
      BY HeadIs DEF AskPlans, TextPlans, TickPlans, FreePlans, WalkPlans
    <3> QED
      BY <3>1
  <2> QED
    BY <2>1, <1>1 DEF PlanFrom
<1>2. ASSUME NEW stage, PlanFrom(p, stage, <<>>) PROVE Head(p) = stage /\ Len(p) = 1
  BY <1>2 DEF PlanFrom
<1>3. CASE p \in TextPlans
  <2>1. {<<"flip", "down", "type", "onto", "right">>, <<"down", "type", "onto", "right">>, <<"type", "onto", "right">>, <<"onto", "right">>, <<"right">>} \subseteq AskPlans
    BY DEF AskPlans, TextPlans, TickPlans, FreePlans, WalkPlans
  <2> QED
    BY <2>1, <1>1, <1>2, <1>3, TextPlanIs DEF LastStages
<1>4. CASE p \in TickPlans
  <2>1. {<<"flip", "right">>, <<"right">>} \subseteq AskPlans
    BY DEF AskPlans, TextPlans, TickPlans, FreePlans, WalkPlans
  <2> QED
    BY <2>1, <1>1, <1>2, <1>4, TickPlanIs DEF LastStages
<1>5. CASE p \in FreePlans
  <2>1. {<<"type", "enter">>, <<"enter">>} \subseteq AskPlans
    BY DEF AskPlans, TextPlans, TickPlans, FreePlans, WalkPlans
  <2> QED
    BY <2>1, <1>1, <1>2, <1>5, FreePlanIs DEF LastStages
<1>6. CASE p \in WalkPlans
  <2>1. {<<"enter">>} \subseteq AskPlans
    BY DEF AskPlans, TextPlans, TickPlans, FreePlans, WalkPlans
  <2> QED
    BY <2>1, <1>1, <1>2, <1>6, WalkPlanIs DEF LastStages
<1>7. CASE p \in {<<"cancel">>, <<"choose">>, <<"accept">>}
  BY <1>7, HeadIs DEF LastStages
<1> QED
  BY <1>3, <1>4, <1>5, <1>6, <1>7 DEF AskPlans

(* A Respond that is under way.                                             *)
LEMMA RespondIs ==
  ASSUME AskTypeOK, respond.at # "idle"
  PROVE  respond \in Responding
<1>1. respond \in {Resting} \cup Responding
  BY DEF AskTypeOK
<1> QED
  BY <1>1 DEF Resting

(* The fields of one.                                                       *)
LEMMA RespondHas ==
  ASSUME NEW o \in Responding
  PROVE  /\ o.at \in {"stage", "await"} /\ o # Resting /\ o.n \in Nat /\ o.n # 0 /\ o.q \in Nat
         /\ o.r \in Responses /\ o.before \in Dialogs /\ o.cur \in Dialogs /\ o.plan \in AskPlans
<1>1. o.at # "idle" /\ Resting.at = "idle"
  BY DEF Responding, Resting
<1> QED
  BY <1>1 DEF Responding

(* The fields of what is asked for.                                         *)
LEMMA ResponseHas ==
  ASSUME NEW r \in Responses
  PROVE  /\ r.do \in {"choose", "accept", "cancel", "tick", "text"} /\ r.row \in 0 .. 3
         /\ r.set \subseteq CheckBoxes /\ r.text \in BOOLEAN
         /\ r.do = "choose" => r.row \in 1 .. 3
<1>1. {FALSE} \subseteq BOOLEAN /\ {TRUE} \subseteq BOOLEAN
  OBVIOUS
<1>2. CASE r \in [do : {"choose"}, row : 1 .. 3, set : {{}}, text : {FALSE}]
  <2>1. r.do = "choose" /\ r.row \in 1 .. 3 /\ r.set = {}
    BY <1>2
  <2>2. r.text \in BOOLEAN
    <3>1. r.text \in {FALSE}
      BY <1>2
    <3> QED
      BY <3>1, <1>1
  <2> QED
    BY <2>1, <2>2
<1>3. CASE r \in [do : {"accept", "cancel"}, row : {0}, set : {{}}, text : {FALSE}]
  <2>1. r.do \in {"accept", "cancel"} /\ r.row = 0 /\ r.set = {}
    BY <1>3
  <2>2. r.text \in BOOLEAN
    <3>1. r.text \in {FALSE}
      BY <1>3
    <3> QED
      BY <3>1, <1>1
  <2> QED
    BY <2>1, <2>2
<1>4. CASE r \in [do : {"tick"}, row : {0}, set : SUBSET CheckBoxes, text : BOOLEAN]
  BY <1>4
<1>5. CASE r \in [do : {"text"}, row : {0}, set : {{}}, text : {TRUE}]
  <2>1. r.do = "text" /\ r.row = 0 /\ r.set = {}
    BY <1>5
  <2>2. r.text \in BOOLEAN
    <3>1. r.text \in {TRUE}
      BY <1>5
    <3> QED
      BY <3>1, <1>1
  <2> QED
    BY <2>1, <2>2
<1> QED
  BY <1>2, <1>3, <1>4, <1>5 DEF Responses

(* The row that it is after.                                                *)
LEMMA WantedIs ==
  ASSUME NEW o \in Responding
  PROVE  WantedRow(o) \in 0 .. 4
<1>1. o.r.row \in 0 .. 3
  BY RespondHas, ResponseHas
<1>2. o.before.sel \in 0 .. 4
  BY RespondHas DEF Dialogs
<1> QED
  BY <1>1, <1>2 DEF WantedRow

(* The box that it ticks next.                                              *)
LEMMA NextBoxIs ==
  ASSUME NEW o, Unflipped(o) # {}
  PROVE  Min(Unflipped(o)) \in CheckBoxes /\ Min(Unflipped(o)) \in Unflipped(o)
<1>1. Unflipped(o) \subseteq {1, 2}
  BY DEF Unflipped, CheckBoxes
<1>2. \E x \in Unflipped(o) : \A y \in Unflipped(o) : x =< y
  <2>1. CASE 1 \in Unflipped(o)
    BY <2>1, <1>1
  <2>2. CASE 1 \notin Unflipped(o)
    BY <2>2, <1>1
  <2> QED
    BY <2>1, <2>2
<1>3. Min(Unflipped(o)) \in Unflipped(o)
  BY <1>2 DEF Min
<1> QED
  BY <1>1, <1>3 DEF CheckBoxes

(* The keys of a stage.                                                     *)
LEMMA KeysAre ==
  ASSUME NEW o \in Responding, ~Reached(o)
  PROVE  KeysOf(o) \in Seq(StageKeys)
<1>1. Head(o.plan) \in {"cancel", "choose", "accept", "enter", "onto", "down", "flip", "row", "type", "right", "walk"}
  BY RespondHas, PlanIs
<1>2. WantedRow(o) \in 0 .. 4 /\ o.cur.sel \in 0 .. 4
  BY WantedIs, RespondHas DEF Dialogs
<1>3. \A key \in KeyNames : KeyPress(key) \in StageKeys
  BY DEF KeyPress, StageKeys
<1>4. \A row \in 0 .. 4 : DigitKey(row) \in StageKeys
  BY DEF DigitKey, KeyNames, StageKeys
<1>5. CASE Head(o.plan) = "choose"
  <2>1. KeysOf(o) = <<DigitKey(WantedRow(o))>>
    BY <1>5 DEF KeysOf, ChooseKeys
  <2> QED
    BY <2>1, <1>2, <1>4
<1>6. CASE Head(o.plan) = "accept"
  <2>1. KeysOf(o) = <<KeyPress("Space"), KeyPress("Enter")>>
    BY <1>6 DEF KeysOf
  <2>2. KeyPress("Space") \in StageKeys /\ KeyPress("Enter") \in StageKeys
    BY <1>3 DEF KeyNames
  <2> QED
    BY <2>1, <2>2
<1>7. CASE Head(o.plan) = "flip"
  <2>1. KeysOf(o) = <<DigitKey(Min(Unflipped(o)))>>
    BY <1>7 DEF KeysOf
  <2>2. Min(Unflipped(o)) \in 0 .. 4
    BY <1>7, NextBoxIs DEF Reached, CheckBoxes
  <2> QED
    BY <2>1, <2>2, <1>4
<1>8. CASE Head(o.plan) = "row"
  <2>1. KeysOf(o) = <<DigitKey(FreeRow)>> /\ FreeRow \in 0 .. 4
    BY <1>8 DEF KeysOf, FreeRow
  <2> QED
    BY <2>1, <1>4
<1>9. CASE Head(o.plan) = "walk"
  <2>1. ASSUME NEW n \in Nat, NEW key \in KeyNames PROVE Presses(key, n) \in Seq(StageKeys)
    <3>1. KeyPress(key) \in StageKeys
      BY <1>3
    <3> QED
      BY <3>1 DEF Presses
  <2>2. CASE o.cur.kind = "preview"
    <3>1. KeysOf(o) = <<DigitKey(WantedRow(o))>>
      BY <1>9, <2>2 DEF KeysOf
    <3> QED
      BY <3>1, <1>2, <1>4
  <2>3. CASE o.cur.kind # "preview" /\ WantedRow(o) > o.cur.sel
    <3>1. KeysOf(o) = Presses("Down", WantedRow(o) - o.cur.sel)
      BY <1>9, <2>3 DEF KeysOf
    <3>2. WantedRow(o) - o.cur.sel \in Nat /\ "Down" \in KeyNames
      BY <1>2, <2>3 DEF KeyNames
    <3> QED
      BY <3>1, <3>2, <2>1
  <2>4. CASE o.cur.kind # "preview" /\ ~(WantedRow(o) > o.cur.sel)
    <3>1. KeysOf(o) = Presses("Up", o.cur.sel - WantedRow(o))
      BY <1>9, <2>4 DEF KeysOf
    <3>2. o.cur.sel - WantedRow(o) \in Nat /\ "Up" \in KeyNames
      BY <1>2, <2>4 DEF KeyNames
    <3> QED
      BY <3>1, <3>2, <2>1
  <2> QED
    BY <2>2, <2>3, <2>4
<1>10. ASSUME NEW key \in KeyNames, KeysOf(o) = <<KeyPress(key)>> PROVE KeysOf(o) \in Seq(StageKeys)
  <2>1. KeyPress(key) \in StageKeys
    BY <1>3
  <2> QED
    BY <2>1, <1>10
<1>11. CASE Head(o.plan) \in {"cancel", "enter", "onto", "down", "type", "right"}
  <2>1. \E key \in KeyNames : KeysOf(o) = <<KeyPress(key)>>
    BY <1>11 DEF KeysOf, KeyNames
  <2> QED
    BY <2>1, <1>10
<1> QED
  BY <1>1, <1>5, <1>6, <1>7, <1>8, <1>9, <1>11

-----------------------------------------------------------------------------
(* QuestionAnswers: what the runtime does with a key                        *)

AnswerSet == [q : Nat, by : Nat, row : 0 .. 4, ticks : SUBSET CheckBoxes, text : FieldTexts]

(* A question as it comes up.                                               *)
LEMMA QuestionIs ==
  ASSUME NEW q \in Nat, NEW kind \in QuestionKinds
  PROVE  /\ Question(q, kind) \in Dialogs /\ Question(q, kind).q = q
         /\ q # 0 => DialogIsFit(Question(q, kind))
<1>1. PICK sel : sel = IF kind = "card" THEN 0 ELSE 1
  OBVIOUS
<1>2. PICK d : d = [q |-> q, kind |-> kind, sel |-> sel, ticks |-> {}, text |-> ""]
  OBVIOUS
<1>3. Question(q, kind) = d
  BY <1>1, <1>2 DEF Question
<1>4. sel \in 0 .. 4 /\ (kind # "card" => sel = 1)
  BY <1>1
<1>5. d \in Dialogs
  BY <1>2, <1>4 DEF Dialogs, FieldTexts
<1>6. d.q = q /\ d.kind = kind /\ d.sel = sel
  BY <1>2
<1>7. kind # "none"
  BY DEF QuestionKinds
<1>8. q # 0 => DialogIsFit(d)
  BY <1>6, <1>7, <1>4 DEF DialogIsFit
<1> QED
  BY <1>3, <1>5, <1>6, <1>8, Zenon

(* And none.                                                                *)
LEMMA NoDialogIs == NoDialog \in Dialogs /\ NoDialog.q = 0 /\ DialogIsFit(NoDialog)
<1>1. NoDialog \in Dialogs
  BY DEF NoDialog, Dialogs, FieldTexts
<1>2. NoDialog.q = 0 /\ NoDialog.kind = "none"
  BY DEF NoDialog
<1> QED
  BY <1>1, <1>2 DEF DialogIsFit

(* A question that leaves the screen.                                       *)
LEMMA LeavesIs ==
  ASSUME AskTypeOK, NEW by \in Nat, NEW row \in 0 .. 4, LeavesBy(by, row)
  PROVE  /\ dialog' \in Dialogs /\ answers' \subseteq AnswerSet
         /\ answers' = answers \cup {[q |-> dialog.q, by |-> by, row |-> row,
                                      ticks |-> dialog.ticks \cap CheckBoxes, text |-> dialog.text]}
         /\ dialog.q # 0 => dialog'.q # dialog.q
         /\ DialogIsFit(dialog')
<1>1. dialog.q \in Nat /\ dialog.ticks \subseteq 0 .. 4 /\ dialog.text \in FieldTexts
  BY DEF AskTypeOK, Dialogs
<1>2. PICK a : a = [q |-> dialog.q, by |-> by, row |-> row,
                    ticks |-> dialog.ticks \cap CheckBoxes, text |-> dialog.text]
  OBVIOUS
<1>3. answers' = answers \cup {a}
  BY <1>2 DEF LeavesBy, MovesOn
<1>4. a \in AnswerSet
  BY <1>1, <1>2 DEF AnswerSet
<1>5. answers \subseteq AnswerSet
  BY DEF AskTypeOK, AnswerSet
<1>6. dialog' = NoDialog \/ \E kind \in askEnv.kinds : dialog' = Question(dialog.q + 1, kind)
  BY DEF LeavesBy, MovesOn
<1>8. ASSUME NEW kind \in askEnv.kinds, dialog' = Question(dialog.q + 1, kind)
      PROVE  dialog' \in Dialogs /\ dialog'.q = dialog.q + 1 /\ DialogIsFit(dialog')
  <2>1. kind \in QuestionKinds
    BY AskAssumption DEF AskTypeOK, QuestionKinds
  <2>2. dialog.q + 1 \in Nat /\ dialog.q + 1 # 0
    BY <1>1
  <2> QED
    BY <2>1, <2>2, <1>8, QuestionIs
<1>9. \A kind \in askEnv.kinds : dialog.q + 1 # dialog.q
  BY <1>1
<1>10. dialog' \in Dialogs /\ (dialog.q # 0 => dialog'.q # dialog.q) /\ DialogIsFit(dialog')
  <2>1. CASE dialog' = NoDialog
    BY <2>1, NoDialogIs
  <2>2. CASE \E kind \in askEnv.kinds : dialog' = Question(dialog.q + 1, kind)
    BY <2>2, <1>8, <1>9
  <2> QED
    BY <2>1, <2>2, <1>6
<1> QED
  BY <1>2, <1>3, <1>4, <1>5, <1>10

(* One that stays.                                                          *)
LEMMA StaysIs ==
  ASSUME AskTypeOK, NEW d \in Dialogs, StaysUp(d)
  PROVE  dialog' \in Dialogs /\ answers' \subseteq AnswerSet
  BY DEF StaysUp, AskTypeOK, AnswerSet

(* The field takes what is typed into it.                                   *)
LEMMA FieldIs ==
  ASSUME AskTypeOK, NEW text \in FieldTexts
  PROVE  FieldHolds(text) \in Dialogs
<1>1. PICK t : t = IF dialog.kind = "boxes" THEN dialog.ticks \cup {FreeRow} ELSE dialog.ticks
  OBVIOUS
<1>2. t \in SUBSET (0 .. 4)
  BY <1>1 DEF AskTypeOK, Dialogs, FreeRow
<1>3. FieldHolds(text) = [dialog EXCEPT !.text = text, !.ticks = t]
  BY <1>1 DEF FieldHolds, AskTypeOK, Dialogs
<1> QED
  BY <1>2, <1>3 DEF AskTypeOK, Dialogs

(* Types are kept.                                                          *)
LEMMA TakeKeyTyped ==
  ASSUME AskTypeOK, TakeKey
  PROVE  AskTypeOK'
<1>1. PICK k : k = Head(tty)
  OBVIOUS
<1>2. k \in AskKeys /\ Tail(tty) \in Seq(AskKeys)
  BY <1>1 DEF AskTypeOK, TakeKey
<1>3. k.by \in Nat /\ k.row \in 0 .. 4
  BY <1>2 DEF AskKeys
<1>4. dialog \in Dialogs /\ dialog.sel \in 0 .. 4 /\ dialog.ticks \subseteq 0 .. 4
  BY DEF AskTypeOK, Dialogs
<1>5. ASSUME TakesDigit(k) PROVE dialog' \in Dialogs /\ answers' \subseteq AnswerSet
  <2>1. ASSUME StaysUp([dialog EXCEPT !.sel = FreeRow]) PROVE dialog' \in Dialogs /\ answers' \subseteq AnswerSet
    <3>1. [dialog EXCEPT !.sel = FreeRow] \in Dialogs
      BY <1>4 DEF Dialogs, FreeRow
    <3> QED
      BY <3>1, <2>1, StaysIs
  <2>2. ASSUME StaysUp([dialog EXCEPT !.sel = k.row]) PROVE dialog' \in Dialogs /\ answers' \subseteq AnswerSet
    <3>1. [dialog EXCEPT !.sel = k.row] \in Dialogs
      BY <1>3, <1>4 DEF Dialogs
    <3> QED
      BY <3>1, <2>2, StaysIs
  <2>3. ASSUME StaysUp([dialog EXCEPT !.ticks = SymDiff(@, {k.row})])
        PROVE  dialog' \in Dialogs /\ answers' \subseteq AnswerSet
    <3>1. PICK t : t = SymDiff(dialog.ticks, {k.row})
      OBVIOUS
    <3>2. t \in SUBSET (0 .. 4)
      BY <3>1, <1>3, <1>4 DEF SymDiff
    <3>3. [dialog EXCEPT !.ticks = SymDiff(@, {k.row})] = [dialog EXCEPT !.ticks = t]
      BY <3>1, <1>4 DEF Dialogs
    <3>4. [dialog EXCEPT !.ticks = t] \in Dialogs
      BY <3>2, <1>4 DEF Dialogs
    <3> QED
      BY <3>3, <3>4, <2>3, StaysIs
  <2>4. StaysUp(FieldHolds("digit")) => dialog' \in Dialogs /\ answers' \subseteq AnswerSet
    BY StaysIs, FieldIs DEF FieldTexts
  <2>5. StaysUp(dialog) \/ LeavesBy(k.by, k.row) => dialog' \in Dialogs /\ answers' \subseteq AnswerSet
    BY <1>3, <1>4, StaysIs, LeavesIs
  <2> QED
    BY <2>1, <2>2, <2>3, <2>4, <2>5, <1>5 DEF TakesDigit
<1>6. ASSUME TakesEnter(k) PROVE dialog' \in Dialogs /\ answers' \subseteq AnswerSet
  <2>1. CASE StaysUp(dialog) \/ LeavesBy(k.by, dialog.sel)
    BY <2>1, <1>3, <1>4, StaysIs, LeavesIs
  <2>2. CASE LeavesBy(k.by, IF dialog.text = "" THEN 0 ELSE FreeRow)
    <3>1. PICK row \in {0, FreeRow} : LeavesBy(k.by, row)
      BY <2>2
    <3> QED
      BY <3>1, <1>3, LeavesIs DEF FreeRow
  <2> QED
    BY <2>1, <2>2, <1>6 DEF TakesEnter
<1>7. ASSUME TakesOther(k) PROVE dialog' \in Dialogs /\ answers' \subseteq AnswerSet
  <2>1. ASSUME dialog.sel > 1, StaysUp([dialog EXCEPT !.sel = @ - 1])
        PROVE  dialog' \in Dialogs /\ answers' \subseteq AnswerSet
    <3>1. [dialog EXCEPT !.sel = @ - 1] \in Dialogs
      BY <2>1, <1>4 DEF Dialogs
    <3> QED
      BY <3>1, <2>1, StaysIs
  <2>2. ASSUME dialog.sel \in 1 .. (RowCount - 1), StaysUp([dialog EXCEPT !.sel = @ + 1])
        PROVE  dialog' \in Dialogs /\ answers' \subseteq AnswerSet
    <3>1. dialog.sel + 1 \in 0 .. 4
      BY <2>2, <1>4 DEF RowCount
    <3>2. [dialog EXCEPT !.sel = @ + 1] \in Dialogs
      BY <3>1, <1>4 DEF Dialogs
    <3> QED
      BY <3>2, <2>2, StaysIs
  <2>3. StaysUp(FieldHolds("asked")) => dialog' \in Dialogs /\ answers' \subseteq AnswerSet
    BY StaysIs, FieldIs DEF FieldTexts
  <2>4. StaysUp(dialog) => dialog' \in Dialogs /\ answers' \subseteq AnswerSet
    BY <1>4, StaysIs
  <2>5. LeavesBy(k.by, 0) \/ LeavesBy(k.by, FreeRow) => dialog' \in Dialogs /\ answers' \subseteq AnswerSet
    BY <1>3, LeavesIs DEF FreeRow
  <2> QED
    BY <2>1, <2>2, <2>3, <2>4, <2>5, <1>7 DEF TakesOther
<1>8. dialog' \in Dialogs /\ answers' \subseteq AnswerSet
  BY <1>1, <1>4, <1>5, <1>6, <1>7, StaysIs DEF TakeKey
<1> QED
  BY <1>1, <1>2, <1>8 DEF TakeKey, AskTypeOK, AnswerSet

(* The steps of a Respond keep the types.                                   *)
LEMMA RespondTyped ==
  ASSUME AskTypeOK, Respond
  PROVE  AskTypeOK'
<1>1. PICK r \in Responses, nonce \in {NoNonce, held} : RefuseRespond(r, nonce) \/ BeginRespond(r, nonce)
  BY DEF Respond
<1>2. responds' = responds + 1 /\ responds \in Nat /\ dialog \in Dialogs /\ dialog.q \in Nat
      /\ UNCHANGED <<askEnv, dialog, tty, held, answers>>
  BY DEF Respond, AskTypeOK, Dialogs
<1>3. responds' \in Nat \ {0}
  BY <1>2
<1>4. CASE RefuseRespond(r, nonce)
  <2>1. PICK v : v = [n |-> responds', q |-> dialog.q, r |-> r, is |-> "refused", touched |-> FALSE]
    OBVIOUS
  <2>2. respond' = Resting /\ receipts' = receipts \cup {v} /\ touched' = touched
    BY <1>4, <2>1 DEF RefuseRespond, Receipt
  <2>3. v \in [n : Nat \ {0}, q : Nat, r : Responses, is : Outcomes, touched : BOOLEAN]
    BY <2>1, <1>2, <1>3 DEF Outcomes
  <2> QED
    BY <2>2, <2>3, <1>2, <1>3 DEF AskTypeOK
<1>5. CASE BeginRespond(r, nonce)
  <2>1. PICK o : o = [at |-> "stage", n |-> responds', q |-> dialog.q, r |-> r, before |-> dialog,
                      cur |-> dialog, plan |-> Stages(dialog, r)]
    OBVIOUS
  <2>2. respond' = o /\ touched' = FALSE /\ UNCHANGED receipts
    BY <1>5, <2>1 DEF BeginRespond
  <2>3. Stages(dialog, r) \in AskPlans
    BY DEF Stages, AskPlans, TextPlans, TickPlans, FreePlans, WalkPlans
  <2>4. o \in Responding
    BY <2>1, <2>3, <1>2, <1>3 DEF Responding
  <2> QED
    BY <2>2, <2>4, <1>2, <1>3 DEF AskTypeOK
<1> QED
  BY <1>1, <1>4, <1>5

(* A receipt of one that is under way.                                      *)
LEMMA ReceiptTyped ==
  ASSUME AskTypeOK, respond.at # "idle", NEW outcome \in Outcomes, Receipt(respond, outcome, touched),
         UNCHANGED <<askEnv, dialog, tty, held, touched, answers, responds>>
  PROVE  AskTypeOK'
<1>1. PICK v : v = [n |-> respond.n, q |-> respond.q, r |-> respond.r, is |-> outcome, touched |-> touched]
  OBVIOUS
<1>2. respond' = Resting /\ receipts' = receipts \cup {v}
  BY <1>1 DEF Receipt
<1>3. v \in [n : Nat \ {0}, q : Nat, r : Responses, is : Outcomes, touched : BOOLEAN]
  BY <1>1, RespondIs, RespondHas DEF AskTypeOK
<1> QED
  BY <1>2, <1>3 DEF AskTypeOK

(* A stage that is done.                                                    *)
LEMMA SkipStageTyped ==
  ASSUME AskTypeOK, SkipStage
  PROVE  AskTypeOK'
<1>1. PICK o : o = respond
  OBVIOUS
<1>2. o \in Responding /\ o.plan \in AskPlans
  BY <1>1, RespondIs, RespondHas DEF SkipStage
<1>3. Head(o.plan) \notin LastStages
  BY <1>1 DEF SkipStage, Reached, LastStages
<1>4. Tail(o.plan) \in AskPlans
  BY <1>2, <1>3, PlanIs
<1>5. respond' = [o EXCEPT !.plan = Tail(o.plan)]
  BY <1>1, <1>2 DEF SkipStage, Responding
<1>6. respond' \in Responding
  BY <1>2, <1>4, <1>5 DEF Responding
<1> QED
  BY <1>6 DEF SkipStage, AskTypeOK

(* The keys of one.                                                         *)
LEMMA PressStageTyped ==
  ASSUME AskTypeOK, PressStage
  PROVE  /\ AskTypeOK'
         /\ \E sent \in Seq(AskKeys) :
               /\ sent = [i \in DOMAIN KeysOf(respond) |-> SentKey(respond, KeysOf(respond)[i])]
               /\ tty' = tty \o sent
<1>1. PICK o : o = respond
  OBVIOUS
<1>2. o \in Responding /\ ~Reached(o) /\ o.n \in Nat
  BY <1>1, RespondIs, RespondHas DEF PressStage
<1>3. KeysOf(o) \in Seq(StageKeys)
  BY <1>2, KeysAre
<1>4. PICK sent : sent = [i \in DOMAIN KeysOf(o) |-> SentKey(o, KeysOf(o)[i])]
  OBVIOUS
<1>5. sent \in Seq(AskKeys)
  <2>1. PICK keys \in Seq(StageKeys) : keys = KeysOf(o)
    BY <1>3
  <2>2. \A k \in StageKeys : SentKey(o, k) \in AskKeys
    BY <1>2 DEF SentKey, AskKeys, StageKeys
  <2>3. \A i \in 1 .. Len(keys) : SentKey(o, keys[i]) \in AskKeys
    <3>1. \A i \in 1 .. Len(keys) : keys[i] \in StageKeys
      BY <2>1
    <3> QED
      BY <3>1, <2>2, Zenon
  <2>4. DOMAIN keys = 1 .. Len(keys) /\ Len(keys) \in Nat
    BY <2>1
  <2> QED
    BY <2>1, <2>3, <2>4, <1>4
<1>6. tty' = tty \o sent
  BY <1>1, <1>4 DEF PressStage, SentKey
<1>7. respond' = [o EXCEPT !.at = "await"] /\ touched' = TRUE
      /\ UNCHANGED <<askEnv, dialog, held, answers, receipts, responds>>
  BY <1>1 DEF PressStage
<1>8. respond' \in Responding
  BY <1>2, <1>7 DEF Responding
<1>9. tty' \in Seq(AskKeys)
  BY <1>5, <1>6 DEF AskTypeOK
<1> QED
  BY <1>1, <1>4, <1>5, <1>6, <1>7, <1>8, <1>9 DEF AskTypeOK

(* A look at the screen.                                                    *)
LEMMA LookBackTyped ==
  ASSUME AskTypeOK, LookBack
  PROVE  AskTypeOK'
<1>1. PICK o : o = respond
  OBVIOUS
<1>2. o \in Responding /\ o.plan \in AskPlans /\ o.at # "idle"
  BY <1>1, RespondIs, RespondHas DEF LookBack
<1>3. UNCHANGED <<askEnv, dialog, tty, held, touched, answers, responds>>
  BY DEF LookBack
<1>4. CASE \E outcome \in Outcomes : Receipt(respond, outcome, touched)
  BY <1>1, <1>2, <1>3, <1>4, ReceiptTyped
<1>5. CASE /\ ~LastStage(o)
           /\ respond' = [respond EXCEPT !.at = "stage", !.cur = dialog,
                             !.plan = IF Head(@) \in {"onto", "down", "flip"} THEN @ ELSE Tail(@)]
           /\ UNCHANGED receipts
  <2>1. PICK plan : plan = IF Head(o.plan) \in {"onto", "down", "flip"} THEN o.plan ELSE Tail(o.plan)
    OBVIOUS
  <2>2. plan \in AskPlans
    BY <2>1, <1>2, <1>5, PlanIs DEF LastStage
  <2>3. respond' = [o EXCEPT !.at = "stage", !.cur = dialog, !.plan = plan]
    BY <2>1, <1>1, <1>2, <1>5 DEF Responding
  <2>4. respond' \in Responding
    BY <2>2, <2>3, <1>2 DEF Responding, AskTypeOK
  <2> QED
    BY <2>4, <1>3, <1>5 DEF AskTypeOK
<1> QED
  BY <1>1, <1>4, <1>5 DEF LookBack, Outcomes

(* Types, in every environment.                                             *)
THEOREM AskTypeCorrect == AskSpec => []AskTypeOK
<1>1. AskInit => AskTypeOK
  <2> SUFFICES ASSUME AskInit PROVE AskTypeOK
    OBVIOUS
  <2>1. PICK kind \in askEnv.kinds : dialog = Question(1, kind)
    BY DEF AskInit
  <2>2. kind \in QuestionKinds
    BY AskAssumption DEF AskInit, QuestionKinds
  <2>3. dialog \in Dialogs
    BY <2>1, <2>2, QuestionIs
  <2>4. <<>> \in Seq(AskKeys)
    OBVIOUS
  <2> QED
    BY <2>3, <2>4 DEF AskInit, AskTypeOK
<1>2. AskTypeOK /\ [AskNext]_askVars => AskTypeOK'
  <2> SUFFICES ASSUME AskTypeOK, [AskNext]_askVars PROVE AskTypeOK'
    OBVIOUS
  <2>1. CASE PersonAnswers
    <3>1. dialog' \in Dialogs /\ answers' \subseteq AnswerSet
      BY <2>1, LeavesIs DEF PersonAnswers
    <3> QED
      BY <3>1, <2>1 DEF PersonAnswers, AskTypeOK, AnswerSet
  <2>2. CASE ReadState \/ UNCHANGED askVars
    BY <2>2 DEF ReadState, askVars, AskTypeOK
  <2>3. CASE PasteRefused \/ WindowOver
    <3>1. respond.at # "idle" /\ UNCHANGED <<askEnv, dialog, tty, held, touched, answers, responds>>
      BY <2>3 DEF PasteRefused, WindowOver
    <3>2. \E outcome \in Outcomes : Receipt(respond, outcome, touched)
      BY <2>3 DEF PasteRefused, WindowOver, Outcomes
    <3> QED
      BY <3>1, <3>2, ReceiptTyped
  <2> QED
    BY <2>1, <2>2, <2>3, TakeKeyTyped, RespondTyped, SkipStageTyped, PressStageTyped, LookBackTyped DEF AskNext
<1> QED
  BY <1>1, <1>2, PTL DEF AskSpec

-----------------------------------------------------------------------------
(* QuestionAnswers: the plan of a Respond and the key of a stage            *)

(* What the stage tells of the plan.                                        *)
LEMMA StageIs ==
  ASSUME NEW o \in Responding, PlanIsTrue(o)
  PROVE  /\ Head(o.plan) = "cancel" => CancelPlan(o)
         /\ Head(o.plan) = "choose" => ChoosePlan(o)
         /\ Head(o.plan) = "accept" => AcceptPlan(o)
         /\ Head(o.plan) = "enter" => TextPlan(o) \/ WalkPlan(o)
         /\ Head(o.plan) \in {"onto", "flip", "down", "right"} => BoxPlan(o)
         /\ Head(o.plan) = "row" => TextPlan(o)
         /\ Head(o.plan) = "type" => BoxPlan(o) \/ TextPlan(o)
         /\ Head(o.plan) = "walk" => WalkPlan(o)
<1>1. CancelPlan(o) => Head(o.plan) = "cancel"
  BY HeadIs DEF CancelPlan
<1>2. ChoosePlan(o) => Head(o.plan) = "choose"
  BY HeadIs DEF ChoosePlan
<1>3. AcceptPlan(o) => Head(o.plan) = "accept"
  BY HeadIs DEF AcceptPlan
<1>4. BoxPlan(o) => Head(o.plan) \in {"onto", "flip", "down", "type", "right"}
  <2>1. CASE o.plan \in TextPlans
    BY <2>1, TextPlanIs DEF PlanFrom
  <2>2. CASE o.plan \in TickPlans
    BY <2>2, TickPlanIs DEF PlanFrom
  <2> QED
    BY <2>1, <2>2 DEF BoxPlan
<1>5. TextPlan(o) => Head(o.plan) \in {"row", "type", "enter"}
  BY FreePlanIs DEF TextPlan, PlanFrom
<1>6. WalkPlan(o) => Head(o.plan) \in {"walk", "enter"}
  BY WalkPlanIs DEF WalkPlan, PlanFrom
<1> QED
  BY <1>1, <1>2, <1>3, <1>4, <1>5, <1>6 DEF PlanIsTrue

(* The runtime takes a key, unless it swallows it.                          *)
Taken(k) ==
    \/ k.key = "digit" /\ TakesDigit(k)
    \/ k.key = "Enter" /\ TakesEnter(k)
    \/ k.key \notin {"digit", "Enter"} /\ TakesOther(k)

(* The question stays as it was or as the stage wants it, or it leaves with *)
(* the answer that was asked for.                                           *)
Fits(o, row) ==
    LET a == [q |-> dialog.q, by |-> o.n, row |-> row, ticks |-> dialog.ticks \cap CheckBoxes, text |-> dialog.text]
    IN GivenAsAsked(o.r, a)
Lands(o) ==
    \/ StaysUp(o.cur) \/ StaysUp(Shown(o))
    \/ Head(o.plan) \in LastStages /\ \E row \in 0 .. 4 : LeavesBy(o.n, row) /\ Fits(o, row)

(* What an answer has to be, for each thing that is asked.                  *)
LEMMA FitsIs ==
  ASSUME NEW o \in Responding, NEW row
  PROVE  /\ o.r.do = "cancel" => (Fits(o, row) <=> row = 0)
         /\ o.r.do = "tick" => (Fits(o, row) <=> /\ row # 0 /\ dialog.ticks \cap CheckBoxes = o.r.set
                                                 /\ o.r.text => dialog.text = "asked")
         /\ o.r.do = "text" => (Fits(o, row) <=> row = FreeRow /\ dialog.text = "asked")
         /\ o.r.do = "choose" => (Fits(o, row) <=> row = o.r.row)
         /\ o.r.do = "accept" => (Fits(o, row) <=> row # 0)
<1>1. PICK a : a = [q |-> dialog.q, by |-> o.n, row |-> row, ticks |-> dialog.ticks \cap CheckBoxes, text |-> dialog.text]
  OBVIOUS
<1>2. a.row = row /\ a.ticks = dialog.ticks \cap CheckBoxes /\ a.text = dialog.text
  BY <1>1
<1>3. Fits(o, row) <=> GivenAsAsked(o.r, a)
  BY <1>1 DEF Fits
<1> QED
  BY <1>2, <1>3 DEF GivenAsAsked

(* The key of a stage, as it is on its way.                                 *)
LEMMA KeyIs ==
  ASSUME NEW o \in Responding, NEW key, KeysOf(o) = <<KeyPress(key)>>, NEW k, k = SentKey(o, KeysOf(o)[1])
  PROVE  k.key = key /\ k.by = o.n
  BY DEF SentKey, KeyPress

(* A digit.                                                                 *)
LEMMA DigitIs ==
  ASSUME NEW o \in Responding, NEW row, KeysOf(o) = <<DigitKey(row)>>, NEW k, k = SentKey(o, KeysOf(o)[1])
  PROVE  k.key = "digit" /\ k.row = row /\ k.by = o.n
  BY DEF SentKey, DigitKey

(* Escape declines the dialog.                                              *)
LEMMA CancelLands ==
  ASSUME NEW o \in Responding, PlanIsTrue(o), dialog = o.cur, Head(o.plan) = "cancel",
         NEW k, k = SentKey(o, KeysOf(o)[1]), Taken(k)
  PROVE  Lands(o)
<1>1. KeysOf(o) = <<KeyPress("Escape")>>
  BY DEF KeysOf
<1>2. k.key = "Escape" /\ k.by = o.n
  BY <1>1, KeyIs
<1>3. dialog.kind # "none"
  BY DEF PlanIsTrue, DialogIsFit
<1>4. LeavesBy(o.n, 0)
  BY <1>2, <1>3 DEF Taken, TakesOther
<1>5. Fits(o, 0)
  BY StageIs, FitsIs DEF CancelPlan
<1> QED
  BY <1>4, <1>5 DEF Lands, LastStages

(* A digit chooses.                                                         *)
LEMMA ChooseLands ==
  ASSUME NEW o \in Responding, PlanIsTrue(o), dialog = o.cur, Head(o.plan) = "choose",
         NEW k, k = SentKey(o, KeysOf(o)[1]), Taken(k)
  PROVE  Lands(o)
<1>1. o.r.do = "choose" /\ o.cur.kind \in {"list", "card"} /\ NotInField(o)
  BY StageIs DEF ChoosePlan
<1>2. WantedRow(o) = o.r.row /\ o.r.row \in 1 .. 3
  BY <1>1, RespondHas, ResponseHas DEF WantedRow
<1>3. KeysOf(o) = <<DigitKey(WantedRow(o))>>
  BY DEF KeysOf, ChooseKeys
<1>4. k.key = "digit" /\ k.row = o.r.row /\ k.by = o.n
  BY <1>2, <1>3, DigitIs
<1>5. dialog.sel \in 0 .. 4
  BY RespondHas DEF Dialogs
<1>6. ~InField
  BY <1>1, <1>5 DEF InField, NotInField, PlanIsTrue, DialogIsFit, FreeRow
<1>7. StaysUp([dialog EXCEPT !.sel = FreeRow]) \/ LeavesBy(o.n, o.r.row)
  BY <1>1, <1>4, <1>6 DEF Taken, TakesDigit
<1>8. Shown(o) = [dialog EXCEPT !.sel = FreeRow]
  BY DEF Shown
<1>9. Fits(o, o.r.row)
  BY <1>1, FitsIs
<1>10. o.r.row \in 0 .. 4
  BY <1>2
<1> QED
  BY <1>7, <1>8, <1>9, <1>10 DEF Lands, LastStages

(* Enter gives the text, or the highlighted row.                            *)
LEMMA EnterLands ==
  ASSUME NEW o \in Responding, PlanIsTrue(o), dialog = o.cur, Head(o.plan) = "enter",
         NEW k, k = SentKey(o, KeysOf(o)[1]), Taken(k)
  PROVE  Lands(o)
<1>1. KeysOf(o) = <<KeyPress("Enter")>>
  BY DEF KeysOf
<1>2. k.key = "Enter" /\ k.by = o.n
  BY <1>1, KeyIs
<1>3. TakesEnter(k)
  BY <1>2 DEF Taken
<1>4. CASE TextPlan(o)
  <2>1. dialog.kind = "list" /\ dialog.sel = FreeRow /\ dialog.text = "asked" /\ o.r.do = "text"
    BY <1>4 DEF TextPlan
  <2>2. LeavesBy(o.n, FreeRow)
    BY <2>1, <1>2, <1>3 DEF TakesEnter, InField, FreeRow
  <2>3. Fits(o, FreeRow) /\ FreeRow \in 0 .. 4
    BY <2>1, FitsIs DEF FreeRow
  <2> QED
    BY <2>2, <2>3 DEF Lands, LastStages
<1>5. CASE WalkPlan(o)
  <2>1. dialog.kind \in {"menu", "preview"} /\ dialog.sel = WantedRow(o) /\ WantedRow(o) \in 1 .. 3
        /\ o.r.do \in {"choose", "accept"}
    BY <1>5 DEF WalkPlan
  <2>2. LeavesBy(o.n, dialog.sel)
    BY <2>1, <1>2, <1>3 DEF TakesEnter, InField
  <2>3. Fits(o, dialog.sel)
    BY <2>1, FitsIs DEF WantedRow
  <2>4. dialog.sel \in 0 .. 4
    BY <2>1
  <2> QED
    BY <2>2, <2>3, <2>4 DEF Lands, LastStages
<1> QED
  BY <1>4, <1>5, StageIs

(* Right hands the ticks over.                                              *)
LEMMA RightLands ==
  ASSUME NEW o \in Responding, PlanIsTrue(o), dialog = o.cur, Head(o.plan) = "right",
         NEW k, k = SentKey(o, KeysOf(o)[1]), Taken(k)
  PROVE  Lands(o)
<1>1. KeysOf(o) = <<KeyPress("Right")>>
  BY DEF KeysOf
<1>2. k.key = "Right" /\ k.by = o.n
  BY <1>1, KeyIs
<1>3. BoxPlan(o)
  BY StageIs
<1>4. dialog.kind = "boxes" /\ o.r.do = "tick" /\ dialog.sel \in CheckBoxes /\ dialog.ticks \cap CheckBoxes = o.r.set
  BY <1>3 DEF BoxPlan, TicksAreSet
<1>5. o.r.text => dialog.text = "asked"
  <2> SUFFICES ASSUME o.r.text PROVE dialog.text = "asked"
    OBVIOUS
  <2>1. o.plan \in TextPlans
    BY <1>3 DEF BoxPlan
  <2>2. o.plan = <<"right">>
    BY <2>1, TextPlanIs DEF PlanFrom
  <2> QED
    BY <2>2, <1>3 DEF BoxPlan, TypedPlans
<1>6. LeavesBy(o.n, FreeRow)
  BY <1>2, <1>4 DEF Taken, TakesOther
<1>7. Fits(o, FreeRow) /\ FreeRow \in 0 .. 4
  BY <1>4, <1>5, FitsIs DEF FreeRow
<1> QED
  BY <1>6, <1>7 DEF Lands, LastStages

(* The arrows move the highlight of a review list.                          *)
LEMMA ArrowLands ==
  ASSUME NEW o \in Responding, PlanIsTrue(o), ~Reached(o), dialog = o.cur, Head(o.plan) \in {"onto", "down"},
         NEW k, k = SentKey(o, KeysOf(o)[1]), Taken(k)
  PROVE  Lands(o)
<1>1. BoxPlan(o) /\ dialog.kind = "boxes" /\ dialog.sel # 0 /\ dialog.sel \in 0 .. 4 /\ dialog \in Dialogs
  BY StageIs, RespondHas DEF BoxPlan, PlanIsTrue, DialogIsFit, Dialogs
<1>2. CASE Head(o.plan) = "onto"
  <2>1. KeysOf(o) = <<KeyPress("Up")>>
    BY <1>2 DEF KeysOf
  <2>2. k.key = "Up" /\ k.by = o.n
    BY <2>1, KeyIs
  <2>3. StaysUp([dialog EXCEPT !.sel = @ - 1]) \/ StaysUp(dialog)
    BY <1>1, <2>2 DEF Taken, TakesOther
  <2>4. Shown(o) = [dialog EXCEPT !.sel = @ - 1]
    BY <1>2 DEF Shown
  <2> QED
    BY <2>3, <2>4 DEF Lands
<1>3. CASE Head(o.plan) = "down"
  <2>1. KeysOf(o) = <<KeyPress("Down")>>
    BY <1>3 DEF KeysOf
  <2>2. k.key = "Down" /\ k.by = o.n
    BY <2>1, KeyIs
  <2>3. StaysUp([dialog EXCEPT !.sel = @ + 1]) \/ StaysUp(dialog)
    BY <1>1, <2>2 DEF Taken, TakesOther
  <2>4. Shown(o) = [dialog EXCEPT !.sel = @ + 1]
    BY <1>3 DEF Shown
  <2> QED
    BY <2>3, <2>4 DEF Lands
<1> QED
  BY <1>2, <1>3

(* A digit ticks a box, or goes to the free-text row.                       *)
LEMMA DigitLands ==
  ASSUME NEW o \in Responding, PlanIsTrue(o), ~Reached(o), dialog = o.cur,
         Head(o.plan) \in {"flip", "row", "walk"}, Head(o.plan) = "walk" => o.cur.kind = "preview",
         NEW k, k = SentKey(o, KeysOf(o)[1]), Taken(k)
  PROVE  Lands(o)
<1>1. dialog.sel \in 0 .. 4 /\ dialog \in Dialogs
  BY RespondHas DEF Dialogs
<1>2. CASE Head(o.plan) = "flip"
  <2>1. KeysOf(o) = <<DigitKey(Min(Unflipped(o)))>>
    BY <1>2 DEF KeysOf
  <2>2. k.key = "digit" /\ k.row = Min(Unflipped(o))
    BY <2>1, DigitIs
  <2>3. dialog.kind = "boxes" /\ dialog.sel \in CheckBoxes
    BY <1>2, StageIs DEF BoxPlan
  <2>4. ~InField
    BY <2>3 DEF InField, CheckBoxes, FreeRow
  <2>5. StaysUp([dialog EXCEPT !.ticks = SymDiff(@, {k.row})])
    BY <2>2, <2>3, <2>4 DEF Taken, TakesDigit
  <2>6. Shown(o) = [dialog EXCEPT !.ticks = SymDiff(@, {Min(Unflipped(o))})]
    BY <1>2 DEF Shown
  <2> QED
    BY <2>2, <2>5, <2>6 DEF Lands
<1>3. CASE Head(o.plan) = "row"
  <2>1. KeysOf(o) = <<DigitKey(FreeRow)>>
    BY <1>3 DEF KeysOf
  <2>2. k.key = "digit" /\ k.row = FreeRow
    BY <2>1, DigitIs
  <2>3. dialog.kind = "list" /\ dialog.sel # FreeRow /\ dialog.sel <= 3
    BY <1>3, StageIs DEF TextPlan, PlanIsTrue, DialogIsFit, Reached
  <2>4. ~InField
    BY <2>3, <1>1 DEF InField, FreeRow
  <2>5. StaysUp([dialog EXCEPT !.sel = FreeRow])
    BY <2>2, <2>3, <2>4 DEF Taken, TakesDigit
  <2>6. Shown(o) = [dialog EXCEPT !.sel = FreeRow]
    BY <1>3 DEF Shown
  <2> QED
    BY <2>5, <2>6 DEF Lands
<1>4. CASE Head(o.plan) = "walk"
  <2>1. KeysOf(o) = <<DigitKey(WantedRow(o))>>
    BY <1>4 DEF KeysOf
  <2>2. k.key = "digit" /\ k.row = WantedRow(o)
    BY <2>1, DigitIs
  <2>3. StaysUp([dialog EXCEPT !.sel = WantedRow(o)])
    BY <2>2, <1>4 DEF Taken, TakesDigit, InField
  <2>4. Shown(o) = [dialog EXCEPT !.sel = WantedRow(o)]
    BY <1>4 DEF Shown
  <2> QED
    BY <2>3, <2>4 DEF Lands
<1> QED
  BY <1>2, <1>3, <1>4

(* A paste fills the field.                                                 *)
LEMMA PasteLands ==
  ASSUME NEW o \in Responding, PlanIsTrue(o), dialog = o.cur, Head(o.plan) = "type",
         NEW k, k = SentKey(o, KeysOf(o)[1]), Taken(k)
  PROVE  Lands(o)
<1>1. KeysOf(o) = <<KeyPress("paste")>>
  BY DEF KeysOf
<1>2. k.key = "paste" /\ k.by = o.n
  BY <1>1, KeyIs
<1>3. InField
  BY StageIs DEF BoxPlan, TextPlan, InField, FreeRow
<1>4. StaysUp(FieldHolds("asked"))
  BY <1>2, <1>3 DEF Taken, TakesOther, InField
<1>5. Shown(o) = FieldHolds("asked")
  BY DEF Shown, FieldHolds
<1> QED
  BY <1>4, <1>5 DEF Lands

(* The key of any stage but those that send more than one.                  *)
LEMMA KeyLands ==
  ASSUME NEW o \in Responding, PlanIsTrue(o), ~Reached(o), dialog = o.cur,
         Head(o.plan) # "accept", Head(o.plan) = "walk" => o.cur.kind # "menu",
         NEW k, k = SentKey(o, KeysOf(o)[1]), Taken(k)
  PROVE  Lands(o)
<1>1. Head(o.plan) = "walk" => o.cur.kind = "preview"
  BY StageIs DEF WalkPlan
<1>2. Head(o.plan) \in {"cancel", "choose", "enter", "onto", "down", "flip", "row", "type", "right", "walk"}
  BY RespondHas, PlanIs
<1> QED
  BY <1>1, <1>2, CancelLands, ChooseLands, EnterLands, RightLands, ArrowLands, DigitLands, PasteLands

-----------------------------------------------------------------------------
(* QuestionAnswers: the keys keep the invariant                             *)

(* A stage is always about the question that was on screen.                 *)
LEMMA ShownIs ==
  ASSUME NEW o \in Responding, PlanIsTrue(o), ~Reached(o)
  PROVE  DialogIsFit(Shown(o)) /\ Shown(o).q = o.q /\ Nonce(o.cur).q = o.q
<1>1. o.cur \in Dialogs /\ o.cur.sel \in 0 .. 4 /\ DialogIsFit(o.cur) /\ o.cur.q = o.q
  BY RespondHas DEF Dialogs, PlanIsTrue
<1>2. PICK d : d = Shown(o)
  OBVIOUS
<1>3. d.q = o.q /\ d.kind = o.cur.kind
  <2>1. PICK e : e = o.cur
    OBVIOUS
  <2>2. e \in Dialogs
    BY <2>1, <1>1
  <2> QED
    BY <2>1, <2>2, <1>1, <1>2 DEF Shown, Dialogs
<1>4. Nonce(o.cur).q = o.q
  BY <1>1 DEF Nonce
<1>5. Head(o.plan) \in {"cancel", "choose", "accept", "enter", "onto", "down", "flip", "row", "type", "right", "walk"}
  BY RespondHas, PlanIs
<1>6. DialogIsFit(d)
  <2>1. CASE Head(o.plan) \in {"choose", "row"}
    <3>1. d.sel = 3 /\ o.cur.kind \in {"list", "card"}
      BY <2>1, <1>1, <1>2, StageIs DEF Shown, ChoosePlan, TextPlan, Dialogs, FreeRow
    <3> QED
      BY <3>1, <1>1, <1>3 DEF DialogIsFit
  <2>2. CASE Head(o.plan) = "onto"
    <3>1. d.sel = o.cur.sel - 1 /\ o.cur.kind = "boxes" /\ o.cur.sel \notin CheckBoxes
      BY <2>2, <1>1, <1>2, StageIs DEF Shown, BoxPlan, Dialogs, Reached
    <3> QED
      BY <3>1, <1>1, <1>3 DEF DialogIsFit, CheckBoxes
  <2>3. CASE Head(o.plan) = "down"
    <3>1. d.sel = o.cur.sel + 1 /\ o.cur.kind = "boxes"
      BY <2>3, <1>1, <1>2, StageIs DEF Shown, BoxPlan, Dialogs
    <3> QED
      BY <3>1, <1>1, <1>3 DEF DialogIsFit
  <2>4. CASE Head(o.plan) = "walk"
    <3>1. d.sel = WantedRow(o) /\ o.cur.kind \in {"menu", "preview"} /\ WantedRow(o) \in 1 .. 3
      BY <2>4, <1>1, <1>2, StageIs DEF Shown, WalkPlan, Dialogs
    <3> QED
      BY <3>1, <1>1, <1>3 DEF DialogIsFit
  <2>5. CASE Head(o.plan) \in {"cancel", "accept", "enter", "right", "flip", "type"}
    <3>1. d.sel = o.cur.sel
      BY <2>5, <1>1, <1>2 DEF Shown, Dialogs
    <3> QED
      BY <3>1, <1>1, <1>3 DEF DialogIsFit
  <2> QED
    BY <1>5, <2>1, <2>2, <2>3, <2>4, <2>5
<1> QED
  BY <1>2, <1>3, <1>4, <1>6

(* What a key of the Respond under way may bring about.                     *)
KeyTold(o) ==
    \/ Underway(o, dialog', tty') /\ UNCHANGED answers
    \/ /\ HasLeft(o, dialog', tty')
       /\ \E a \in AnswerSet : /\ answers' = answers \cup {a}
                               /\ a.by = o.n /\ a.q = o.q /\ GivenAsAsked(o.r, a)

(* The question leaves with the answer that was asked for.                  *)
LEMMA LeftIsTold ==
  ASSUME AskTypeOK, NEW o \in Responding, PlanIsTrue(o), o.at = "await", dialog.q = o.q,
         Head(o.plan) \in LastStages, tty' = <<>>,
         NEW row \in 0 .. 4, LeavesBy(o.n, row), Fits(o, row)
  PROVE  KeyTold(o) /\ DialogIsFit(dialog')
<1>1. PICK a : a = [q |-> dialog.q, by |-> o.n, row |-> row, ticks |-> dialog.ticks \cap CheckBoxes, text |-> dialog.text]
  OBVIOUS
<1>2. o.n \in Nat /\ dialog.q # 0
  BY RespondHas DEF PlanIsTrue
<1>3. answers' = answers \cup {a} /\ dialog'.q # dialog.q /\ DialogIsFit(dialog')
  BY <1>1, <1>2, LeavesIs
<1>4. a.by = o.n /\ a.q = o.q
  BY <1>1
<1>5. GivenAsAsked(o.r, a)
  BY <1>1 DEF Fits
<1>6. HasLeft(o, dialog', tty')
  BY <1>3 DEF HasLeft
<1>7. a \in AnswerSet
  <2>1. dialog.q \in Nat /\ dialog.text \in FieldTexts /\ dialog.ticks \cap CheckBoxes \in SUBSET CheckBoxes
    BY DEF AskTypeOK, Dialogs
  <2> QED
    BY <2>1, <1>1, <1>2 DEF AnswerSet
<1> QED
  BY <1>3, <1>4, <1>5, <1>6, <1>7 DEF KeyTold

(* The key of a stage that sends one.                                       *)
LEMMA OneKeyTold ==
  ASSUME AskTypeOK, NEW o \in Responding, PlanIsTrue(o), ~Reached(o), o.at = "await", TakeKey, DialogIsFit(dialog),
         Head(o.plan) # "accept", Head(o.plan) = "walk" => o.cur.kind # "menu", OneKey(o, dialog, tty)
  PROVE  KeyTold(o) /\ DialogIsFit(dialog')
<1>1. PICK k : k = SentKey(o, KeysOf(o)[1])
  OBVIOUS
<1>2. tty = <<k>> /\ dialog = o.cur
  BY <1>1 DEF OneKey, TakeKey
<1>3. Head(tty) = k /\ tty' = <<>>
  BY <1>2, HeadIs, TailIs DEF TakeKey
<1>4. dialog.q = o.q
  BY <1>2 DEF PlanIsTrue
<1>5. Taken(k) \/ StaysUp(dialog)
  BY <1>3 DEF TakeKey, Taken
<1>6. Lands(o)
  BY <1>1, <1>2, <1>5, KeyLands DEF Lands
<1>7. ASSUME NEW d, d \in {o.cur, Shown(o)}, StaysUp(d) PROVE KeyTold(o) /\ DialogIsFit(dialog')
  <2>1. dialog' = d /\ UNCHANGED answers
    BY <1>7 DEF StaysUp
  <2>2. DialogIsFit(d)
    BY <1>7, ShownIs DEF PlanIsTrue
  <2>3. OneKey(o, d, <<>>)
    BY <1>7 DEF OneKey
  <2>4. Underway(o, d, <<>>)
    BY <2>3 DEF Underway
  <2>5. Underway(o, dialog', tty')
    BY <2>1, <2>4, <1>3
  <2> QED
    BY <2>1, <2>2, <2>5 DEF KeyTold
<1>8. CASE StaysUp(o.cur) \/ StaysUp(Shown(o))
  BY <1>7, <1>8
<1>9. CASE Head(o.plan) \in LastStages /\ \E row \in 0 .. 4 : LeavesBy(o.n, row) /\ Fits(o, row)
  BY <1>3, <1>4, <1>9, LeftIsTold
<1> QED
  BY <1>6, <1>8, <1>9 DEF Lands

(* Space and Enter.                                                         *)
LEMMA AcceptTold ==
  ASSUME AskTypeOK, NEW o \in Responding, PlanIsTrue(o), ~Reached(o), o.at = "await", TakeKey, DialogIsFit(dialog),
         Head(o.plan) = "accept", Accepting(o, dialog, tty)
  PROVE  KeyTold(o) /\ DialogIsFit(dialog')
<1>1. PICK space, enter : space = SentKey(o, KeyPress("Space")) /\ enter = SentKey(o, KeyPress("Enter"))
  OBVIOUS
<1>2. space.key = "Space" /\ enter.key = "Enter" /\ enter.by = o.n
  BY <1>1 DEF SentKey, KeyPress
<1>3. dialog = o.cur /\ tty \in {<<space, enter>>, <<enter>>}
  BY <1>1 DEF Accepting, TakeKey
<1>4. AcceptPlan(o) /\ dialog.q = o.q /\ dialog.sel \in 0 .. 4
  BY <1>3, StageIs DEF PlanIsTrue, AskTypeOK, Dialogs
<1>5. ASSUME StaysUp(dialog), tty' \in {<<enter>>, <<>>} PROVE KeyTold(o) /\ DialogIsFit(dialog')
  <2>1. dialog' = dialog /\ UNCHANGED answers
    BY <1>5 DEF StaysUp
  <2>2. Accepting(o, dialog', tty')
    BY <2>1, <1>1, <1>3, <1>5 DEF Accepting
  <2>3. Underway(o, dialog', tty')
    BY <2>2 DEF Underway
  <2> QED
    BY <2>1, <2>3 DEF KeyTold
<1>6. CASE tty = <<space, enter>>
  <2>1. Head(tty) = space /\ tty' = <<enter>>
    BY <1>6, HeadIs, TailIs DEF TakeKey
  <2>2. StaysUp(dialog)
    BY <2>1, <1>2 DEF TakeKey, TakesOther
  <2> QED
    BY <2>1, <2>2, <1>5
<1>7. CASE tty = <<enter>>
  <2>1. Head(tty) = enter /\ tty' = <<>>
    BY <1>7, HeadIs, TailIs DEF TakeKey
  <2>2. ~InField /\ dialog.sel # 0 /\ dialog.kind \in {"list", "menu"}
    BY <1>3, <1>4 DEF InField, AcceptPlan, NotInField, FreeRow, DialogIsFit
  <2>3. StaysUp(dialog) \/ LeavesBy(o.n, dialog.sel)
    BY <2>1, <2>2, <1>2 DEF TakeKey, TakesEnter
  <2>4. Fits(o, dialog.sel)
    BY <2>2, <1>3, <1>4, FitsIs DEF AcceptPlan
  <2>5. LeavesBy(o.n, dialog.sel) => KeyTold(o) /\ DialogIsFit(dialog')
    BY <2>1, <2>4, <1>4, LeftIsTold DEF LastStages
  <2> QED
    BY <2>1, <2>3, <2>5, <1>5
<1> QED
  BY <1>3, <1>6, <1>7

(* The arrows through a menu.                                               *)
LEMMA WalkTold ==
  ASSUME AskTypeOK, NEW o \in Responding, PlanIsTrue(o), ~Reached(o), o.at = "await", TakeKey, DialogIsFit(dialog),
         Head(o.plan) = "walk", o.cur.kind = "menu", Walking(o, dialog, tty)
  PROVE  KeyTold(o) /\ DialogIsFit(dialog')
<1>1. PICK cur, n, wanted : cur = o.cur /\ n = Len(tty) /\ wanted = WantedRow(o)
  OBVIOUS
<1>2. cur \in Dialogs /\ wanted \in 1 .. 3 /\ cur.kind = "menu"
  BY <1>1, StageIs, RespondHas DEF WalkPlan
<1>3. dialog.kind = "menu" /\ dialog.sel \in 1 .. 3 /\ dialog = [cur EXCEPT !.sel = dialog.sel]
  BY <1>1, <1>2 DEF Walking, AskTypeOK, Dialogs, DialogIsFit
<1>4. n \in Nat /\ n # 0 /\ Len(tty') = n - 1 /\ Head(tty) = tty[1] /\ tty # <<>>
      /\ \A i \in 1 .. Len(tty') : tty'[i] = tty[i + 1] /\ i + 1 \in 1 .. n
  BY <1>1 DEF TakeKey, AskTypeOK
<1>5. ASSUME NEW sel \in 1 .. 3, StaysUp([dialog EXCEPT !.sel = sel]),
             \/ /\ \A i \in 1 .. Len(tty') : tty'[i] = SentKey(o, KeyPress("Down"))
                /\ sel + Len(tty') <= wanted
             \/ /\ \A i \in 1 .. Len(tty') : tty'[i] = SentKey(o, KeyPress("Up"))
                /\ sel >= wanted + Len(tty')
      PROVE  KeyTold(o) /\ DialogIsFit(dialog')
  <2>1. PICK d : d = [dialog EXCEPT !.sel = sel]
    OBVIOUS
  <2>2. dialog' = d /\ UNCHANGED answers
    BY <2>1, <1>5 DEF StaysUp
  <2>3. d.sel = sel /\ d.kind = dialog.kind /\ d.q = dialog.q /\ d = [cur EXCEPT !.sel = sel]
    BY <2>1, <1>2, <1>3 DEF AskTypeOK, Dialogs
  <2>4. DialogIsFit(d)
    BY <2>3, <1>3 DEF DialogIsFit
  <2>5. Walking(o, d, tty')
    BY <2>3, <1>1, <1>5 DEF Walking
  <2>6. Underway(o, d, tty')
    BY <2>5 DEF Underway
  <2> QED
    BY <2>2, <2>4, <2>6 DEF KeyTold
<1>6. dialog = [dialog EXCEPT !.sel = dialog.sel]
  BY DEF AskTypeOK, Dialogs
<1>7. CASE (\A i \in 1 .. n : tty[i] = SentKey(o, KeyPress("Down"))) /\ dialog.sel + n <= wanted
  <2>1. \A i \in 1 .. Len(tty') : tty'[i] = SentKey(o, KeyPress("Down"))
    BY <1>4, <1>7
  <2>2. Head(tty).key = "Down"
    BY <1>4, <1>7 DEF SentKey, KeyPress
  <2>3. dialog.sel \in 1 .. (RowCount - 1)
    BY <1>2, <1>3, <1>4, <1>7 DEF RowCount
  <2>4. StaysUp([dialog EXCEPT !.sel = @ + 1]) \/ StaysUp(dialog)
    BY <2>2, <1>3 DEF TakeKey, TakesOther
  <2>5. [dialog EXCEPT !.sel = @ + 1] = [dialog EXCEPT !.sel = dialog.sel + 1]
    OBVIOUS
  <2>6. dialog.sel + 1 \in 1 .. 3 /\ (dialog.sel + 1) + Len(tty') <= wanted /\ dialog.sel + Len(tty') <= wanted
    BY <1>2, <1>3, <1>4, <1>7
  <2> QED
    BY <2>1, <2>4, <2>5, <2>6, <1>3, <1>5, <1>6
<1>8. CASE (\A i \in 1 .. n : tty[i] = SentKey(o, KeyPress("Up"))) /\ dialog.sel >= wanted + n
  <2>1. \A i \in 1 .. Len(tty') : tty'[i] = SentKey(o, KeyPress("Up"))
    BY <1>4, <1>8
  <2>2. Head(tty).key = "Up"
    BY <1>4, <1>8 DEF SentKey, KeyPress
  <2>4. StaysUp([dialog EXCEPT !.sel = @ - 1]) \/ StaysUp(dialog)
    BY <2>2, <1>3 DEF TakeKey, TakesOther
  <2>5. [dialog EXCEPT !.sel = @ - 1] = [dialog EXCEPT !.sel = dialog.sel - 1]
    OBVIOUS
  <2>6. dialog.sel - 1 \in 1 .. 3 /\ dialog.sel - 1 >= wanted + Len(tty') /\ dialog.sel >= wanted + Len(tty')
    BY <1>2, <1>3, <1>4, <1>8
  <2> QED
    BY <2>1, <2>4, <2>5, <2>6, <1>3, <1>5, <1>6
<1> QED
  BY <1>1, <1>7, <1>8 DEF Walking

(* A key keeps the invariant.                                               *)
LEMMA TakeKeyTrue ==
  ASSUME AskTypeOK, AskSound, TakeKey
  PROVE  AskSound'
<1>1. PICK o : o = respond
  OBVIOUS
<1>2. tty # <<>> /\ respond' = o /\ UNCHANGED <<askEnv, held, respond, touched, receipts, responds>>
  BY <1>1 DEF TakeKey
<1>3. o # Resting /\ RespondIsTrue(o)
  BY <1>1, <1>2 DEF AskSound
<1>4. o \in Responding /\ o.at \in {"stage", "await"} /\ o.n \in Nat
  BY <1>1, <1>3, RespondHas DEF AskTypeOK
<1>5. PlanIsTrue(o) /\ Underway(o, dialog, tty) /\ AnswersBy(o.n) = {} /\ o.n = responds /\ \A v \in receipts : v.n # o.n
  BY <1>2, <1>3 DEF RespondIsTrue, HasLeft
<1>6. o.at = "await" /\ ~Reached(o)
  BY <1>2, <1>4, <1>5 DEF Underway
<1>7. DialogIsFit(dialog)
  BY DEF AskSound
<1>8. KeyTold(o) /\ DialogIsFit(dialog')
  <2>1. CASE Head(o.plan) = "accept"
    BY <2>1, <1>4, <1>5, <1>6, <1>7, AcceptTold DEF Underway
  <2>2. CASE Head(o.plan) = "walk" /\ o.cur.kind = "menu"
    BY <2>2, <1>4, <1>5, <1>6, <1>7, WalkTold DEF Underway
  <2>3. CASE Head(o.plan) # "accept" /\ ~(Head(o.plan) = "walk" /\ o.cur.kind = "menu")
    BY <2>3, <1>4, <1>5, <1>6, <1>7, OneKeyTold DEF Underway
  <2> QED
    BY <2>1, <2>2, <2>3
<1>9. CASE Underway(o, dialog', tty') /\ UNCHANGED answers
  <2>1. AnsweredAsAsked' /\ \A a \in answers' : a.by <= responds'
    BY <1>2, <1>9 DEF AskSound, AnsweredAsAsked
  <2>2. AnswersBy(o.n)' = {}
    BY <1>5, <1>9 DEF AnswersBy
  <2>3. RespondIsTrue(respond)'
    BY <2>2, <1>2, <1>5, <1>9 DEF RespondIsTrue
  <2> QED
    BY <2>1, <2>3, <1>2, <1>3, <1>8 DEF AskSound
<1>10. CASE /\ HasLeft(o, dialog', tty')
            /\ \E a \in AnswerSet : /\ answers' = answers \cup {a}
                                    /\ a.by = o.n /\ a.q = o.q /\ GivenAsAsked(o.r, a)
  <2>1. PICK a \in AnswerSet : /\ answers' = answers \cup {a}
                               /\ a.by = o.n /\ a.q = o.q /\ GivenAsAsked(o.r, a)
    BY <1>10
  <2>2. AnsweredAsAsked'
    BY <2>1, <1>2, <1>5 DEF AskSound, AnsweredAsAsked
  <2>3. \A b \in answers' : b.by <= responds'
    BY <2>1, <1>2, <1>4, <1>5 DEF AskSound
  <2>4. AnswersBy(o.n)' = {a}
    BY <2>1, <1>5 DEF AnswersBy
  <2>5. RespondIsTrue(respond)'
    BY <2>1, <2>4, <1>2, <1>5, <1>10 DEF RespondIsTrue
  <2> QED
    BY <2>2, <2>3, <2>5, <1>2, <1>3, <1>8 DEF AskSound
<1> QED
  BY <1>8, <1>9, <1>10 DEF KeyTold

-----------------------------------------------------------------------------
(* QuestionAnswers: the steps of a Respond keep the invariant               *)

(* A Respond begins with the plan of what it is asked for.                  *)
LEMMA BeginPlans ==
  ASSUME AskTypeOK, AskPlain, DialogIsFit(dialog), NEW o \in Responding, NEW nonce,
         o.at = "stage", o.q = dialog.q, o.before = dialog, o.cur = dialog, o.plan = Stages(dialog, o.r),
         dialog.q # 0, AskTakes(dialog, o.r, nonce),
         \/ dialog.kind # "list" \/ dialog.sel # FreeRow
         \/ o.r.do \in {"text", "cancel"},
         dialog.kind # "boxes" \/ o.r.do # "choose"
  PROVE  PlanIsTrue(o)
<1>1. PICK d, r : d = dialog /\ r = o.r
  OBVIOUS
<1>2. d \in Dialogs /\ r \in Responses /\ d.kind \in QuestionKinds
  BY <1>1, RespondHas DEF AskTypeOK, Dialogs, DialogIsFit
<1>3. r.do \in {"choose", "accept", "cancel", "tick", "text"} /\ (r.do = "choose" => r.row \in 1 .. 3) /\ r.text \in BOOLEAN
  BY <1>2, ResponseHas
<1>4. d.sel \in 0 .. 4 /\ (d.kind \in {"menu", "preview"} => d.sel \in 1 .. 3)
  BY <1>1, <1>2 DEF Dialogs, DialogIsFit
<1>5. CASE r.do = "cancel"
  BY <1>1, <1>5 DEF Stages, CancelPlan, PlanIsTrue
<1>6. CASE r.do # "cancel" /\ d.kind = "boxes"
  <2>1. r.do = "tick" /\ (r.text => d.text = "")
    BY <1>1, <1>3, <1>6 DEF AskTakes
  <2>2. o.plan = IF r.text THEN <<"onto", "flip", "down", "type", "onto", "right">> ELSE <<"onto", "flip", "right">>
    BY <2>1, <1>1 DEF Stages
  <2>3. CASE r.text
    <3>1. o.plan \in TextPlans /\ Head(o.plan) = "onto" /\ Len(o.plan) = 6
      BY <2>2, <2>3, HeadIs DEF TextPlans
    <3>2. o.plan # <<"onto", "right">> /\ o.plan # <<"right">>
      BY <3>1, HeadIs
    <3> QED
      BY <3>1, <3>2, <2>1, <2>3, <1>1, <1>6 DEF BoxPlan, TypedPlans, PlanIsTrue
  <2>4. CASE ~r.text
    <3>1. o.plan \in TickPlans /\ Head(o.plan) = "onto" /\ Len(o.plan) = 3
      BY <2>2, <2>4, HeadIs DEF TickPlans
    <3>2. o.plan # <<"onto", "right">>
      BY <3>1, HeadIs
    <3> QED
      BY <3>1, <3>2, <2>1, <2>4, <1>1, <1>6 DEF BoxPlan, PlanIsTrue
  <2> QED
    BY <2>3, <2>4, <1>3
<1>7. CASE r.do = "text" /\ d.kind # "boxes"
  <2>1. d.kind = "list" /\ d.text = ""
    BY <1>1, <1>2, <1>7 DEF AskTakes
  <2>2. o.plan = <<"row", "type", "enter">>
    BY <1>1, <1>7 DEF Stages
  <2>3. o.plan \in FreePlans /\ Head(o.plan) = "row"
    BY <2>2, HeadIs DEF FreePlans
  <2> QED
    BY <2>1, <2>3, <1>1, <1>7 DEF TextPlan, PlanIsTrue
<1>8. CASE d.kind # "boxes" /\ r.do \in {"choose", "accept"} /\ (d.kind = "preview" \/ (d.kind = "menu" /\ r.do = "choose" /\ r.row # d.sel))
  <2>1. o.plan = <<"walk", "enter">>
    BY <1>1, <1>8 DEF Stages
  <2>2. o.plan \in WalkPlans /\ Head(o.plan) = "walk"
    BY <2>1, HeadIs DEF WalkPlans
  <2>3. WantedRow(o) \in 1 .. 3
    BY <1>1, <1>3, <1>4, <1>8 DEF WantedRow
  <2> QED
    BY <2>2, <2>3, <1>1, <1>8 DEF WalkPlan, PlanIsTrue
<1>9. CASE d.kind # "boxes" /\ r.do \in {"choose", "accept"} /\ ~(d.kind = "preview" \/ (d.kind = "menu" /\ r.do = "choose" /\ r.row # d.sel))
  <2>1. NotInField(o)
    BY <1>1, <1>9 DEF NotInField
  <2>2. CASE r.do = "accept" \/ d.kind = "menu"
    <3>1. o.plan = <<"accept">>
      BY <1>1, <1>9, <2>2 DEF Stages
    <3>2. d.kind \in {"list", "menu"}
      BY <1>1, <1>2, <1>9, <2>2 DEF AskTakes, QuestionKinds
    <3> QED
      BY <3>1, <3>2, <2>1, <2>2, <1>1, <1>9 DEF AcceptPlan, PlanIsTrue
  <2>3. CASE ~(r.do = "accept" \/ d.kind = "menu")
    <3>1. o.plan = <<"choose">>
      BY <1>1, <1>9, <2>3 DEF Stages
    <3>2. d.kind \in {"list", "card"} /\ r.do = "choose"
      BY <1>2, <1>9, <2>3 DEF QuestionKinds
    <3> QED
      BY <3>1, <3>2, <2>1, <1>1 DEF ChoosePlan, PlanIsTrue
  <2> QED
    BY <2>2, <2>3
<1>10. r.do = "tick" => d.kind = "boxes"
  BY <1>1, <1>2 DEF AskTakes
<1> QED
  BY <1>3, <1>5, <1>6, <1>7, <1>8, <1>9, <1>10

(* A Respond keeps the invariant as it starts.                              *)
LEMMA RespondTrue ==
  ASSUME AskTypeOK, AskPlain, AskSound, Respond
  PROVE  AskSound'
<1>1. PICK r \in Responses, nonce \in {NoNonce, held} : RefuseRespond(r, nonce) \/ BeginRespond(r, nonce)
  BY DEF Respond
<1>2. responds' = responds + 1 /\ responds \in Nat /\ UNCHANGED <<askEnv, dialog, tty, held, answers>>
      /\ dialog \in Dialogs /\ dialog.q \in Nat
  BY DEF Respond, AskTypeOK, Dialogs
<1>3. respond = Resting /\ tty = <<>>
  <2>1. respond = Resting
    BY RespondHas DEF Respond, AskTypeOK
  <2> QED
    BY <2>1 DEF AskSound
<1>4. (\A a \in answers : a.by <= responds /\ a.by \in Nat) /\ (\A v \in receipts : v.n <= responds /\ v.n \in Nat)
  BY DEF AskSound, AskTypeOK
<1>5. (\A a \in answers : a.by # responds + 1) /\ (\A v \in receipts : v.n # responds + 1)
  BY <1>2, <1>4
<1>6. (\A a \in answers : a.by <= responds + 1) /\ (\A v \in receipts : v.n <= responds + 1)
  BY <1>2, <1>4
<1>7. CASE RefuseRespond(r, nonce)
  <2>1. PICK v : v = [n |-> responds', q |-> dialog.q, r |-> r, is |-> "refused", touched |-> FALSE]
    OBVIOUS
  <2>2. respond' = Resting /\ receipts' = receipts \cup {v} /\ v.n = responds + 1 /\ v.is # "submitted"
    BY <1>2, <1>7, <2>1 DEF RefuseRespond, Receipt
  <2>3. AnsweredAsAsked'
    BY <2>2, <1>2, <1>5 DEF AskSound, AnsweredAsAsked
  <2>4. \A w \in receipts' : w.n <= responds'
    BY <2>2, <1>2, <1>6
  <2> QED
    BY <2>2, <2>3, <2>4, <1>2, <1>3, <1>6 DEF AskSound
<1>8. CASE BeginRespond(r, nonce)
  <2>1. PICK o : o = [at |-> "stage", n |-> responds', q |-> dialog.q, r |-> r, before |-> dialog,
                      cur |-> dialog, plan |-> Stages(dialog, r)]
    OBVIOUS
  <2>2. respond' = o /\ UNCHANGED receipts
    BY <1>8, <2>1 DEF BeginRespond
  <2>3. /\ o.at = "stage" /\ o.n = responds + 1 /\ o.q = dialog.q /\ o.r = r /\ o.before = dialog
        /\ o.cur = dialog /\ o.plan = Stages(dialog, o.r)
    BY <2>1, <1>2
  <2>4. Stages(dialog, r) \in AskPlans
    BY DEF Stages, AskPlans, TextPlans, TickPlans, FreePlans, WalkPlans
  <2>5. o \in Responding
    <3>1. responds' \in Nat \ {0}
      BY <1>2
    <3> QED
      BY <3>1, <2>1, <2>4, <1>2 DEF Responding
  <2>6. PlanIsTrue(o)
    <3>1. /\ dialog.q # 0 /\ AskTakes(dialog, o.r, nonce)
          /\ dialog.kind # "list" \/ dialog.sel # FreeRow \/ o.r.do \in {"text", "cancel"}
      BY <2>3, <1>8 DEF BeginRespond, AskPlain
    <3>2. dialog.kind # "boxes" \/ o.r.do # "choose"
      BY <2>3, <1>8 DEF BeginRespond, AskPlain
    <3> QED
      BY <3>1, <3>2, <2>3, <2>5, BeginPlans DEF AskSound
  <2>7. Underway(o, dialog, tty)
    BY <2>3, <1>3 DEF Underway
  <2>8. AnswersBy(o.n) = {}
    BY <2>3, <1>5 DEF AnswersBy
  <2>9. RespondIsTrue(respond)'
    <3>1. (AnswersBy(o.n) = {})'
      BY <2>8, <1>2 DEF AnswersBy
    <3> QED
      BY <3>1, <2>2, <2>3, <2>6, <2>7, <1>2, <1>5 DEF RespondIsTrue
  <2>10. AnsweredAsAsked'
    BY <2>2, <1>2 DEF AskSound, AnsweredAsAsked
  <2>11. o # Resting
    BY <2>5, RespondHas
  <2> QED
    BY <2>2, <2>9, <2>10, <2>11, <1>2, <1>6 DEF AskSound
<1> QED
  BY <1>1, <1>7, <1>8

(* The Respond that is under way.                                           *)
LEMMA UnderwayHas ==
  ASSUME AskTypeOK, AskSound, respond.at # "idle"
  PROVE  respond \in Responding /\ respond # Resting /\ RespondIsTrue(respond) /\ PlanIsTrue(respond)
<1>1. respond \in Responding /\ respond # Resting
  BY RespondIs, RespondHas
<1> QED
  BY <1>1 DEF AskSound, RespondIsTrue

(* Nothing is on its way when it answers.                                   *)
LEMMA ReceiptTrue ==
  ASSUME AskTypeOK, AskSound, respond.at # "idle", tty = <<>>, NEW outcome, Receipt(respond, outcome, touched),
         outcome = "submitted" => AnswersBy(respond.n) # {},
         UNCHANGED <<askEnv, dialog, tty, held, touched, answers, responds>>
  PROVE  AskSound'
<1>1. PICK o : o = respond
  OBVIOUS
<1>2. o \in Responding /\ RespondIsTrue(o) /\ o.n \in Nat
  BY <1>1, UnderwayHas, RespondHas
<1>3. PICK v : v = [n |-> o.n, q |-> o.q, r |-> o.r, is |-> outcome, touched |-> touched]
  OBVIOUS
<1>4. respond' = Resting /\ receipts' = receipts \cup {v}
  BY <1>1, <1>3 DEF Receipt
<1>5. v.n = o.n /\ v.q = o.q /\ v.r = o.r /\ v.is = outcome
  BY <1>3
<1>6. o.n = responds /\ \A a \in AnswersBy(o.n) : a.q = o.q /\ GivenAsAsked(o.r, a)
  BY <1>2 DEF RespondIsTrue
<1>7. \A a \in answers : a.by = o.n => a.q = o.q /\ GivenAsAsked(o.r, a)
  BY <1>6 DEF AnswersBy
<1>8. outcome = "submitted" => \E a \in answers : a.q = o.q /\ a.by = o.n
  BY <1>1, <1>7 DEF AnswersBy
<1>9. AnsweredAsAsked'
  <2>1. \A w \in receipts' : w.is = "submitted" => \E a \in answers : a.q = w.q /\ a.by = w.n
    BY <1>4, <1>5, <1>8 DEF AskSound, AnsweredAsAsked
  <2>2. \A w \in receipts', a \in answers : a.by = w.n => a.q = w.q /\ GivenAsAsked(w.r, a)
    BY <1>4, <1>5, <1>7 DEF AskSound, AnsweredAsAsked
  <2> QED
    BY <2>1, <2>2 DEF AnsweredAsAsked
<1>10. \A w \in receipts' : w.n <= responds'
  BY <1>2, <1>4, <1>5, <1>6 DEF AskSound
<1> QED
  BY <1>4, <1>9, <1>10 DEF AskSound

(* The Respond goes on to the next stage of its plan.                       *)
LEMMA OnwardTrue ==
  ASSUME AskTypeOK, AskSound, respond.at # "idle", AnswersBy(respond.n) = {}, UNCHANGED <<askEnv, dialog, answers, receipts, responds>>,
         NEW o \in Responding, respond' = o, o.n = respond.n, PlanIsTrue(o), Underway(o, dialog, tty')
  PROVE  AskSound'
<1>1. respond.n = responds /\ \A v \in receipts : v.n # respond.n
  BY UnderwayHas DEF RespondIsTrue
<1>2. (AnswersBy(o.n) = {})'
  BY DEF AnswersBy
<1>3. RespondIsTrue(respond)'
  BY <1>1, <1>2 DEF RespondIsTrue
<1>4. AnsweredAsAsked'
  BY DEF AskSound, AnsweredAsAsked
<1>5. o # Resting
  BY RespondHas
<1> QED
  BY <1>3, <1>4, <1>5 DEF AskSound

-----------------------------------------------------------------------------
(* QuestionAnswers: from one stage to the next                              *)

(* The plans that are longer than those with the text typed.                *)
LEMMA TypedIs ==
  /\ <<"onto", "flip", "down", "type", "onto", "right">> \notin TypedPlans
  /\ <<"flip", "down", "type", "onto", "right">> \notin TypedPlans
  /\ <<"down", "type", "onto", "right">> \notin TypedPlans /\ <<"type", "onto", "right">> \notin TypedPlans
  /\ <<"onto", "right">> \in TypedPlans /\ <<"right">> \in TypedPlans
  /\ <<"flip", "down", "type", "onto", "right">> # <<"onto", "right">> /\ <<"right">> # <<"onto", "right">> /\ <<"type", "onto", "right">> # <<"onto", "right">>
<1>1. ASSUME NEW p, p \in TypedPlans PROVE Len(p) \in {1, 2}
  BY <1>1, HeadIs DEF TypedPlans
<1>2. Len(<<"onto", "flip", "down", "type", "onto", "right">>) = 6 /\ Len(<<"flip", "down", "type", "onto", "right">>) = 5
      /\ Len(<<"down", "type", "onto", "right">>) = 4 /\ Len(<<"type", "onto", "right">>) = 3
      /\ Len(<<"onto", "right">>) = 2 /\ Len(<<"right">>) = 1
  BY HeadIs
<1> QED
  BY <1>1, <1>2 DEF TypedPlans

(* What is left of a plan with a text, from one part to the next.           *)
LEMMA TextTailIs ==
  ASSUME NEW p \in TextPlans, NEW t, t = Tail(p)
  PROVE  \/ p = <<"onto", "flip", "down", "type", "onto", "right">> /\ t = <<"flip", "down", "type", "onto", "right">>
         \/ p = <<"flip", "down", "type", "onto", "right">> /\ t = <<"down", "type", "onto", "right">>
         \/ p = <<"down", "type", "onto", "right">> /\ t = <<"type", "onto", "right">>
         \/ p = <<"type", "onto", "right">> /\ t = <<"onto", "right">>
         \/ p = <<"onto", "right">> /\ t = <<"right">>
         \/ p = <<"right">>
<1>1. p = <<"onto", "flip", "down", "type", "onto", "right">> => t = <<"flip", "down", "type", "onto", "right">>
  BY TailIs
<1>2. p = <<"flip", "down", "type", "onto", "right">> => t = <<"down", "type", "onto", "right">>
  BY TailIs
<1>3. p = <<"down", "type", "onto", "right">> => t = <<"type", "onto", "right">>
  BY TailIs
<1>4. p = <<"type", "onto", "right">> => t = <<"onto", "right">>
  BY TailIs
<1>5. p = <<"onto", "right">> => t = <<"right">>
  BY TailIs
<1> QED
  BY <1>1, <1>2, <1>3, <1>4, <1>5 DEF TextPlans

(* The plan of a review list, from one stage on.                            *)
LEMMA BoxTail ==
  ASSUME NEW o \in Responding, NEW o2 \in Responding, BoxPlan(o), o2.r = o.r, o2.plan = Tail(o.plan), Head(o.plan) # "right",
         o2.cur.kind = "boxes",
         Head(o.plan) = "onto" => o2.cur.sel \in CheckBoxes, Head(o.plan) = "flip" => o2.cur.sel \in CheckBoxes,
         Head(o.plan) = "flip" \/ TicksAreSet(o) => TicksAreSet(o2),
         Head(o.plan) = "down" => o2.cur.sel = FreeRow,
         o2.cur.text = IF Head(o.plan) = "type" THEN "asked" ELSE o.cur.text
  PROVE  BoxPlan(o2)
<1>1. o.r \in Responses /\ o.r.text \in BOOLEAN
  BY RespondHas, ResponseHas
<1>2. CASE o.r.text
  <2>1. o.plan \in TextPlans /\ (o.cur.text = "asked" <=> o.plan \in TypedPlans)
    BY <1>2 DEF BoxPlan
  <2>2. o2.plan \in TextPlans
    BY <2>1, TextPlanIs DEF PlanFrom, TextPlans
  <2>3. PICK p, t : p = o.plan /\ t = o2.plan
    OBVIOUS
  <2>4. p \in TextPlans /\ t = Tail(p)
    BY <2>1, <2>3
  <2>5. CASE p = <<"onto", "flip", "down", "type", "onto", "right">> /\ t = <<"flip", "down", "type", "onto", "right">>
    <3>1. Head(o.plan) = "onto" /\ Head(o2.plan) = "flip" /\ o.plan \notin TypedPlans /\ o2.plan \notin TypedPlans
      BY <2>3, <2>5, HeadIs, TypedIs
    <3>2. o2.plan # <<"onto", "right">>
      BY <2>3, <2>5, TypedIs
    <3> QED
      BY <3>1, <3>2, <2>1, <2>2, <1>2 DEF BoxPlan
  <2>6. CASE p = <<"onto", "right">> /\ t = <<"right">>
    <3>1. Head(o.plan) = "onto" /\ Head(o2.plan) = "right" /\ o.plan \in TypedPlans /\ o2.plan \in TypedPlans
      BY <2>3, <2>6, HeadIs, TypedIs
    <3>2. TicksAreSet(o)
      BY <2>3, <2>6 DEF BoxPlan
    <3>3. o2.plan # <<"onto", "right">>
      BY <2>3, <2>6, TypedIs
    <3> QED
      BY <3>1, <3>2, <3>3, <2>1, <2>2, <1>2 DEF BoxPlan
  <2>7. CASE p = <<"flip", "down", "type", "onto", "right">> /\ t = <<"down", "type", "onto", "right">>
    <3>1. Head(o.plan) = "flip" /\ Head(o2.plan) = "down" /\ o.plan \notin TypedPlans /\ o2.plan \notin TypedPlans
      BY <2>3, <2>7, HeadIs, TypedIs
    <3> QED
      BY <3>1, <2>1, <2>2, <1>2 DEF BoxPlan
  <2>8. CASE p = <<"down", "type", "onto", "right">> /\ t = <<"type", "onto", "right">>
    <3>1. Head(o.plan) = "down" /\ Head(o2.plan) = "type" /\ o.plan \notin TypedPlans /\ o2.plan \notin TypedPlans
      BY <2>3, <2>8, HeadIs, TypedIs
    <3> QED
      BY <3>1, <2>1, <2>2, <1>2 DEF BoxPlan
  <2>9. CASE p = <<"type", "onto", "right">> /\ t = <<"onto", "right">>
    <3>1. Head(o.plan) = "type" /\ Head(o2.plan) = "onto" /\ o2.plan \in TypedPlans
      BY <2>3, <2>9, HeadIs, TypedIs
    <3> QED
      BY <3>1, <2>1, <2>2, <1>2 DEF BoxPlan
  <2>10. p # <<"right">>
    BY <2>3, HeadIs
  <2>11. \/ p = <<"onto", "flip", "down", "type", "onto", "right">> /\ t = <<"flip", "down", "type", "onto", "right">>
         \/ p = <<"flip", "down", "type", "onto", "right">> /\ t = <<"down", "type", "onto", "right">>
         \/ p = <<"down", "type", "onto", "right">> /\ t = <<"type", "onto", "right">>
         \/ p = <<"type", "onto", "right">> /\ t = <<"onto", "right">>
         \/ p = <<"onto", "right">> /\ t = <<"right">>
    BY <2>4, <2>10, TextTailIs
  <2> QED
    BY <2>5, <2>6, <2>7, <2>8, <2>9, <2>11
<1>3. CASE ~o.r.text
  <2>1. o.plan \in TickPlans
    BY <1>3 DEF BoxPlan
  <2>2. o2.plan \in TickPlans
    BY <2>1, TickPlanIs DEF PlanFrom, TickPlans
  <2>3. CASE Head(o.plan) = "onto"
    <3>1. o2.plan = <<"flip", "right">> /\ Head(o2.plan) = "flip" /\ o2.plan # <<"onto", "right">>
      BY <2>1, <2>3, TickPlanIs, HeadIs DEF PlanFrom
    <3> QED
      BY <3>1, <2>2, <2>3, <1>3 DEF BoxPlan
  <2>4. CASE Head(o.plan) = "flip"
    <3>1. o2.plan = <<"right">> /\ Head(o2.plan) = "right"
      BY <2>1, <2>4, TickPlanIs, HeadIs DEF PlanFrom
    <3> QED
      BY <3>1, <2>2, <2>4, <1>3 DEF BoxPlan
  <2> QED
    BY <2>1, <2>3, <2>4, TickPlanIs DEF PlanFrom
<1> QED
  BY <1>1, <1>2, <1>3

(* A stage that is reached.                                                 *)
LEMMA SkipPlans ==
  ASSUME NEW o \in Responding, NEW o2 \in Responding, PlanIsTrue(o), Reached(o),
         o2.q = o.q, o2.r = o.r, o2.before = o.before, o2.cur = o.cur, o2.plan = Tail(o.plan)
  PROVE  PlanIsTrue(o2)
<1>1. Head(o.plan) \in {"onto", "flip", "down", "row", "walk"}
  BY DEF Reached
<1>2. CASE Head(o.plan) \in {"onto", "flip", "down"}
  <2>1. BoxPlan(o)
    BY <1>2, StageIs
  <2>2. Head(o.plan) = "flip" => TicksAreSet(o)
    <3> SUFFICES ASSUME Head(o.plan) = "flip" PROVE TicksAreSet(o)
      OBVIOUS
    <3>1. Unflipped(o) = {}
      BY DEF Reached
    <3>2. o.r.set \subseteq CheckBoxes
      BY RespondHas, ResponseHas
    <3> QED
      BY <3>1, <3>2 DEF Unflipped, TicksAreSet
  <2>3. BoxPlan(o2)
    BY <1>2, <2>1, <2>2, BoxTail DEF Reached, BoxPlan, TicksAreSet
  <2> QED
    BY <2>3 DEF PlanIsTrue
<1>3. CASE Head(o.plan) = "row"
  <2>1. TextPlan(o)
    BY <1>3, StageIs
  <2>2. o2.plan = <<"type", "enter">> /\ Head(o2.plan) = "type" /\ o2.plan \in FreePlans
    BY <1>3, <2>1, FreePlanIs, HeadIs DEF TextPlan, PlanFrom, FreePlans
  <2>3. TextPlan(o2)
    BY <1>3, <2>1, <2>2 DEF TextPlan, Reached
  <2> QED
    BY <2>3 DEF PlanIsTrue
<1>4. CASE Head(o.plan) = "walk"
  <2>1. WalkPlan(o)
    BY <1>4, StageIs
  <2>2. o2.plan = <<"enter">> /\ o2.plan \in WalkPlans
    BY <1>4, <2>1, WalkPlanIs, HeadIs DEF WalkPlan, PlanFrom, WalkPlans
  <2>3. WalkPlan(o2)
    BY <1>4, <2>1, <2>2 DEF WalkPlan, Reached, WantedRow
  <2> QED
    BY <2>3 DEF PlanIsTrue
<1> QED
  BY <1>1, <1>2, <1>3, <1>4

(* A stage whose key shows.                                                 *)
LEMMA ShownPlans ==
  ASSUME NEW o \in Responding, NEW o2 \in Responding, PlanIsTrue(o), ~Reached(o), Head(o.plan) \notin LastStages,
         o2.q = o.q, o2.r = o.r, o2.before = o.before, o2.cur = Shown(o),
         o2.plan = IF Head(o.plan) \in {"onto", "down", "flip"} THEN o.plan ELSE Tail(o.plan)
  PROVE  PlanIsTrue(o2)
<1>1. Head(o.plan) \in {"onto", "down", "flip", "row", "type", "walk"}
  BY RespondHas, PlanIs DEF LastStages
<1>2. o2.cur.q = o2.q /\ o2.q # 0 /\ DialogIsFit(o2.cur)
  BY ShownIs DEF PlanIsTrue
<1>3. PICK d : d = o.cur
  OBVIOUS
<1>4. d \in Dialogs /\ d.sel \in 0 .. 4
  BY <1>3, RespondHas DEF Dialogs
<1>5. CASE Head(o.plan) \in {"onto", "down", "flip"}
  <2>1. BoxPlan(o)
    BY <1>5, StageIs
  <2>2. CASE Head(o.plan) \in {"onto", "down"}
    <3>1. o2.cur.kind = d.kind /\ o2.cur.ticks = d.ticks /\ o2.cur.text = d.text
      BY <2>2, <1>3, <1>4 DEF Shown, Dialogs
    <3>2. BoxPlan(o2)
      BY <3>1, <2>1, <2>2, <1>3 DEF BoxPlan, TicksAreSet
    <3> QED
      BY <3>2, <1>2 DEF PlanIsTrue
  <2>3. CASE Head(o.plan) = "flip"
    <3>1. o2.cur.kind = d.kind /\ o2.cur.sel = d.sel /\ o2.cur.text = d.text
      BY <2>3, <1>3, <1>4 DEF Shown, Dialogs
    <3>2. o.plan # <<"onto", "right">>
      BY <2>3, HeadIs
    <3>3. BoxPlan(o2)
      BY <3>1, <3>2, <2>1, <2>3, <1>3 DEF BoxPlan
    <3> QED
      BY <3>3, <1>2 DEF PlanIsTrue
  <2> QED
    BY <1>5, <2>2, <2>3
<1>6. CASE Head(o.plan) = "row"
  <2>1. TextPlan(o)
    BY <1>6, StageIs
  <2>2. o2.plan = <<"type", "enter">> /\ Head(o2.plan) = "type" /\ o2.plan \in FreePlans
    BY <1>6, <2>1, FreePlanIs, HeadIs DEF TextPlan, PlanFrom, FreePlans
  <2>3. o2.cur.kind = d.kind /\ o2.cur.sel = FreeRow /\ o2.cur.text = d.text
    BY <1>3, <1>4, <1>6 DEF Shown, Dialogs
  <2>4. TextPlan(o2)
    BY <1>3, <1>6, <2>1, <2>2, <2>3 DEF TextPlan
  <2> QED
    BY <2>4, <1>2 DEF PlanIsTrue
<1>7. CASE Head(o.plan) = "type"
  <2>1. o2.cur.kind = d.kind /\ o2.cur.sel = d.sel /\ o2.cur.text = "asked"
        /\ o2.cur.ticks = IF d.kind = "boxes" THEN d.ticks \cup {FreeRow} ELSE d.ticks
    BY <1>3, <1>4, <1>7 DEF Shown, Dialogs
  <2>2. CASE BoxPlan(o)
    <3>1. o2.cur.ticks \cap CheckBoxes = d.ticks \cap CheckBoxes
      BY <2>1 DEF CheckBoxes, FreeRow
    <3>2. BoxPlan(o2)
      BY <3>1, <2>1, <2>2, <1>3, <1>7, BoxTail DEF BoxPlan, TicksAreSet
    <3> QED
      BY <3>2, <1>2 DEF PlanIsTrue
  <2>3. CASE TextPlan(o)
    <3>1. o2.plan = <<"enter">> /\ Head(o2.plan) = "enter" /\ o2.plan \in FreePlans
      BY <1>7, <2>3, FreePlanIs, HeadIs DEF TextPlan, PlanFrom, FreePlans
    <3>2. TextPlan(o2)
      BY <3>1, <2>1, <2>3, <1>3, <1>7 DEF TextPlan
    <3> QED
      BY <3>2, <1>2 DEF PlanIsTrue
  <2> QED
    BY <1>7, <2>2, <2>3, StageIs
<1>8. CASE Head(o.plan) = "walk"
  <2>1. WalkPlan(o)
    BY <1>8, StageIs
  <2>2. o2.plan = <<"enter">> /\ o2.plan \in WalkPlans
    BY <1>8, <2>1, WalkPlanIs, HeadIs DEF WalkPlan, PlanFrom, WalkPlans
  <2>3. o2.cur.kind = d.kind /\ o2.cur.sel = WantedRow(o)
    BY <1>3, <1>4, <1>8 DEF Shown, Dialogs
  <2>4. WalkPlan(o2)
    BY <1>3, <2>1, <2>2, <2>3 DEF WalkPlan, WantedRow
  <2> QED
    BY <2>4, <1>2 DEF PlanIsTrue
<1> QED
  BY <1>1, <1>5, <1>6, <1>7, <1>8

(* While the question is there, the screen never shows that the last stage  *)
(* is over, and an earlier one is over when its keys were taken.            *)
LEMMA VerdictIs ==
  ASSUME NEW o \in Responding, PlanIsTrue(o), o.at = "await", NEW d \in Dialogs, NEW keys \in Seq(AskKeys),
         Underway(o, d, keys)
  PROVE  /\ d.q = o.q /\ Verdict(o, d) # "diverged"
         /\ Verdict(o, d) = "arrived" => Head(o.plan) \notin LastStages /\ keys = <<>> /\ d = Shown(o)
<1>1. PICK cur, stage : cur = o.cur /\ stage = Head(o.plan)
  OBVIOUS
<1>2. cur \in Dialogs /\ cur.q = o.q /\ o.q # 0 /\ cur.sel \in 0 .. 4 /\ ~Reached(o)
  BY <1>1, RespondHas DEF Dialogs, PlanIsTrue, Underway
<1>3. stage \in {"cancel", "choose", "accept", "enter", "onto", "down", "flip", "row", "type", "right", "walk"}
  BY <1>1, RespondHas, PlanIs
<1>4. CASE stage = "accept"
  <2>1. d = cur
    BY <1>1, <1>4 DEF Underway, Accepting
  <2> QED
    BY <2>1, <1>1, <1>2, <1>4 DEF Verdict
<1>5. CASE stage = "walk" /\ o.cur.kind = "menu"
  <2>1. Walking(o, d, keys)
    BY <1>1, <1>5 DEF Underway
  <2>2. d = [cur EXCEPT !.sel = d.sel] /\ d.sel \in 0 .. 4
    BY <2>1, <1>1 DEF Walking, Dialogs
  <2>3. d.q = cur.q /\ d.ticks = cur.ticks /\ d.text = cur.text
    <3>1. PICK s : s = d.sel
      OBVIOUS
    <3> QED
      BY <3>1, <2>2, <1>2 DEF Dialogs
  <2>4. Nonce(d) = Nonce(cur)
    BY <2>3 DEF Nonce
  <2>5. Verdict(o, d) = IF d.sel = WantedRow(o) THEN "arrived" ELSE "pending"
    BY <2>4, <1>1, <1>5 DEF Verdict
  <2>6. ASSUME d.sel = WantedRow(o) PROVE keys = <<>> /\ d = Shown(o)
    <3>1. Len(keys) \in Nat /\ WantedRow(o) \in 0 .. 4
      BY WantedIs
    <3>2. Len(keys) = 0
      BY <3>1, <2>1, <2>6 DEF Walking
    <3>3. Shown(o) = [cur EXCEPT !.sel = WantedRow(o)]
      BY <1>1, <1>5 DEF Shown
    <3> QED
      BY <3>2, <3>3, <2>2, <2>6
  <2> QED
    BY <2>3, <2>5, <2>6, <1>1, <1>2, <1>5 DEF LastStages
<1>6. CASE stage # "accept" /\ ~(stage = "walk" /\ o.cur.kind = "menu")
  <2>1. OneKey(o, d, keys)
    BY <1>1, <1>6 DEF Underway
  <2>2. d \in {cur, Shown(o)} /\ (keys = <<>> \/ d = cur)
    BY <2>1, <1>1 DEF OneKey
  <2>3. d.q = o.q
    BY <2>2, <1>2, ShownIs
  <2>4. Verdict(o, cur) = "pending"
    <3>1. CASE stage \in {"cancel", "choose", "enter", "right"}
      BY <3>1, <1>1, <1>2 DEF Verdict, SameQuestion
    <3>2. CASE stage = "row"
      BY <3>2, <1>1, <1>2 DEF Verdict, SameQuestion, Reached
    <3>3. CASE stage = "type"
      <4>1. cur.text # "asked"
        <5>1. CASE TextPlan(o)
          BY <5>1, <3>3, <1>1 DEF TextPlan
        <5>2. CASE BoxPlan(o)
          <6>1. o.r.text /\ o.plan \notin TypedPlans
            <7>1. o.plan \notin TickPlans
              BY <3>3, <1>1, TickPlanIs DEF PlanFrom
            <7>2. o.plan \notin TypedPlans
              BY <3>3, <1>1, HeadIs DEF TypedPlans
            <7> QED
              BY <7>1, <7>2, <5>2 DEF BoxPlan
          <6> QED
            BY <6>1, <5>2, <1>1 DEF BoxPlan
        <5> QED
          BY <5>1, <5>2, <3>3, <1>1, StageIs
      <4> QED
        BY <4>1, <3>3, <1>1, <1>2 DEF Verdict, SameQuestion
    <3>4. CASE stage \in {"onto", "down"}
      BY <3>4, <1>1, <1>2 DEF Verdict, SameQuestion
    <3>5. CASE stage = "flip"
      <4>1. Min(Unflipped(o)) \in CheckBoxes
        BY <3>5, <1>1, <1>2, NextBoxIs DEF Reached
      <4>2. cur.ticks \ {FreeRow} # SymDiff(cur.ticks \ {FreeRow}, {Min(Unflipped(o))})
        BY <4>1 DEF SymDiff
      <4>3. Verdict(o, cur) = IF cur.ticks \ {FreeRow} = SymDiff(cur.ticks \ {FreeRow}, {Min(Unflipped(o))})
                              THEN "arrived" ELSE "pending"
        BY <3>5, <1>1, <1>2 DEF Verdict, SameQuestion
      <4> QED
        BY <4>2, <4>3
    <3>6. CASE stage = "walk"
      BY <3>6, <1>1, <1>2 DEF Verdict, Reached
    <3> QED
      BY <1>3, <1>6, <3>1, <3>2, <3>3, <3>4, <3>5, <3>6
  <2>5. Verdict(o, d) # "diverged"
    <3>1. CASE stage \in {"cancel", "choose", "enter", "right"}
      BY <3>1, <1>1 DEF Verdict
    <3>2. CASE stage \in {"row", "type", "onto", "down", "flip"}
      BY <3>2, <2>3, <1>1, <1>2 DEF Verdict, SameQuestion
    <3>3. CASE stage = "walk"
      <4>1. Nonce(d) = Nonce(cur)
        <5>1. d = cur \/ d = [cur EXCEPT !.sel = WantedRow(o)]
          BY <3>3, <2>2, <1>1 DEF Shown
        <5>2. d.q = cur.q /\ d.ticks = cur.ticks /\ d.text = cur.text
          BY <5>1, <1>2 DEF Dialogs
        <5> QED
          BY <5>2 DEF Nonce
      <4> QED
        BY <4>1, <3>3, <1>1 DEF Verdict
    <3> QED
      BY <1>3, <1>6, <3>1, <3>2, <3>3
  <2>6. ASSUME stage \in LastStages PROVE Verdict(o, d) # "arrived"
    <3>1. stage \in {"cancel", "choose", "enter", "right"}
      BY <2>6, <1>6 DEF LastStages
    <3>2. CASE stage = "right"
      BY <3>2, <2>3, <1>1, <1>2 DEF Verdict, SameQuestion
    <3>3. CASE stage \in {"cancel", "choose", "enter"}
      <4>1. d = cur \/ d = [cur EXCEPT !.sel = FreeRow]
        BY <3>3, <2>2, <1>1 DEF Shown
      <4>2. d.q = cur.q /\ d.ticks = cur.ticks /\ d.text = cur.text
        BY <4>1, <1>2 DEF Dialogs
      <4>3. Nonce(d) = Nonce(cur)
        BY <4>2 DEF Nonce
      <4> QED
        BY <4>3, <3>3, <1>1 DEF Verdict
    <3> QED
      BY <3>1, <3>2, <3>3
  <2> QED
    BY <2>2, <2>3, <2>4, <2>5, <2>6, <1>1
<1> QED
  BY <1>4, <1>5, <1>6, <1>2, <1>1 DEF LastStages, Verdict

-----------------------------------------------------------------------------
(* QuestionAnswers: every answer is as it was asked for                     *)

(* A stage that needs no key.                                               *)
LEMMA SkipStageTrue ==
  ASSUME AskTypeOK, AskSound, SkipStage
  PROVE  AskSound'
<1>1. PICK o : o = respond
  OBVIOUS
<1>2. o \in Responding /\ o.plan \in AskPlans /\ RespondIsTrue(o) /\ PlanIsTrue(o) /\ o.at = "stage" /\ Reached(o)
  BY <1>1, UnderwayHas, RespondHas DEF SkipStage
<1>3. Tail(o.plan) \in AskPlans
  <2>1. Head(o.plan) \notin LastStages
    BY <1>2 DEF Reached, LastStages
  <2> QED
    BY <2>1, <1>2, PlanIs
<1>4. PICK o2 : o2 = [o EXCEPT !.plan = Tail(o.plan)]
  OBVIOUS
<1>5. respond' = o2 /\ UNCHANGED <<askEnv, dialog, tty, held, touched, answers, receipts, responds>>
  BY <1>1, <1>2, <1>4 DEF SkipStage, Responding
<1>6. /\ o2 \in Responding /\ o2.at = "stage" /\ o2.n = o.n /\ o2.q = o.q /\ o2.r = o.r /\ o2.before = o.before
      /\ o2.cur = o.cur /\ o2.plan = Tail(o.plan)
  BY <1>2, <1>3, <1>4 DEF Responding
<1>7. PlanIsTrue(o2)
  BY <1>2, <1>6, SkipPlans
<1>8. Underway(o, dialog, tty) /\ AnswersBy(o.n) = {}
  BY <1>2 DEF RespondIsTrue, HasLeft
<1>9. Underway(o2, dialog, tty')
  BY <1>2, <1>5, <1>6, <1>8 DEF Underway
<1>10. respond.at # "idle"
  BY DEF SkipStage
<1> QED
  BY <1>1, <1>5, <1>6, <1>7, <1>8, <1>9, <1>10, OnwardTrue

(* The keys of a stage, as they are sent.                                   *)
LEMMA SentIs ==
  ASSUME NEW o \in Responding, PlanIsTrue(o), ~Reached(o), NEW d \in Dialogs, d = o.cur,
         NEW sent, sent = [i \in DOMAIN KeysOf(o) |-> SentKey(o, KeysOf(o)[i])]
  PROVE  /\ Head(o.plan) = "accept" => Accepting(o, d, sent)
         /\ Head(o.plan) = "walk" /\ o.cur.kind = "menu" => Walking(o, d, sent)
         /\ Head(o.plan) # "accept" /\ ~(Head(o.plan) = "walk" /\ o.cur.kind = "menu") => OneKey(o, d, sent)
<1>1. Head(o.plan) \in {"cancel", "choose", "accept", "enter", "onto", "down", "flip", "row", "type", "right", "walk"}
  BY RespondHas, PlanIs
<1>2. PICK keys : keys = KeysOf(o)
  OBVIOUS
<1>3. CASE Head(o.plan) = "accept"
  <2>1. keys = <<KeyPress("Space"), KeyPress("Enter")>>
    BY <1>2, <1>3 DEF KeysOf
  <2>2. sent = <<SentKey(o, KeyPress("Space")), SentKey(o, KeyPress("Enter"))>>
    BY <2>1, <1>2
  <2> QED
    BY <2>2, <1>3 DEF Accepting
<1>4. CASE Head(o.plan) = "walk" /\ o.cur.kind = "menu"
  <2>1. PICK sel, wanted : sel = o.cur.sel /\ wanted = WantedRow(o)
    OBVIOUS
  <2>2. sel \in 0 .. 4 /\ wanted \in 0 .. 4 /\ sel # wanted
    BY <2>1, <1>4, WantedIs, RespondHas DEF Dialogs, Reached
  <2>3. d = [o.cur EXCEPT !.sel = d.sel]
    BY DEF Dialogs
  <2>4. ASSUME NEW key, NEW n \in Nat, keys = Presses(key, n)
        PROVE  Len(sent) = n /\ \A i \in 1 .. Len(sent) : sent[i] = SentKey(o, KeyPress(key))
    <3>1. DOMAIN keys = 1 .. n /\ \A i \in 1 .. n : keys[i] = KeyPress(key)
      BY <2>4 DEF Presses
    <3>2. sent = [i \in 1 .. n |-> SentKey(o, keys[i])]
      BY <3>1, <1>2
    <3>3. Len(sent) = n /\ \A i \in 1 .. n : sent[i] = SentKey(o, keys[i])
      BY <3>2
    <3> QED
      BY <3>1, <3>3
  <2>5. CASE wanted > sel
    <3>1. keys = Presses("Down", wanted - sel) /\ wanted - sel \in Nat
      BY <2>1, <2>2, <2>5, <1>2, <1>4 DEF KeysOf
    <3>2. Len(sent) = wanted - sel /\ \A i \in 1 .. Len(sent) : sent[i] = SentKey(o, KeyPress("Down"))
      BY <3>1, <2>4
    <3>3. d.sel + Len(sent) <= WantedRow(o)
      BY <3>2, <2>1, <2>2
    <3> QED
      BY <3>2, <3>3, <2>3, <1>4, Zenon DEF Walking
  <2>6. CASE ~(wanted > sel)
    <3>1. keys = Presses("Up", sel - wanted) /\ sel - wanted \in Nat
      BY <2>1, <2>2, <2>6, <1>2, <1>4 DEF KeysOf
    <3>2. Len(sent) = sel - wanted /\ \A i \in 1 .. Len(sent) : sent[i] = SentKey(o, KeyPress("Up"))
      BY <3>1, <2>4
    <3>3. d.sel >= WantedRow(o) + Len(sent)
      BY <3>2, <2>1, <2>2
    <3> QED
      BY <3>2, <3>3, <2>3, <1>4, Zenon DEF Walking
  <2> QED
    BY <2>5, <2>6
<1>5. CASE Head(o.plan) # "accept" /\ ~(Head(o.plan) = "walk" /\ o.cur.kind = "menu")
  <2>1. Head(o.plan) = "walk" => o.cur.kind = "preview"
    BY <1>5, StageIs DEF WalkPlan
  <2>2. \E k : keys = <<k>>
    BY <2>1, <1>1, <1>2, <1>5 DEF KeysOf, ChooseKeys
  <2>3. sent = <<SentKey(o, keys[1])>>
    BY <2>2, <1>2
  <2> QED
    BY <2>3, <1>2, <1>5 DEF OneKey
<1> QED
  BY <1>3, <1>4, <1>5

(* The keys of a stage are sent.                                            *)
LEMMA PressStageTrue ==
  ASSUME AskTypeOK, AskSound, PressStage
  PROVE  AskSound'
<1>1. PICK o : o = respond
  OBVIOUS
<1>2. o \in Responding /\ RespondIsTrue(o) /\ PlanIsTrue(o) /\ o.at = "stage" /\ ~Reached(o)
  BY <1>1, UnderwayHas DEF PressStage
<1>3. PICK o2 : o2 = [o EXCEPT !.at = "await"]
  OBVIOUS
<1>4. respond' = o2 /\ UNCHANGED <<askEnv, dialog, held, answers, receipts, responds>>
  BY <1>1, <1>3 DEF PressStage
<1>5. /\ o2 \in Responding /\ o2.at = "await" /\ o2.n = o.n /\ o2.q = o.q /\ o2.r = o.r /\ o2.before = o.before
      /\ o2.cur = o.cur /\ o2.plan = o.plan
  BY <1>2, <1>3 DEF Responding
<1>6. Underway(o, dialog, tty) /\ AnswersBy(o.n) = {}
  BY <1>2 DEF RespondIsTrue, HasLeft
<1>7. tty = <<>> /\ dialog = o.cur /\ dialog \in Dialogs
  BY <1>2, <1>6 DEF Underway, AskTypeOK
<1>8. PICK sent \in Seq(AskKeys) :
         /\ sent = [i \in DOMAIN KeysOf(o) |-> SentKey(o, KeysOf(o)[i])]
         /\ tty' = tty \o sent
  BY <1>1, PressStageTyped
<1>9. tty' = sent
  BY <1>7, <1>8
<1>10. /\ Head(o.plan) = "accept" => Accepting(o, dialog, sent)
       /\ Head(o.plan) = "walk" /\ o.cur.kind = "menu" => Walking(o, dialog, sent)
       /\ Head(o.plan) # "accept" /\ ~(Head(o.plan) = "walk" /\ o.cur.kind = "menu") => OneKey(o, dialog, sent)
  BY <1>2, <1>7, <1>8, SentIs
<1>11. /\ PlanIsTrue(o2) /\ (Reached(o2) <=> Reached(o)) /\ WantedRow(o2) = WantedRow(o)
       /\ KeysOf(o2) = KeysOf(o) /\ Shown(o2) = Shown(o) /\ \A k : SentKey(o2, k) = SentKey(o, k)
  <2>1. WantedRow(o2) = WantedRow(o) /\ Unflipped(o2) = Unflipped(o) /\ \A k : SentKey(o2, k) = SentKey(o, k)
    BY <1>5 DEF WantedRow, Unflipped, SentKey
  <2>2. Reached(o2) <=> Reached(o)
    BY <2>1, <1>5 DEF Reached
  <2>3. KeysOf(o2) = KeysOf(o)
    BY <2>1, <1>5 DEF KeysOf, ChooseKeys
  <2>4. Shown(o2) = Shown(o)
    BY <2>1, <1>5 DEF Shown
  <2>5. PlanIsTrue(o2)
    BY <2>1, <1>2, <1>5 DEF PlanIsTrue, CancelPlan, BoxPlan, TextPlan, WalkPlan, AcceptPlan, ChoosePlan, TicksAreSet, NotInField
  <2> QED
    BY <2>1, <2>2, <2>3, <2>4, <2>5
<1>12. Underway(o2, dialog, sent)
  <2>1. Head(o.plan) = "accept" => Accepting(o2, dialog, sent)
    BY <1>5, <1>10, <1>11 DEF Accepting
  <2>2. Head(o.plan) = "walk" /\ o.cur.kind = "menu" => Walking(o2, dialog, sent)
    BY <1>5, <1>10, <1>11 DEF Walking
  <2>3. Head(o.plan) # "accept" /\ ~(Head(o.plan) = "walk" /\ o.cur.kind = "menu") => OneKey(o2, dialog, sent)
    BY <1>5, <1>10, <1>11 DEF OneKey
  <2> QED
    BY <2>1, <2>2, <2>3, <1>2, <1>5, <1>11 DEF Underway
<1>13. respond.at # "idle"
  BY DEF PressStage
<1> QED
  BY <1>1, <1>4, <1>5, <1>6, <1>9, <1>11, <1>12, <1>13, OnwardTrue

(* A look at the screen.                                                    *)
LEMMA LookBackTrue ==
  ASSUME AskTypeOK, AskSound, LookBack
  PROVE  AskSound'
<1>1. PICK o : o = respond
  OBVIOUS
<1>2. o \in Responding /\ o.plan \in AskPlans /\ RespondIsTrue(o) /\ PlanIsTrue(o) /\ o.at = "await"
  BY <1>1, UnderwayHas, RespondHas DEF LookBack
<1>3. UNCHANGED <<askEnv, dialog, tty, held, touched, answers, responds>> /\ respond.at # "idle"
  BY DEF LookBack
<1>4. dialog \in Dialogs /\ tty \in Seq(AskKeys)
  BY DEF AskTypeOK
<1>5. CASE HasLeft(o, dialog, tty) /\ AnswersBy(o.n) # {}
  <2>1. tty = <<>> /\ Head(o.plan) \in LastStages
    BY <1>5 DEF HasLeft
  <2>2. LastStage(o)
    BY <2>1, <1>2, PlanIs DEF LastStage
  <2>3. PICK outcome \in Outcomes : Receipt(respond, outcome, touched)
    BY <2>2, <1>1 DEF LookBack, Outcomes
  <2> QED
    BY <2>1, <2>3, <1>1, <1>3, <1>5, ReceiptTrue
<1>6. CASE Underway(o, dialog, tty) /\ AnswersBy(o.n) = {}
  <2>1. Verdict(o, dialog) # "diverged"
        /\ (Verdict(o, dialog) = "arrived" => Head(o.plan) \notin LastStages /\ tty = <<>> /\ dialog = Shown(o))
    BY <1>2, <1>4, <1>6, VerdictIs
  <2>2. Verdict(o, dialog) = "arrived"
    BY <2>1, <1>1 DEF LookBack
  <2>3. ~LastStage(o) /\ Tail(o.plan) \in AskPlans
    BY <2>1, <2>2, <1>2, PlanIs DEF LastStage
  <2>4. PICK plan : plan = IF Head(o.plan) \in {"onto", "down", "flip"} THEN o.plan ELSE Tail(o.plan)
    OBVIOUS
  <2>5. plan \in AskPlans
    BY <2>3, <2>4, <1>2
  <2>6. PICK o2 : o2 = [o EXCEPT !.at = "stage", !.cur = dialog, !.plan = plan]
    OBVIOUS
  <2>7. respond' = o2 /\ UNCHANGED receipts
    BY <2>2, <2>3, <2>1, <2>4, <2>6, <1>1, <1>2 DEF LookBack, Responding
  <2>8. /\ o2 \in Responding /\ o2.at = "stage" /\ o2.n = o.n /\ o2.q = o.q /\ o2.r = o.r /\ o2.before = o.before
        /\ o2.cur = dialog /\ o2.plan = plan
    BY <2>5, <2>6, <1>2, <1>4 DEF Responding
  <2>9. ~Reached(o)
    BY <1>2, <1>6 DEF Underway
  <2>10. PlanIsTrue(o2)
    BY <2>1, <2>2, <2>4, <2>8, <2>9, <1>2, ShownPlans
  <2>11. Underway(o2, dialog, tty')
    BY <2>1, <2>2, <2>8, <1>3 DEF Underway
  <2> QED
    BY <2>7, <2>8, <2>10, <2>11, <1>1, <1>3, <1>6, OnwardTrue
<1> QED
  BY <1>2, <1>5, <1>6 DEF RespondIsTrue

(* The window ends when every key was taken.                                *)
LEMMA WindowOverTrue ==
  ASSUME AskTypeOK, AskPlain, AskSound, WindowOver
  PROVE  AskSound'
<1>1. tty = <<>> /\ respond.at = "await" /\ UNCHANGED <<askEnv, dialog, tty, held, touched, answers, responds>>
  BY DEF WindowOver, AskPlain
<1>2. RespondIsTrue(respond) /\ PlanIsTrue(respond) /\ respond \in Responding
  BY <1>1, UnderwayHas
<1>3. PICK outcome : /\ Receipt(respond, outcome, touched)
                     /\ outcome = "submitted" => dialog.q = 0
  BY DEF WindowOver
<1>4. dialog.q = 0 => AnswersBy(respond.n) # {}
  <2> SUFFICES ASSUME dialog.q = 0, AnswersBy(respond.n) = {} PROVE FALSE
    OBVIOUS
  <2>1. Underway(respond, dialog, tty)
    BY <1>2 DEF RespondIsTrue
  <2>2. dialog \in Dialogs /\ tty \in Seq(AskKeys)
    BY DEF AskTypeOK
  <2>3. dialog.q = respond.q
    BY <2>1, <2>2, <1>1, <1>2, VerdictIs
  <2> QED
    BY <2>3, <1>2 DEF PlanIsTrue
<1> QED
  BY <1>1, <1>3, <1>4, ReceiptTrue

(* No paste, no key on its way.                                             *)
LEMMA PasteRefusedTrue ==
  ASSUME AskTypeOK, AskSound, PasteRefused
  PROVE  AskSound'
<1>1. respond.at = "stage" /\ UNCHANGED <<askEnv, dialog, tty, held, touched, answers, responds>>
      /\ Receipt(respond, "refused", touched)
  BY DEF PasteRefused
<1>2. RespondIsTrue(respond)
  BY <1>1, UnderwayHas
<1>3. tty = <<>>
  BY <1>1, <1>2 DEF RespondIsTrue, Underway, HasLeft
<1> QED
  BY <1>1, <1>3, ReceiptTrue

(* The person answers between two Responds.                                 *)
LEMMA PersonTrue ==
  ASSUME AskTypeOK, AskPlain, AskSound, PersonAnswers
  PROVE  AskSound'
<1>1. respond = Resting /\ tty = <<>> /\ UNCHANGED <<askEnv, tty, held, respond, touched, receipts, responds>>
      /\ LeavesBy(0, 1)
  BY DEF PersonAnswers, AskPlain
<1>2. PICK a : a = [q |-> dialog.q, by |-> 0, row |-> 1, ticks |-> dialog.ticks \cap CheckBoxes, text |-> dialog.text]
  OBVIOUS
<1>3. answers' = answers \cup {a} /\ DialogIsFit(dialog')
  BY <1>1, <1>2, LeavesIs
<1>4. a.by = 0 /\ responds \in Nat /\ \A v \in receipts : v.n # 0
  BY <1>2 DEF AskTypeOK
<1>5. AnsweredAsAsked'
  BY <1>1, <1>3, <1>4 DEF AskSound, AnsweredAsAsked
<1>6. \A b \in answers' : b.by <= responds'
  BY <1>1, <1>3, <1>4 DEF AskSound
<1> QED
  BY <1>1, <1>3, <1>5, <1>6 DEF AskSound

(* The invariant holds, in every environment.                               *)
THEOREM AskInvariantHolds == AskSpec => []AskInv
<1>1. AskInit => AskSound
  <2> SUFFICES ASSUME AskInit PROVE AskSound
    OBVIOUS
  <2>1. PICK kind \in askEnv.kinds : dialog = Question(1, kind)
    BY DEF AskInit
  <2>2. kind \in QuestionKinds
    BY AskAssumption DEF AskInit, QuestionKinds
  <2>3. DialogIsFit(dialog)
    <3>1. 1 \in Nat /\ 1 # 0
      OBVIOUS
    <3>2. DialogIsFit(Question(1, kind))
      BY <3>1, <2>2, QuestionIs, Zenon
    <3> QED
      BY <3>2, <2>1, Zenon
  <2> QED
    BY <2>3 DEF AskInit, AskSound, AnsweredAsAsked
<1>2. AskTypeOK /\ (AskPlain => AskSound) /\ [AskNext]_askVars => (AskPlain => AskSound)'
  <2> SUFFICES ASSUME AskTypeOK, AskPlain => AskSound, [AskNext]_askVars, AskPlain' PROVE AskSound'
    OBVIOUS
  <2>1. askEnv' = askEnv
    BY DEF AskNext, TakeKey, PersonAnswers, ReadState, Respond, SkipStage, PressStage, PasteRefused, LookBack, WindowOver, askVars
  <2>2. AskPlain /\ AskSound
    BY <2>1 DEF AskPlain, AskMay
  <2>3. CASE ReadState \/ UNCHANGED askVars
    <3>1. UNCHANGED <<askEnv, dialog, tty, respond, touched, answers, receipts, responds>>
      BY <2>3 DEF ReadState, askVars
    <3>2. AnsweredAsAsked' /\ DialogIsFit(dialog')
      BY <3>1, <2>2 DEF AskSound, AnsweredAsAsked
    <3>3. RespondIsTrue(respond) => RespondIsTrue(respond)'
      BY <3>1 DEF RespondIsTrue, AnswersBy
    <3> QED
      BY <3>1, <3>2, <3>3, <2>2 DEF AskSound
  <2> QED
    BY <2>2, <2>3, TakeKeyTrue, RespondTrue, SkipStageTrue, PressStageTrue, LookBackTrue, WindowOverTrue,
       PasteRefusedTrue, PersonTrue DEF AskNext
<1>3. AskSpec => []AskTypeOK
  BY AskTypeCorrect
<1> QED
  BY <1>1, <1>2, <1>3, PTL DEF AskSpec, AskInv

(* Where nobody else answers at the same time, the driver waits for its     *)
(* keys, and no option is chosen by its digit from a free-text field or to  *)
(* reach one beside checkboxes, an answer that a receipt reports was given, *)
(* and what leaves the screen at the keys of a Respond was answered as that *)
(* Respond was asked.                                                       *)
THEOREM AnswersAreAsAsked == AskSpec /\ []AskPlain => []AnsweredAsAsked
<1>1. AskInv /\ AskPlain => AnsweredAsAsked
  BY DEF AskInv, AskSound
<1> QED
  BY <1>1, AskInvariantHolds, PTL
==============================================================================
