-------------------------- MODULE SyncPanelProofs --------------------------
(***************************************************************************)
(* The safety invariants of SyncPanel, for any files, channel capacities   *)
(* and numbers of agents, buttons and batches.                             *)
(***************************************************************************)
EXTENDS SyncPanel, SequenceTheorems, FiniteSetTheorems, TLAPS

-----------------------------------------------------------------------------
(* A caller goes to another place; the other one stays where it is.        *)
LEMMA GotoType ==
  ASSUME call \in [Callers -> Call], NEW c \in Callers, NEW place \in Places, Goto(c, place)
  PROVE  /\ call' \in [Callers -> Call]
         /\ call'[c].at = place /\ call'[c].goal = call[c].goal /\ call'[c].old = call[c].old
         /\ \A d \in Callers : d # c => call'[d] = call[d]
<1> DEFINE r == [call[c] EXCEPT !.at = place]
<1>1. r \in Call /\ r.at = place /\ r.goal = call[c].goal /\ r.old = call[c].old
  BY DEF Call
<1>2. call' = [call EXCEPT ![c] = r]
  BY DEF Goto
<1> HIDE DEF r
<1> QED BY <1>1, <1>2

(* A call that is over leaves its caller free.                             *)
LEMMA ReturnType ==
  ASSUME call \in [Callers -> Call], NEW c \in Callers, Return(c)
  PROVE  /\ call' \in [Callers -> Call] /\ call'[c].at = "idle" /\ call'[c].old = None
         /\ \A d \in Callers : d # c => call'[d] = call[d]
<1>1. Free \in Call /\ Free.at = "idle" /\ Free.old = None
  BY DEF Free, Call, Places, Goals
<1> QED BY <1>1 DEF Return

(* Every caller begins free, or with the resume ahead of it.               *)
LEMMA BootType ==
  /\ Boot \in [Callers -> Call]
  /\ \A c \in Callers : Boot[c].at = "idle" /\ Boot[c].old = None
<1>1. Free \in Call /\ Free.at = "idle" /\ Free.old = None
  BY DEF Free, Call, Places, Goals
<1> DEFINE r == [Free EXCEPT !.goal = "resume"]
<1>2. r \in Call /\ r.at = "idle" /\ r.old = None
  BY DEF Free, Call, Places, Goals
<1> HIDE DEF r
<1>3. Boot = [c \in Callers |-> IF c = "resume" THEN r ELSE Free]
  BY DEF Boot, r
<1> QED BY <1>1, <1>2, <1>3

(* None is no agent.                                                       *)
LEMMA Apart == None \notin AgentIds /\ AgentIds \subseteq Nat
BY PanelAssumption DEF PanelAssumption, AgentIds

(* A channel keeps the newest of what it is sent.                          *)
LEMMA NewestType ==
  ASSUME NEW s \in Seq(Event)
  PROVE  Newest(s) \in Seq(Event) /\ Len(Newest(s)) <= Capacity
<1>0. Capacity \in Nat \ {0} /\ Len(s) \in Nat /\ s \in [1 .. Len(s) -> Event]
  BY PanelAssumption, LenProperties DEF PanelAssumption
<1>1. CASE Len(s) > Capacity
  <2> DEFINE m == Len(s) - Capacity + 1
  <2>1. m \in Int /\ Len(s) \in Int /\ m >= 1 /\ m <= Len(s) /\ Len(s) - m + 1 = Capacity
    BY <1>0, <1>1
  <2>2. Newest(s) = SubSeq(s, m, Len(s))
    BY <1>1 DEF Newest
  <2> HIDE DEF m
  <2>3. \A i \in m .. Len(s) : s[i] \in Event
    BY <1>0, <2>1
  <2>4. SubSeq(s, m, Len(s)) \in Seq(Event) /\ Len(SubSeq(s, m, Len(s))) = Len(s) - m + 1
    BY <2>1, <2>3, SubSeqProperties
  <2> QED BY <1>0, <2>1, <2>2, <2>4
<1>2. CASE ~(Len(s) > Capacity)
  BY <1>0, <1>2 DEF Newest
<1> QED BY <1>1, <1>2

(* The events an agent sends.                                              *)
LEMMA EventTypes ==
  /\ \A kind \in {"Started", "Busy", "Idle", "Error"} : Ev(kind) \in Event
  /\ \A f \in Files : [kind |-> "FileQueued", rel |-> f] \in Event
  /\ \A f \in Files : [kind |-> "Synced", rel |-> f] \in Event
BY DEF Ev, Event

(* What an agent sends stays in its channel as far as that holds.          *)
LEMMA AgentType ==
  ASSUME TypeOK, NEW a \in AgentIds, NEW events \in Seq(Event),
         NEW phase \in {"starting", "idle", "busy", "done"}, Agent(a, phase, events),
         todo' \in [AgentIds -> SUBSET Files]
  PROVE  TypeOK'
<1>1. (sent[a] \o events) \in Seq(Event)
  BY ConcatProperties DEF TypeOK
<1>2. Newest(sent[a] \o events) \in Seq(Event) /\ Len(Newest(sent[a] \o events)) <= Capacity
  BY <1>1, NewestType
<1>3. sent' = [sent EXCEPT ![a] = Newest(sent[a] \o events)]
  BY DEF Agent
<1>4. sent' \in [AgentIds -> Seq(Event)] /\ \A b \in AgentIds : Len(sent'[b]) <= Capacity
  BY <1>2, <1>3 DEF TypeOK
<1>5. agents' \in [AgentIds -> {"unused", "new", "starting", "idle", "busy", "aborting", "done"}]
  BY DEF Agent, TypeOK
<1> QED BY <1>4, <1>5 DEF TypeOK, Agent, disk, controller, outside, window

-----------------------------------------------------------------------------
(* Everything has its type when the window opens.                          *)
THEOREM InitTypes == Init => TypeOK
<1> SUFFICES ASSUME Init PROVE TypeOK
  OBVIOUS
<1>1. PanelAssumption /\ <<>> \in Seq(Event) /\ Len(<<>>) = 0
  BY PanelAssumption, EmptySeq
<1>2. sent \in [AgentIds -> Seq(Event)] /\ \A a \in AgentIds : Len(sent[a]) <= Capacity
  BY <1>1 DEF Init, PanelAssumption
<1>3. ui \in Seq(Event) /\ Len(ui) <= UiCapacity
  BY <1>1 DEF Init, PanelAssumption
<1>4. /\ agents \in [AgentIds -> {"unused", "new", "starting", "idle", "busy", "aborting", "done"}]
      /\ todo \in [AgentIds -> SUBSET Files] /\ hand \in [AgentIds -> Event \cup {None}]
      /\ forwarder \in [AgentIds -> {"unused", "running", "ended"}]
  BY DEF Init
<1>5. call \in [Callers -> Call]
  BY BootType DEF Init
<1>6. /\ task \in AgentIds \cup {None} /\ sender \in AgentIds \cup {None} /\ mounted \in BOOLEAN
      /\ bridge \in {"none", "bare", "drive"} /\ leaving \in BOOLEAN
      /\ status \in {"NotRunning", "Starting", "Idle", "Busy", "Error"}
      /\ rows \subseteq Files /\ pulsing \in BOOLEAN
  <2>1. /\ task = None /\ sender = None /\ mounted = FALSE
        /\ bridge = "none" /\ leaving = FALSE /\ status = "NotRunning" /\ rows = {} /\ pulsing = FALSE
    BY DEF Init
  <2> QED BY <2>1
<1>7. version \in 0 .. 2 /\ column \in BOOLEAN
  <2>1. version = 0
    BY DEF Init
  <2>2. column \in BOOLEAN
    BY DEF Init
  <2>3. version \in 0 .. 2
    BY <2>1
  <2> QED BY <2>2, <2>3
<1> QED BY <1>2, <1>3, <1>4, <1>5, <1>6, <1>7 DEF TypeOK

(* A button starts a call of the GTK thread, which was free.               *)
LEMMA PressType ==
  ASSUME TypeOK, NEW goal \in Goals, Press(goal)
  PROVE  /\ call' \in [Callers -> Call] /\ call["gtk"].at = "idle" /\ call'["gtk"].at = "drop"
         /\ call'["gtk"].old = None /\ call'["resume"] = call["resume"]
<1> DEFINE r == [Free EXCEPT !.at = "drop", !.goal = goal]
<1>1. r \in Call /\ r.at = "drop" /\ r.old = None
  BY DEF Free, Call, Places, Goals
<1>2. call' = [call EXCEPT !["gtk"] = r] /\ At("gtk", "idle")
  BY DEF Press
<1> HIDE DEF r
<1> QED BY <1>1, <1>2 DEF TypeOK, Callers, At

(* Buttons and the ends of the threads they start keep the types.          *)
LEMMA ButtonTypes ==
  ASSUME TypeOK, SyncNow \/ SignIn \/ SignOut \/ Logout \/ Resume PROVE TypeOK'
<1>1. CASE SyncNow \/ SignIn \/ SignOut
  <2>1. call' \in [Callers -> Call]
    BY <1>1, PressType DEF SyncNow, SignIn, SignOut, Goals
  <2>2. CASE SyncNow
    BY <2>1, <2>2 DEF TypeOK, SyncNow, Press, disk, controller, pipe, window, outside
  <2>3. CASE SignIn
    BY <2>1, <2>3 DEF TypeOK, SignIn, Press, disk, controller, pipe, window, outside
  <2>4. CASE SignOut
    BY <2>1, <2>4 DEF TypeOK, SignOut, Press, disk, controller, pipe, window, outside
  <2> QED BY <1>1, <2>2, <2>3, <2>4
<1>2. CASE Logout
  BY <1>2 DEF TypeOK, Logout, disk, controller, pipe, window
<1>3. CASE Resume
  <2>1. call' \in [Callers -> Call]
    BY <1>3, ReturnType, GotoType DEF TypeOK, Resume, Callers, Places
  <2> QED BY <1>3, <2>1 DEF TypeOK, Resume, disk, controller, pipe, window
<1> QED BY <1>1, <1>2, <1>3

(* DropSenders keeps the handle it took.                                   *)
LEMMA DropType ==
  ASSUME TypeOK, NEW c \in Callers, DropSenders(c)
  PROVE  /\ call' \in [Callers -> Call]
         /\ call'[c].at = (IF task = None THEN "unmount" ELSE "join") /\ call'[c].old = task
         /\ \A d \in Callers : d # c => call'[d] = call[d]
<1> DEFINE r == [call[c] EXCEPT !.at = IF task = None THEN "unmount" ELSE "join", !.old = task]
<1>1. r \in Call /\ r.at = (IF task = None THEN "unmount" ELSE "join") /\ r.old = task
  BY DEF TypeOK, Call, Places
<1>2. call' = [call EXCEPT ![c] = r]
  BY DEF DropSenders
<1> HIDE DEF r
<1> QED BY <1>1, <1>2 DEF TypeOK

(* block_on waits on the GTK thread, and panics on the runtime.            *)
LEMMA JoinType ==
  ASSUME TypeOK, NEW c \in Callers, Join(c)
  PROVE  /\ call' \in [Callers -> Call]
         /\ call'[c].at = IF c = "resume" THEN "panic" ELSE "unmount"
         /\ call'[c].old = IF c = "resume" THEN call[c].old ELSE None
         /\ \A d \in Callers : d # c => call'[d] = call[d]
<1> DEFINE r == [call[c] EXCEPT !.at = "unmount", !.old = None]
<1>1. r \in Call /\ r.at = "unmount" /\ r.old = None
  BY DEF TypeOK, Call, Places
<1>2. CASE c = "resume"
  BY <1>2, GotoType DEF Join, TypeOK, Places
<1>3. CASE c # "resume"
  <2>1. call' = [call EXCEPT ![c] = r]
    BY <1>3 DEF Join
  <2> HIDE DEF r
  <2> QED BY <1>1, <1>3, <2>1 DEF TypeOK
<1> QED BY <1>2, <1>3

(* The end of the process keeps only what is on disk.                      *)
LEMMA QuitType == ASSUME TypeOK, Quit PROVE TypeOK'
<1>1. PanelAssumption /\ <<>> \in Seq(Event) /\ Len(<<>>) = 0
  BY PanelAssumption, EmptySeq
<1>2. sent' \in [AgentIds -> Seq(Event)] /\ \A a \in AgentIds : Len(sent'[a]) <= Capacity
  BY <1>1 DEF Quit, PanelAssumption
<1>3. ui' \in Seq(Event) /\ Len(ui') <= UiCapacity
  BY <1>1 DEF Quit, PanelAssumption
<1>4. /\ agents' \in [AgentIds -> {"unused", "new", "starting", "idle", "busy", "aborting", "done"}]
      /\ todo' \in [AgentIds -> SUBSET Files] /\ hand' \in [AgentIds -> Event \cup {None}]
      /\ forwarder' \in [AgentIds -> {"unused", "running", "ended"}]
  BY DEF Quit
<1>5. call' \in [Callers -> Call]
  BY BootType DEF Quit
<1>6. /\ task' \in AgentIds \cup {None} /\ sender' \in AgentIds \cup {None} /\ mounted' \in BOOLEAN
      /\ bridge' \in {"none", "bare", "drive"} /\ leaving' \in BOOLEAN
      /\ status' \in {"NotRunning", "Starting", "Idle", "Busy", "Error"}
      /\ rows' \subseteq Files /\ pulsing' \in BOOLEAN
  <2>1. /\ task' = None /\ sender' = None /\ mounted' = FALSE
        /\ bridge' = "none" /\ leaving' = FALSE /\ status' = "NotRunning" /\ rows' = {} /\ pulsing' = FALSE
    BY DEF Quit
  <2> QED BY <2>1
<1>7. version' \in 0 .. 2 /\ column' \in BOOLEAN
  BY DEF Quit, disk, TypeOK
<1> QED BY <1>2, <1>3, <1>4, <1>5, <1>6, <1>7 DEF TypeOK

(* Where a caller that starts or stops goes, step by step.                 *)
LEMMA StepType ==
  ASSUME TypeOK, NEW c \in Callers, Step(c)
  PROVE  /\ call' \in [Callers -> Call]
         /\ \A d \in Callers : d # c => call'[d] = call[d]
<1> USE DEF TypeOK, Places
<1>1. CASE DropSenders(c)
  BY <1>1, DropType
<1>2. CASE Join(c)
  BY <1>2, JoinType
<1>3. CASE Unmount(c)
  BY <1>3, GotoType, ReturnType DEF Unmount
<1>4. CASE OpenState(c)
  <2>1. <<"create", "alter", "root">>[version + 1] \in Places
    OBVIOUS
  <2> QED BY <1>4, <2>1, GotoType, ReturnType DEF OpenState, Fail
<1>5. CASE Create(c)
  BY <1>5, GotoType, ReturnType DEF Create, Fail
<1>6. CASE Alter(c)
  BY <1>6, GotoType, ReturnType DEF Alter, Fail
<1>7. CASE Bump(c)
  BY <1>7, GotoType, ReturnType DEF Bump, Fail
<1>8. CASE Mount(c)
  BY <1>8, GotoType DEF Mount
<1>9. CASE Spawn(c)
  BY <1>9, ReturnType DEF Spawn
<1> QED BY <1>1, <1>2, <1>3, <1>4, <1>5, <1>6, <1>7, <1>8, <1>9 DEF Step

(* Stopping and starting keep the types.                                   *)
LEMMA StepTypes == ASSUME TypeOK, NEW c \in Callers, Step(c) PROVE TypeOK'
<1>0. call' \in [Callers -> Call]
  BY StepType
<1>1. CASE DropSenders(c)
  BY <1>0, <1>1 DEF TypeOK, DropSenders, disk, outside, pipe, window
<1>2. CASE Join(c)
  BY <1>0, <1>2 DEF TypeOK, Join, disk, controller, outside, pipe, window
<1>3. CASE Unmount(c)
  BY <1>0, <1>3 DEF TypeOK, Unmount, disk, outside, pipe, window
<1>4. CASE OpenState(c)
  BY <1>0, <1>4 DEF TypeOK, OpenState, Fail, disk, controller, outside, pipe, window
<1>5. CASE Create(c)
  BY <1>0, <1>5 DEF TypeOK, Create, Fail, controller, outside, pipe, window
<1>6. CASE Alter(c)
  BY <1>0, <1>6 DEF TypeOK, Alter, Fail, controller, outside, pipe, window
<1>7. CASE Bump(c)
  BY <1>0, <1>7 DEF TypeOK, Bump, Fail, controller, outside, pipe, window
<1>8. CASE Mount(c)
  BY <1>0, <1>8 DEF TypeOK, Mount, disk, outside, pipe, window
<1>9. CASE Spawn(c)
  BY <1>0, <1>9 DEF TypeOK, Spawn, disk, outside, window
<1> QED BY <1>1, <1>2, <1>3, <1>4, <1>5, <1>6, <1>7, <1>8, <1>9 DEF Step

(* What an agent tells is an event.                                        *)
LEMMA AgentTypes ==
  ASSUME TypeOK, NEW a \in AgentIds, AgentStep(a) \/ Batch(a) \/ Heartbeat(a) PROVE TypeOK'
<1>0. /\ <<>> \in Seq(Event)
      /\ \A e \in Event : <<e>> \in Seq(Event)
  BY EmptySeq
<1>1. CASE Begin(a)
  <2>1. <<Ev("Started")>> \in Seq(Event)
    BY <1>0, EventTypes
  <2> QED BY <1>1, <2>1, AgentType DEF Begin, TypeOK
<1>2. CASE Connect(a)
  <2>1. <<Ev("Error")>> \in Seq(Event)
    BY <1>0, EventTypes
  <2> QED BY <1>0, <1>2, <2>1, AgentType DEF Connect, TypeOK
<1>3. CASE Batch(a)
  <2>0. PICK files \in SUBSET Files : \E order \in [1 .. Cardinality(files) -> files] :
          /\ todo' = [todo EXCEPT ![a] = files]
          /\ Agent(a, "busy", <<Ev("Busy")>> \o
               [i \in DOMAIN order |-> [kind |-> "FileQueued", rel |-> order[i]]])
    BY <1>3 DEF Batch
  <2>1. PICK order \in [1 .. Cardinality(files) -> files] :
          /\ todo' = [todo EXCEPT ![a] = files]
          /\ Agent(a, "busy", <<Ev("Busy")>> \o
               [i \in DOMAIN order |-> [kind |-> "FileQueued", rel |-> order[i]]])
    BY <2>0
  <2> DEFINE n == Cardinality(files)
  <2> DEFINE queued == [i \in DOMAIN order |-> [kind |-> "FileQueued", rel |-> order[i]]]
  <2>2. n \in Nat
    BY FS_Subset, FS_CardinalityType, PanelAssumption DEF PanelAssumption
  <2>3. queued \in [1 .. n -> Event]
    BY EventTypes
  <2> HIDE DEF n
  <2>4. queued \in Seq(Event)
    BY <2>2, <2>3, SeqDef
  <2>5. <<Ev("Busy")>> \in Seq(Event)
    BY <1>0, EventTypes
  <2> HIDE DEF queued
  <2>6. (<<Ev("Busy")>> \o queued) \in Seq(Event)
    BY <2>4, <2>5, ConcatProperties
  <2>7. todo' \in [AgentIds -> SUBSET Files]
    BY <2>1 DEF TypeOK
  <2>8. Agent(a, "busy", <<Ev("Busy")>> \o queued)
    BY <2>1 DEF queued
  <2> QED BY <2>6, <2>7, <2>8, AgentType
<1>4. ASSUME NEW f \in Files, Operation(a, f) PROVE TypeOK'
  <2>1. <<[kind |-> "Synced", rel |-> f]>> \in Seq(Event)
    BY <1>0, EventTypes
  <2>2. todo' \in [AgentIds -> SUBSET Files]
    BY <1>4 DEF Operation, TypeOK
  <2> QED BY <1>0, <1>4, <2>1, <2>2, AgentType DEF Operation
<1>5. CASE Consolidate(a) \/ Heartbeat(a)
  <2>1. <<Ev("Idle")>> \in Seq(Event)
    BY <1>0, EventTypes
  <2> QED BY <1>5, <2>1, AgentType DEF Consolidate, Heartbeat, TypeOK
<1>6. CASE Aborted(a)
  <2>1. todo' \in [AgentIds -> SUBSET Files]
    BY <1>6 DEF Aborted, TypeOK
  <2> QED BY <1>0, <1>6, <2>1, AgentType DEF Aborted
<1> QED BY <1>1, <1>2, <1>3, <1>4, <1>5, <1>6 DEF AgentStep

(* The forwarding task keeps to the capacity of the channels.              *)
LEMMA ForwardTypes == ASSUME TypeOK, NEW a \in AgentIds, Forward(a) PROVE TypeOK'
<1>1. CASE Receive(a)
  <2>1. CASE sent[a] # <<>>
    <3>1. /\ Head(sent[a]) \in Event /\ Tail(sent[a]) \in Seq(Event)
          /\ Len(Tail(sent[a])) = Len(sent[a]) - 1 /\ Len(sent[a]) \in Nat
      BY <2>1, HeadTailProperties, LenProperties DEF TypeOK
    <3>2. /\ hand' = [hand EXCEPT ![a] = Head(sent[a])]
          /\ sent' = [sent EXCEPT ![a] = Tail(sent[a])]
          /\ UNCHANGED <<disk, controller, call, outside, agents, todo, forwarder, ui, window>>
      BY <1>1, <2>1 DEF Receive
    <3>3. sent' \in [AgentIds -> Seq(Event)] /\ \A b \in AgentIds : Len(sent'[b]) <= Capacity
      BY <3>1, <3>2, PanelAssumption DEF TypeOK, PanelAssumption
    <3>4. hand' \in [AgentIds -> Event \cup {None}]
      BY <3>1, <3>2 DEF TypeOK
    <3> QED BY <3>2, <3>3, <3>4 DEF TypeOK, disk, controller, outside, window
  <2>2. CASE sent[a] = <<>>
    BY <1>1, <2>2 DEF TypeOK, Receive, disk, controller, outside, window
  <2> QED BY <2>1, <2>2
<1>2. CASE Deliver(a)
  <2>1. hand[a] \in Event /\ Len(ui) \in Nat /\ ui \in Seq(Event)
    BY <1>2, LenProperties DEF TypeOK, Deliver
  <2>2. Append(ui, hand[a]) \in Seq(Event) /\ Len(Append(ui, hand[a])) = Len(ui) + 1
    BY <2>1, AppendProperties
  <2>3. ui' \in Seq(Event) /\ Len(ui') <= UiCapacity
    BY <1>2, <2>1, <2>2, PanelAssumption DEF Deliver, PanelAssumption
  <2>4. hand' \in [AgentIds -> Event \cup {None}]
    BY <1>2 DEF Deliver, TypeOK
  <2> QED BY <1>2, <2>3, <2>4 DEF TypeOK, Deliver, disk, controller, outside, window
<1> QED BY <1>1, <1>2 DEF Forward

(* What an event does to the window.                                       *)
LEMMA ApplyShows ==
  ASSUME TypeOK, Apply
  PROVE  /\ status' \in {"NotRunning", "Starting", "Idle", "Busy", "Error"}
         /\ rows' \subseteq Files /\ pulsing' \in BOOLEAN
         /\ PulseWhileQueued => PulseWhileQueued'
<1>1. Head(ui) \in Event
  BY HeadTailProperties DEF TypeOK, Apply
<1>2. PICK e \in Event : Show(e.kind, e.rel)
  BY <1>1 DEF Apply
<1>3. CASE e.kind \in {"Started", "Busy", "Error"}
  BY <1>2, <1>3 DEF Show, PulseWhileQueued, TypeOK
<1>4. CASE e.kind = "Idle"
  BY <1>2, <1>4 DEF Show, PulseWhileQueued
<1>5. CASE e.kind = "FileQueued"
  <2>1. e.rel \in Files
    BY <1>5 DEF Event
  <2> QED BY <1>2, <1>5, <2>1 DEF Show, PulseWhileQueued, TypeOK
<1>6. CASE e.kind = "Synced"
  BY <1>2, <1>6 DEF Show, PulseWhileQueued, TypeOK
<1> QED BY <1>3, <1>4, <1>5, <1>6 DEF Event

(* The window shows what it is told.                                       *)
LEMMA WindowTypes == ASSUME TypeOK, Apply \/ Tick PROVE TypeOK'
<1>1. CASE Apply
  <2>1. Tail(ui) \in Seq(Event) /\ Len(Tail(ui)) = Len(ui) - 1 /\ Len(ui) \in Nat
    BY <1>1, HeadTailProperties, LenProperties DEF TypeOK, Apply
  <2>2. ui' \in Seq(Event) /\ Len(ui') <= UiCapacity
    BY <1>1, <2>1, PanelAssumption DEF Apply, TypeOK, PanelAssumption
  <2> QED BY <1>1, <2>2, ApplyShows DEF TypeOK, Apply, disk, controller, outside
<1>2. CASE Tick
  BY <1>2 DEF TypeOK, Tick, disk, controller, outside, pipe
<1> QED BY <1>1, <1>2

(* Every step keeps the types.                                             *)
LEMMA NextTypes == TypeOK /\ [Next]_vars => TypeOK'
<1> SUFFICES ASSUME TypeOK, [Next]_vars PROVE TypeOK'
  OBVIOUS
<1>1. CASE UNCHANGED vars
  BY <1>1 DEF TypeOK, vars, disk, controller, outside, pipe, window
<1> QED BY <1>1, ButtonTypes, StepTypes, AgentTypes, ForwardTypes, WindowTypes, QuitType DEF Next

-----------------------------------------------------------------------------
(* The steps of State::open between looking at the version and the end.    *)
Migrating == {"create", "alter", "bump"}

(* What the two callers of start and stop have left behind them: after     *)
(* stop_internal there is no agent until start spawns one, which only the  *)
(* GTK thread gets to; whoever waits for an old agent is in the join, or   *)
(* panicked there; and a folder mounted without an agent is about to be    *)
(* unmounted, or to get one, or the resume task panicked.                  *)
StopGoesOn ==
  /\ call["gtk"].at \in {"join", "unmount", "open", "root", "spawn"} \cup Migrating => task = None
  /\ call["resume"].at # "spawn"
  /\ \A c \in Callers : /\ call[c].at = "join" => call[c].old # None
                        /\ call[c].old # None => call[c].at \in {"join", "panic"}
  /\ call["gtk"].at # "panic"
  /\ mounted /\ task = None =>
       call["gtk"].at \in {"join", "unmount", "spawn"} \/ call["resume"].old # None

Control == StopGoesOn /\ OneAgent /\ MountHasAgent

PanelInv == TypeOK /\ Control /\ PulseWhileQueued

(* The window opens without an agent, a mount or a row.                    *)
THEOREM InitInv == Init => PanelInv
<1> SUFFICES ASSUME Init PROVE PanelInv
  OBVIOUS
<1>1. /\ \A c \in Callers : call[c].at = "idle" /\ call[c].old = None
      /\ task = None /\ mounted = FALSE /\ rows = {} /\ pulsing = FALSE
      /\ \A a \in AgentIds : agents[a] = "unused"
  BY BootType DEF Init
<1>2. Control
  BY <1>1 DEF Control, StopGoesOn, OneAgent, MountHasAgent, Callers, Migrating
<1> QED BY <1>1, <1>2, InitTypes DEF PanelInv, PulseWhileQueued

(* Control is kept by whatever leaves its state alone.                     *)
LEMMA Apartness ==
  Control /\ UNCHANGED <<call, task, mounted, agents>> => Control'
BY DEF Control, StopGoesOn, OneAgent, MountHasAgent, At

(* Buttons leave the agent and the mount alone.                            *)
LEMMA ButtonInv ==
  ASSUME PanelInv, SyncNow \/ SignIn \/ SignOut \/ Logout \/ Resume PROVE PanelInv'
<1>1. TypeOK' /\ PulseWhileQueued'
  <2>1. UNCHANGED <<rows, pulsing>>
    BY DEF SyncNow, SignIn, SignOut, Press, Logout, Resume, window
  <2> QED BY <2>1, ButtonTypes DEF PanelInv, PulseWhileQueued
<1>2. CASE SyncNow \/ SignIn \/ SignOut
  <2>1. /\ call["gtk"].at = "idle" /\ call'["gtk"].at = "drop" /\ call'["gtk"].old = None
        /\ call'["resume"] = call["resume"] /\ UNCHANGED <<task, mounted, agents>>
    BY <1>2, PressType DEF PanelInv, SyncNow, SignIn, SignOut, Press, Goals, controller
  <2>2. Control'
    BY <2>1 DEF PanelInv, Control, StopGoesOn, OneAgent, MountHasAgent, Migrating, At, Callers
  <2> QED BY <1>1, <2>2 DEF PanelInv
<1>3. CASE Logout
  BY <1>1, <1>3, Apartness DEF PanelInv, Logout, controller
<1>4. CASE Resume
  <2>1. /\ call["resume"].at = "idle" /\ call'["resume"].at \in {"idle", "drop"}
        /\ call'["resume"].old \in {None, call["resume"].old} /\ call'["gtk"] = call["gtk"]
        /\ UNCHANGED <<task, mounted, agents>>
    BY <1>4, ReturnType, GotoType DEF PanelInv, TypeOK, Resume, Callers, Places, controller, At
  <2>2. call["resume"].old = None
    BY <2>1 DEF PanelInv, Control, StopGoesOn, Callers
  <2>3. Control'
    BY <2>1, <2>2 DEF PanelInv, Control, StopGoesOn, OneAgent, MountHasAgent, Migrating, At, Callers
  <2> QED BY <1>1, <2>3 DEF PanelInv
<1> QED BY <1>2, <1>3, <1>4

(* Stopping, mounting and spawning: the agents.                            *)
LEMMA StepControl ==
  ASSUME PanelInv, NEW c \in Callers, Step(c) PROVE Control'
<1> USE DEF PanelInv, Control, StopGoesOn, OneAgent, MountHasAgent, Migrating, At, Callers
<1>0. \A d \in Callers : d # c => call'[d] = call[d]
  BY StepType
<1>1. CASE DropSenders(c)
  <2>1. /\ call[c].at = "drop" /\ call'[c].at = (IF task = None THEN "unmount" ELSE "join")
        /\ call'[c].old = task /\ task' = None /\ UNCHANGED mounted
        /\ \A a \in AgentIds : agents'[a] = IF a = task /\ agents[a] # "done" THEN "aborting" ELSE agents[a]
    BY <1>1, DropType DEF DropSenders
  <2> QED BY <1>0, <2>1
<1>2. CASE Join(c)
  <2>1. /\ call[c].at = "join" /\ call'[c].at = (IF c = "resume" THEN "panic" ELSE "unmount")
        /\ call'[c].old = (IF c = "resume" THEN call[c].old ELSE None)
        /\ c # "resume" => agents[call[c].old] = "done"
        /\ UNCHANGED <<task, mounted, agents>>
    BY <1>2, JoinType DEF Join, controller
  <2> QED BY <1>0, <2>1
<1>3. CASE Unmount(c)
  <2>1. /\ call[c].at = "unmount" /\ call'[c].at \in {"open", "idle"}
        /\ call'[c].old \in {None, call[c].old} /\ mounted' = FALSE /\ UNCHANGED <<task, agents>>
    BY <1>3, GotoType, ReturnType DEF Unmount, TypeOK, Places
  <2> QED BY <1>0, <2>1
<1>4. CASE OpenState(c)
  <2>1. <<"create", "alter", "root">>[version + 1] \in Migrating \cup {"root"}
    BY DEF TypeOK
  <2>2. /\ call[c].at = "open" /\ call'[c].at \in Migrating \cup {"root", "idle"}
        /\ call'[c].old \in {None, call[c].old} /\ UNCHANGED <<task, mounted, agents>>
    BY <1>4, <2>1, GotoType, ReturnType DEF OpenState, Fail, TypeOK, Places, controller
  <2> QED BY <1>0, <2>2
<1>5. CASE Create(c) \/ Alter(c) \/ Bump(c)
  <2>1. /\ call[c].at \in Migrating /\ call'[c].at \in {"alter", "bump", "root", "idle"}
        /\ call'[c].old \in {None, call[c].old} /\ UNCHANGED <<task, mounted, agents>>
    BY <1>5, GotoType, ReturnType DEF Create, Alter, Bump, Fail, TypeOK, Places, controller
  <2> QED BY <1>0, <2>1
<1>6. CASE Mount(c)
  <2>1. /\ call[c].at = "root" /\ call'[c].old = call[c].old /\ UNCHANGED <<task, agents>>
        /\ \/ c = "resume" /\ call'[c].at = "panic" /\ mounted' = mounted
           \/ c = "gtk" /\ call'[c].at = "spawn"
    BY <1>6, GotoType DEF Mount, TypeOK, Places
  <2> QED BY <1>0, <2>1
<1>7. CASE Spawn(c)
  <2>1. call[c].at = "spawn" /\ call'[c].at = "idle" /\ call'[c].old = None /\ UNCHANGED mounted
    BY <1>7, ReturnType DEF Spawn, TypeOK
  <2>2. PICK a \in AgentIds : agents' = [agents EXCEPT ![a] = "new"] /\ task' = a
    BY <1>7 DEF Spawn
  <2>3. \A b \in AgentIds : b # a => agents'[b] = agents[b]
    BY <2>2 DEF TypeOK
  <2>4. c = "gtk" /\ task = None /\ a # None /\ call[c].old = None
    BY <2>1, Apart
  <2> QED BY <1>0, <2>1, <2>2, <2>3, <2>4, Apart
<1> QED BY <1>1, <1>2, <1>3, <1>4, <1>5, <1>6, <1>7 DEF Step

(* Stopping and starting keep the invariant.                               *)
LEMMA StepInv == ASSUME PanelInv, NEW c \in Callers, Step(c) PROVE PanelInv'
<1>1. PulseWhileQueued'
  BY DEF Step, DropSenders, Join, Unmount, OpenState, Create, Alter, Bump, Mount, Spawn, Fail,
         window, PulseWhileQueued, PanelInv
<1> QED BY <1>1, StepTypes, StepControl DEF PanelInv

(* An agent that works goes on working, and no other begins.               *)
LEMMA AgentInv ==
  ASSUME PanelInv, NEW a \in AgentIds, AgentStep(a) \/ Batch(a) \/ Heartbeat(a) PROVE PanelInv'
<1>1. TypeOK'
  BY AgentTypes DEF PanelInv
<1>2. PICK phase \in {"starting", "idle", "busy", "done"} :
        /\ agents' = [agents EXCEPT ![a] = phase]
        /\ agents[a] \in {"new", "starting", "idle", "busy", "aborting"}
        /\ UNCHANGED <<task, mounted, call, rows, pulsing>>
  BY DEF AgentStep, Begin, Connect, Consolidate, Aborted, Operation, Batch, Heartbeat, Agent,
         controller, window
<1>3. Control'
  BY <1>2 DEF PanelInv, TypeOK, Control, StopGoesOn, OneAgent, MountHasAgent, At
<1>4. PulseWhileQueued'
  BY <1>2 DEF PanelInv, PulseWhileQueued
<1> QED BY <1>1, <1>3, <1>4 DEF PanelInv

(* The end of the process ends its agents.                                 *)
LEMMA QuitInv == ASSUME PanelInv, Quit PROVE PanelInv'
<1>1. /\ \A c \in Callers : call'[c].at = "idle" /\ call'[c].old = None
      /\ task' = None /\ mounted' = FALSE /\ rows' = {} /\ pulsing' = FALSE
      /\ \A a \in AgentIds : agents'[a] = "unused"
  BY BootType DEF Quit
<1>2. Control'
  BY <1>1 DEF Control, StopGoesOn, OneAgent, MountHasAgent, Callers, Migrating
<1> QED BY <1>1, <1>2, QuitType DEF PanelInv, PulseWhileQueued

(* Every step keeps the invariant.                                         *)
LEMMA NextInv == PanelInv /\ [Next]_vars => PanelInv'
<1> SUFFICES ASSUME PanelInv, [Next]_vars PROVE PanelInv'
  OBVIOUS
<1>1. ASSUME NEW a \in AgentIds, Forward(a) PROVE PanelInv'
  <2>1. UNCHANGED <<task, mounted, agents, call, rows, pulsing>>
    BY <1>1 DEF Forward, Receive, Deliver, controller, window
  <2> QED BY <1>1, <2>1, ForwardTypes, Apartness DEF PanelInv, PulseWhileQueued
<1>2. CASE Apply \/ Tick
  <2>1. UNCHANGED <<task, mounted, agents, call>>
    BY <1>2 DEF Apply, Tick, controller
  <2>2. PulseWhileQueued'
    BY <1>2, ApplyShows DEF PanelInv, Tick, PulseWhileQueued
  <2> QED BY <1>2, <2>1, <2>2, WindowTypes, Apartness DEF PanelInv
<1>3. CASE UNCHANGED vars
  <2>1. TypeOK'
    BY <1>3, NextTypes DEF PanelInv
  <2> QED BY <1>3, <2>1, Apartness DEF PanelInv, PulseWhileQueued, vars, controller, window
<1> QED BY <1>1, <1>2, <1>3, ButtonInv, StepInv, AgentInv, QuitInv DEF Next

-----------------------------------------------------------------------------
(* What every reachable state satisfies, whatever buttons are pressed and  *)
(* wherever the resume task is when they are.                              *)
THEOREM PanelInvariant == Spec => []PanelInv
BY InitInv, NextInv, PTL DEF Spec

(* The channels never hold more than their capacity, and every field has   *)
(* its type (sync.rs:20, ui/mod.rs).                                       *)
THEOREM PanelTypes == Spec => []TypeOK
<1>1. PanelInv => TypeOK
  BY DEF PanelInv
<1> QED BY <1>1, PanelInvariant, PTL

(* start goes on only when the agent it stopped has ended (sync.rs:68,     *)
(* 191): whatever agent has not is the controller's, or one a call still   *)
(* waits for or the resume task panicked over.                             *)
THEOREM OneAgentWorks == Spec => []OneAgent
<1>1. PanelInv => OneAgent
  BY DEF PanelInv, Control
<1> QED BY <1>1, PanelInvariant, PTL

(* Between two buttons the controller of a mounted folder holds the handle *)
(* of an agent (sync.rs:121, 181), which may have ended by itself, unless  *)
(* the resume task panicked over the one it had stopped.                   *)
THEOREM MountedHasAgent == Spec => []MountHasAgent
<1>1. PanelInv => MountHasAgent
  BY DEF PanelInv, Control
<1> QED BY <1>1, PanelInvariant, PTL

(* The pulse timer runs exactly while the queue has rows.                  *)
THEOREM PulsesWhileQueued == Spec => []PulseWhileQueued
<1>1. PanelInv => PulseWhileQueued
  BY DEF PanelInv
<1> QED BY <1>1, PanelInvariant, PTL
=============================================================================
