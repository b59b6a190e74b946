----------------------------- MODULE SyncPanel -----------------------------
(***************************************************************************)
(* The window's control over synchronization: SyncController of ui/sync.rs *)
(* (start and stop, called by buttons on the GTK thread and by the resume  *)
(* task on the runtime), State::open with its migrations, what the agent   *)
(* tells the window, the two channels its events pass through, and the     *)
(* widgets that show them (apply_sync_event and the one-second timer of    *)
(* ui/mod.rs).                                                             *)
(***************************************************************************)
EXTENDS Naturals, Sequences, FiniteSets

CONSTANTS
  Files, None,
  Capacity,    \* of an agent's broadcast channel (256)
  UiCapacity,  \* of the channel to the window (256)
  MaxAgents,   \* bound on agents spawned
  MaxPresses,  \* bound on buttons pressed and ends of the process
  MaxBatches   \* bound on batches of all agents

ASSUME PanelAssumption ==
  /\ Capacity \in Nat \ {0} /\ UiCapacity \in Nat \ {0}
  /\ MaxAgents \in Nat /\ MaxPresses \in Nat /\ MaxBatches \in Nat
  /\ IsFiniteSet(Files) /\ None \notin Files \cup Nat

VARIABLES
  (* on disk *)
  version, column,  \* user_version; has mappings the column is_materialized?
  (* SyncController *)
  task, sender,     \* the agents whose task handle and event_tx it holds
  mounted,          \* is there a FUSE session?
  call,             \* call[c]: how far caller c is in start or stop
  (* outside *)
  bridge,           \* "none", "bare" (made, nobody signed in) or "drive"
  leaving,          \* has a sign-out not reached the bridge yet?
  (* agents and their forwarding tasks *)
  agents, todo,     \* phase, and files of the batch at work
  sent, hand,       \* the broadcast channel, and what the forwarder took out
  forwarder,
  (* the window *)
  ui, status, rows, pulsing,
  (* bounds *)
  presses, batches

disk       == <<version, column>>
controller == <<task, sender, mounted>>
outside    == <<bridge, leaving>>
pipe       == <<sent, hand, forwarder, ui>>
window     == <<status, rows, pulsing>>
bounds     == <<presses, batches>>
vars == <<disk, controller, call, outside, agents, todo, pipe, window, bounds>>

AgentIds == 1 .. MaxAgents
Callers  == {"gtk", "resume"}
Places   == {"idle", "drop", "join", "unmount", "open", "create", "alter", "bump", "root",
             "spawn", "panic"}
Goals    == {"none", "signIn", "syncNow", "signOut", "resume"}
Call     == [at : Places, goal : Goals, old : AgentIds \cup {None}]
Event    == [kind : {"Started", "Busy", "Idle", "Error"}, rel : {None}]
              \cup [kind : {"FileQueued", "Synced"}, rel : Files]

Free == [at |-> "idle", goal |-> "none", old |-> None]
Ev(kind) == [kind |-> kind, rel |-> None]

At(c, place) == call[c].at = place
Goto(c, place) == call' = [call EXCEPT ![c].at = place]
Return(c) == call' = [call EXCEPT ![c] = Free]

(* is_running                                                              *)
Running == task # None /\ agents[task] # "done"

(***************************************************************************)
(* Buttons, and the end of a login and of the resume                       *)
(***************************************************************************)
Press(goal) ==
  /\ presses < MaxPresses /\ presses' = presses + 1
  /\ At("gtk", "idle")
  /\ call' = [call EXCEPT !["gtk"] = [Free EXCEPT !.at = "drop", !.goal = goal]]
  /\ UNCHANGED <<disk, controller, agents, todo, pipe, window, batches>>

SyncNow == Press("syncNow") /\ UNCHANGED outside
SignIn  == Press("signIn") /\ (bridge # "drive" \/ leaving) /\ bridge' = "drive" /\ UNCHANGED leaving
SignOut == Press("signOut") /\ bridge = "drive" /\ leaving' = TRUE /\ UNCHANGED bridge

(* The thread of the sign-out, spawned after stop has returned.            *)
Logout ==
  /\ leaving /\ call["gtk"].goal # "signOut"
  /\ leaving' = FALSE /\ bridge' = "none"
  /\ UNCHANGED <<disk, controller, call, agents, todo, pipe, window, bounds>>

(* try_resume: nothing to resume, or a bridge, and then a session or not.  *)
(* A bridge that a login makes is first seen when the login succeeds.      *)
Resume ==
  /\ At("resume", "idle") /\ call["resume"].goal = "resume"
  /\ \/ Return("resume") /\ UNCHANGED bridge
     \/ bridge = "none" /\ bridge' = "bare" /\ UNCHANGED call
     \/ bridge # "none" /\ bridge' = "drive" /\ Goto("resume", "drop")
  /\ UNCHANGED <<disk, controller, leaving, agents, todo, pipe, window, bounds>>

(***************************************************************************)
(* stop_internal                                                           *)
(***************************************************************************)
(* Mutant: the task is taken and waited for, but not aborted.              *)
DropUnaborted(c) ==
  /\ At(c, "drop")
  /\ sender' = None /\ task' = None
  /\ call' = [call EXCEPT ![c].at = IF task = None THEN "unmount" ELSE "join", ![c].old = task]
  /\ UNCHANGED <<disk, mounted, outside, agents, todo, pipe, window, bounds>>

DropSenders(c) ==
  /\ At(c, "drop")
  /\ sender' = None /\ task' = None
  /\ agents' = [a \in AgentIds |->
       IF a = task /\ agents[a] # "done" THEN "aborting" ELSE agents[a]]
  /\ call' = [call EXCEPT ![c].at = IF task = None THEN "unmount" ELSE "join", ![c].old = task]
  /\ UNCHANGED <<disk, mounted, outside, todo, pipe, window, bounds>>

(* Mutant: the aborted task is not waited for.                             *)
JoinAtOnce(c) ==
  /\ At(c, "join")
  /\ IF c = "resume" THEN Goto(c, "panic")
                     ELSE call' = [call EXCEPT ![c].at = "unmount", ![c].old = None]
  /\ UNCHANGED <<disk, controller, outside, agents, todo, pipe, window, bounds>>

(* Handle::block_on panics on a thread of the runtime: the resume task     *)
(* ends there.                                                             *)
Join(c) ==
  /\ At(c, "join")
  /\ IF c = "resume" THEN Goto(c, "panic")
                     ELSE /\ agents[call[c].old] = "done"
                          /\ call' = [call EXCEPT ![c].at = "unmount", ![c].old = None]
  /\ UNCHANGED <<disk, controller, outside, agents, todo, pipe, window, bounds>>

(* Mutant: a sign-out leaves the folder mounted.                           *)
UnmountOnStart(c) ==
  /\ At(c, "unmount")
  /\ IF call[c].goal = "signOut" THEN Return(c) /\ UNCHANGED mounted
                                 ELSE Goto(c, "open") /\ mounted' = FALSE
  /\ UNCHANGED <<disk, task, sender, outside, agents, todo, pipe, window, bounds>>

Unmount(c) ==
  /\ At(c, "unmount")
  /\ mounted' = FALSE
  /\ IF call[c].goal = "signOut" THEN Return(c) ELSE Goto(c, "open")
  /\ UNCHANGED <<disk, task, sender, outside, agents, todo, pipe, window, bounds>>

(***************************************************************************)
(* start, after stop_internal                                              *)
(***************************************************************************)
(* An error is shown; only Sync Now also keeps it as the status.           *)
Fail(c) ==
  /\ Return(c)
  /\ status' = IF call[c].goal = "syncNow" THEN "Error" ELSE status
  /\ UNCHANGED <<rows, pulsing>>

(* Nobody is signed in, or the database cannot be opened.                  *)
OpenState(c) ==
  /\ At(c, "open")
  /\ \/ bridge # "none" /\ Goto(c, <<"create", "alter", "root">>[version + 1]) /\ UNCHANGED window
     \/ Fail(c)
  /\ UNCHANGED <<disk, controller, outside, agents, todo, pipe, bounds>>

(* run_migrations: each script, and then its user_version, by itself.      *)
(* Every one of them may fail; the first does nothing twice, the second    *)
(* fails when its column is there.                                         *)
Create(c) ==
  /\ At(c, "create")
  /\ \/ version' = 1 /\ Goto(c, "alter") /\ UNCHANGED window
     \/ Fail(c) /\ UNCHANGED version
  /\ UNCHANGED <<column, controller, outside, agents, todo, pipe, bounds>>

Alter(c) ==
  /\ At(c, "alter")
  /\ \/ ~column /\ column' = TRUE /\ Goto(c, "bump") /\ UNCHANGED window
     \/ Fail(c) /\ UNCHANGED column
  /\ UNCHANGED <<version, controller, outside, agents, todo, pipe, bounds>>

Bump(c) ==
  /\ At(c, "bump")
  /\ \/ version' = 2 /\ Goto(c, "root") /\ UNCHANGED window
     \/ Fail(c) /\ UNCHANGED version
  /\ UNCHANGED <<column, controller, outside, agents, todo, pipe, bounds>>

(* root_link_id and the mount; either may fail, and start goes on.         *)
Mount(c) ==
  /\ At(c, "root")
  /\ \/ c = "resume" /\ Goto(c, "panic") /\ UNCHANGED mounted
     \/ c = "gtk" /\ Goto(c, "spawn") /\ (UNCHANGED mounted \/ (bridge = "drive" /\ mounted' = TRUE))
  /\ UNCHANGED <<disk, task, sender, outside, agents, todo, pipe, window, bounds>>

Spawn(c) ==
  /\ At(c, "spawn")
  /\ \E a \in AgentIds :
       /\ agents[a] = "unused" /\ \A b \in AgentIds : b < a => agents[b] # "unused"
       /\ agents' = [agents EXCEPT ![a] = "new"]
       /\ forwarder' = [forwarder EXCEPT ![a] = "running"]
       /\ sender' = a /\ task' = a
  /\ Return(c)
  /\ UNCHANGED <<disk, mounted, outside, todo, sent, hand, ui, window, bounds>>

Step(c) ==
  \/ DropSenders(c) \/ Join(c) \/ Unmount(c) \/ OpenState(c)
  \/ Create(c) \/ Alter(c) \/ Bump(c) \/ Mount(c) \/ Spawn(c)

(***************************************************************************)
(* What SyncAgent::run tells.  A send never waits: a receiver that is too  *)
(* far behind loses the oldest events.                                     *)
(***************************************************************************)
Newest(s) == IF Len(s) > Capacity THEN SubSeq(s, Len(s) - Capacity + 1, Len(s)) ELSE s

Agent(a, phase, events) ==
  /\ agents' = [agents EXCEPT ![a] = phase]
  /\ sent' = [sent EXCEPT ![a] = Newest(@ \o events)]
  /\ UNCHANGED <<disk, controller, call, outside, hand, forwarder, ui, window,
                 presses>>

Begin(a) ==
  /\ agents[a] = "new" /\ Agent(a, "starting", <<Ev("Started")>>)
  /\ UNCHANGED <<todo, batches>>

(* The root link id, then the watcher, whose error is not told.            *)
Connect(a) ==
  /\ agents[a] = "starting"
  /\ \/ bridge = "drive" /\ Agent(a, "idle", <<>>)
     \/ Agent(a, "done", <<Ev("Error")>>)
     \/ Agent(a, "done", <<>>)
  /\ UNCHANGED <<todo, batches>>

(* Busy and emit_queued, one event per file, without an await.             *)
Batch(a) ==
  /\ agents[a] = "idle" /\ batches < MaxBatches /\ batches' = batches + 1
  /\ \E files \in SUBSET Files :
       \E order \in [1 .. Cardinality(files) -> files] :
         /\ \A f \in files : \E i \in DOMAIN order : order[i] = f
         /\ todo' = [todo EXCEPT ![a] = files]
         /\ Agent(a, "busy", <<Ev("Busy")>> \o
              [i \in DOMAIN order |-> [kind |-> "FileQueued", rel |-> order[i]]])

(* Only an operation that succeeds is told.                                *)
Operation(a, f) ==
  /\ agents[a] = "busy" /\ f \in todo[a]
  /\ todo' = [todo EXCEPT ![a] = @ \ {f}]
  /\ \/ Agent(a, "busy", <<[kind |-> "Synced", rel |-> f]>>)
     \/ Agent(a, "busy", <<>>)
  /\ UNCHANGED batches

Consolidate(a) ==
  /\ agents[a] = "busy" /\ todo[a] = {}
  /\ Agent(a, "idle", <<Ev("Idle")>>)
  /\ UNCHANGED <<todo, batches>>

(* Mutant: the heartbeat tells nothing.                                    *)
HeartbeatSilent(a) ==
  /\ agents[a] = "idle" /\ Agent(a, "idle", <<>>)
  /\ UNCHANGED <<todo, batches>>

Heartbeat(a) ==
  /\ agents[a] = "idle" /\ Agent(a, "idle", <<Ev("Idle")>>)
  /\ UNCHANGED <<todo, batches>>

(* An aborted task ends at its next await.                                 *)
Aborted(a) ==
  /\ agents[a] = "aborting" /\ Agent(a, "done", <<>>)
  /\ todo' = [todo EXCEPT ![a] = {}] /\ UNCHANGED batches

AgentStep(a) ==
  \/ Begin(a) \/ Connect(a) \/ Consolidate(a) \/ Aborted(a)
  \/ \E f \in Files : Operation(a, f)

(***************************************************************************)
(* The forwarding task: waits while the window's channel is full, and ends *)
(* when the broadcast channel is closed and empty.                         *)
(***************************************************************************)
Receive(a) ==
  /\ forwarder[a] = "running" /\ hand[a] = None
  /\ IF sent[a] # <<>>
       THEN /\ hand' = [hand EXCEPT ![a] = Head(sent[a])]
            /\ sent' = [sent EXCEPT ![a] = Tail(@)]
            /\ UNCHANGED forwarder
       ELSE /\ agents[a] = "done" /\ sender # a
            /\ forwarder' = [forwarder EXCEPT ![a] = "ended"]
            /\ UNCHANGED <<hand, sent>>
  /\ UNCHANGED <<disk, controller, call, outside, agents, todo, ui, window, bounds>>

(* Mutant: an event is put into the channel whether it is full or not.     *)
DeliverAnyway(a) ==
  /\ hand[a] # None
  /\ ui' = Append(ui, hand[a])
  /\ hand' = [hand EXCEPT ![a] = None]
  /\ UNCHANGED <<disk, controller, call, outside, agents, todo, sent, forwarder, window, bounds>>

Deliver(a) ==
  /\ hand[a] # None /\ Len(ui) < UiCapacity
  /\ ui' = Append(ui, hand[a])
  /\ hand' = [hand EXCEPT ![a] = None]
  /\ UNCHANGED <<disk, controller, call, outside, agents, todo, sent, forwarder, window, bounds>>

Forward(a) == Receive(a) \/ Deliver(a)

(***************************************************************************)
(* The window                                                              *)
(***************************************************************************)
(* Mutant: a row that is done leaves the pulse timer to the next Idle.     *)
ShowPulsing(kind, rel) ==
  CASE kind = "Started"    -> status' = "Starting" /\ UNCHANGED <<rows, pulsing>>
    [] kind = "Busy"       -> status' = "Busy" /\ UNCHANGED <<rows, pulsing>>
    [] kind = "Error"      -> status' = "Error" /\ UNCHANGED <<rows, pulsing>>
    [] kind = "Idle"       -> status' = "Idle" /\ rows' = {} /\ pulsing' = FALSE
    [] kind = "FileQueued" -> rows' = rows \cup {rel} /\ pulsing' = TRUE /\ UNCHANGED status
    [] kind = "Synced"     -> rows' = rows \ {rel} /\ UNCHANGED <<status, pulsing>>

Show(kind, rel) ==
  CASE kind = "Started"    -> status' = "Starting" /\ UNCHANGED <<rows, pulsing>>
    [] kind = "Busy"       -> status' = "Busy" /\ UNCHANGED <<rows, pulsing>>
    [] kind = "Error"      -> status' = "Error" /\ UNCHANGED <<rows, pulsing>>
    [] kind = "Idle"       -> status' = "Idle" /\ rows' = {} /\ pulsing' = FALSE
    [] kind = "FileQueued" -> rows' = rows \cup {rel} /\ pulsing' = TRUE /\ UNCHANGED status
    [] kind = "Synced"     -> /\ rows' = rows \ {rel}
                              /\ pulsing' = (pulsing /\ rows' # {})
                              /\ UNCHANGED status

Apply ==
  /\ At("gtk", "idle") /\ ui # <<>>
  /\ ui' = Tail(ui)
  /\ Show(Head(ui).kind, Head(ui).rel)
  /\ UNCHANGED <<disk, controller, call, outside, agents, todo, sent, hand, forwarder, bounds>>

(* refresh_time_labels                                                     *)
Tick ==
  /\ At("gtk", "idle")
  /\ status' = IF Running THEN IF status = "NotRunning" THEN "Starting" ELSE status
                          ELSE IF status = "Error" THEN "Error" ELSE "NotRunning"
  /\ UNCHANGED <<disk, controller, call, outside, agents, todo, pipe, rows, pulsing, bounds>>

(***************************************************************************)
(* Specification                                                           *)
(***************************************************************************)
Boot == [c \in Callers |-> IF c = "resume" THEN [Free EXCEPT !.goal = "resume"] ELSE Free]

Init ==
  /\ version = 0 /\ column = FALSE
  /\ task = None /\ sender = None /\ mounted = FALSE
  /\ call = Boot /\ bridge = "none" /\ leaving = FALSE
  /\ agents = [a \in AgentIds |-> "unused"] /\ todo = [a \in AgentIds |-> {}]
  /\ sent = [a \in AgentIds |-> <<>>] /\ hand = [a \in AgentIds |-> None]
  /\ forwarder = [a \in AgentIds |-> "unused"]
  /\ ui = <<>> /\ status = "NotRunning" /\ rows = {} /\ pulsing = FALSE
  /\ presses = 0 /\ batches = 0

(* The process ends, and starts again.                                     *)
Quit ==
  /\ presses < MaxPresses /\ presses' = presses + 1
  /\ task' = None /\ sender' = None /\ mounted' = FALSE
  /\ call' = Boot /\ bridge' = "none" /\ leaving' = FALSE
  /\ agents' = [a \in AgentIds |-> "unused"] /\ todo' = [a \in AgentIds |-> {}]
  /\ sent' = [a \in AgentIds |-> <<>>] /\ hand' = [a \in AgentIds |-> None]
  /\ forwarder' = [a \in AgentIds |-> "unused"]
  /\ ui' = <<>> /\ status' = "NotRunning" /\ rows' = {} /\ pulsing' = FALSE
  /\ UNCHANGED <<disk, batches>>

Next ==
  \/ SyncNow \/ SignIn \/ SignOut \/ Logout \/ Resume
  \/ \E c \in Callers : Step(c)
  \/ \E a \in AgentIds : AgentStep(a) \/ Batch(a) \/ Heartbeat(a) \/ Forward(a)
  \/ Apply \/ Tick \/ Quit

Spec == Init /\ [][Next]_vars

(* Threads and tasks that can go on do: the GTK thread in a call and in    *)
(* its event loop, the runtime, the ticker of every agent.  The channel to *)
(* the window wakes waiting senders in the order they came.                *)
FairSpec ==
  /\ Spec
  /\ \A c \in Callers : WF_vars(Step(c))
  /\ \A a \in AgentIds : WF_vars(AgentStep(a)) /\ WF_vars(Heartbeat(a))
                           /\ WF_vars(Receive(a)) /\ SF_vars(Deliver(a))
  /\ WF_vars(Apply) /\ WF_vars(Tick)

-----------------------------------------------------------------------------
TypeOK ==
  /\ version \in 0 .. 2 /\ column \in BOOLEAN
  /\ task \in AgentIds \cup {None} /\ sender \in AgentIds \cup {None} /\ mounted \in BOOLEAN
  /\ call \in [Callers -> Call]
  /\ bridge \in {"none", "bare", "drive"} /\ leaving \in BOOLEAN
  /\ agents \in [AgentIds -> {"unused", "new", "starting", "idle", "busy", "aborting", "done"}]
  /\ todo \in [AgentIds -> SUBSET Files]
  /\ sent \in [AgentIds -> Seq(Event)] /\ \A a \in AgentIds : Len(sent[a]) <= Capacity
  /\ hand \in [AgentIds -> Event \cup {None}]
  /\ forwarder \in [AgentIds -> {"unused", "running", "ended"}]
  /\ ui \in Seq(Event) /\ Len(ui) <= UiCapacity
  /\ status \in {"NotRunning", "Starting", "Idle", "Busy", "Error"}
  /\ rows \subseteq Files /\ pulsing \in BOOLEAN

(* An agent that has not ended is the controller's or one a call waits     *)
(* for: start goes on when the old agent has ended, so that no two work at *)
(* the same time.  It counts as waited for where the resume task panicked  *)
(* instead (sync.rs:191): that agent may go on to its next await, beside   *)
(* a new one.                                                              *)
OneAgent ==
  \A a \in AgentIds :
    agents[a] \notin {"unused", "done"} => task = a \/ \E c \in Callers : call[c].old = a

(* The pulse timer runs while there are rows in the queue, whatever events *)
(* were lost and in whatever order those of two agents arrived.            *)
PulseWhileQueued == pulsing <=> rows # {}

(* When the buttons can be pressed a mounted folder has an agent, unless   *)
(* the resume task panicked where it should have waited for one it had     *)
(* stopped (sync.rs:191); where it panics before the mount (sync.rs:88) it *)
(* leaves nothing behind.  The agent may have ended by itself, because the *)
(* drive could not be reached: nothing unmounts the folder then, and it is *)
(* still listed.                                                           *)
MountHasAgent ==
  mounted /\ At("gtk", "idle") => task # None \/ call["resume"].old # None

(* The window does not hang: a button that starts or stops the agent comes *)
(* back, although the GTK thread waits for a task of the runtime           *)
(* (sync.rs:191).                                                          *)
CallsReturn == ~At("gtk", "idle") ~> At("gtk", "idle")

(* In the end the window tells the truth: an idle agent is shown as such   *)
(* with an empty queue, no agent as not running or as failed; and "the     *)
(* broadcast channel closes and the forwarding task exits cleanly"         *)
(* (sync.rs:184), whatever events of the old agent came late.              *)
Settles ==
  <>[]/\ IF Running THEN status = "Idle" /\ rows = {} ELSE status \in {"NotRunning", "Error"}
     /\ \A a \in AgentIds : forwarder[a] = "running" => task = a

(* "Safe to call from any thread (uses the tokio Handle)" (sync.rs:64).    *)
SafeFromAnyThread == \A c \in Callers : ~At(c, "panic")
=============================================================================
