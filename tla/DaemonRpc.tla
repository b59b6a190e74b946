----------------------------- MODULE DaemonRpc -----------------------------
(***************************************************************************)
(* protondrive-daemon/src/main.rs: the background process behind a UNIX    *)
(* socket.  Each client is served by a task of its own, one request at a   *)
(* time; the tasks share one AppState behind a tokio Mutex.  A handler     *)
(* gives the mutex back between its steps, except while a bridge is made   *)
(* and while a session is revoked, when it holds it across the call.       *)
(* With it the registry of sessions of bridge.go, as far as the daemon     *)
(* can tell its states apart.                                              *)
(***************************************************************************)
EXTENDS Naturals, FiniteSets

CONSTANTS
  Clients,      \* connections to the socket
  Roots,        \* sync folders a client may choose
  DefaultRoot,  \* ~/ProtonDrive
  None,         \* an absent handle, folder or lock holder
  MaxSessions,  \* bound on sessions made by pd_init
  MaxAgents     \* bound on agents spawned

ASSUME RpcAssumption ==
  /\ MaxSessions \in Nat /\ MaxAgents \in Nat
  /\ DefaultRoot \in Roots /\ None \notin Roots \cup Clients \cup Nat

VARIABLES
  (* AppState and its mutex *)
  bridge, sync, syncRoot, lock,
  (* the handlers: what request each client waits for, and how far it is *)
  req,
  (* what they use *)
  registry,   \* registry[s]: state of session s in the bridge
  agents,     \* agents[a]: the a-th spawned sync agent
  (* history *)
  unrevoked,  \* sessions whose revocation failed after the handle was gone
  outrun      \* was the installed agent's StartSync overtaken by a Logout?

stateVars == <<bridge, sync, syncRoot, lock>>
vars == <<stateVars, req, registry, agents, unrevoked, outrun>>

Sessions == 1 .. MaxSessions
AgentIds == 1 .. MaxAgents

(* Where a handler stands:                                                 *)
(*   bridge, init, call, auth     Login and Resume                         *)
(*   take, revoke                 Logout                                   *)
(*   clone, root, spawn, install  StartSync                                *)
Places  == {"idle", "bridge", "init", "call", "auth", "take", "revoke",
            "clone", "root", "spawn", "install"}
Request == [at : Places, session : Sessions \cup {None},
            root : Roots \cup {None}, agent : AgentIds \cup {None},
            overtaken : BOOLEAN]
Agent   == [phase : {"starting", "running", "aborting", "done"},
            session : Sessions, root : Roots]

Idle   == [at |-> "idle", session |-> None, root |-> None, agent |-> None,
           overtaken |-> FALSE]
Unused == [phase |-> "unused", session |-> None, root |-> None]

At(c, place) == req[c].at = place
Answer(c)    == req' = [req EXCEPT ![c] = Idle]
Goto(c, r)   == req' = [req EXCEPT ![c] = r]

Live(a)      == agents[a].phase \in {"starting", "running"}
Starting(c)  == req[c].at \in {"root", "spawn", "install"}

(* JoinHandle::abort: the task ends at its next await.                     *)
Aborted(a) == IF Live(a) THEN [agents[a] EXCEPT !.phase = "aborting"] ELSE agents[a]

(***************************************************************************)
(* Requests.  Status and SetSyncRoot are answered under one lock.          *)
(***************************************************************************)
Ask(c, place) ==
  /\ At(c, "idle")
  /\ Goto(c, [Idle EXCEPT !.at = place])
  /\ UNCHANGED <<stateVars, registry, agents, unrevoked, outrun>>

Login(c)     == Ask(c, "bridge")
Resume(c)    == Ask(c, "bridge")
Logout(c)    == Ask(c, "take")
StartSync(c) == Ask(c, "clone")

SetSyncRoot(c) ==
  /\ At(c, "idle") /\ lock = None
  /\ syncRoot' \in Roots
  /\ UNCHANGED <<bridge, sync, lock, req, registry, agents, unrevoked, outrun>>

(* process::exit.  Nothing is persisted: the next process begins anew.     *)
Stop(c) ==
  /\ At(c, "idle")
  /\ bridge' = None /\ sync' = None /\ syncRoot' = None /\ lock' = None
  /\ req' = [d \in Clients |-> Idle]
  /\ registry' = [s \in Sessions |-> "unused"]
  /\ agents' = [a \in AgentIds |-> Unused]
  /\ unrevoked' = {} /\ outrun' = FALSE

(***************************************************************************)
(* do_login and do_resume                                                  *)
(***************************************************************************)
(* Mutant: the lock is given back before the bridge is made.               *)
EnsureBridgeUnlocked(c) ==
  /\ At(c, "bridge") /\ lock = None
  /\ IF bridge # None
       THEN Goto(c, [req[c] EXCEPT !.at = "call", !.session = bridge])
       ELSE Goto(c, [req[c] EXCEPT !.at = "init"])
  /\ UNCHANGED <<stateVars, registry, agents, unrevoked, outrun>>

(* ensure_bridge: use the handle there is, or make one under the lock.     *)
EnsureBridge(c) ==
  /\ At(c, "bridge") /\ lock = None
  /\ IF bridge # None
       THEN Goto(c, [req[c] EXCEPT !.at = "call", !.session = bridge]) /\ UNCHANGED lock
       ELSE Goto(c, [req[c] EXCEPT !.at = "init"]) /\ lock' = c
  /\ UNCHANGED <<bridge, sync, syncRoot, registry, agents, unrevoked, outrun>>

(* Mutant: a bridge that cannot be made is tried again until it can.       *)
InitBridgeRetried(c) ==
  /\ At(c, "init")
  /\ lock' = None
  /\ \/ \E s \in Sessions :
          /\ registry[s] = "unused"
          /\ \A t \in Sessions : t < s => registry[t] # "unused"
          /\ registry' = [registry EXCEPT ![s] = "fresh"]
          /\ bridge' = s
          /\ Goto(c, [req[c] EXCEPT !.at = "call", !.session = s])
     \/ Goto(c, [req[c] EXCEPT !.at = "bridge"]) /\ UNCHANGED <<registry, bridge>>
  /\ UNCHANGED <<sync, syncRoot, agents, unrevoked, outrun>>

InitBridge(c) ==
  /\ At(c, "init")
  /\ lock' = None
  /\ \/ \E s \in Sessions :
          /\ registry[s] = "unused"
          /\ \A t \in Sessions : t < s => registry[t] # "unused"
          /\ registry' = [registry EXCEPT ![s] = "fresh"]
          /\ bridge' = s
          /\ Goto(c, [req[c] EXCEPT !.at = "call", !.session = s])
     \/ Answer(c) /\ UNCHANGED <<registry, bridge>>
  /\ UNCHANGED <<sync, syncRoot, agents, unrevoked, outrun>>

(* pd_login and pd_resume look the session up first ...                    *)
Call(c) ==
  /\ At(c, "call")
  /\ IF registry[req[c].session] = "dropped"
       THEN Answer(c)
       ELSE Goto(c, [req[c] EXCEPT !.at = "auth"])
  /\ UNCHANGED <<stateVars, registry, agents, unrevoked, outrun>>

(* ... and set its drive when the server agrees, also in a session that    *)
(* has been dropped meanwhile.  A refusal leaves the session as it was.    *)
Authenticate(c) ==
  /\ At(c, "auth")
  /\ \/ registry' = [registry EXCEPT ![req[c].session] =
                       IF @ = "dropped" THEN @ ELSE "signedIn"]
     \/ UNCHANGED registry
  /\ Answer(c)
  /\ UNCHANGED <<stateVars, agents, unrevoked, outrun>>

(***************************************************************************)
(* do_logout: holds the lock until the server has answered                 *)
(***************************************************************************)
(* Mutant: the sync handle is left where it is.                            *)
TakeSessionOnly(c) ==
  /\ At(c, "take") /\ lock = None
  /\ bridge' = None
  /\ lock' = IF bridge = None THEN None ELSE c
  /\ req' = [d \in Clients |->
               IF d = c
                 THEN IF bridge = None THEN Idle
                      ELSE [req[c] EXCEPT !.at = "revoke", !.session = bridge]
                 ELSE [req[d] EXCEPT !.overtaken = @ \/ Starting(d)]]
  /\ UNCHANGED <<sync, syncRoot, registry, agents, unrevoked, outrun>>

TakeSession(c) ==
  /\ At(c, "take") /\ lock = None
  /\ agents' = [a \in AgentIds |-> IF a = sync THEN Aborted(a) ELSE agents[a]]
  /\ sync' = None /\ bridge' = None /\ outrun' = FALSE
  /\ lock' = IF bridge = None THEN None ELSE c
  /\ req' = [d \in Clients |->
               IF d = c
                 THEN IF bridge = None THEN Idle
                      ELSE [req[c] EXCEPT !.at = "revoke", !.session = bridge]
                 ELSE [req[d] EXCEPT !.overtaken = @ \/ Starting(d)]]
  /\ UNCHANGED <<syncRoot, registry, unrevoked>>

(* pd_logout: a session without a drive is only dropped; a revocation that *)
(* fails leaves the session registered, and the error is ignored here.     *)
Revoke(c) ==
  /\ At(c, "revoke")
  /\ \/ /\ registry' = [registry EXCEPT ![req[c].session] = "dropped"]
        /\ UNCHANGED unrevoked
     \/ /\ registry[req[c].session] = "signedIn"
        /\ unrevoked' = unrevoked \cup {req[c].session}
        /\ UNCHANGED registry
  /\ lock' = None /\ Answer(c)
  /\ UNCHANGED <<bridge, sync, syncRoot, agents, outrun>>

(***************************************************************************)
(* do_start_sync: three short locks with the spawn between the last two    *)
(***************************************************************************)
CloneBridge(c) ==
  /\ At(c, "clone") /\ lock = None
  /\ IF bridge = None
       THEN Answer(c)
       ELSE Goto(c, [req[c] EXCEPT !.at = "root", !.session = bridge])
  /\ UNCHANGED <<stateVars, registry, agents, unrevoked, outrun>>

(* Mutant: the folder is taken as it is, chosen or not.                    *)
ReadRootRaw(c) ==
  /\ At(c, "root") /\ lock = None
  /\ Goto(c, [req[c] EXCEPT !.at = "spawn", !.root = syncRoot])
  /\ UNCHANGED <<stateVars, registry, agents, unrevoked, outrun>>

ReadRoot(c) ==
  /\ At(c, "root") /\ lock = None
  /\ Goto(c, [req[c] EXCEPT !.at = "spawn",
                !.root = IF syncRoot = None THEN DefaultRoot ELSE syncRoot])
  /\ UNCHANGED <<stateVars, registry, agents, unrevoked, outrun>>

(* create_dir_all, State::open, SyncAgent::new, tokio::spawn               *)
Spawn(c) ==
  /\ At(c, "spawn")
  /\ \/ \E a \in AgentIds :
          /\ agents[a].phase = "unused"
          /\ \A b \in AgentIds : b < a => agents[b].phase # "unused"
          /\ agents' = [agents EXCEPT ![a] =
               [phase |-> "starting", session |-> req[c].session, root |-> req[c].root]]
          /\ Goto(c, [req[c] EXCEPT !.at = "install", !.agent = a])
     \/ Answer(c) /\ UNCHANGED agents
  /\ UNCHANGED <<stateVars, registry, unrevoked, outrun>>

(* Mutant: the old handle is overwritten, which does not stop its task.    *)
InstallOver(c) ==
  /\ At(c, "install") /\ lock = None
  /\ sync' = req[c].agent /\ syncRoot' = req[c].root
  /\ outrun' = req[c].overtaken
  /\ Answer(c)
  /\ UNCHANGED <<bridge, lock, registry, agents, unrevoked>>

Install(c) ==
  /\ At(c, "install") /\ lock = None
  /\ agents' = [a \in AgentIds |-> IF a = sync THEN Aborted(a) ELSE agents[a]]
  /\ sync' = req[c].agent /\ syncRoot' = req[c].root
  /\ outrun' = req[c].overtaken
  /\ Answer(c)
  /\ UNCHANGED <<bridge, lock, registry, unrevoked>>

(***************************************************************************)
(* The agents' tasks: SyncAgent::run first asks the bridge for the root    *)
(* link, which needs a signed-in session, then loops until aborted.        *)
(***************************************************************************)
Become(a, phase) ==
  /\ agents' = [agents EXCEPT ![a].phase = phase]
  /\ UNCHANGED <<stateVars, req, registry, unrevoked, outrun>>

AgentRuns(a) ==
  /\ agents[a].phase = "starting" /\ registry[agents[a].session] = "signedIn"
  /\ Become(a, "running")

AgentFails(a) == agents[a].phase = "starting" /\ Become(a, "done")

AgentAborts(a) == agents[a].phase = "aborting" /\ Become(a, "done")

(***************************************************************************)
(* Specification                                                           *)
(***************************************************************************)
Init ==
  /\ bridge = None /\ sync = None /\ syncRoot = None /\ lock = None
  /\ req = [c \in Clients |-> Idle]
  /\ registry = [s \in Sessions |-> "unused"]
  /\ agents = [a \in AgentIds |-> Unused]
  /\ unrevoked = {} /\ outrun = FALSE

Handle(c) ==
  \/ EnsureBridge(c) \/ InitBridge(c) \/ Call(c) \/ Authenticate(c)
  \/ TakeSession(c) \/ Revoke(c)
  \/ CloneBridge(c) \/ ReadRoot(c) \/ Spawn(c) \/ Install(c)

Next ==
  \/ \E c \in Clients :
       \/ Login(c) \/ Resume(c) \/ Logout(c) \/ StartSync(c)
       \/ SetSyncRoot(c) \/ Stop(c) \/ Handle(c)
  \/ \E a \in AgentIds : AgentRuns(a) \/ AgentFails(a) \/ AgentAborts(a)

Spec == Init /\ [][Next]_vars

(* tokio polls every task and hands its Mutex over in the order of arrival, *)
(* so a handler that can go on again and again does go on.                 *)
FairSpec == Spec /\ \A c \in Clients : SF_vars(Handle(c))

-----------------------------------------------------------------------------
TypeOK ==
  /\ bridge \in Sessions \cup {None} /\ sync \in AgentIds \cup {None}
  /\ syncRoot \in Roots \cup {None} /\ lock \in Clients \cup {None}
  /\ req \in [Clients -> Request]
  /\ registry \in [Sessions -> {"unused", "fresh", "signedIn", "dropped"}]
  /\ agents \in [AgentIds -> Agent \cup {Unused}]
  /\ unrevoked \subseteq Sessions /\ outrun \in BOOLEAN

(* No agent gets lost: one that runs and has not been told to stop is the  *)
(* installed one, or a StartSync still at work will install it.  Otherwise *)
(* nobody could ever stop it (main.rs:257).                                *)
NoAgentLost ==
  \A a \in AgentIds :
    Live(a) => sync = a \/ \E c \in Clients : req[c].at = "install" /\ req[c].agent = a

(* No session gets lost: what is registered in the bridge is the daemon's  *)
(* handle, or a request at work holds it, or its revocation failed.        *)
NoSessionLost ==
  \A s \in Sessions :
    registry[s] \in {"fresh", "signedIn"} =>
      \/ bridge = s \/ s \in unrevoked
      \/ \E c \in Clients : req[c].at = "revoke" /\ req[c].session = s

(* A Logout leaves no agent behind but one whose StartSync it overtook:    *)
(* any other installed agent works with the session the daemon has.        *)
SyncOnSession ==
  sync # None /\ ~outrun => agents[sync].session = bridge

(* Every request is answered, or ended by a Stop: a handler waits for the  *)
(* mutex while another one holds it across a network call.                 *)
Answered == \A c \in Clients : req[c].at # "idle" ~> req[c].at = "idle"
=============================================================================
