--------------------------- MODULE DaemonRpcProofs ---------------------------
(***************************************************************************)
(* The invariants of DaemonRpc, for any number of clients, folders,        *)
(* sessions and agents.                                                    *)
(***************************************************************************)
EXTENDS DaemonRpc, TLAPS

(* What a handler remembers between two locks is true of the rest.         *)
ReqTrue(c) ==
  /\ req[c].at \in {"call", "auth", "revoke", "root", "spawn", "install"} =>
       req[c].session \in Sessions /\ registry[req[c].session] # "unused"
  /\ req[c].at \in {"spawn", "install"} => req[c].root \in Roots
  /\ req[c].at = "install" =>
       /\ req[c].agent \in AgentIds /\ agents[req[c].agent] \in Agent
       /\ agents[req[c].agent].session = req[c].session
  /\ req[c].at \in {"init", "revoke"} => lock = c
  /\ req[c].at = "init" => bridge = None
  /\ Starting(c) /\ ~req[c].overtaken => req[c].session = bridge

HandlesTrue ==
  /\ bridge # None => registry[bridge] # "unused"
  /\ sync # None => agents[sync] \in Agent
  /\ \A c \in Clients : ReqTrue(c)

RpcInv == TypeOK /\ HandlesTrue /\ NoAgentLost /\ NoSessionLost /\ SyncOnSession

-----------------------------------------------------------------------------
(* None is no session, agent, client or folder.                            *)
LEMMA Apart == None \notin Sessions /\ None \notin AgentIds /\ None \notin Clients
                 /\ None \notin Roots
BY RpcAssumption DEF RpcAssumption, Sessions, AgentIds

(* A client without a request.                                             *)
LEMMA IdleType == Idle \in Request /\ Idle.at = "idle"
BY DEF Idle, Request, Places

(* An agent number that is not used is told apart from every agent.        *)
LEMMA UnusedApart == Unused \notin Agent /\ Unused.phase = "unused"
BY DEF Unused, Agent

(* The daemon starts with the invariant (main.rs:49).                      *)
THEOREM InitInv == Init => RpcInv
<1> SUFFICES ASSUME Init PROVE RpcInv
  OBVIOUS
<1> USE DEF Init
<1>1. TypeOK
  BY IdleType DEF TypeOK, Agent
<1>2. HandlesTrue
  BY IdleType DEF HandlesTrue, ReqTrue, Starting
<1>3. NoAgentLost /\ NoSessionLost /\ SyncOnSession
  BY UnusedApart DEF NoAgentLost, NoSessionLost, SyncOnSession, Live
<1> QED BY <1>1, <1>2, <1>3 DEF RpcInv

-----------------------------------------------------------------------------
(* A handler goes from one place to another and touches nothing else but   *)
(* the lock.                                                               *)
LEMMA Moves ==
  ASSUME RpcInv, NEW c \in Clients, NEW r \in Request,
         req' = [req EXCEPT ![c] = r],
         UNCHANGED <<bridge, sync, syncRoot, registry, agents, unrevoked, outrun>>,
         lock' \in Clients \cup {None},
         \A d \in Clients \ {c} : req[d].at \in {"init", "revoke"} => lock' = d,
         ~At(c, "install"), ~At(c, "revoke"),
         ReqTrue(c)'
  PROVE  RpcInv'
<1>1. TypeOK'
  BY DEF RpcInv, TypeOK
<1>2. /\ req'[c] = r
      /\ \A d \in Clients : d # c => req'[d] = req[d]
  BY DEF RpcInv, TypeOK
<1>3. ASSUME NEW d \in Clients, d # c PROVE ReqTrue(d)'
  BY <1>2, <1>3 DEF RpcInv, HandlesTrue, ReqTrue, Starting
<1>4. HandlesTrue'
  BY <1>3 DEF RpcInv, HandlesTrue
<1>5. NoAgentLost'
  BY <1>2 DEF RpcInv, NoAgentLost, Live, At
<1>6. NoSessionLost'
  BY <1>2 DEF RpcInv, NoSessionLost, At
<1>7. SyncOnSession'
  BY DEF RpcInv, SyncOnSession
<1> QED BY <1>1, <1>4, <1>5, <1>6, <1>7 DEF RpcInv

(* A request begins with nothing remembered.                               *)
LEMMA AskInv ==
  ASSUME RpcInv, NEW c \in Clients, NEW place \in {"bridge", "take", "clone"}, Ask(c, place)
  PROVE  RpcInv'
<1> DEFINE r == [Idle EXCEPT !.at = place]
<1>1. r \in Request /\ r.at = place
  BY DEF Idle, Request, Places
<1>2. req' = [req EXCEPT ![c] = r] /\ At(c, "idle")
  BY DEF Ask, Goto
<1> HIDE DEF r
<1>3. req'[c] = r
  BY <1>2 DEF RpcInv, TypeOK
<1>4. ReqTrue(c)'
  BY <1>1, <1>3 DEF ReqTrue, Starting
<1>5. \A d \in Clients \ {c} : req[d].at \in {"init", "revoke"} => lock' = d
  BY DEF Ask, stateVars, RpcInv, HandlesTrue, ReqTrue
<1>6. lock' \in Clients \cup {None}
  BY DEF Ask, stateVars, RpcInv, TypeOK
<1>7. UNCHANGED <<bridge, sync, syncRoot, registry, agents, unrevoked, outrun>>
  BY DEF Ask, stateVars
<1> QED BY <1>1, <1>2, <1>4, <1>5, <1>6, <1>7, Moves DEF At

(* No handler has copied the chosen folder for good yet.                   *)
LEMMA SetSyncRootInv ==
  ASSUME RpcInv, NEW c \in Clients, SetSyncRoot(c) PROVE RpcInv'
BY DEF SetSyncRoot, RpcInv, TypeOK, HandlesTrue, ReqTrue, Starting, NoAgentLost,
       NoSessionLost, SyncOnSession, Live

(* The next process begins like the first.                                 *)
LEMMA StopInv ==
  ASSUME RpcInv, NEW c \in Clients, Stop(c) PROVE RpcInv'
<1> USE DEF Stop
<1>1. TypeOK'
  BY IdleType DEF TypeOK, Agent
<1>2. HandlesTrue'
  BY IdleType DEF HandlesTrue, ReqTrue, Starting
<1>3. NoAgentLost' /\ NoSessionLost' /\ SyncOnSession'
  BY UnusedApart DEF NoAgentLost, NoSessionLost, SyncOnSession, Live
<1> QED BY <1>1, <1>2, <1>3 DEF RpcInv

-----------------------------------------------------------------------------
(* do_login and do_resume                                                  *)
LEMMA EnsureBridgeInv ==
  ASSUME RpcInv, NEW c \in Clients, EnsureBridge(c) PROVE RpcInv'
<1> DEFINE made == [req[c] EXCEPT !.at = "call", !.session = bridge]
<1> DEFINE make == [req[c] EXCEPT !.at = "init"]
<1>0. req[c] \in Request /\ At(c, "bridge") /\ lock = None
  BY DEF RpcInv, TypeOK, EnsureBridge
<1>1. UNCHANGED <<bridge, sync, syncRoot, registry, agents, unrevoked, outrun>>
  BY DEF EnsureBridge
<1>2. \A d \in Clients : req[d].at \notin {"init", "revoke"}
  BY <1>0, Apart DEF RpcInv, HandlesTrue, ReqTrue
<1>3. CASE bridge # None
  <2>1. made \in Request /\ made.at = "call" /\ made.session = bridge
    BY <1>0, <1>3 DEF Request, Places, RpcInv, TypeOK
  <2>2. req' = [req EXCEPT ![c] = made] /\ lock' = None
    BY <1>0, <1>3 DEF EnsureBridge, Goto
  <2> HIDE DEF made
  <2>3. req'[c] = made
    BY <2>2 DEF RpcInv, TypeOK
  <2>4. ReqTrue(c)'
    BY <1>1, <1>3, <2>1, <2>3 DEF ReqTrue, Starting, RpcInv, HandlesTrue, TypeOK
  <2> QED BY <1>0, <1>1, <1>2, <2>1, <2>2, <2>4, Moves DEF At
<1>4. CASE bridge = None
  <2>1. make \in Request /\ make.at = "init"
    BY <1>0 DEF Request, Places
  <2>2. req' = [req EXCEPT ![c] = make] /\ lock' = c
    BY <1>4 DEF EnsureBridge, Goto
  <2> HIDE DEF make
  <2>3. req'[c] = make
    BY <2>2 DEF RpcInv, TypeOK
  <2>4. ReqTrue(c)'
    BY <1>1, <1>4, <2>1, <2>2, <2>3 DEF ReqTrue, Starting
  <2> QED BY <1>0, <1>1, <1>2, <2>1, <2>2, <2>4, Moves DEF At
<1> QED BY <1>3, <1>4

(* A handler that answers forgets all it remembered.                       *)
LEMMA AnswerInv ==
  ASSUME RpcInv, NEW c \in Clients, Answer(c), ~At(c, "install"), ~At(c, "revoke"),
         UNCHANGED <<bridge, sync, syncRoot, registry, agents, unrevoked, outrun>>,
         lock' = IF At(c, "init") THEN None ELSE lock
  PROVE  RpcInv'
<1>1. req' = [req EXCEPT ![c] = Idle]
  BY DEF Answer
<1>2. req'[c] = Idle
  BY <1>1 DEF RpcInv, TypeOK
<1>3. ReqTrue(c)'
  BY <1>2, IdleType DEF ReqTrue, Starting
<1>4. \A d \in Clients \ {c} : req[d].at \in {"init", "revoke"} => lock' = d
  BY DEF RpcInv, HandlesTrue, ReqTrue, At
<1>5. lock' \in Clients \cup {None}
  BY DEF RpcInv, TypeOK
<1> QED BY <1>1, <1>3, <1>4, <1>5, IdleType, Moves

(* The lock is held: no other handler can be making a bridge.              *)
LEMMA InitBridgeInv ==
  ASSUME RpcInv, NEW c \in Clients, InitBridge(c) PROVE RpcInv'
<1>0. /\ req[c] \in Request /\ At(c, "init") /\ lock = c /\ lock' = None /\ bridge = None
      /\ UNCHANGED <<sync, syncRoot, agents, unrevoked, outrun>>
  BY DEF RpcInv, TypeOK, HandlesTrue, ReqTrue, InitBridge, At
<1>1. CASE Answer(c) /\ UNCHANGED <<registry, bridge>>
  BY <1>0, <1>1, AnswerInv DEF At
<1>2. ASSUME NEW s \in Sessions, registry[s] = "unused",
             registry' = [registry EXCEPT ![s] = "fresh"], bridge' = s,
             Goto(c, [req[c] EXCEPT !.at = "call", !.session = s])
      PROVE  RpcInv'
  <2> DEFINE r == [req[c] EXCEPT !.at = "call", !.session = s]
  <2>1. r \in Request /\ r.at = "call" /\ r.session = s
    BY <1>0 DEF Request, Places
  <2>2. req' = [req EXCEPT ![c] = r]
    BY <1>2 DEF Goto
  <2> HIDE DEF r
  <2>3. req'[c] = r /\ \A d \in Clients : d # c => req'[d] = req[d]
    BY <2>2 DEF RpcInv, TypeOK
  <2>4. /\ registry'[s] = "fresh" /\ \A t \in Sessions : t # s => registry'[t] = registry[t]
    BY <1>2 DEF RpcInv, TypeOK
  <2>5. TypeOK'
    BY <1>0, <1>2, <2>1, <2>2 DEF RpcInv, TypeOK
  <2>6. ASSUME NEW d \in Clients PROVE ReqTrue(d)'
    <3>1. CASE d = c
      BY <3>1, <2>1, <2>3, <2>4 DEF ReqTrue, Starting
    <3>2. CASE d # c
      <4>1. req'[d] = req[d] /\ req[d].at \notin {"init", "revoke"}
        BY <3>2, <2>3, <1>0 DEF RpcInv, HandlesTrue, ReqTrue
      <4>2. Starting(d) => req[d].overtaken
        BY <1>0, Apart DEF RpcInv, HandlesTrue, ReqTrue, Starting
      <4> QED BY <4>1, <4>2, <1>0, <2>4 DEF RpcInv, HandlesTrue, ReqTrue, Starting
    <3> QED BY <3>1, <3>2
  <2>7. HandlesTrue'
    BY <1>0, <1>2, <2>4, <2>6 DEF RpcInv, HandlesTrue
  <2>8. NoAgentLost'
    BY <1>0, <2>3 DEF RpcInv, NoAgentLost, Live, At
  <2>9. NoSessionLost'
    BY <1>0, <1>2, <2>3, <2>4, Apart DEF RpcInv, NoSessionLost, At
  <2>10. SyncOnSession'
    <3>1. sync # None => agents[sync].session # None
      BY Apart DEF RpcInv, HandlesTrue, Agent
    <3> QED BY <1>0, <3>1 DEF RpcInv, SyncOnSession
  <2> QED BY <2>5, <2>7, <2>8, <2>9, <2>10 DEF RpcInv
<1> QED BY <1>1, <1>2 DEF InitBridge

(* A session that was dropped meanwhile is an error.                       *)
LEMMA CallInv ==
  ASSUME RpcInv, NEW c \in Clients, Call(c) PROVE RpcInv'
<1>0. /\ req[c] \in Request /\ At(c, "call")
      /\ UNCHANGED <<bridge, sync, syncRoot, lock, registry, agents, unrevoked, outrun>>
  BY DEF RpcInv, TypeOK, Call, stateVars
<1>1. CASE Answer(c)
  BY <1>0, <1>1, AnswerInv DEF At
<1>2. CASE Goto(c, [req[c] EXCEPT !.at = "auth"])
  <2> DEFINE r == [req[c] EXCEPT !.at = "auth"]
  <2>1. r \in Request /\ r.at = "auth" /\ r.session = req[c].session
    BY <1>0 DEF Request, Places
  <2>2. req' = [req EXCEPT ![c] = r]
    BY <1>2 DEF Goto
  <2> HIDE DEF r
  <2>3. req'[c] = r
    BY <2>2 DEF RpcInv, TypeOK
  <2>4. ReqTrue(c)'
    BY <1>0, <2>1, <2>3 DEF ReqTrue, Starting, RpcInv, HandlesTrue, At
  <2>5. \A d \in Clients \ {c} : req[d].at \in {"init", "revoke"} => lock' = d
    BY <1>0 DEF RpcInv, HandlesTrue, ReqTrue
  <2>6. lock' \in Clients \cup {None}
    BY <1>0 DEF RpcInv, TypeOK
  <2> QED BY <1>0, <2>1, <2>2, <2>4, <2>5, <2>6, Moves DEF At
<1> QED BY <1>1, <1>2 DEF Call

(* No session comes back after it has been dropped.                        *)
LEMMA AuthenticateInv ==
  ASSUME RpcInv, NEW c \in Clients, Authenticate(c) PROVE RpcInv'
<1>0. /\ At(c, "auth") /\ req' = [req EXCEPT ![c] = Idle]
      /\ UNCHANGED <<bridge, sync, syncRoot, lock, agents, unrevoked, outrun>>
  BY DEF Authenticate, Answer, stateVars
<1>1. CASE UNCHANGED registry
  BY <1>0, <1>1, AnswerInv DEF At, Answer
<1>2. CASE registry' = [registry EXCEPT ![req[c].session] = IF @ = "dropped" THEN @ ELSE "signedIn"]
  <2> DEFINE s == req[c].session
  <2>1. s \in Sessions /\ registry[s] # "unused"
    BY <1>0 DEF RpcInv, HandlesTrue, ReqTrue, At
  <2>2. req'[c] = Idle /\ \A d \in Clients : d # c => req'[d] = req[d]
    BY <1>0 DEF RpcInv, TypeOK
  <2> HIDE DEF s
  <2>3. registry' = [registry EXCEPT ![s] = IF registry[s] = "dropped" THEN registry[s] ELSE "signedIn"]
    BY <1>2 DEF s
  <2>4. /\ \A t \in Sessions : t # s => registry'[t] = registry[t]
        /\ registry'[s] = (IF registry[s] = "dropped" THEN "dropped" ELSE "signedIn")
        /\ registry' \in [Sessions -> {"unused", "fresh", "signedIn", "dropped"}]
    BY <2>1, <2>3 DEF RpcInv, TypeOK
  <2>5. TypeOK'
    BY <1>0, <2>4, IdleType DEF RpcInv, TypeOK
  <2>6. \A t \in Sessions : registry[t] # "unused" => registry'[t] # "unused"
    BY <2>4
  <2>7. \A d \in Clients : ReqTrue(d)'
    BY <1>0, <2>2, <2>6, IdleType DEF RpcInv, HandlesTrue, ReqTrue, Starting
  <2>8. HandlesTrue'
    BY <1>0, <2>6, <2>7 DEF RpcInv, HandlesTrue, TypeOK
  <2>9. NoAgentLost'
    BY <1>0, <2>2 DEF RpcInv, NoAgentLost, Live, At
  <2>10. NoSessionLost'
    <3>1. \A t \in Sessions : registry'[t] \in {"fresh", "signedIn"}
                 => registry[t] \in {"fresh", "signedIn"}
      BY <2>1, <2>4 DEF RpcInv, TypeOK
    <3> QED BY <1>0, <2>2, <3>1 DEF RpcInv, NoSessionLost, At
  <2>11. SyncOnSession'
    BY <1>0 DEF RpcInv, SyncOnSession
  <2> QED BY <2>5, <2>8, <2>9, <2>10, <2>11 DEF RpcInv
<1> QED BY <1>1, <1>2 DEF Authenticate

-----------------------------------------------------------------------------
(* What an abort does to the agents: the installed one is told to stop.    *)
LEMMA AbortInstalled ==
  ASSUME RpcInv, agents' = [a \in AgentIds |-> IF a = sync THEN Aborted(a) ELSE agents[a]]
  PROVE  /\ agents' \in [AgentIds -> Agent \cup {Unused}]
         /\ \A a \in AgentIds : a # sync => agents'[a] = agents[a]
         /\ \A a \in AgentIds : agents[a] \in Agent =>
              agents'[a] \in Agent /\ agents'[a].session = agents[a].session
         /\ sync # None => agents'[sync].phase \notin {"starting", "running"}
<1>1. ASSUME NEW a \in AgentIds, a = sync
      PROVE  /\ agents[a] \in Agent /\ agents'[a] \in Agent
             /\ agents'[a].session = agents[a].session
             /\ agents'[a].phase \notin {"starting", "running"}
  <2>1. agents[a] \in Agent
    BY <1>1, Apart DEF RpcInv, HandlesTrue
  <2> DEFINE x == [agents[a] EXCEPT !.phase = "aborting"]
  <2>2. x \in Agent /\ x.session = agents[a].session /\ x.phase = "aborting"
    BY <2>1 DEF Agent
  <2>3. agents'[a] = IF Live(a) THEN x ELSE agents[a]
    BY <1>1 DEF Aborted
  <2> HIDE DEF x
  <2> QED BY <2>1, <2>2, <2>3 DEF Live
<1>2. \A a \in AgentIds : a # sync => agents'[a] = agents[a]
  OBVIOUS
<1>3. agents' \in [AgentIds -> Agent \cup {Unused}]
  BY <1>1, <1>2 DEF RpcInv, TypeOK
<1> QED BY <1>1, <1>2, <1>3 DEF RpcInv, TypeOK

(* A Logout overtakes every StartSync that has its session already.        *)
LEMMA TakeSessionInv ==
  ASSUME RpcInv, NEW c \in Clients, TakeSession(c) PROVE RpcInv'
<1> DEFINE taken == [req[c] EXCEPT !.at = "revoke", !.session = bridge]
<1> DEFINE late(d) == [req[d] EXCEPT !.overtaken = @ \/ Starting(d)]
<1>0. /\ At(c, "take") /\ lock = None /\ sync' = None /\ bridge' = None /\ outrun' = FALSE
      /\ agents' = [a \in AgentIds |-> IF a = sync THEN Aborted(a) ELSE agents[a]]
      /\ lock' = (IF bridge = None THEN None ELSE c)
      /\ UNCHANGED <<syncRoot, registry, unrevoked>>
      /\ req[c] \in Request
  BY DEF TakeSession, RpcInv, TypeOK
<1>1. req' = [d \in Clients |-> IF d = c THEN IF bridge = None THEN Idle ELSE taken ELSE late(d)]
  BY DEF TakeSession
<1>2. bridge # None => taken \in Request /\ taken.at = "revoke" /\ taken.session = bridge
  BY <1>0 DEF RpcInv, TypeOK, Request, Places
<1>3. ASSUME NEW d \in Clients
      PROVE  /\ late(d) \in Request /\ late(d).at = req[d].at /\ late(d).session = req[d].session
             /\ late(d).root = req[d].root /\ late(d).agent = req[d].agent
             /\ Starting(d) => late(d).overtaken = TRUE
  <2>1. req[d] \in Request
    BY DEF RpcInv, TypeOK
  <2>2. (req[d].overtaken \/ Starting(d)) \in BOOLEAN
    BY DEF Starting
  <2> QED BY <2>1, <2>2 DEF Request
<1> HIDE DEF taken, late
<1>4. /\ req'[c] = (IF bridge = None THEN Idle ELSE taken)
      /\ \A d \in Clients : d # c => req'[d] = late(d)
  BY <1>1
<1>5. \A d \in Clients : req[d].at \notin {"init", "revoke"}
  BY <1>0, Apart DEF RpcInv, HandlesTrue, ReqTrue
<1>6. TypeOK'
  <2>1. req' \in [Clients -> Request]
    BY <1>1, <1>2, <1>3, IdleType
  <2> QED BY <1>0, <2>1, AbortInstalled DEF RpcInv, TypeOK
<1>7. ASSUME NEW d \in Clients PROVE ReqTrue(d)'
  <2>1. CASE d = c
    BY <2>1, <1>0, <1>2, <1>4, IdleType DEF ReqTrue, Starting, RpcInv, HandlesTrue, TypeOK
  <2>2. CASE d # c
    <3>1. /\ req'[d].at = req[d].at /\ req'[d].session = req[d].session
          /\ req'[d].root = req[d].root /\ req'[d].agent = req[d].agent
          /\ Starting(d) => req'[d].overtaken
      BY <2>2, <1>3, <1>4
    <3>2. ReqTrue(d)
      BY DEF RpcInv, HandlesTrue
    <3>3. \A a \in AgentIds : agents[a] \in Agent =>
            agents'[a] \in Agent /\ agents'[a].session = agents[a].session
      BY <1>0, AbortInstalled
    <3> QED BY <1>0, <1>5, <3>1, <3>2, <3>3 DEF ReqTrue, Starting
  <2> QED BY <2>1, <2>2
<1>8. HandlesTrue'
  BY <1>0, <1>7 DEF HandlesTrue
<1>9. NoAgentLost'
  <2>1. \A a \in AgentIds : Live(a)' => a # sync /\ Live(a)
    <3>1. \A a \in AgentIds : a # sync => agents'[a] = agents[a]
      BY <1>0, AbortInstalled
    <3>2. sync # None => agents'[sync].phase \notin {"starting", "running"}
      BY <1>0, AbortInstalled
    <3> QED BY <3>1, <3>2, Apart DEF Live
  <2>2. \A d \in Clients : req[d].at = "install" =>
           req'[d].at = "install" /\ req'[d].agent = req[d].agent
    BY <1>0, <1>3, <1>4 DEF At
  <2> QED BY <2>1, <2>2 DEF RpcInv, NoAgentLost
<1>10. NoSessionLost'
  BY <1>0, <1>2, <1>4, <1>5, Apart DEF RpcInv, NoSessionLost
<1>11. SyncOnSession'
  BY <1>0 DEF SyncOnSession
<1> QED BY <1>6, <1>8, <1>9, <1>10, <1>11 DEF RpcInv

(* Under the lock nobody else forgets a session.                           *)
LEMMA RevokeInv ==
  ASSUME RpcInv, NEW c \in Clients, Revoke(c) PROVE RpcInv'
<1>0. /\ At(c, "revoke") /\ lock' = None /\ lock = c /\ req' = [req EXCEPT ![c] = Idle]
      /\ UNCHANGED <<bridge, sync, syncRoot, agents, outrun>>
      /\ req[c].session \in Sessions /\ registry[req[c].session] # "unused"
  BY DEF Revoke, Answer, RpcInv, HandlesTrue, ReqTrue, At
<1>1. req'[c] = Idle /\ \A d \in Clients : d # c => req'[d] = req[d]
  BY <1>0 DEF RpcInv, TypeOK
<1>2. \A d \in Clients : d # c => req[d].at \notin {"init", "revoke"}
  BY <1>0 DEF RpcInv, HandlesTrue, ReqTrue
<1>3. /\ registry' \in [Sessions -> {"unused", "fresh", "signedIn", "dropped"}]
      /\ \A s \in Sessions : registry[s] # "unused" => registry'[s] # "unused"
      /\ \A s \in Sessions : registry'[s] \in {"fresh", "signedIn"} => registry'[s] = registry[s]
      /\ \/ registry'[req[c].session] = "dropped"
         \/ req[c].session \in unrevoked'
      /\ unrevoked \subseteq unrevoked' /\ unrevoked' \subseteq Sessions
  BY <1>0 DEF Revoke, RpcInv, TypeOK
<1>4. TypeOK'
  BY <1>0, <1>3, IdleType DEF RpcInv, TypeOK
<1>5. \A d \in Clients : ReqTrue(d)'
  BY <1>0, <1>1, <1>2, <1>3, IdleType DEF RpcInv, HandlesTrue, ReqTrue, Starting
<1>6. HandlesTrue'
  BY <1>0, <1>3, <1>5 DEF RpcInv, HandlesTrue, TypeOK
<1>7. NoAgentLost'
  BY <1>0, <1>1 DEF RpcInv, NoAgentLost, Live, At
<1>8. NoSessionLost'
  BY <1>0, <1>1, <1>2, <1>3 DEF RpcInv, NoSessionLost
<1>9. SyncOnSession'
  BY <1>0 DEF RpcInv, SyncOnSession
<1> QED BY <1>4, <1>6, <1>7, <1>8, <1>9 DEF RpcInv

-----------------------------------------------------------------------------
(* do_start_sync                                                           *)
LEMMA CloneBridgeInv ==
  ASSUME RpcInv, NEW c \in Clients, CloneBridge(c) PROVE RpcInv'
<1>0. /\ req[c] \in Request /\ At(c, "clone") /\ lock = None
      /\ UNCHANGED <<bridge, sync, syncRoot, lock, registry, agents, unrevoked, outrun>>
  BY DEF RpcInv, TypeOK, CloneBridge, stateVars
<1>1. CASE Answer(c)
  BY <1>0, <1>1, AnswerInv DEF At
<1>2. CASE bridge # None /\ Goto(c, [req[c] EXCEPT !.at = "root", !.session = bridge])
  <2> DEFINE r == [req[c] EXCEPT !.at = "root", !.session = bridge]
  <2>1. r \in Request /\ r.at = "root" /\ r.session = bridge
    BY <1>0, <1>2 DEF Request, Places, RpcInv, TypeOK
  <2>2. req' = [req EXCEPT ![c] = r]
    BY <1>2 DEF Goto
  <2> HIDE DEF r
  <2>3. req'[c] = r
    BY <2>2 DEF RpcInv, TypeOK
  <2>4. ReqTrue(c)'
    BY <1>0, <1>2, <2>1, <2>3 DEF ReqTrue, Starting, RpcInv, HandlesTrue, TypeOK
  <2>5. \A d \in Clients \ {c} : req[d].at \in {"init", "revoke"} => lock' = d
    BY <1>0 DEF RpcInv, HandlesTrue, ReqTrue
  <2>6. lock' \in Clients \cup {None}
    BY <1>0
  <2> QED BY <1>0, <2>1, <2>2, <2>4, <2>5, <2>6, Moves DEF At
<1> QED BY <1>1, <1>2 DEF CloneBridge

(* A folder nobody has chosen is the default one.                          *)
LEMMA ReadRootInv ==
  ASSUME RpcInv, NEW c \in Clients, ReadRoot(c) PROVE RpcInv'
<1> DEFINE root == IF syncRoot = None THEN DefaultRoot ELSE syncRoot
<1> DEFINE r == [req[c] EXCEPT !.at = "spawn", !.root = root]
<1>0. /\ req[c] \in Request /\ At(c, "root") /\ lock = None
      /\ UNCHANGED <<bridge, sync, syncRoot, lock, registry, agents, unrevoked, outrun>>
  BY DEF RpcInv, TypeOK, ReadRoot, stateVars
<1>1. root \in Roots
  BY RpcAssumption DEF RpcAssumption, RpcInv, TypeOK
<1>2. req' = [req EXCEPT ![c] = r]
  BY DEF ReadRoot, Goto
<1> HIDE DEF root
<1>3. /\ r \in Request /\ r.at = "spawn" /\ r.root = root /\ r.session = req[c].session
      /\ r.overtaken = req[c].overtaken
  BY <1>0, <1>1 DEF Request, Places
<1> HIDE DEF r
<1>4. req'[c] = r
  BY <1>2 DEF RpcInv, TypeOK
<1>5. ReqTrue(c)
  BY DEF RpcInv, HandlesTrue
<1>6. ReqTrue(c)'
  BY <1>0, <1>1, <1>3, <1>4, <1>5 DEF ReqTrue, Starting, At
<1>7. \A d \in Clients \ {c} : req[d].at \in {"init", "revoke"} => lock' = d
  BY <1>0 DEF RpcInv, HandlesTrue, ReqTrue
<1>8. lock' \in Clients \cup {None}
  BY <1>0
<1> QED BY <1>0, <1>2, <1>3, <1>6, <1>7, <1>8, Moves DEF At

(* The new agent is the StartSync's until it is installed.                 *)
LEMMA SpawnInv ==
  ASSUME RpcInv, NEW c \in Clients, Spawn(c) PROVE RpcInv'
<1>0. /\ req[c] \in Request /\ At(c, "spawn") /\ ReqTrue(c)
      /\ UNCHANGED <<bridge, sync, syncRoot, lock, registry, unrevoked, outrun>>
  BY DEF RpcInv, TypeOK, HandlesTrue, Spawn, stateVars
<1>1. CASE Answer(c) /\ UNCHANGED agents
  BY <1>0, <1>1, AnswerInv DEF At
<1>2. ASSUME NEW n \in AgentIds, agents[n].phase = "unused",
             agents' = [agents EXCEPT ![n] =
               [phase |-> "starting", session |-> req[c].session, root |-> req[c].root]],
             Goto(c, [req[c] EXCEPT !.at = "install", !.agent = n])
      PROVE  RpcInv'
  <2> DEFINE new == [phase |-> "starting", session |-> req[c].session, root |-> req[c].root]
  <2> DEFINE r == [req[c] EXCEPT !.at = "install", !.agent = n]
  <2>1. new \in Agent /\ new.session = req[c].session
    BY <1>0 DEF Agent, ReqTrue, At
  <2>2. /\ r \in Request /\ r.at = "install" /\ r.agent = n /\ r.root = req[c].root
        /\ r.session = req[c].session /\ r.overtaken = req[c].overtaken
    BY <1>0 DEF Request, Places
  <2>3. req' = [req EXCEPT ![c] = r] /\ agents' = [agents EXCEPT ![n] = new]
    BY <1>2 DEF Goto
  <2> HIDE DEF r, new
  <2>4. /\ req'[c] = r /\ \A d \in Clients : d # c => req'[d] = req[d]
        /\ agents'[n] = new /\ \A a \in AgentIds : a # n => agents'[a] = agents[a]
    BY <2>3 DEF RpcInv, TypeOK
  <2>5. agents[n] \notin Agent
    BY <1>2 DEF Agent
  <2>6. TypeOK'
    BY <1>0, <2>1, <2>2, <2>3 DEF RpcInv, TypeOK
  <2>7. ASSUME NEW d \in Clients PROVE ReqTrue(d)'
    <3>1. CASE d = c
      BY <3>1, <1>0, <2>1, <2>2, <2>4 DEF ReqTrue, Starting, At
    <3>2. CASE d # c
      BY <3>2, <1>0, <2>4, <2>5 DEF RpcInv, HandlesTrue, ReqTrue, Starting
    <3> QED BY <3>1, <3>2
  <2>8. HandlesTrue'
    BY <1>0, <2>4, <2>5, <2>7 DEF RpcInv, HandlesTrue, TypeOK
  <2>9. NoAgentLost'
    BY <1>0, <2>2, <2>4 DEF RpcInv, NoAgentLost, Live, At
  <2>10. NoSessionLost'
    BY <1>0, <2>4 DEF RpcInv, NoSessionLost, At
  <2>11. SyncOnSession'
    BY <1>0, <2>4, <2>5 DEF RpcInv, SyncOnSession, HandlesTrue, TypeOK
  <2> QED BY <2>6, <2>8, <2>9, <2>10, <2>11 DEF RpcInv
<1> QED BY <1>1, <1>2 DEF Spawn

(* The agent that was installed before is told to stop.                    *)
LEMMA InstallInv ==
  ASSUME RpcInv, NEW c \in Clients, Install(c) PROVE RpcInv'
<1>0. /\ req[c] \in Request /\ At(c, "install") /\ lock = None /\ ReqTrue(c)
      /\ agents' = [a \in AgentIds |-> IF a = sync THEN Aborted(a) ELSE agents[a]]
      /\ sync' = req[c].agent /\ syncRoot' = req[c].root /\ outrun' = req[c].overtaken
      /\ req' = [req EXCEPT ![c] = Idle]
      /\ UNCHANGED <<bridge, lock, registry, unrevoked>>
  BY DEF RpcInv, TypeOK, HandlesTrue, Install, Answer
<1>1. req'[c] = Idle /\ \A d \in Clients : d # c => req'[d] = req[d]
  BY <1>0 DEF RpcInv, TypeOK
<1>2. /\ sync' \in AgentIds /\ agents[sync'] \in Agent /\ agents[sync'].session = req[c].session
      /\ syncRoot' \in Roots /\ outrun' \in BOOLEAN
  BY <1>0 DEF ReqTrue, At, Request
<1>3. /\ agents' \in [AgentIds -> Agent \cup {Unused}]
      /\ \A a \in AgentIds : a # sync => agents'[a] = agents[a]
      /\ \A a \in AgentIds : agents[a] \in Agent =>
           agents'[a] \in Agent /\ agents'[a].session = agents[a].session
      /\ sync # None => agents'[sync].phase \notin {"starting", "running"}
  BY <1>0, AbortInstalled
<1>4. TypeOK'
  BY <1>0, <1>2, <1>3, IdleType DEF RpcInv, TypeOK
<1>5. \A d \in Clients : ReqTrue(d)'
  BY <1>0, <1>1, <1>3, IdleType DEF RpcInv, HandlesTrue, ReqTrue, Starting
<1>6. HandlesTrue'
  BY <1>0, <1>2, <1>3, <1>5 DEF RpcInv, HandlesTrue
<1>7. NoAgentLost'
  <2>1. \A a \in AgentIds : Live(a)' => a # sync /\ Live(a)
    BY <1>3, Apart DEF Live
  <2> QED BY <1>0, <1>1, <2>1 DEF RpcInv, NoAgentLost
<1>8. NoSessionLost'
  BY <1>0, <1>1 DEF RpcInv, NoSessionLost, At
<1>9. SyncOnSession'
  BY <1>0, <1>2, <1>3 DEF SyncOnSession, ReqTrue, Starting, At
<1> QED BY <1>4, <1>6, <1>7, <1>8, <1>9 DEF RpcInv

-----------------------------------------------------------------------------
(* The agents' own steps never bring one back to life.                     *)
LEMMA BecomeInv ==
  ASSUME RpcInv, NEW n \in AgentIds, NEW phase \in {"running", "done"},
         agents[n].phase # "unused", Become(n, phase),
         phase = "running" => Live(n)
  PROVE  RpcInv'
<1> DEFINE new == [agents[n] EXCEPT !.phase = phase]
<1>1. agents[n] \in Agent
  BY UnusedApart DEF RpcInv, TypeOK
<1>2. new \in Agent /\ new.session = agents[n].session /\ new.phase = phase
  BY <1>1 DEF Agent
<1>3. /\ agents' = [agents EXCEPT ![n] = new]
      /\ UNCHANGED <<bridge, sync, syncRoot, lock, req, registry, unrevoked, outrun>>
  BY DEF Become, stateVars
<1> HIDE DEF new
<1>4. /\ agents'[n] = new /\ \A a \in AgentIds : a # n => agents'[a] = agents[a]
  BY <1>3 DEF RpcInv, TypeOK
<1>5. TypeOK'
  BY <1>2, <1>3 DEF RpcInv, TypeOK
<1>6. \A d \in Clients : ReqTrue(d)'
  BY <1>1, <1>2, <1>3, <1>4 DEF RpcInv, HandlesTrue, ReqTrue, Starting
<1>7. HandlesTrue'
  BY <1>1, <1>2, <1>3, <1>4, <1>6 DEF RpcInv, HandlesTrue, TypeOK
<1>8. NoAgentLost'
  BY <1>2, <1>3, <1>4 DEF RpcInv, NoAgentLost, Live
<1>9. NoSessionLost'
  BY <1>3 DEF RpcInv, NoSessionLost
<1>10. SyncOnSession'
  BY <1>2, <1>3, <1>4 DEF RpcInv, SyncOnSession, TypeOK
<1> QED BY <1>5, <1>7, <1>8, <1>9, <1>10 DEF RpcInv

(* Every step of the daemon keeps the invariant.                           *)
LEMMA NextInv == RpcInv /\ [Next]_vars => RpcInv'
<1> SUFFICES ASSUME RpcInv, [Next]_vars PROVE RpcInv'
  OBVIOUS
<1>1. ASSUME NEW c \in Clients, Login(c) \/ Resume(c) \/ Logout(c) \/ StartSync(c)
      PROVE  RpcInv'
  BY <1>1, AskInv DEF Login, Resume, Logout, StartSync
<1>2. ASSUME NEW c \in Clients, SetSyncRoot(c) \/ Stop(c)
      PROVE  RpcInv'
  BY <1>2, SetSyncRootInv, StopInv
<1>3. ASSUME NEW c \in Clients, Handle(c)
      PROVE  RpcInv'
  BY <1>3, EnsureBridgeInv, InitBridgeInv, CallInv, AuthenticateInv, TakeSessionInv, RevokeInv,
     CloneBridgeInv, ReadRootInv, SpawnInv, InstallInv DEF Handle
<1>4. ASSUME NEW a \in AgentIds, AgentRuns(a) \/ AgentFails(a) \/ AgentAborts(a)
      PROVE  RpcInv'
  BY <1>4, BecomeInv DEF AgentRuns, AgentFails, AgentAborts, Live
<1>5. CASE UNCHANGED vars
  BY <1>5 DEF vars, stateVars, RpcInv, TypeOK, HandlesTrue, ReqTrue, Starting, NoAgentLost,
              NoSessionLost, SyncOnSession, Live
<1> QED BY <1>1, <1>2, <1>3, <1>4, <1>5 DEF Next

-----------------------------------------------------------------------------
(* What every reachable state of the daemon satisfies, whatever the        *)
(* requests of its clients and the order their handlers take the mutex in. *)
THEOREM RpcInvariant == Spec => []RpcInv
BY InitInv, NextInv, PTL DEF Spec

(* Every field of AppState and of the handlers has its type; in particular *)
(* a StartSync never spawns an agent without a session or a folder.        *)
THEOREM RpcTypes == Spec => []TypeOK
<1>1. RpcInv => TypeOK
  BY DEF RpcInv
<1> QED BY <1>1, RpcInvariant, PTL

(* No interleaving of StartSync and Logout leaves an agent running that    *)
(* nobody can stop (main.rs:257).                                          *)
THEOREM NoAgentIsLost == Spec => []NoAgentLost
<1>1. RpcInv => NoAgentLost
  BY DEF RpcInv
<1> QED BY <1>1, RpcInvariant, PTL

(* No interleaving of Login, Resume and Logout leaves a session registered *)
(* in the bridge that the daemon has forgotten (main.rs:167, 231).         *)
THEOREM NoSessionIsLost == Spec => []NoSessionLost
<1>1. RpcInv => NoSessionLost
  BY DEF RpcInv
<1> QED BY <1>1, RpcInvariant, PTL

(* After a Logout only an agent whose StartSync it overtook works with     *)
(* another session than the daemon's (main.rs:231, 242).                   *)
THEOREM SyncIsOnSession == Spec => []SyncOnSession
<1>1. RpcInv => SyncOnSession
  BY DEF RpcInv
<1> QED BY <1>1, RpcInvariant, PTL
=============================================================================
