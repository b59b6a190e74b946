--------------------------- MODULE SessionProofs ---------------------------
(***************************************************************************)
(* For any accounts and slots and any numbers of logins, sessions, faults, *)
(* overlaps and restarts: the types, KeyringOwner, and of a user who       *)
(* presses no button while another task is at work SignedInIsStored and    *)
(* SignOutComplete.                                                        *)
(***************************************************************************)
EXTENDS Session, TLAPS

(* Every credential in cred was issued to a.                               *)
Owned(cred, a) == \A k \in Slots : cred[k] # None => issued[cred[k]] = a

(* What a task carries belongs to the e-mail it is for, which is that of   *)
(* the configuration until the task has read it for the last time.         *)
OwnerTask(t) ==
  /\ t = "login" /\ task[t].at \in {"save", "write", "ensure", "init", "call"} =>
       task[t].acct = email /\ email \in Accounts
  /\ t = "resume" /\ task[t].at \in {"fetch", "ensure", "init", "call"} =>
       task[t].acct = email /\ email \in Accounts /\ Owned(task[t].cred, email)
  /\ task[t].at = "persist" => email \in Accounts /\ Owned(task[t].cred, email)
  /\ task[t].at = "store" => task[t].acct \in Accounts /\ Owned(task[t].cred, task[t].acct)

(* The login a session remembers for the CAPTCHA helper is one of this     *)
(* e-mail, whichever session the helper's task will find.                  *)
PendingOwner ==
  /\ \A h \in Handles : registry[h].state = "unused" => registry[h].pending = None
  /\ ~At("hv", "idle") /\ bridge # None => registry[bridge].pending \in {None, email}
  /\ At("hv", "call") => registry[task["hv"].handle].pending \in {None, email}
  /\ At("login", "call") /\ bridge # None /\ bridge # task["login"].handle =>
       registry[bridge].pending = None

Owners ==
  /\ \A a \in Accounts : Owned(keyring[a], a)
  /\ \A t \in Names : OwnerTask(t)
  /\ PendingOwner

Types ==
  /\ email \in Accounts \cup {None, Torn} /\ keyring \in [Accounts -> Cred]
  /\ saved \in Accounts \cup {None, Torn}
  /\ issued \in [Logins -> Accounts \cup {None}]
  /\ bridge \in Handles \cup {None} /\ registry \in [Handles -> Entry]
  /\ task \in [Names -> Task] /\ renamed \in BOOLEAN
  /\ email = Torn => ~authenticated /\ \A t \in Names : task[t].at = "idle"
  /\ \A t \in Names : /\ task[t].at = "fetch" => task[t].acct \in Accounts
                      /\ task[t].at = "call" => task[t].handle \in Handles

OwnerInv == Types /\ (~renamed => Owners)

-----------------------------------------------------------------------------
(* None and Torn are no accounts.                                          *)
LEMMA Apart == None \notin Accounts /\ None \notin Handles /\ None \notin Logins
                 /\ Torn \notin Accounts /\ Torn # None
BY SessionAssumption DEF SessionAssumption, Handles, Logins

(* A task that has nothing to do.                                          *)
LEMMA IdleTask == Idle \in Task /\ Idle.at = "idle" /\ NoCred \in Cred
BY DEF Idle, Task, Places, NoCred, Cred

(* A task goes on, and the others stay as they are.                        *)
LEMMA BecomeType ==
  ASSUME Types, NEW t \in Names, NEW r \in Task, Become(t, r)
  PROVE  /\ task' \in [Names -> Task] /\ task'[t] = r
         /\ \A u \in Names : u # t => task'[u] = task[u]
BY DEF Become, Types

(* The record of a task that only goes to another place.                   *)
LEMMA GotoType ==
  ASSUME Types, NEW t \in Names, NEW place \in Places, Goto(t, place)
  PROVE  \E r \in Task :
           /\ Become(t, r) /\ r.at = place /\ r.acct = task[t].acct /\ r.cred = task[t].cred
           /\ r.handle = task[t].handle
<1> DEFINE r == [task[t] EXCEPT !.at = place]
<1>1. /\ r \in Task /\ r.at = place /\ r.acct = task[t].acct /\ r.cred = task[t].cred
      /\ r.handle = task[t].handle
  BY DEF Types, Task
<1>2. Become(t, r)
  BY DEF Goto
<1> HIDE DEF r
<1> QED BY <1>1, <1>2

(* A step of one task that leaves the e-mail, the handle, what was issued  *)
(* and what the sessions remember as they are.                             *)
LEMMA Moves ==
  ASSUME OwnerInv, NEW t \in Names, NEW r \in Task, Become(t, r),
         UNCHANGED <<issued, email, bridge>>,
         saved' \in Accounts \cup {None, Torn},
         keyring' \in [Accounts -> Cred], registry' \in [Handles -> Entry], renamed' \in BOOLEAN,
         renamed => renamed',
         ~renamed' => \A a \in Accounts : Owned(keyring[a], a)',
         \A h \in Handles : registry'[h].pending \in {None, registry[h].pending}
                              /\ (registry'[h].state = "unused" => registry[h].state = "unused"),
         ~renamed' => OwnerTask(t)',
         email # Torn, r.at = "fetch" => r.acct \in Accounts,
         r.at = "call" => r.handle \in Handles,
         t = "hv" /\ At("hv", "idle") => r.at = "idle",
         t = "hv" /\ r.at = "call" => bridge # None /\ r.handle = bridge,
         t = "login" /\ r.at = "call" => bridge # None /\ r.handle = bridge
  PROVE  OwnerInv'
<1>1. task' \in [Names -> Task] /\ task'[t] = r /\ \A u \in Names : u # t => task'[u] = task[u]
  BY BecomeType DEF OwnerInv
<1>2. Types'
  BY <1>1 DEF OwnerInv, Types
<1>3. ASSUME ~renamed' PROVE Owners'
  <2>0. ~renamed /\ Owners /\ Types
    BY <1>3 DEF OwnerInv
  <2>1. \A u \in Names : OwnerTask(u)'
    BY <1>1, <1>3, <2>0 DEF Owners, OwnerTask, Owned
  <2>2. \A u \in Names : task[u].at = "call" => task[u].handle \in Handles
    BY <2>0 DEF Types
  <2>3. PendingOwner'
    <3>1. \A h \in Handles : registry'[h].state = "unused" => registry'[h].pending = None
      BY <2>0 DEF Owners, PendingOwner
    <3>2. ~At("hv", "idle")' /\ bridge' # None => registry'[bridge'].pending \in {None, email'}
      BY <1>1, <2>0 DEF Owners, PendingOwner, Types, At, Names
    <3>3. At("hv", "call")' => registry'[task'["hv"].handle].pending \in {None, email'}
      <4>1. CASE t = "hv"
        BY <4>1, <1>1, <2>0 DEF Owners, PendingOwner, Types, At, Names
      <4>2. CASE t # "hv"
        BY <4>2, <1>1, <2>0, <2>2 DEF Owners, PendingOwner, At, Names
      <4> QED BY <4>1, <4>2
    <3>4. At("login", "call")' /\ bridge' # None /\ bridge' # task'["login"].handle =>
            registry'[bridge'].pending = None
      <4>1. CASE t = "login"
        BY <4>1, <1>1 DEF At, Names
      <4>2. CASE t # "login"
        BY <4>2, <1>1, <2>0 DEF Owners, PendingOwner, Types, At, Names
      <4> QED BY <4>1, <4>2
    <3> QED BY <3>1, <3>2, <3>3, <3>4 DEF PendingOwner
  <2> QED BY <1>3, <2>1, <2>3 DEF Owners
<1> QED BY <1>2, <1>3 DEF OwnerInv

-----------------------------------------------------------------------------
(* The first start finds an empty keyring.                                 *)
THEOREM InitInv == Init => OwnerInv
<1> SUFFICES ASSUME Init PROVE OwnerInv
  OBVIOUS
<1>1. Boot(None) \in [Names -> Task] /\ \A t \in Names : Boot(None)[t].at \in {"idle", "email"}
  <2> DEFINE r == [Idle EXCEPT !.at = "email"]
  <2>1. r \in Task /\ r.at = "email"
    BY DEF Idle, Task, Places, NoCred, Cred
  <2> HIDE DEF r
  <2>2. Boot(None) = [t \in Names |-> IF t = "resume" THEN r ELSE Idle]
    BY Apart DEF Boot, r
  <2> QED BY <2>1, <2>2, IdleTask
<1>2. Absent \in Entry /\ Absent.pending = None
  BY DEF Absent, Entry
<1>3. Types
  BY <1>1, <1>2, IdleTask, Apart DEF Init, Types
<1>4. \A a \in Accounts : Owned(keyring[a], a)
  BY DEF Init, Owned, NoCred
<1>5. \A t \in Names : OwnerTask(t)
  BY <1>1 DEF Init, OwnerTask
<1>6. PendingOwner
  BY <1>1, <1>2 DEF Init, PendingOwner, At, Names
<1> QED BY <1>3, <1>4, <1>5, <1>6 DEF OwnerInv, Owners

(* What is kept when nothing but the place of a task changes.              *)
LEMMA Stays ==
  ASSUME OwnerInv, UNCHANGED <<keyring, registry, renamed, issued>>
  PROVE  /\ keyring' \in [Accounts -> Cred] /\ registry' \in [Handles -> Entry]
         /\ renamed' \in BOOLEAN /\ (renamed => renamed')
         /\ ~renamed' => \A a \in Accounts : Owned(keyring[a], a)'
         /\ \A h \in Handles : registry'[h].pending \in {None, registry[h].pending}
                               /\ (registry'[h].state = "unused" => registry[h].state = "unused")
BY DEF OwnerInv, Types, Owners, Owned

(* No task is at work when the program could not start.                    *)
LEMMA NotTorn == ASSUME OwnerInv, NEW t \in Names, ~At(t, "idle") PROVE email # Torn
BY DEF OwnerInv, Types, At

(* A task that ends has nothing to answer for.                             *)
LEMMA EndInv ==
  ASSUME OwnerInv, NEW t \in Names, End(t), ~At(t, "idle"),
         UNCHANGED <<keyring, registry, renamed, issued, email, bridge>>,
         saved' \in Accounts \cup {None, Torn}
  PROVE  OwnerInv'
<1>1. Idle \in Task /\ Idle.at = "idle" /\ Become(t, Idle)
  BY IdleTask DEF End
<1>2. task'[t] = Idle
  BY <1>1, BecomeType DEF OwnerInv
<1>3. OwnerTask(t)'
  BY <1>1, <1>2 DEF OwnerTask
<1> QED BY <1>1, <1>3, NotTorn, Stays, Moves

(* A task that only goes to another place, for which it has what it needs. *)
LEMMA GotoInv ==
  ASSUME OwnerInv, NEW t \in Names, NEW place \in Places, Goto(t, place),
         UNCHANGED <<keyring, registry, renamed, issued, email, bridge>>,
         saved' \in Accounts \cup {None, Torn},
         ~At(t, "idle"), place \notin {"call", "persist", "store", "fetch"},
         t = "login" /\ place \in {"write", "ensure", "init"} =>
           task[t].at \in {"save", "write", "ensure"},
         t = "login" => place # "save",
         t = "resume" /\ place \in {"ensure", "init"} => task[t].at = "ensure"
  PROVE  OwnerInv'
<1>1. PICK r \in Task : /\ Become(t, r) /\ r.at = place /\ r.acct = task[t].acct
                        /\ r.cred = task[t].cred /\ r.handle = task[t].handle
  BY GotoType DEF OwnerInv
<1>2. task'[t] = r
  BY <1>1, BecomeType DEF OwnerInv
<1>3. ASSUME ~renamed PROVE OwnerTask(t)'
  <2>1. OwnerTask(t)
    BY <1>3 DEF OwnerInv, Owners
  <2> QED BY <1>1, <1>2, <2>1 DEF OwnerTask, Owned
<1> QED BY <1>1, <1>3, NotTorn, Stays, Moves DEF At

(***************************************************************************)
(* Buttons                                                                 *)
(***************************************************************************)

(* What is on record stays on record, and a press that records nothing     *)
(* keeps the e-mail or finds every task idle.                              *)
LEMMA PressedRenamed ==
  ASSUME OwnerInv, NEW e, Pressed(e)
  PROVE  /\ renamed' \in BOOLEAN /\ (renamed => renamed')
         /\ ~renamed' => ~Busy \/ e = email
BY DEF Pressed, OwnerInv, Types

(* With another e-mail the form is only sent when no task is at work.      *)
LEMMA SignInInv ==
  ASSUME OwnerInv, NEW a \in Accounts, SignIn(a) PROVE OwnerInv'
<1> DEFINE r == [Idle EXCEPT !.at = "save", !.acct = a]
<1>1. r \in Task /\ r.at = "save" /\ r.acct = a
  BY DEF Idle, Task, Places, NoCred, Cred
<1>2. /\ Become("login", r) /\ email' = a /\ Pressed(a) /\ At("login", "idle")
      /\ UNCHANGED <<saved, keyring, issued, bridge, registry>>
  BY DEF SignIn, disk, server
<1> HIDE DEF r
<1>3. /\ task' \in [Names -> Task] /\ task'["login"] = r
      /\ \A u \in Names : u # "login" => task'[u] = task[u]
  BY <1>1, <1>2, BecomeType DEF OwnerInv, Names
<1>4. Types'
  BY <1>1, <1>2, <1>3, PressedRenamed, Apart DEF OwnerInv, Types
<1>5. ASSUME ~renamed' PROVE Owners'
  <2>1. Owners /\ Types /\ (a # email => \A u \in Names : task[u].at = "idle")
    BY <1>2, <1>5, PressedRenamed DEF OwnerInv, Busy, At
  <2>2. \A b \in Accounts : Owned(keyring[b], b)'
    BY <1>2, <2>1 DEF Owners, Owned
  <2>3. ASSUME NEW u \in Names PROVE OwnerTask(u)'
    <3>1. CASE u = "login"
      BY <1>1, <1>2, <1>3, <3>1 DEF OwnerTask
    <3>2. CASE u # "login" /\ a = email
      BY <1>2, <1>3, <2>1, <3>2 DEF Owners, OwnerTask, Owned
    <3>3. CASE u # "login" /\ a # email
      BY <1>3, <2>1, <3>3 DEF OwnerTask
    <3> QED BY <3>1, <3>2, <3>3
  <2>4. PendingOwner'
    <3>1. task'["hv"] = task["hv"] /\ (a # email => task["hv"].at = "idle")
      BY <1>3, <2>1 DEF Names
    <3> QED BY <1>1, <1>2, <1>3, <2>1, <3>1 DEF Owners, PendingOwner, At
  <2> QED BY <2>2, <2>3, <2>4 DEF Owners
<1> QED BY <1>4, <1>5 DEF OwnerInv

(* The other buttons start a task that never stores a credential.          *)
LEMMA ButtonInv ==
  ASSUME OwnerInv, NEW t \in {"logout", "settings"}, NEW r \in Task, Become(t, r),
         r.at \in {"unflag", "save"}, Pressed(email), email # Torn,
         UNCHANGED <<saved, keyring, issued, registry, email, bridge>>
  PROVE  OwnerInv'
<1>0. t \in Names /\ task'[t] = r
  BY BecomeType DEF OwnerInv, Names
<1>1. OwnerTask(t)'
  BY <1>0 DEF OwnerTask
<1>2. renamed' \in BOOLEAN /\ (renamed => renamed')
  BY PressedRenamed
<1>3. ~renamed' => \A a \in Accounts : Owned(keyring[a], a)'
  BY <1>2 DEF OwnerInv, Owners, Owned
<1>4. keyring' \in [Accounts -> Cred] /\ registry' \in [Handles -> Entry]
      /\ saved' \in Accounts \cup {None, Torn}
  BY DEF OwnerInv, Types
<1> QED BY <1>0, <1>1, <1>2, <1>3, <1>4, Moves

(* Sign Out only asks for a logout.                                        *)
LEMMA SignOutInv == ASSUME OwnerInv, SignOut PROVE OwnerInv'
<1> DEFINE r == [Idle EXCEPT !.at = "unflag"]
<1>1. r \in Task /\ r.at = "unflag"
  BY DEF Idle, Task, Places, NoCred, Cred
<1>2. Become("logout", r) /\ Pressed(email) /\ UNCHANGED <<saved, keyring, issued, registry, email, bridge>>
  BY DEF SignOut, disk, server, memory
<1>3. email # Torn
  BY DEF SignOut, OwnerInv, Types
<1> HIDE DEF r
<1> QED BY <1>1, <1>2, <1>3, ButtonInv

(* The settings are saved with the e-mail of this moment.                  *)
LEMMA SettingsInv == ASSUME OwnerInv, Settings PROVE OwnerInv'
<1> DEFINE r == [Idle EXCEPT !.at = "save", !.acct = email]
<1>1. r \in Task /\ r.at = "save"
  BY DEF Settings, OwnerInv, Types, Idle, Task, Places, NoCred, Cred
<1>2. Become("settings", r) /\ Pressed(email) /\ UNCHANGED <<saved, keyring, issued, registry, email, bridge>>
  BY DEF Settings, disk, server, memory
<1>3. email # Torn
  BY DEF Settings
<1> HIDE DEF r
<1> QED BY <1>1, <1>2, <1>3, ButtonInv

(* The configuration file is emptied.                                      *)
LEMMA SaveInv == ASSUME OwnerInv, NEW t \in Names, Save(t) PROVE OwnerInv'
<1>1. At(t, "save") /\ UNCHANGED <<keyring, registry, renamed, issued, email, bridge>>
  BY DEF Save, server, memory, history
<1>2. CASE saved' = Torn /\ Goto(t, "write")
  BY <1>1, <1>2, GotoInv DEF At, Places
<1>3. CASE End(t) /\ UNCHANGED saved
  BY <1>1, <1>3, EndInv DEF OwnerInv, Types, At
<1> QED BY <1>2, <1>3 DEF Save

(* The configuration file is filled; a login goes on.                      *)
LEMMA WriteInv == ASSUME OwnerInv, NEW t \in Names, Write(t) PROVE OwnerInv'
<1>1. At(t, "write") /\ UNCHANGED <<keyring, registry, renamed, issued, email, bridge>>
  BY DEF Write, server, memory, history
<1>2. saved' \in Accounts \cup {None, Torn}
  BY DEF Write, OwnerInv, Types, Task
<1>3. CASE t = "login" /\ Goto(t, "ensure")
  BY <1>1, <1>2, <1>3, GotoInv DEF At, Places
<1>4. CASE End(t)
  BY <1>1, <1>2, <1>4, EndInv DEF At
<1> QED BY <1>3, <1>4 DEF Write

(***************************************************************************)
(* ensure_bridge and try_resume                                            *)
(***************************************************************************)

(* A new session remembers no login for the helper.                        *)
LEMMA EnsureBridgeInv == ASSUME OwnerInv, NEW t \in Names, EnsureBridge(t) PROVE OwnerInv'
<1>1. At(t, "ensure") /\ UNCHANGED <<saved, keyring, registry, renamed, issued, email, bridge>>
  BY DEF EnsureBridge, disk, server, memory, history
<1>2. saved' \in Accounts \cup {None, Torn}
  BY <1>1 DEF OwnerInv, Types
<1>3. CASE bridge # None
  <2> DEFINE r == [task[t] EXCEPT !.at = "call", !.handle = bridge]
  <2>1. /\ r \in Task /\ r.at = "call" /\ r.handle = bridge /\ r.acct = task[t].acct
        /\ r.cred = task[t].cred /\ bridge \in Handles
    BY <1>3 DEF OwnerInv, Types, Task, Places
  <2>2. Become(t, r)
    BY <1>3 DEF EnsureBridge
  <2> HIDE DEF r
  <2>3. task'[t] = r
    BY <2>1, <2>2, BecomeType DEF OwnerInv
  <2>4. ASSUME ~renamed PROVE OwnerTask(t)'
    <3>1. OwnerTask(t)
      BY <2>4 DEF OwnerInv, Owners
    <3> QED BY <1>1, <2>1, <2>3, <3>1 DEF OwnerTask, Owned, At
  <2> QED BY <1>1, <1>2, <1>3, <2>1, <2>2, <2>4, NotTorn, Stays, Moves DEF At
<1>4. CASE bridge = None
  <2>1. Goto(t, "init")
    BY <1>4 DEF EnsureBridge
  <2> QED BY <1>1, <1>2, <2>1, GotoInv DEF At, Places
<1> QED BY <1>3, <1>4

(* A new session remembers nobody.                                         *)
LEMMA InitBridgeInv == ASSUME OwnerInv, NEW t \in Names, InitBridge(t) PROVE OwnerInv'
<1>1. PICK h \in Handles :
        /\ registry[h].state = "unused"
        /\ registry' = [registry EXCEPT ![h].state = "live"]
        /\ bridge' = h
        /\ Become(t, [task[t] EXCEPT !.at = "call", !.handle = h])
  BY DEF InitBridge
<1>2. At(t, "init") /\ UNCHANGED <<saved, keyring, issued, email, renamed>>
  BY DEF InitBridge, disk, server, history
<1> DEFINE r == [task[t] EXCEPT !.at = "call", !.handle = h]
<1> DEFINE e == [registry[h] EXCEPT !.state = "live"]
<1>3. /\ r \in Task /\ r.at = "call" /\ r.handle = h /\ r.acct = task[t].acct /\ r.cred = task[t].cred
  BY DEF OwnerInv, Types, Task, Places
<1>4. e \in Entry /\ e.state = "live" /\ e.pending = registry[h].pending
  BY DEF OwnerInv, Types, Entry
<1>5. Become(t, r) /\ registry' = [registry EXCEPT ![h] = e]
  BY <1>1
<1> HIDE DEF r, e
<1>6. /\ task' \in [Names -> Task] /\ task'[t] = r /\ \A u \in Names : u # t => task'[u] = task[u]
  BY <1>3, <1>5, BecomeType DEF OwnerInv
<1>7. /\ registry' \in [Handles -> Entry] /\ registry'[h] = e
      /\ \A g \in Handles : g # h => registry'[g] = registry[g]
  BY <1>4, <1>5 DEF OwnerInv, Types
<1>8. Types'
  BY <1>1, <1>2, <1>3, <1>6, <1>7, NotTorn DEF OwnerInv, Types, At
<1>9. ASSUME ~renamed' PROVE Owners'
  <2>1. Owners
    BY <1>2, <1>9 DEF OwnerInv
  <2>2. \A a \in Accounts : Owned(keyring[a], a)'
    BY <1>2, <2>1 DEF Owners, Owned
  <2>3. ASSUME NEW u \in Names PROVE OwnerTask(u)'
    <3>1. OwnerTask(u)
      BY <2>1 DEF Owners
    <3>2. CASE u = t
      BY <1>2, <1>3, <1>6, <3>1, <3>2 DEF OwnerTask, Owned, At
    <3>3. CASE u # t
      BY <1>2, <1>6, <3>1, <3>3 DEF OwnerTask, Owned
    <3> QED BY <3>2, <3>3
  <2>4. PendingOwner'
    <3>1. registry'[h].pending = None
      BY <1>1, <1>4, <1>7, <2>1 DEF Owners, PendingOwner
    <3>2. \A g \in Handles : registry'[g].pending = registry[g].pending
      BY <1>4, <1>7
    <3>3. \A g \in Handles : registry'[g].state = "unused" => registry'[g].pending = None
      BY <1>4, <1>7, <2>1 DEF Owners, PendingOwner
    <3>4. At("hv", "call")' => registry'[task'["hv"].handle].pending \in {None, email'}
      <4>1. CASE t = "hv"
        BY <4>1, <1>3, <1>6, <3>1 DEF At
      <4>2. CASE t # "hv"
        <5>1. task'["hv"] = task["hv"] /\ (At("hv", "call") => task["hv"].handle \in Handles)
          BY <4>2, <1>6 DEF Names, OwnerInv, Types, At
        <5> QED BY <5>1, <1>2, <2>1, <3>2 DEF Owners, PendingOwner, At
      <4> QED BY <4>1, <4>2
    <3> QED BY <1>1, <3>1, <3>3, <3>4 DEF PendingOwner
  <2> QED BY <2>2, <2>3, <2>4 DEF Owners
<1> QED BY <1>8, <1>9 DEF OwnerInv

(* A resume is for the e-mail of the configuration.                        *)
LEMMA ResumeEmailInv == ASSUME OwnerInv, ResumeEmail PROVE OwnerInv'
<1>1. At("resume", "email") /\ UNCHANGED <<saved, keyring, registry, renamed, issued, email, bridge>>
  BY DEF ResumeEmail, disk, server, memory, history
<1>2. saved' \in Accounts \cup {None, Torn}
  BY <1>1 DEF OwnerInv, Types
<1>3. CASE End("resume")
  BY <1>1, <1>2, <1>3, EndInv DEF Names, At
<1>4. CASE email # None
           /\ Become("resume", [Idle EXCEPT !.at = "fetch", !.acct = email, !.todo = Slots])
  <2> DEFINE r == [Idle EXCEPT !.at = "fetch", !.acct = email, !.todo = Slots]
  <2>0. email \in Accounts
    BY <1>1, <1>2, <1>4 DEF OwnerInv, Types, At, Names
  <2>1. r \in Task /\ r.at = "fetch" /\ r.acct = email /\ r.cred = NoCred
    BY <2>0 DEF Idle, Task, Places, NoCred, Cred
  <2>2. Become("resume", r) /\ "resume" \in Names
    BY <1>4 DEF Names
  <2> HIDE DEF r
  <2>3. task'["resume"] = r
    BY <2>1, <2>2, BecomeType DEF OwnerInv
  <2>4. OwnerTask("resume")'
    BY <1>1, <2>0, <2>1, <2>3 DEF OwnerTask, Owned, NoCred
  <2> QED BY <1>1, <1>2, <2>0, <2>1, <2>2, <2>4, NotTorn, Stays, Moves DEF At
<1> QED BY <1>3, <1>4 DEF ResumeEmail

(* What the keyring has for an account is that account's.                  *)
LEMMA FetchInv == ASSUME OwnerInv, NEW k \in Slots, Fetch(k) PROVE OwnerInv'
<1> DEFINE s == task["resume"]
<1> DEFINE found == keyring[s.acct][k]
<1>1. /\ At("resume", "fetch") /\ k \in s.todo
      /\ UNCHANGED <<saved, keyring, registry, renamed, issued, email, bridge>>
  BY DEF Fetch, disk, server, memory, history
<1>2. saved' \in Accounts \cup {None, Torn} /\ "resume" \in Names
  BY <1>1 DEF OwnerInv, Types, Names
<1>3. CASE End("resume")
  BY <1>1, <1>2, <1>3, EndInv DEF At
<1>4. CASE /\ found # None
           /\ Become("resume", [s EXCEPT !.cred[k] = found, !.todo = s.todo \ {k},
                                 !.at = IF s.todo \ {k} = {} THEN "ensure" ELSE "fetch"])
  <2> DEFINE cred == [s.cred EXCEPT ![k] = found]
  <2> DEFINE r == [s EXCEPT !.cred = cred, !.todo = s.todo \ {k},
                            !.at = IF s.todo \ {k} = {} THEN "ensure" ELSE "fetch"]
  <2>0. s \in Task /\ Become("resume", r)
    BY <1>2, <1>4 DEF OwnerInv, Types
  <2>1. s.acct \in Accounts
    BY <1>1, <1>2 DEF OwnerInv, Types, At
  <2>2. s.cred \in Cred /\ keyring[s.acct] \in Cred
    BY <2>0, <2>1 DEF Task, OwnerInv, Types
  <2>3. found \in Logins \cup {None}
    BY <2>2 DEF Cred
  <2> HIDE DEF found
  <2>4. cred \in Cred /\ cred[k] = found /\ \A j \in Slots : j # k => cred[j] = s.cred[j]
    BY <2>2, <2>3 DEF Cred
  <2> HIDE DEF cred
  <2>5. /\ r \in Task /\ r.at \in {"ensure", "fetch"} /\ r.acct = s.acct /\ r.cred = cred
    BY <2>0, <2>4 DEF Task, Places
  <2> HIDE DEF r
  <2>6. task'["resume"] = r
    BY <1>2, <2>0, <2>5, BecomeType DEF OwnerInv
  <2>7. ASSUME ~renamed PROVE OwnerTask("resume")'
    <3>1. s.acct = email /\ Owned(s.cred, email) /\ Owned(keyring[email], email)
      BY <1>1, <1>2, <2>1, <2>7 DEF OwnerInv, Owners, OwnerTask, At
    <3>2. Owned(cred, email)
      BY <2>4, <3>1 DEF Owned, found
    <3> QED BY <1>1, <2>1, <2>5, <2>6, <3>1, <3>2 DEF OwnerTask, Owned
  <2> QED BY <1>1, <1>2, <2>0, <2>1, <2>5, <2>7, NotTorn, Stays, Moves DEF At
<1> QED BY <1>3, <1>4 DEF Fetch

(* A resumed session goes on with the credential it was given.             *)
LEMMA CallResumeInv == ASSUME OwnerInv, CallResume PROVE OwnerInv'
<1> DEFINE h == task["resume"].handle
<1>1. /\ At("resume", "call") /\ UNCHANGED <<saved, keyring, renamed, issued, email, bridge>>
      /\ "resume" \in Names
  BY DEF CallResume, disk, server, history, Names
<1>2. saved' \in Accounts \cup {None, Torn}
  BY <1>1 DEF OwnerInv, Types
<1>3. CASE Goto("resume", "wipe") /\ UNCHANGED registry
  BY <1>1, <1>2, <1>3, GotoInv DEF At, Places
<1>4. CASE /\ Live(h) /\ Accepts(task["resume"].cred) /\ Goto("resume", "persist")
           /\ registry' = [registry EXCEPT ![h].as = task["resume"].cred[1]]
  <2>1. PICK r \in Task : /\ Become("resume", r) /\ r.at = "persist"
                          /\ r.cred = task["resume"].cred
    BY <1>1, <1>4, GotoType DEF OwnerInv, Places
  <2>2. task'["resume"] = r
    BY <1>1, <2>1, BecomeType DEF OwnerInv
  <2>3. task["resume"].cred[1] \in Logins \cup {None}
    <3>1. task["resume"].cred \in Cred
      BY <1>1 DEF OwnerInv, Types, Task
    <3>2. 1 \in Slots
      BY SessionAssumption DEF SessionAssumption, Slots
    <3> QED BY <3>1, <3>2 DEF Cred
  <2> DEFINE e == [registry[h] EXCEPT !.as = task["resume"].cred[1]]
  <2>4. ASSUME h \in Handles
        PROVE  e \in Entry /\ e.state = registry[h].state /\ e.pending = registry[h].pending
    BY <2>3, <2>4 DEF OwnerInv, Types, Entry
  <2>5. registry' = [registry EXCEPT ![h] = e]
    BY <1>4
  <2> HIDE DEF e
  <2>6. /\ registry' \in [Handles -> Entry]
        /\ \A g \in Handles : registry'[g].pending \in {None, registry[g].pending}
                               /\ (registry'[g].state = "unused" => registry[g].state = "unused")
    BY <2>4, <2>5 DEF OwnerInv, Types
  <2>7. ASSUME ~renamed PROVE OwnerTask("resume")'
    <3>1. OwnerTask("resume")
      BY <1>1, <2>7 DEF OwnerInv, Owners
    <3> QED BY <1>1, <2>1, <2>2, <3>1 DEF OwnerTask, Owned, At
  <2>8. /\ keyring' \in [Accounts -> Cred] /\ renamed' \in BOOLEAN /\ (renamed => renamed')
        /\ ~renamed' => \A a \in Accounts : Owned(keyring[a], a)'
    BY <1>1 DEF OwnerInv, Types, Owners, Owned
  <2> QED BY <1>1, <1>2, <2>1, <2>6, <2>7, <2>8, NotTorn, Moves DEF At
<1> QED BY <1>3, <1>4 DEF CallResume

(***************************************************************************)
(* login and login_hv                                                      *)
(***************************************************************************)
(* What was issued before keeps its owner.                                 *)
LEMMA IssueInv ==
  ASSUME OwnerInv, NEW t \in {"login", "hv"}, NEW a \in Accounts \cup {None}, Issue(t, a),
         At(t, "call"), ~renamed => a = email /\ a \in Accounts,
         UNCHANGED <<saved, keyring, email, bridge, renamed>>
  PROVE  OwnerInv'
<1> DEFINE h == task[t].handle
<1>1. PICK n \in Logins :
        /\ issued[n] = None /\ issued' = [issued EXCEPT ![n] = a]
        /\ registry' = [registry EXCEPT ![h].as = n,
                          ![h].pending = IF t = "hv" THEN None ELSE registry[h].pending]
        /\ Become(t, [task[t] EXCEPT !.at = "persist", !.cred = Bundle(n)])
  BY DEF Issue
<1>2. Bundle(n) \in Cred /\ \A k \in Slots : Bundle(n)[k] = n
  BY DEF Bundle, Cred
<1> DEFINE r == [task[t] EXCEPT !.at = "persist", !.cred = Bundle(n)]
<1>3. t \in Names /\ r \in Task /\ r.at = "persist" /\ r.cred = Bundle(n) /\ Become(t, r)
  <2>1. t \in Names /\ task[t] \in Task
    BY DEF OwnerInv, Types, Names
  <2>2. r \in Task /\ r.at = "persist" /\ r.cred = Bundle(n)
    BY <1>2, <2>1 DEF Task, Places
  <2> QED BY <1>1, <2>1, <2>2
<1> HIDE DEF r
<1>4. task' \in [Names -> Task] /\ task'[t] = r /\ \A u \in Names : u # t => task'[u] = task[u]
  BY <1>3, BecomeType DEF OwnerInv
<1>5. /\ issued' \in [Logins -> Accounts \cup {None}] /\ issued'[n] = a
      /\ \A m \in Logins : m # n => issued'[m] = issued[m]
  BY <1>1 DEF OwnerInv, Types
<1> DEFINE e == [registry[h] EXCEPT !.as = n, !.pending = IF t = "hv" THEN None ELSE registry[h].pending]
<1>6. ASSUME h \in Handles
      PROVE  e \in Entry /\ e.state = registry[h].state /\ e.pending \in {None, registry[h].pending}
  BY <1>6 DEF OwnerInv, Types, Entry
<1>7. registry' = [registry EXCEPT ![h] = e]
  BY <1>1
<1> HIDE DEF e
<1>8. /\ registry' \in [Handles -> Entry]
      /\ \A g \in Handles : /\ registry'[g].pending \in {None, registry[g].pending}
                             /\ registry'[g].state = registry[g].state
  BY <1>6, <1>7 DEF OwnerInv, Types
<1>9. Types'
  BY <1>3, <1>4, <1>5, <1>8, NotTorn DEF OwnerInv, Types, At
<1>10. ASSUME ~renamed' PROVE Owners'
  <2>1. Owners /\ a = email /\ a \in Accounts
    BY <1>10 DEF OwnerInv
  <2>2. \A cred \in Cred, b \in Accounts : Owned(cred, b) => Owned(cred, b)'
    BY <1>1, <1>5, Apart DEF Owned, Cred
  <2>3. Owned(Bundle(n), email)'
    BY <1>2, <1>5, <2>1 DEF Owned
  <2>4. \A b \in Accounts : Owned(keyring[b], b)'
    BY <2>1, <2>2 DEF Owners, OwnerInv, Types
  <2>5. ASSUME NEW u \in Names PROVE OwnerTask(u)'
    <3>1. OwnerTask(u) /\ task[u].cred \in Cred
      BY <2>1 DEF Owners, OwnerInv, Types, Task
    <3>2. CASE u = t
      BY <1>3, <1>4, <2>1, <2>3, <3>2 DEF OwnerTask
    <3>3. CASE u # t
      BY <1>4, <2>2, <3>1, <3>3 DEF OwnerTask
    <3> QED BY <3>2, <3>3
  <2>6. PendingOwner'
    <3>1. \A g \in Handles : registry'[g].state = "unused" => registry'[g].pending = None
      BY <1>8, <2>1 DEF Owners, PendingOwner
    <3>2. ~At("hv", "idle")' => ~At("hv", "idle")
      BY <1>4 DEF At, Names
    <3>3. bridge # None => bridge \in Handles
      BY DEF OwnerInv, Types
    <3>4. At("hv", "call")' => registry'[task'["hv"].handle].pending \in {None, email'}
      <4>1. CASE t = "hv"
        BY <4>1, <1>3, <1>4 DEF At, Names
      <4>2. CASE t # "hv"
        <5>1. task'["hv"] = task["hv"] /\ (At("hv", "call") => task["hv"].handle \in Handles)
          BY <4>2, <1>4 DEF Names, OwnerInv, Types, At
        <5> QED BY <5>1, <1>8, <2>1 DEF Owners, PendingOwner, At
      <4> QED BY <4>1, <4>2
    <3>5. At("login", "call")' /\ bridge' # None /\ bridge' # task'["login"].handle =>
            registry'[bridge'].pending = None
      <4>1. CASE t = "login"
        BY <4>1, <1>3, <1>4 DEF At
      <4>2. CASE t # "login"
        <5>1. task'["login"] = task["login"]
          BY <4>2, <1>4 DEF Names
        <5> QED BY <5>1, <1>8, <2>1, <3>3 DEF Owners, PendingOwner, At
      <4> QED BY <4>1, <4>2
    <3>6. ~At("hv", "idle")' /\ bridge' # None => registry'[bridge'].pending \in {None, email'}
      BY <1>8, <2>1, <3>2, <3>3 DEF Owners, PendingOwner
    <3> QED BY <3>1, <3>4, <3>5, <3>6 DEF PendingOwner
  <2> QED BY <2>4, <2>5, <2>6 DEF Owners
<1> QED BY <1>9, <1>10 DEF OwnerInv

(* A login is for the e-mail it was started with.                          *)
LEMMA CallLoginInv == ASSUME OwnerInv, CallLogin PROVE OwnerInv'
<1> DEFINE h == task["login"].handle
<1> DEFINE a == task["login"].acct
<1>1. /\ At("login", "call") /\ UNCHANGED <<saved, keyring, renamed, email, bridge>>
      /\ "login" \in Names /\ "hv" \in Names
  BY DEF CallLogin, disk, history, Names
<1>2. saved' \in Accounts \cup {None, Torn} /\ a \in Accounts \cup {None}
  BY <1>1 DEF OwnerInv, Types, Task
<1>3. ~renamed => a = email /\ a \in Accounts /\ h \in Handles
  BY <1>1 DEF OwnerInv, Owners, OwnerTask, Types, At
<1>4. CASE Issue("login", a)
  BY <1>1, <1>2, <1>3, <1>4, IssueInv
<1>5. CASE End("login") /\ UNCHANGED <<registry, server>>
  BY <1>1, <1>2, <1>5, EndInv DEF server, At
<1>6. CASE /\ Live(h) /\ registry' = [registry EXCEPT ![h].pending = a] /\ UNCHANGED issued
           /\ task' = [task EXCEPT !["login"] = Idle,
                      !["hv"] = IF @ = Idle THEN [Idle EXCEPT !.at = "helper"] ELSE @]
  <2> DEFINE r == [Idle EXCEPT !.at = "helper"]
  <2> DEFINE e == [registry[h] EXCEPT !.pending = a]
  <2>1. r \in Task /\ r.at = "helper"
    BY DEF Idle, Task, Places, NoCred, Cred
  <2>2. ASSUME h \in Handles PROVE e \in Entry /\ e.pending = a /\ e.state = registry[h].state
    BY <1>2, <2>2 DEF OwnerInv, Types, Entry
  <2>3. registry' = [registry EXCEPT ![h] = e] /\ registry[h].state = "live"
    BY <1>6 DEF Live
  <2>4. task' = [task EXCEPT !["login"] = Idle, !["hv"] = IF task["hv"] = Idle THEN r ELSE task["hv"]]
    BY <1>6
  <2> HIDE DEF r, e, a, h
  <2>5. /\ task' \in [Names -> Task] /\ task'["login"] = Idle
        /\ task'["hv"] = (IF task["hv"] = Idle THEN r ELSE task["hv"])
        /\ \A u \in Names : u \notin {"login", "hv"} => task'[u] = task[u]
    BY <2>1, <2>4, IdleTask DEF OwnerInv, Types, Names
  <2>6. /\ registry' \in [Handles -> Entry]
        /\ \A g \in Handles : g # h => registry'[g] = registry[g]
        /\ h \in Handles => registry'[h].pending = a /\ registry'[h].state = "live"
    BY <2>2, <2>3 DEF OwnerInv, Types
  <2>7. Types'
    <3>1. \A u \in Names : /\ task'[u].at = "fetch" => task'[u].acct \in Accounts
                           /\ task'[u].at = "call" => task'[u].handle \in Handles
      BY <2>1, <2>5, IdleTask DEF OwnerInv, Types
    <3> QED BY <1>1, <1>2, <1>6, <2>5, <2>6, <3>1, NotTorn DEF OwnerInv, Types, At
  <2>8. ASSUME ~renamed' PROVE Owners'
    <3>1. Owners /\ a = email /\ a \in Accounts /\ h \in Handles
      BY <1>1, <1>3, <2>8 DEF OwnerInv
    <3>2. \A b \in Accounts : Owned(keyring[b], b)'
      BY <1>1, <1>6, <3>1 DEF Owners, Owned
    <3>3. ASSUME NEW u \in Names PROVE OwnerTask(u)'
      <4>1. task'[u] \in {Idle, r, task[u]}
        BY <2>5
      <4>2. OwnerTask(u)
        BY <3>1 DEF Owners
      <4> QED BY <1>1, <1>6, <2>1, <4>1, <4>2, IdleTask DEF OwnerTask, Owned
    <3>4. PendingOwner'
      <4>1. \A g \in Handles : registry'[g].state = "unused" => registry'[g].pending = None
        BY <2>6, <3>1 DEF Owners, PendingOwner
      <4>2. bridge # None => bridge \in Handles /\ registry'[bridge].pending \in {None, email}
        BY <1>1, <2>6, <3>1 DEF Owners, PendingOwner, OwnerInv, Types, h
      <4>3. At("hv", "call")' => registry'[task'["hv"].handle].pending \in {None, email}
        <5>1. At("hv", "call")' => task'["hv"] = task["hv"] /\ task["hv"].handle \in Handles
          BY <1>1, <2>1, <2>5, IdleTask DEF At, OwnerInv, Types
        <5> QED BY <2>6, <3>1, <5>1 DEF Owners, PendingOwner, At
      <4>4. ~At("login", "call")'
        BY <2>5, IdleTask DEF At
      <4> QED BY <1>1, <4>1, <4>2, <4>3, <4>4 DEF PendingOwner
    <3> QED BY <3>2, <3>3, <3>4 DEF Owners
  <2> QED BY <2>7, <2>8 DEF OwnerInv
<1> QED BY <1>4, <1>5, <1>6 DEF CallLogin, server

(* The CAPTCHA helper changes nothing itself.                              *)
LEMMA HelperInv == ASSUME OwnerInv, Helper PROVE OwnerInv'
<1>1. /\ At("hv", "helper") /\ "hv" \in Names
      /\ UNCHANGED <<saved, keyring, registry, renamed, issued, email, bridge>>
  BY DEF Helper, disk, server, memory, history, Names
<1>2. saved' \in Accounts \cup {None, Torn}
  BY <1>1 DEF OwnerInv, Types
<1> QED BY <1>1, <1>2, EndInv, GotoInv DEF Helper, At, Places

(* The login that is retried is one of this e-mail.                        *)
LEMMA CallHvInv == ASSUME OwnerInv, CallHv PROVE OwnerInv'
<1> DEFINE h == task["hv"].handle
<1>1. /\ At("hv", "call") /\ "hv" \in Names /\ UNCHANGED <<saved, keyring, renamed, email, bridge>>
  BY DEF CallHv, disk, history, Names
<1>2. saved' \in Accounts \cup {None, Torn} /\ h \in Handles
  BY <1>1 DEF OwnerInv, Types, At
<1>3. CASE Live(h) /\ registry[h].pending # None /\ Issue("hv", registry[h].pending)
  <2>1. ~renamed => registry[h].pending = email
    BY <1>1, <1>3 DEF OwnerInv, Owners, PendingOwner
  <2>2. registry[h].pending \in Accounts
    BY <1>2, <1>3 DEF OwnerInv, Types, Entry
  <2> QED BY <1>1, <1>3, <2>1, <2>2, IssueInv
<1>4. CASE /\ registry' = [registry EXCEPT ![h].pending = None] \/ UNCHANGED registry
           /\ End("hv") /\ UNCHANGED server
  <2> DEFINE e == [registry[h] EXCEPT !.pending = None]
  <2>1. e \in Entry /\ e.pending = None /\ e.state = registry[h].state
    BY <1>2 DEF OwnerInv, Types, Entry
  <2>2. registry' = [registry EXCEPT ![h] = e] \/ UNCHANGED registry
    BY <1>4
  <2> HIDE DEF e
  <2>3. /\ registry' \in [Handles -> Entry]
        /\ \A g \in Handles : registry'[g].pending \in {None, registry[g].pending}
                               /\ (registry'[g].state = "unused" => registry[g].state = "unused")
    BY <2>1, <2>2 DEF OwnerInv, Types
  <2>4. /\ Become("hv", Idle) /\ UNCHANGED issued /\ Idle \in Task /\ Idle.at = "idle"
    BY <1>4, IdleTask DEF End, server
  <2>5. OwnerTask("hv")'
    BY <1>1, <2>4, BecomeType DEF OwnerInv, OwnerTask
  <2>6. /\ keyring' \in [Accounts -> Cred] /\ renamed' \in BOOLEAN /\ (renamed => renamed')
        /\ ~renamed' => \A a \in Accounts : Owned(keyring[a], a)'
    BY <1>1, <2>4 DEF OwnerInv, Types, Owners, Owned
  <2> QED BY <1>1, <1>2, <2>3, <2>4, <2>5, <2>6, NotTorn, Moves DEF At
<1> QED BY <1>3, <1>4 DEF CallHv

(***************************************************************************)
(* persist_credential                                                      *)
(***************************************************************************)

(* The task stores what it carries, under the e-mail of the file.          *)
LEMMA PersistInv == ASSUME OwnerInv, NEW t \in Names, Persist(t) PROVE OwnerInv'
<1> DEFINE r == [task[t] EXCEPT !.at = "store", !.acct = email, !.todo = Slots]
<1>1. /\ At(t, "persist") /\ UNCHANGED <<saved, keyring, registry, renamed, issued, email, bridge>>
  BY DEF Persist, disk, server, memory, history
<1>2. saved' \in Accounts \cup {None, Torn} /\ email # Torn /\ email \in Accounts \cup {None}
  BY <1>1, NotTorn DEF OwnerInv, Types, At
<1>3. r \in Task /\ r.at = "store" /\ r.acct = email /\ r.cred = task[t].cred
  BY <1>2 DEF OwnerInv, Types, Task, Places
<1>4. Become(t, r)
  BY DEF Persist
<1> HIDE DEF r
<1>5. task'[t] = r
  BY <1>3, <1>4, BecomeType DEF OwnerInv
<1>6. ASSUME ~renamed PROVE OwnerTask(t)'
  <2>1. OwnerTask(t)
    BY <1>6 DEF OwnerInv, Owners
  <2> QED BY <1>1, <1>3, <1>5, <2>1 DEF OwnerTask, Owned, At
<1> QED BY <1>1, <1>2, <1>3, <1>4, <1>6, Stays, Moves DEF At

(* A slot is filled with what the account was issued.                      *)
LEMMA StoreInv == ASSUME OwnerInv, NEW t \in Names, Store(t) PROVE OwnerInv'
<1> DEFINE k == Min(task[t].todo)
<1> DEFINE left == task[t].todo \ {k}
<1> DEFINE b == task[t].acct
<1> DEFINE cred == task[t].cred
<1>1. At(t, "store") /\ UNCHANGED <<saved, registry, renamed, issued, email, bridge>>
  BY DEF Store, server, memory, history
<1>2. saved' \in Accounts \cup {None, Torn} /\ email # Torn /\ cred \in Cred
  BY <1>1, NotTorn DEF OwnerInv, Types, At, Task
<1>3. CASE End(t) /\ UNCHANGED keyring
  BY <1>1, <1>2, <1>3, EndInv DEF At
<1>4. CASE /\ keyring' = [keyring EXCEPT ![b][k] = cred[k]]
           /\ Become(t, [task[t] EXCEPT !.todo = left, !.at = IF left = {} THEN "flag" ELSE "store"])
  <2> DEFINE r == [task[t] EXCEPT !.todo = left, !.at = IF left = {} THEN "flag" ELSE "store"]
  <2> HIDE DEF k
  <2> DEFINE at == IF left = {} THEN "flag" ELSE "store"
  <2>1. r \in Task /\ r.at \in {"flag", "store"} /\ r.acct = b /\ r.cred = cred
    <3>1. task[t] \in Task /\ left \in SUBSET Slots
      BY DEF OwnerInv, Types, Task
    <3>2. at \in Places /\ at \in {"flag", "store"}
      BY DEF Places
    <3>3. r = [task[t] EXCEPT !.todo = left, !.at = at]
      OBVIOUS
    <3> HIDE DEF r, left, at
    <3> QED BY <3>1, <3>2, <3>3 DEF Task
  <2>2. Become(t, r)
    BY <1>4
  <2> HIDE DEF r, left
  <2>3. task'[t] = r
    BY <2>1, <2>2, BecomeType DEF OwnerInv
  <2> DEFINE filled == [keyring[b] EXCEPT ![k] = cred[k]]
  <2>4. keyring' = [keyring EXCEPT ![b] = filled]
    BY <1>4
  <2>5. ASSUME b \in Accounts
        PROVE  /\ filled \in Cred
               /\ \A j \in Slots : filled[j] \in {keyring[b][j], cred[j]}
    <3>1. keyring[b] \in Cred
      BY <2>5 DEF OwnerInv, Types
    <3> QED BY <1>2, <3>1 DEF Cred
  <2> HIDE DEF filled
  <2>6. keyring' \in [Accounts -> Cred]
    BY <2>4, <2>5 DEF OwnerInv, Types
  <2>7. ASSUME ~renamed
        PROVE  OwnerTask(t)' /\ \A a \in Accounts : Owned(keyring[a], a)'
    <3>1. Owners /\ b \in Accounts /\ Owned(cred, b)
      BY <1>1, <2>7 DEF OwnerInv, Owners, OwnerTask, At
    <3>2. OwnerTask(t)'
      BY <1>1, <2>1, <2>3, <3>1 DEF OwnerTask, Owned
    <3>3. ASSUME NEW a \in Accounts, NEW j \in Slots, keyring'[a][j] # None
          PROVE  issued[keyring'[a][j]] = a
      <4>1. CASE a = b
        <5>1. keyring'[a][j] \in {keyring[a][j], cred[j]}
          BY <2>4, <2>5, <4>1 DEF OwnerInv, Types
        <5> QED BY <3>1, <3>3, <4>1, <5>1 DEF Owners, Owned
      <4>2. CASE a # b
        <5>1. keyring'[a] = keyring[a]
          BY <2>4, <4>2 DEF OwnerInv, Types
        <5> QED BY <3>1, <3>3, <5>1 DEF Owners, Owned
      <4> QED BY <4>1, <4>2
    <3> QED BY <1>1, <3>2, <3>3 DEF Owned
  <2>8. registry' \in [Handles -> Entry] /\ renamed' \in BOOLEAN
    BY <1>1 DEF OwnerInv, Types
  <2> HIDE DEF cred, b
  <2> QED BY <1>1, <1>2, <2>1, <2>2, <2>6, <2>7, <2>8, Moves DEF At
<1> QED BY <1>3, <1>4 DEF Store

(* A login or resume ends with its credential stored.                      *)
LEMMA FlagInv == ASSUME OwnerInv, NEW t \in Names, Flag(t) PROVE OwnerInv'
<1>1. At(t, "flag") /\ End(t) /\ UNCHANGED <<saved, keyring, registry, renamed, issued, email, bridge>>
  BY DEF Flag, disk, server, history
<1> QED BY <1>1, EndInv DEF OwnerInv, Types, At

(***************************************************************************)
(* logout, and the wipe it has in common with a failed resume              *)
(***************************************************************************)

(* Clearing the flag touches no credential.                                *)
LEMMA UnflagInv == ASSUME OwnerInv, Unflag PROVE OwnerInv'
<1>1. /\ At("logout", "unflag") /\ Goto("logout", "take") /\ "logout" \in Names
      /\ UNCHANGED <<saved, keyring, registry, renamed, issued, email, bridge>>
  BY DEF Unflag, disk, server, history, Names
<1>2. saved' \in Accounts \cup {None, Torn}
  BY <1>1 DEF OwnerInv, Types
<1> QED BY <1>1, <1>2, GotoInv DEF At, Places

(* A logout forgets the session before it is revoked.                      *)
LEMMA TakeBridgeInv == ASSUME OwnerInv, TakeBridge PROVE OwnerInv'
<1> DEFINE r == [task["logout"] EXCEPT !.handle = bridge, !.at = IF bridge = None THEN "wipe" ELSE "revoke"]
<1>1. /\ At("logout", "take") /\ "logout" \in Names /\ bridge' = None /\ Become("logout", r)
      /\ UNCHANGED <<saved, keyring, registry, renamed, issued, email>>
  BY DEF TakeBridge, disk, server, history, Names
<1>2. r \in Task /\ r.at \in {"wipe", "revoke"}
  BY <1>1 DEF OwnerInv, Types, Task, Places
<1> HIDE DEF r
<1>3. task' \in [Names -> Task] /\ task'["logout"] = r /\ \A u \in Names : u # "logout" => task'[u] = task[u]
  BY <1>1, <1>2, BecomeType DEF OwnerInv
<1>4. Types'
  BY <1>1, <1>2, <1>3, NotTorn DEF OwnerInv, Types, At
<1>5. ASSUME ~renamed' PROVE Owners'
  <2>1. Owners
    BY <1>1, <1>5 DEF OwnerInv
  <2>2. \A a \in Accounts : Owned(keyring[a], a)'
    BY <1>1, <2>1 DEF Owners, Owned
  <2>3. \A u \in Names : OwnerTask(u)'
    BY <1>1, <1>2, <1>3, <2>1 DEF Owners, OwnerTask, Owned
  <2>4. PendingOwner'
    BY <1>1, <1>3, <2>1 DEF Owners, PendingOwner, At, Names
  <2> QED BY <2>2, <2>3, <2>4 DEF Owners
<1> QED BY <1>4, <1>5 DEF OwnerInv

(* A revoked session keeps what it remembers.                              *)
LEMMA RevokeInv == ASSUME OwnerInv, Revoke PROVE OwnerInv'
<1> DEFINE h == task["logout"].handle
<1>1. /\ At("logout", "revoke") /\ "logout" \in Names /\ Goto("logout", "wipe")
      /\ UNCHANGED <<saved, keyring, renamed, issued, email, bridge>>
      /\ registry' = [registry EXCEPT ![h].state = "dropped"] \/ UNCHANGED registry
  BY DEF Revoke, disk, history, Names
<1> DEFINE e == [registry[h] EXCEPT !.state = "dropped"]
<1>2. ASSUME h \in Handles
      PROVE  e \in Entry /\ e.state = "dropped" /\ e.pending = registry[h].pending
  BY <1>2 DEF OwnerInv, Types, Entry
<1>3. registry' = [registry EXCEPT ![h] = e] \/ UNCHANGED registry
  BY <1>1
<1> HIDE DEF e
<1>4. /\ registry' \in [Handles -> Entry]
      /\ \A g \in Handles : registry'[g].pending \in {None, registry[g].pending}
                             /\ (registry'[g].state = "unused" => registry[g].state = "unused")
  BY <1>2, <1>3 DEF OwnerInv, Types
<1>5. PICK r \in Task : Become("logout", r) /\ r.at = "wipe"
  BY <1>1, GotoType DEF OwnerInv, Places
<1>6. OwnerTask("logout")'
  BY <1>1, <1>5, BecomeType DEF OwnerInv, OwnerTask
<1>7. /\ keyring' \in [Accounts -> Cred] /\ renamed' \in BOOLEAN /\ (renamed => renamed')
      /\ ~renamed' => \A a \in Accounts : Owned(keyring[a], a)'
      /\ saved' \in Accounts \cup {None, Torn} /\ email # Torn
  BY <1>1, NotTorn DEF OwnerInv, Types, Owners, Owned, At
<1> QED BY <1>1, <1>4, <1>5, <1>6, <1>7, Moves

(* A wipe is for the e-mail of this moment.                                *)
LEMMA WipeInv == ASSUME OwnerInv, NEW t \in Names, Wipe(t) PROVE OwnerInv'
<1> DEFINE r == [task[t] EXCEPT !.at = "delete", !.acct = email, !.todo = Slots]
<1>1. /\ At(t, "wipe") /\ Become(t, r)
      /\ UNCHANGED <<saved, keyring, registry, renamed, issued, email, bridge>>
  BY DEF Wipe, disk, server, memory
<1>2. saved' \in Accounts \cup {None, Torn} /\ email # Torn /\ email \in Accounts \cup {None}
  BY <1>1, NotTorn DEF OwnerInv, Types, At
<1>3. r \in Task /\ r.at = "delete"
  BY <1>2 DEF OwnerInv, Types, Task, Places
<1> HIDE DEF r
<1>4. OwnerTask(t)'
  BY <1>1, <1>3, BecomeType DEF OwnerInv, OwnerTask
<1> QED BY <1>1, <1>2, <1>3, <1>4, Stays, Moves DEF At

(* An emptied slot holds nobody's credential.                              *)
LEMMA DeleteInv == ASSUME OwnerInv, NEW t \in Names, NEW k \in Slots, Delete(t, k) PROVE OwnerInv'
<1> DEFINE b == task[t].acct
<1>1. /\ At(t, "delete") /\ UNCHANGED <<saved, registry, renamed, issued, email, bridge>>
      /\ keyring' = [keyring EXCEPT ![b][k] = None] \/ UNCHANGED keyring
  BY DEF Delete, server, memory
<1>2. PICK r \in Task : Become(t, r) /\ r.at \in {"idle", "delete"}
  <2> DEFINE r == [task[t] EXCEPT !.todo = @ \ {k}]
  <2>1. r \in Task /\ r.at = "delete"
    BY <1>1 DEF OwnerInv, Types, Task, At
  <2>2. Become(t, Idle) \/ Become(t, r)
    BY DEF Delete, End
  <2> HIDE DEF r
  <2> QED BY <2>1, <2>2, IdleTask
<1> DEFINE emptied == [keyring[b] EXCEPT ![k] = None]
<1>3. keyring' = [keyring EXCEPT ![b] = emptied] \/ UNCHANGED keyring
  BY <1>1
<1>4. ASSUME b \in Accounts
      PROVE  emptied \in Cred /\ \A j \in Slots : emptied[j] \in {None, keyring[b][j]}
  <2>1. keyring[b] \in Cred
    BY <1>4 DEF OwnerInv, Types
  <2> QED BY <2>1 DEF Cred
<1> HIDE DEF emptied
<1>5. /\ keyring' \in [Accounts -> Cred]
      /\ \A a \in Accounts, j \in Slots : keyring'[a][j] \in {None, keyring[a][j]}
  BY <1>3, <1>4 DEF OwnerInv, Types
<1>6. ~renamed => \A a \in Accounts : Owned(keyring[a], a)'
  BY <1>1, <1>5 DEF OwnerInv, Owners, Owned
<1>7. OwnerTask(t)'
  BY <1>2, BecomeType DEF OwnerInv, OwnerTask
<1>8. saved' \in Accounts \cup {None, Torn} /\ email # Torn /\ registry' \in [Handles -> Entry]
      /\ renamed' \in BOOLEAN
  BY <1>1, NotTorn DEF OwnerInv, Types, At
<1> QED BY <1>1, <1>2, <1>5, <1>6, <1>7, <1>8, Moves DEF At

(***************************************************************************)
(* The end of the process                                                  *)
(***************************************************************************)

(* A restart forgets the tasks and keeps the keyring.                      *)
LEMMA QuitInv == ASSUME OwnerInv, Quit PROVE OwnerInv'
<1>1. /\ email' = saved /\ bridge' = None /\ authenticated' = FALSE /\ task' = Boot(saved)
      /\ registry' = [h \in Handles |-> Absent]
      /\ UNCHANGED <<saved, keyring, issued, renamed>>
  BY DEF Quit, disk, server
<1>2. /\ task' \in [Names -> Task] /\ \A t \in Names : task'[t].at \in {"idle", "email"}
      /\ task'["hv"].at = "idle"
      /\ saved = Torn => \A t \in Names : task'[t].at = "idle"
  <2> DEFINE r == [Idle EXCEPT !.at = "email"]
  <2>1. r \in Task /\ r.at = "email"
    BY DEF Idle, Task, Places, NoCred, Cred
  <2> HIDE DEF r
  <2>2. task' = [t \in Names |-> IF t = "resume" /\ saved # Torn THEN r ELSE Idle]
    BY <1>1 DEF Boot, r
  <2> QED BY <2>1, <2>2, IdleTask DEF Names
<1>3. Absent \in Entry /\ Absent.pending = None
  BY DEF Absent, Entry
<1>4. Types'
  BY <1>1, <1>2, <1>3 DEF OwnerInv, Types
<1>5. ASSUME ~renamed' PROVE Owners'
  <2>1. \A a \in Accounts : Owned(keyring[a], a)'
    BY <1>1, <1>5 DEF OwnerInv, Owners, Owned
  <2>2. \A t \in Names : OwnerTask(t)'
    BY <1>2 DEF OwnerTask
  <2>3. PendingOwner'
    BY <1>1, <1>2, <1>3 DEF PendingOwner, At, Names
  <2> QED BY <2>1, <2>2, <2>3 DEF Owners
<1> QED BY <1>4, <1>5 DEF OwnerInv

(* Every step keeps the invariant.                                         *)
LEMMA NextInv == OwnerInv /\ [Next]_vars => OwnerInv'
<1> SUFFICES ASSUME OwnerInv, [Next]_vars PROVE OwnerInv'
  OBVIOUS
<1>1. ASSUME NEW t \in Names, Common(t) PROVE OwnerInv'
  BY <1>1, SaveInv, WriteInv, EnsureBridgeInv, InitBridgeInv, PersistInv, StoreInv, FlagInv,
     WipeInv, DeleteInv DEF Common
<1>2. CASE UNCHANGED <<saved, keyring, issued, email, bridge, registry, authenticated, task, renamed>>
  BY <1>2 DEF OwnerInv, Types, Owners, OwnerTask, Owned, PendingOwner, At
<1>3. ASSUME NEW n \in Logins, Expire(n) PROVE OwnerInv'
  BY <1>2, <1>3 DEF Expire, disk, memory, history
<1>4. CASE UNCHANGED vars
  BY <1>2, <1>4 DEF vars, disk, server, memory, history
<1>5. CASE SaveTotp
  BY <1>2, <1>5 DEF SaveTotp, server, memory, history
<1> QED BY <1>1, <1>3, <1>4, <1>5, SignInInv, SignOutInv, SettingsInv, ResumeEmailInv, CallResumeInv,
        FetchInv, CallLoginInv, HelperInv, CallHvInv, UnflagInv, TakeBridgeInv, RevokeInv, QuitInv
        DEF Next

-----------------------------------------------------------------------------
(* What every reachable state satisfies, whatever fails and wherever the   *)
(* process ends.                                                           *)
THEOREM OwnerInvariant == Spec => []OwnerInv
BY InitInv, NextInv, PTL DEF Spec

(* As long as nobody signs in with another e-mail while a task is at work, *)
(* no slot of an account's keyring holds another account's credential      *)
(* (keyring.rs:15).                                                        *)
THEOREM KeyringIsOwned == Spec => []KeyringOwner
<1>1. OwnerInv => KeyringOwner
  BY DEF OwnerInv, Owners, Owned, KeyringOwner
<1> QED BY <1>1, OwnerInvariant, PTL

-----------------------------------------------------------------------------
(* Types                                                                   *)

(* What TypeOK says beyond Types, and what it takes: a login has an        *)
(* account until the server has answered.                                  *)
Ranges ==
  /\ authenticated \in BOOLEAN /\ revoked \in BOOLEAN /\ wiped \in BOOLEAN
  /\ overlaps \in Nat /\ faults \in Nat /\ quits \in Nat
  /\ expired \subseteq Logins /\ totp \subseteq Accounts

Accounted ==
  /\ valid \subseteq {n \in Logins : issued[n] # None}
  /\ task["login"].at \in {"save", "write", "ensure", "init", "call"} =>
       task["login"].acct \in Accounts

TypeInv == OwnerInv /\ Ranges /\ Accounted

(* Counters count, and flags stay flags.                                   *)
LEMMA RangesNext == OwnerInv /\ Ranges /\ [Next]_vars => Ranges'
<1> SUFFICES ASSUME OwnerInv, Ranges, [Next]_vars PROVE Ranges'
  OBVIOUS
<1>1. ASSUME NEW e, Pressed(e),
             UNCHANGED <<authenticated, bounds>>, totp' \subseteq Accounts,
             revoked' \in {revoked, FALSE}, wiped' \in {wiped, FALSE}
      PROVE  Ranges'
  <2>1. overlaps' = overlaps \/ overlaps' = overlaps + 1
    BY <1>1, Zenon DEF Pressed
  <2>2. UNCHANGED <<authenticated, faults, expired, quits>>
    BY <1>1 DEF bounds
  <2>3. authenticated' \in BOOLEAN /\ revoked' \in BOOLEAN /\ wiped' \in BOOLEAN
    BY <1>1, Zenon DEF Ranges
  <2>4. overlaps' \in Nat /\ faults' \in Nat /\ quits' \in Nat /\ expired' \subseteq Logins
    BY <2>1, <2>2 DEF Ranges
  <2> QED BY <1>1, <2>3, <2>4, Zenon DEF Ranges
<1>2. ASSUME NEW a \in Accounts, SignIn(a) PROVE Ranges'
  <2>1. totp' \subseteq Accounts
    BY <1>2 DEF SignIn, StoreTotp, Ranges
  <2> QED BY <1>1, <1>2, <2>1 DEF SignIn, Anew
<1>3. CASE SignOut \/ Settings
  <2>1. totp' = totp
    BY <1>3 DEF SignOut, Settings, disk
  <2> QED BY <1>1, <1>3, <2>1 DEF SignOut, Settings, memory, Anew, Ranges
<1>4. ASSUME UNCHANGED bounds \/ Fault, UNCHANGED <<overlaps, totp>>,
             authenticated' \in BOOLEAN, revoked' \in BOOLEAN, wiped' \in BOOLEAN
      PROVE  Ranges'
  BY <1>4 DEF Ranges, bounds, Fault
<1>5. CASE ResumeEmail \/ Helper \/ CallLogin \/ CallHv \/ Unflag \/ TakeBridge
  <2>1. /\ UNCHANGED bounds /\ UNCHANGED <<overlaps, totp, revoked, wiped>>
        /\ authenticated' \in {authenticated, FALSE}
    BY <1>5 DEF ResumeEmail, Helper, CallLogin, CallHv, Unflag, TakeBridge, memory, history, disk
  <2> QED BY <1>4, <2>1 DEF Ranges
<1>6. CASE CallResume \/ Revoke \/ \E k \in Slots : Fetch(k)
  <2>1. /\ UNCHANGED bounds \/ Fault
        /\ UNCHANGED <<overlaps, totp, wiped, authenticated>> /\ revoked' \in {revoked, TRUE}
    BY <1>6 DEF CallResume, Revoke, Fetch, memory, history, bounds, disk
  <2> QED BY <1>4, <2>1 DEF Ranges
<1>7. ASSUME NEW t \in Names, Common(t) PROVE Ranges'
  <2>1. CASE Save(t) \/ Write(t) \/ EnsureBridge(t) \/ InitBridge(t) \/ Persist(t) \/ Store(t)
    <3>1. /\ UNCHANGED bounds \/ Fault
          /\ UNCHANGED <<overlaps, totp, revoked, wiped, authenticated>>
      BY <2>1 DEF Save, Write, EnsureBridge, InitBridge, Persist, Store, memory, history, bounds,
                  disk
    <3> QED BY <1>4, <3>1 DEF Ranges
  <2>2. CASE Flag(t) \/ Wipe(t) \/ \E k \in Slots : Delete(t, k)
    <3>1. /\ UNCHANGED bounds \/ Fault
          /\ UNCHANGED <<overlaps, totp, revoked>> /\ authenticated' \in {authenticated, TRUE}
          /\ wiped' \in {wiped, t = "logout", FALSE}
      BY <2>2 DEF Flag, Wipe, Delete, memory, history, bounds, disk
    <3> QED BY <1>4, <3>1 DEF Ranges
  <2> QED BY <1>7, <2>1, <2>2 DEF Common
<1>8. ASSUME NEW n \in Logins, Expire(n) PROVE Ranges'
  <2>1. /\ expired' = expired \cup {n}
        /\ UNCHANGED <<authenticated, revoked, wiped, overlaps, faults, quits, totp>>
    BY <1>8 DEF Expire, memory, history, disk
  <2> QED BY <2>1 DEF Ranges
<1>9. CASE Quit
  <2>1. /\ authenticated' = FALSE /\ wiped' \in {wiped, FALSE}
        /\ quits' = quits + 1 /\ UNCHANGED <<overlaps, totp, revoked, faults, expired>>
    <3>1. wiped' = (wiped /\ At("logout", "idle"))
      BY <1>9, Zenon DEF Quit
    <3> QED BY <1>9, <3>1 DEF Quit, Ranges, disk
  <2>2. authenticated' \in BOOLEAN /\ revoked' \in BOOLEAN /\ wiped' \in BOOLEAN
    BY <2>1, Zenon DEF Ranges
  <2>3. quits' \in Nat
    BY <2>1 DEF Ranges
  <2> QED BY <2>1, <2>2, <2>3, Zenon DEF Ranges
<1>10. CASE UNCHANGED vars
  BY <1>10 DEF vars, memory, history, bounds, disk, Ranges
<1>11. CASE SaveTotp
  BY <1>11 DEF SaveTotp, StoreTotp, memory, history, bounds, Ranges
<1> QED BY <1>2, <1>3, <1>5, <1>6, <1>7, <1>8, <1>9, <1>10, <1>11 DEF Next

(* The places in which a login has an account.                             *)
WithAccount == {"save", "write", "ensure", "init", "call"}

(* A step that issues nothing and leads a login no further than the call.  *)
LEMMA AccountedKept ==
  ASSUME Types, Accounted, issued' = issued, valid' \subseteq valid,
         NEW t \in Names, NEW r, Become(t, r),
         t = "login" /\ r.at \in WithAccount =>
           r.acct = task[t].acct /\ task[t].at \in WithAccount
  PROVE  Accounted'
<1>1. task'["login"] = IF t = "login" THEN r ELSE task["login"]
  BY DEF Types, Become, Names
<1> QED BY <1>1 DEF Accounted, WithAccount

(* A login that only goes to another place keeps its account.              *)
LEMMA AccountedGoto ==
  ASSUME Types, Accounted, issued' = issued, valid' \subseteq valid,
         NEW t \in Names, NEW place \in Places, Goto(t, place),
         task[t].at \in WithAccount \/ place \notin WithAccount
  PROVE  Accounted'
<1>1. PICK r \in Task : Become(t, r) /\ r.at = place /\ r.acct = task[t].acct
  BY GotoType
<1> QED BY <1>1, AccountedKept

(* A task that ends has no login any more.                                 *)
LEMMA AccountedEnd ==
  ASSUME Types, Accounted, issued' = issued, valid' \subseteq valid,
         NEW t \in Names, End(t)
  PROVE  Accounted'
<1>1. Become(t, Idle) /\ Idle.at = "idle"
  BY IdleTask DEF End
<1> QED BY <1>1, AccountedKept DEF WithAccount

(* The server issues credentials to accounts only.                         *)
LEMMA AccountedIssue ==
  ASSUME Types, Accounted, NEW t \in {"login", "hv"}, NEW a \in Accounts, Issue(t, a)
  PROVE  Accounted'
<1>1. PICK n \in Logins : /\ issued' = [issued EXCEPT ![n] = a] /\ valid' = valid \cup {n}
                          /\ Become(t, [task[t] EXCEPT !.at = "persist", !.cred = Bundle(n)])
  BY DEF Issue
<1> DEFINE r == [task[t] EXCEPT !.at = "persist", !.cred = Bundle(n)]
<1>2. r.at = "persist"
  BY DEF Types, Task, Names
<1> HIDE DEF r
<1>3. task'["login"] = IF t = "login" THEN r ELSE task["login"]
  BY <1>1 DEF Types, Become, Names, r
<1>4. valid' \subseteq {m \in Logins : issued'[m] # None}
  BY <1>1, Apart DEF Types, Accounted
<1> QED BY <1>2, <1>3, <1>4 DEF Accounted

(* Every step of the system keeps what the types need.                     *)
LEMMA AccountedNext == OwnerInv /\ Accounted /\ [Next]_vars => Accounted'
<1> SUFFICES ASSUME OwnerInv, Accounted, [Next]_vars PROVE Accounted'
  OBVIOUS
<1>0. Types /\ task \in [Names -> Task] /\ {"resume", "login", "hv", "logout", "settings"} = Names
  BY DEF OwnerInv, Types, Names
<1>1. ASSUME NEW a \in Accounts, SignIn(a) PROVE Accounted'
  <2> DEFINE r == [Idle EXCEPT !.at = "save", !.acct = a]
  <2>1. r.acct = a
    BY DEF Idle
  <2> HIDE DEF r
  <2>2. task'["login"] = r
    BY <1>0, <1>1 DEF SignIn, Become, r
  <2> QED BY <1>1, <2>1, <2>2 DEF SignIn, server, Accounted
<1>2. CASE SignOut
  BY <1>0, <1>2, AccountedKept DEF SignOut, server
<1>3. CASE Settings
  BY <1>0, <1>3, AccountedKept DEF Settings, server
<1>4. CASE ResumeEmail
  BY <1>0, <1>4, AccountedKept, AccountedEnd DEF ResumeEmail, server
<1>5. ASSUME NEW k \in Slots, Fetch(k) PROVE Accounted'
  BY <1>0, <1>5, AccountedKept, AccountedEnd DEF Fetch, server
<1>6. CASE CallResume
  <2>1. UNCHANGED server /\ \E r : Become("resume", r)
    BY <1>6 DEF CallResume, Goto
  <2> QED BY <1>0, <2>1, AccountedKept DEF server
<1>7. CASE CallLogin
  <2>1. task["login"].acct \in Accounts
    BY <1>7 DEF CallLogin, At, Accounted
  <2>2. CASE Issue("login", task["login"].acct)
    BY <1>0, <2>1, <2>2, AccountedIssue
  <2>3. CASE End("login") /\ UNCHANGED server
    BY <1>0, <2>3, AccountedEnd DEF server
  <2>4. CASE UNCHANGED server /\ task' = [task EXCEPT !["login"] = Idle,
               !["hv"] = IF @ = Idle THEN [Idle EXCEPT !.at = "helper"] ELSE @]
    <3>1. task'["login"].at = "idle"
      BY <1>0, <2>4, IdleTask
    <3> QED BY <2>4, <3>1 DEF Accounted, server
  <2> QED BY <1>7, <2>2, <2>3, <2>4 DEF CallLogin
<1>8. CASE CallHv
  <2>1. task["hv"].handle \in Handles
    BY <1>8, <1>0 DEF CallHv, At, Types
  <2>2. registry[task["hv"].handle].pending \in Accounts \cup {None}
    BY <1>0, <2>1 DEF Types, Entry
  <2>3. CASE /\ registry[task["hv"].handle].pending # None
             /\ Issue("hv", registry[task["hv"].handle].pending)
    BY <1>0, <2>2, <2>3, AccountedIssue
  <2>4. CASE End("hv") /\ UNCHANGED server
    BY <1>0, <2>4, AccountedEnd DEF server
  <2> QED BY <1>8, <2>3, <2>4 DEF CallHv
<1>9. CASE Helper \/ Unflag \/ TakeBridge
  <2>1. UNCHANGED server /\ \E t \in {"hv", "logout"} : \E r : Become(t, r)
    BY <1>9 DEF Helper, Unflag, TakeBridge, Goto, End
  <2> QED BY <1>0, <2>1, AccountedKept DEF server
<1>10. CASE Revoke
  <2>1. issued' = issued /\ valid' \subseteq valid /\ \E r : Become("logout", r)
    BY <1>10 DEF Revoke, Goto
  <2> QED BY <1>0, <2>1, AccountedKept
<1>11. ASSUME NEW t \in Names, Common(t) PROVE Accounted'
  <2>1. UNCHANGED server
    BY <1>11 DEF Common, Save, Write, EnsureBridge, InitBridge, Persist, Store, Flag, Wipe, Delete
  <2>2. issued' = issued /\ valid' \subseteq valid
    BY <2>1 DEF server
  <2>3. CASE Save(t) \/ Write(t)
    BY <1>0, <2>2, <2>3, AccountedGoto, AccountedEnd DEF Save, Write, At, WithAccount, Places
  <2>4. CASE EnsureBridge(t) \/ InitBridge(t)
    <3>1. CASE Goto(t, "init") /\ At(t, "ensure")
      BY <1>0, <2>2, <3>1, AccountedGoto DEF At, WithAccount, Places
    <3>2. ASSUME NEW h, At(t, "ensure") \/ At(t, "init"),
                 Become(t, [task[t] EXCEPT !.at = "call", !.handle = h])
          PROVE  Accounted'
      <4> DEFINE r == [task[t] EXCEPT !.at = "call", !.handle = h]
      <4>1. r.acct = task[t].acct
        BY <1>0 DEF Task
      <4> HIDE DEF r
      <4>2. Become(t, r)
        BY <3>2 DEF r
      <4> QED BY <1>0, <2>2, <3>2, <4>1, <4>2, AccountedKept DEF At, WithAccount
    <3> QED BY <2>4, <3>1, <3>2 DEF EnsureBridge, InitBridge
  <2>5. CASE Persist(t) \/ Store(t) \/ Flag(t) \/ Wipe(t) \/ \E k \in Slots : Delete(t, k)
    <3>1. CASE End(t)
      BY <1>0, <2>2, <3>1, AccountedEnd
    <3>2. ASSUME NEW r, Become(t, r), r.at \notin WithAccount PROVE Accounted'
      BY <1>0, <2>2, <3>2, AccountedKept
    <3>3. CASE Persist(t) \/ Wipe(t)
      <4>1. \A place \in {"store", "delete"} :
              LET r == [task[t] EXCEPT !.at = place, !.acct = email, !.todo = Slots]
              IN  r.at = place
        BY <1>0 DEF Task
      <4> QED BY <3>2, <3>3, <4>1 DEF Persist, Wipe, WithAccount
    <3>4. CASE Store(t)
      <4> DEFINE left == task[t].todo \ {Min(task[t].todo)}
                 r == [task[t] EXCEPT !.todo = left, !.at = IF left = {} THEN "flag" ELSE "store"]
      <4>1. End(t) \/ Become(t, r)
        BY <3>4, Zenon DEF Store
      <4> HIDE DEF left
      <4>2. r.at \in {"flag", "store"}
        BY <1>0 DEF Task
      <4> HIDE DEF r
      <4> QED BY <3>1, <3>2, <4>1, <4>2 DEF WithAccount
    <3>5. ASSUME NEW k \in Slots, Delete(t, k) PROVE Accounted'
      <4>1. [task[t] EXCEPT !.todo = @ \ {k}].at = "delete"
        BY <1>0, <3>5 DEF Task, Delete, At
      <4> QED BY <3>1, <3>2, <3>5, <4>1 DEF Delete, WithAccount
    <3> QED BY <2>5, <3>1, <3>3, <3>4, <3>5 DEF Flag
  <2> QED BY <1>11, <2>3, <2>4, <2>5 DEF Common
<1>12. ASSUME NEW n \in Logins, Expire(n) PROVE Accounted'
  BY <1>12 DEF Expire, Accounted
<1>13. CASE Quit
  <2>1. task'["login"] = Idle /\ UNCHANGED <<issued, valid>>
    BY <1>13 DEF Quit, Boot, server, Names
  <2> QED BY <2>1, IdleTask DEF Accounted
<1>14. CASE UNCHANGED vars
  BY <1>14 DEF vars, server, Accounted
<1>15. CASE SaveTotp
  BY <1>15 DEF SaveTotp, server, Accounted
<1> QED BY <1>1, <1>2, <1>3, <1>4, <1>5, <1>6, <1>7, <1>8, <1>9, <1>10, <1>11, <1>12,
           <1>13, <1>14, <1>15 DEF Next

(* Nothing is counted and no login begun at first.                         *)
LEMMA TypesInit == Init => Ranges /\ Accounted
<1> SUFFICES ASSUME Init PROVE Ranges /\ Accounted
  OBVIOUS
<1>1. Ranges
  BY DEF Init, Ranges
<1>2. task["login"] = Idle /\ valid = {}
  BY DEF Init, Boot, Names
<1> QED BY <1>1, <1>2, IdleTask DEF Accounted

(* Every variable of the sign-in stays in its type.                        *)
THEOREM SessionTypes == Spec => []TypeOK
<1>1. OwnerInv /\ Ranges /\ Accounted => TypeOK
  BY DEF OwnerInv, Types, Ranges, Accounted, TypeOK
<1> QED BY <1>1, TypesInit, RangesNext, AccountedNext, OwnerInvariant, PTL DEF Spec
-----------------------------------------------------------------------------
(* One task at a time                                                      *)

(* Where each task can be, and the tasks that end with a session.          *)
Asking   == {"ensure", "init", "call"}
Storing  == {"persist", "store", "flag"}
Wiping   == {"wipe", "delete"}
PlacesOf == [t \in Names |->
  CASE t = "resume"   -> {"idle", "email", "fetch"} \cup Asking \cup Storing \cup Wiping
    [] t = "login"    -> {"idle", "save", "write"} \cup Asking \cup Storing
    [] t = "hv"       -> {"idle", "helper"} \cup Asking \cup Storing
    [] t = "logout"   -> {"idle", "unflag", "take", "revoke"} \cup Wiping
    [] t = "settings" -> {"idle", "save", "write"}]
Signing  == {"resume", "login", "hv"}
Saved    == {"email", "fetch", "helper"} \cup Asking \cup Storing

(* The bridge works with a session of the configured e-mail, and cred is   *)
(* what resumes it.                                                        *)
Works(cred) ==
  /\ bridge # None /\ Live(bridge) /\ registry[bridge].as # None
  /\ email \in Accounts /\ saved \in {email, Torn}
  /\ issued[registry[bridge].as] = email
  /\ \A k \in Slots \ {LastSlot} : cred[k] = registry[bridge].as
  /\ cred[LastSlot] # None /\ issued[cred[LastSlot]] = email

(* Slots of the configured e-mail that a task has already stored, deleted. *)
Stored(t) == \A k \in Slots \ task[t].todo : keyring[email][k] = task[t].cred[k]
Wiped(t)  == \A k \in Slots \ task[t].todo : keyring[email][k] = None

(* Before a login has saved its e-mail the file holds that of an earlier    *)
(* one; a resume that wipes is past caring.                                *)
SigningTrue(t) ==
  /\ task[t].at # "idle" => ~authenticated
  /\ task[t].at \in Saved => saved = email
  /\ t = "login" /\ task[t].at # "idle" => email \in Accounts
  /\ task[t].at \in {"save", "write"} => task[t].acct = email
  /\ task[t].at = "call" => bridge # None /\ task[t].handle = bridge
  /\ task[t].at \in Storing => Works(task[t].cred)
  /\ task[t].at = "store" => task[t].acct = email /\ task[t].todo # {} /\ Stored(t)
  /\ task[t].at = "flag" => keyring[email] = task[t].cred

(* A logout has taken the handle before it revokes the session.            *)
LogoutTrue ==
  LET at == task["logout"].at
  IN  /\ at # "idle" => email \in Accounts /\ saved \in {email, Torn}
      /\ at \notin {"idle", "unflag"} => ~authenticated
      /\ at \in {"revoke", "wipe", "delete"} => bridge = None
      /\ at = "delete" => /\ task["logout"].acct = email /\ task["logout"].todo # {}
                          /\ wiped => Wiped("logout")

(* After a logout without an error nothing is left, and the next start     *)
(* finds nothing to resume.                                                *)
WipedTrue ==
  /\ \A t \in {"login", "hv"} : At(t, "idle")
  /\ task["logout"].at \in {"idle", "delete"} /\ task["resume"].at \in {"idle", "email", "fetch"}
  /\ bridge = None /\ ~authenticated /\ saved \in {email, Torn}
  /\ email \in Accounts \cup {Torn}
  /\ At("logout", "idle") /\ email # Torn => keyring[email] = NoCred

(* As long as no button is pressed while another task is at work, one task *)
(* is at work at a time, and knows all there is to know.                   *)
Alone ==
  /\ \A t \in Names : task[t].at \in PlacesOf[t]
  /\ \A t, u \in Names : t # u => At(t, "idle") \/ At(u, "idle")
  /\ \A t \in Signing : SigningTrue(t)
  /\ task["settings"].at # "idle" => task["settings"].acct = email
  /\ LogoutTrue
  /\ authenticated => Works(keyring[email])
  /\ wiped => WipedTrue

AloneInv == overlaps = 0 => ~renamed /\ Alone

(* When all tasks but one are idle, only that one has to be justified.     *)
LEMMA OneLeft ==
  ASSUME NEW t \in Names, \A u \in Names : u # t => task'[u].at = "idle",
         task'[t].at \in PlacesOf[t],
         t \in Signing => SigningTrue(t)',
         t = "settings" /\ task'[t].at # "idle" => task'[t].acct = email',
         t = "logout" => LogoutTrue',
         authenticated' => Works(keyring[email])',
         wiped' => WipedTrue'
  PROVE  Alone'
<1>1. \A u \in Names : "idle" \in PlacesOf[u]
  BY DEF PlacesOf, Names
<1>2. \A u \in Names : task'[u].at \in PlacesOf[u]
  BY <1>1
<1>3. ASSUME NEW u \in Signing PROVE SigningTrue(u)'
  <2>1. u \in Names
    BY DEF Signing, Names
  <2> QED BY <2>1 DEF SigningTrue, Saved, Asking, Storing
<1>4. LogoutTrue'
  BY DEF LogoutTrue, Names
<1>5. task'["settings"].at # "idle" => task'["settings"].acct = email'
  BY DEF Names
<1> QED BY <1>2, <1>3, <1>4, <1>5 DEF Alone, At

(* A task at work is the only one; its turn leaves the others idle.        *)
LEMMA Turn ==
  ASSUME Types, Alone, NEW t \in Names, ~At(t, "idle"), NEW r \in Task, Become(t, r)
  PROVE  /\ task'[t] = r
         /\ \A u \in Names : u # t => task[u].at = "idle" /\ task'[u].at = "idle"
BY BecomeType DEF Alone, At

(* What a task that only changes its place keeps.                          *)
LEMMA Went ==
  ASSUME Types, NEW t \in Names, NEW place \in Places, Goto(t, place)
  PROVE  \E r \in Task :
           /\ Become(t, r) /\ r.at = place /\ r.acct = task[t].acct /\ r.cred = task[t].cred
           /\ r.todo = task[t].todo /\ r.handle = task[t].handle
<1> DEFINE r == [task[t] EXCEPT !.at = place]
<1>1. /\ r \in Task /\ r.at = place /\ r.acct = task[t].acct /\ r.cred = task[t].cred
      /\ r.todo = task[t].todo /\ r.handle = task[t].handle
  BY DEF Types, Task
<1>2. Become(t, r)
  BY DEF Goto
<1> HIDE DEF r
<1> QED BY <1>1, <1>2

(* Nothing is wiped while a task is at work that may fill slots again.   *)
LEMMA NotWiped ==
  ASSUME Alone, NEW t \in Names, ~At(t, "idle"),
         t \in {"login", "hv"} \/ (t = "logout" /\ ~At(t, "delete"))
           \/ (t = "resume" /\ ~At(t, "email") /\ ~At(t, "fetch"))
  PROVE  ~wiped
BY DEF Alone, WipedTrue, At

(* When a task ends all are idle.                                          *)
LEMMA EndSolo ==
  ASSUME Types, Alone, NEW t \in Names, ~At(t, "idle"), End(t),
         authenticated' => Works(keyring[email])', wiped' => WipedTrue'
  PROVE  Alone'
<1>1. Become(t, Idle) /\ Idle \in Task /\ Idle.at = "idle"
  BY IdleTask DEF End
<1>2. task'[t] = Idle /\ \A u \in Names : u # t => task'[u].at = "idle"
  BY <1>1, Turn
<1>3. "idle" \in PlacesOf[t]
  BY DEF PlacesOf, Names
<1>4. t \in Signing => SigningTrue(t)'
  BY <1>1, <1>2 DEF SigningTrue, Saved, Asking, Storing
<1>5. t = "logout" => LogoutTrue'
  BY <1>1, <1>2 DEF LogoutTrue
<1> QED BY <1>1, <1>2, <1>3, <1>4, <1>5, OneLeft

(***************************************************************************)
(* Buttons, of which none is pressed while a task is at work               *)
(***************************************************************************)

(* Without an overlap the task starts when every other is idle, so the     *)
(* state it finds is the one the last task left.                           *)
LEMMA PressedAlone ==
  ASSUME Ranges, NEW e, Pressed(e), overlaps' = 0
  PROVE  /\ overlaps = 0 /\ \A u \in Names : task[u].at = "idle"
         /\ ~renamed => ~renamed'
<1>1. ~Busy /\ overlaps = 0
  <2>1. CASE Busy
    <3>1. overlaps' = overlaps + 1 /\ overlaps \in Nat
      BY <2>1 DEF Pressed, Ranges
    <3> QED BY <3>1
  <2>2. CASE ~Busy
    BY <2>2 DEF Pressed
  <2> QED BY <2>1, <2>2
<1>2. ~renamed => ~renamed'
  BY <1>1, Zenon DEF Pressed
<1> QED BY <1>1, <1>2 DEF Busy, At

(* A login is begun by somebody who is not signed in.                      *)
LEMMA SignInSolo ==
  ASSUME Types, Ranges, AloneInv, NEW a \in Accounts, SignIn(a), overlaps' = 0
  PROVE  ~renamed' /\ Alone'
<1> DEFINE r == [Idle EXCEPT !.at = "save", !.acct = a]
<1>1. r \in Task /\ r.at = "save" /\ r.acct = a
  BY DEF Idle, Task, Places, NoCred, Cred
<1>2. /\ Become("login", r) /\ email' = a /\ Pressed(a) /\ FormShown
      /\ UNCHANGED authenticated /\ wiped' = FALSE
  BY DEF SignIn, Anew
<1> HIDE DEF r
<1>3. /\ overlaps = 0 /\ \A u \in Names : task[u].at = "idle"
      /\ ~renamed => ~renamed'
  BY <1>2, PressedAlone
<1>4. "login" \in Names /\ "logout" \in Names /\ ~authenticated
  BY <1>2, <1>3 DEF FormShown, At, Names
<1>5. task'["login"] = r /\ \A u \in Names : u # "login" => task'[u].at = "idle"
  BY <1>1, <1>2, <1>3, <1>4, BecomeType
<1>6. SigningTrue("login")'
  BY <1>1, <1>2, <1>4, <1>5 DEF SigningTrue, Saved, Asking, Storing
<1>7. "save" \in PlacesOf["login"]
  BY DEF PlacesOf, Names
<1>8. ~renamed
  BY <1>3 DEF AloneInv
<1> QED BY <1>1, <1>2, <1>3, <1>4, <1>5, <1>6, <1>7, <1>8, OneLeft

(* Whoever signs out is signed in.                                         *)
LEMMA SignOutSolo ==
  ASSUME Types, Ranges, AloneInv, SignOut, overlaps' = 0
  PROVE  ~renamed' /\ Alone'
<1> DEFINE r == [Idle EXCEPT !.at = "unflag"]
<1>1. r \in Task /\ r.at = "unflag"
  BY DEF Idle, Task, Places, NoCred, Cred
<1>2. /\ Become("logout", r) /\ Pressed(email) /\ authenticated /\ wiped' = FALSE
      /\ UNCHANGED <<saved, keyring, issued, registry, email, bridge, authenticated>>
  BY DEF SignOut, Anew, disk, server, memory
<1> HIDE DEF r
<1>3. /\ overlaps = 0 /\ \A u \in Names : task[u].at = "idle"
      /\ ~renamed => ~renamed'
  BY <1>2, PressedAlone
<1>4. ~renamed /\ Alone /\ "logout" \in Names
  BY <1>3 DEF AloneInv, Names
<1>5. task'["logout"] = r /\ \A u \in Names : u # "logout" => task'[u].at = "idle"
  BY <1>1, <1>2, <1>3, <1>4, BecomeType
<1>6. Works(keyring[email])
  BY <1>2, <1>4 DEF Alone
<1>7. LogoutTrue' /\ Works(keyring[email])'
  BY <1>1, <1>2, <1>5, <1>6 DEF LogoutTrue, Works, Live
<1>8. "unflag" \in PlacesOf["logout"]
  BY DEF PlacesOf, Names
<1> QED BY <1>1, <1>2, <1>3, <1>4, <1>5, <1>7, <1>8, OneLeft DEF Signing

(* The settings are those of the e-mail that is or is not signed in.       *)
LEMMA SettingsSolo ==
  ASSUME Types, Ranges, AloneInv, Settings, overlaps' = 0
  PROVE  ~renamed' /\ Alone'
<1> DEFINE r == [Idle EXCEPT !.at = "save", !.acct = email]
<1>1. r \in Task /\ r.at = "save" /\ r.acct = email
  BY DEF Settings, Types, Idle, Task, Places, NoCred, Cred
<1>2. /\ Become("settings", r) /\ Pressed(email)
      /\ UNCHANGED <<saved, keyring, issued, registry, email, bridge, authenticated, wiped>>
  BY DEF Settings, disk, server, memory
<1> HIDE DEF r
<1>3. /\ overlaps = 0 /\ \A u \in Names : task[u].at = "idle"
      /\ ~renamed => ~renamed'
  BY <1>2, PressedAlone
<1>4. ~renamed /\ Alone /\ "settings" \in Names
  BY <1>3 DEF AloneInv, Names
<1>5. task'["settings"] = r /\ \A u \in Names : u # "settings" => task'[u].at = "idle"
  BY <1>1, <1>2, <1>3, <1>4, BecomeType
<1>6. authenticated' => Works(keyring[email])'
  BY <1>2, <1>4 DEF Alone, Works, Live
<1>7. "save" \in PlacesOf["settings"]
  BY DEF PlacesOf, Names
<1>8. wiped' => WipedTrue'
  BY <1>2, <1>3, <1>4, <1>5 DEF Alone, WipedTrue, At, Names
<1> QED BY <1>1, <1>2, <1>3, <1>4, <1>5, <1>6, <1>7, <1>8, OneLeft DEF Signing

(***************************************************************************)
(* Saving the configuration                                                *)
(***************************************************************************)

(* Saving the settings brings nothing of a finished sign-out back.         *)
LEMMA SettingsWiped ==
  ASSUME Alone, \A u \in Names : u # "settings" => task'[u].at = "idle",
         UNCHANGED <<keyring, email, bridge, authenticated, wiped>>,
         saved' \in {saved, email, Torn}, ~At("settings", "idle")
  PROVE  wiped' => WipedTrue'
<1>1. \A u \in Names : u # "settings" => task[u].at = "idle"
  BY DEF Alone, At, Names
<1> QED BY <1>1 DEF Alone, WipedTrue, At, Names

(* Whatever becomes of the write, the task goes on with the e-mail it was  *)
(* given or stops.                                                         *)
LEMMA SaveSolo ==
  ASSUME Types, Alone, NEW t \in Names, Save(t) PROVE Alone'
<1>1. At(t, "save") /\ UNCHANGED <<keyring, issued, email, bridge, registry, authenticated, wiped>>
  BY DEF Save, server, memory, history
<1>2. t \in {"login", "settings"} /\ (t = "login" => ~wiped)
  <2>1. t \in {"login", "settings"}
    BY <1>1 DEF Alone, At, PlacesOf, Names, Asking, Storing, Wiping
  <2> QED BY <1>1, <2>1, NotWiped DEF At
<1>3. saved' = Torn \/ saved' = saved
  BY DEF Save
<1>4. authenticated' => Works(keyring[email])'
  BY <1>1, <1>3 DEF Alone, Works, Live
<1>5. CASE Goto(t, "write")
  <2>1. PICK r \in Task : Become(t, r) /\ r.at = "write" /\ r.acct = task[t].acct
    BY <1>5, Went DEF Places
  <2>2. task'[t] = r /\ \A u \in Names : u # t => task'[u].at = "idle"
    BY <1>1, <2>1, Turn DEF At
  <2>3. "write" \in PlacesOf[t]
    BY <1>2 DEF PlacesOf, Names
  <2>4. t = "login" => SigningTrue(t)'
    BY <1>1, <2>1, <2>2 DEF Alone, Signing, SigningTrue, Saved, Asking, Storing, At
  <2>5. t = "settings" => r.acct = email
    BY <1>1, <2>1 DEF Alone, At
  <2>6. wiped' => WipedTrue'
    BY <1>1, <1>2, <1>3, <2>2, SettingsWiped DEF At
  <2> QED BY <1>1, <1>2, <1>4, <2>1, <2>2, <2>3, <2>4, <2>5, <2>6, OneLeft DEF Signing
<1>6. CASE End(t)
  <2>1. \A u \in Names : u # t => task'[u].at = "idle"
    BY <1>1, <1>6, IdleTask, Turn DEF End, At
  <2>2. wiped' => WipedTrue'
    BY <1>1, <1>2, <1>3, <2>1, SettingsWiped DEF At
  <2> QED BY <1>1, <1>4, <1>6, <2>2, EndSolo DEF At
<1> QED BY <1>5, <1>6 DEF Save

(* A login has saved its e-mail before it goes on.                         *)
LEMMA WriteSolo ==
  ASSUME Types, Alone, NEW t \in Names, Write(t) PROVE Alone'
<1>1. At(t, "write") /\ UNCHANGED <<keyring, issued, email, bridge, registry, authenticated, wiped>>
  BY DEF Write, server, memory, history
<1>2. t \in {"login", "settings"} /\ (t = "login" => ~wiped)
  <2>1. t \in {"login", "settings"}
    BY <1>1 DEF Alone, At, PlacesOf, Names, Asking, Storing, Wiping
  <2> QED BY <1>1, <2>1, NotWiped DEF At
<1>3. task[t].acct = email
  BY <1>1, <1>2 DEF Alone, Signing, SigningTrue, At
<1>4. saved' = email \/ saved' = saved
  BY <1>3 DEF Write
<1>5. authenticated' => Works(keyring[email])'
  BY <1>1, <1>4 DEF Alone, Works, Live
<1>6. CASE saved' = email /\ t = "login" /\ Goto(t, "ensure")
  <2>1. PICK r \in Task : Become(t, r) /\ r.at = "ensure" /\ r.acct = task[t].acct
    BY <1>6, Went DEF Places
  <2>2. task'[t] = r /\ \A u \in Names : u # t => task'[u].at = "idle"
    BY <1>1, <2>1, Turn DEF At
  <2>3. "ensure" \in PlacesOf[t]
    BY <1>6 DEF PlacesOf, Names, Asking
  <2>4. SigningTrue(t)'
    BY <1>1, <1>6, <2>1, <2>2 DEF Alone, Signing, SigningTrue, Storing, At
  <2> QED BY <1>1, <1>2, <1>5, <1>6, <2>1, <2>2, <2>3, <2>4, OneLeft
<1>7. CASE End(t)
  <2>1. \A u \in Names : u # t => task'[u].at = "idle"
    BY <1>1, <1>7, IdleTask, Turn DEF End, At
  <2>2. wiped' => WipedTrue'
    BY <1>1, <1>2, <1>4, <2>1, SettingsWiped DEF At
  <2> QED BY <1>1, <1>5, <1>7, <2>2, EndSolo DEF At
<1> QED BY <1>3, <1>6, <1>7 DEF Write

(***************************************************************************)
(* From the handle to the answer of the server                             *)
(***************************************************************************)

(* The task that asks for a session works with the one the bridge holds.   *)
LEMMA EnsureSolo ==
  ASSUME Types, Alone, NEW t \in Names, EnsureBridge(t) \/ InitBridge(t) PROVE Alone'
<1>1. /\ At(t, "ensure") \/ At(t, "init")
      /\ UNCHANGED <<saved, keyring, issued, email, authenticated, wiped>>
  BY DEF EnsureBridge, InitBridge, disk, server, memory, history
<1>2. t \in Signing /\ ~wiped /\ ~authenticated /\ saved = email
        /\ (t = "login" => email \in Accounts)
  <2>1. t \in Signing
    BY <1>1 DEF Alone, At, PlacesOf, Names, Wiping, Signing
  <2>2. ~wiped
    BY <1>1, <2>1, NotWiped DEF At, Signing
  <2> QED BY <1>1, <2>1, <2>2 DEF Alone, SigningTrue, At, Saved, Asking
<1>3. \A place \in Asking : place \in PlacesOf[t]
  BY <1>2 DEF PlacesOf, Names, Signing
<1>4. ASSUME NEW r \in Task, Become(t, r),
             r.at = "init" \/ (r.at = "call" /\ bridge' # None /\ r.handle = bridge')
      PROVE  Alone'
  <2>1. task'[t] = r /\ \A u \in Names : u # t => task'[u].at = "idle"
    BY <1>1, <1>4, Turn DEF At
  <2>2. SigningTrue(t)'
    BY <1>1, <1>2, <1>4, <2>1 DEF SigningTrue, Storing
  <2> QED BY <1>1, <1>2, <1>3, <1>4, <2>1, <2>2, OneLeft DEF Asking, Signing
<1>5. ASSUME NEW h \in Handles
      PROVE  LET r == [task[t] EXCEPT !.at = "call", !.handle = h]
             IN  r \in Task /\ r.at = "call" /\ r.handle = h
  BY DEF Types, Task, Places
<1>6. CASE EnsureBridge(t) /\ bridge # None
  <2>1. bridge' = bridge /\ bridge \in Handles
    BY <1>6 DEF EnsureBridge, memory, Types
  <2> QED BY <1>4, <1>5, <1>6, <2>1 DEF EnsureBridge
<1>7. CASE EnsureBridge(t) /\ bridge = None
  <2>1. PICK r \in Task : Become(t, r) /\ r.at = "init"
    BY <1>7, Went DEF EnsureBridge, Places
  <2> QED BY <1>4, <2>1
<1>8. CASE InitBridge(t)
  <2>1. PICK h \in Handles : /\ bridge' = h
                             /\ Become(t, [task[t] EXCEPT !.at = "call", !.handle = h])
    BY <1>8 DEF InitBridge
  <2> QED BY <1>4, <1>5, <2>1, Apart
<1> QED BY <1>6, <1>7, <1>8

(* The next start resumes the e-mail that was saved.                       *)
LEMMA ResumeEmailSolo ==
  ASSUME Types, Alone, ResumeEmail PROVE Alone'
<1>1. /\ At("resume", "email") /\ "resume" \in Names
      /\ UNCHANGED <<saved, keyring, issued, email, bridge, registry, authenticated, wiped>>
  BY DEF ResumeEmail, disk, server, memory, history, Names
<1>2. ~authenticated /\ saved = email
  BY <1>1 DEF Alone, Signing, SigningTrue, Saved, At
<1>3. wiped => /\ \A u \in {"login", "hv"} : At(u, "idle")
               /\ At("logout", "idle")
               /\ bridge = None /\ ~authenticated /\ saved \in {email, Torn}
               /\ email \in Accounts \cup {Torn}
               /\ email # Torn => keyring[email] = NoCred
  BY <1>1, <1>2 DEF Alone, WipedTrue, At, Names
<1>4. ASSUME NEW r \in Task, Become("resume", r), r.at \in {"idle", "fetch"} PROVE Alone'
  <2>1. task'["resume"] = r /\ \A u \in Names : u # "resume" => task'[u].at = "idle"
    BY <1>1, <1>4, Turn DEF At
  <2>2. wiped' => WipedTrue'
    <3>1. /\ task'["login"].at = "idle" /\ task'["hv"].at = "idle"
          /\ task'["logout"].at = "idle" /\ task'["resume"].at \in {"idle", "fetch"}
      BY <1>4, <2>1 DEF Names
    <3> QED BY <1>1, <1>3, <3>1 DEF WipedTrue, At
  <2>3. SigningTrue("resume")' /\ r.at \in PlacesOf["resume"]
    BY <1>1, <1>2, <1>4, <2>1 DEF SigningTrue, Storing, PlacesOf, Names
  <2> QED BY <1>1, <1>2, <1>4, <2>1, <2>2, <2>3, OneLeft
<1>5. CASE End("resume")
  BY <1>4, <1>5, IdleTask DEF End
<1>6. CASE email # None
  <2> DEFINE r == [Idle EXCEPT !.at = "fetch", !.acct = email, !.todo = Slots]
  <2>0. email \in Accounts
    BY <1>1, <1>6 DEF Types, At
  <2>1. r \in Task /\ r.at = "fetch"
    BY <2>0 DEF Types, Idle, Task, Places, NoCred, Cred
  <2>2. Become("resume", r)
    BY <1>6 DEF ResumeEmail
  <2> HIDE DEF r
  <2> QED BY <1>4, <2>1, <2>2
<1> QED BY <1>5, <1>6 DEF ResumeEmail

(* After a logout a resume finds no slot filled.                           *)
LEMMA FetchSolo ==
  ASSUME Types, Owners, Alone, NEW k \in Slots, Fetch(k) PROVE Alone'
<1> DEFINE found == keyring[task["resume"].acct][k]
           left == task["resume"].todo \ {k}
           r == [task["resume"] EXCEPT !.cred[k] = found, !.todo = left,
                                   !.at = IF left = {} THEN "ensure" ELSE "fetch"]
<1>1. /\ At("resume", "fetch") /\ "resume" \in Names
      /\ UNCHANGED <<saved, keyring, issued, email, bridge, registry, authenticated, wiped>>
  BY DEF Fetch, disk, server, memory, history, Names
<1>2. ~authenticated /\ saved = email /\ task["resume"].acct = email /\ email \in Accounts
  BY <1>1 DEF Alone, Signing, SigningTrue, Saved, At, Owners, OwnerTask
<1>3. wiped => /\ \A u \in {"login", "hv"} : At(u, "idle")
               /\ At("logout", "idle")
               /\ bridge = None /\ ~authenticated /\ saved \in {email, Torn}
               /\ email \in Accounts \cup {Torn}
               /\ keyring[email] = NoCred
  BY <1>1, <1>2, Apart DEF Alone, WipedTrue, At, Names
<1>4. CASE End("resume")
  <2>1. task'["resume"] = Idle /\ \A u \in Names : u # "resume" => task'[u].at = "idle"
    BY <1>1, <1>4, Turn, IdleTask DEF At, End
  <2>2. wiped' => WipedTrue'
    BY <1>1, <1>3, <2>1, IdleTask DEF WipedTrue, At, Names
  <2> QED BY <1>1, <1>2, <1>4, <2>2, EndSolo DEF At
<1>5. CASE found # None /\ Become("resume", r)
  <2>1. ~wiped
    BY <1>2, <1>3, <1>5 DEF NoCred
  <2>2. found \in Logins \cup {None}
    BY <1>2 DEF Types, Cred
  <2>3. r \in Task /\ r.at \in {"fetch", "ensure"}
    <3>1. task["resume"] \in Task
      BY <1>1 DEF Types
    <3>2. [task["resume"].cred EXCEPT ![k] = found] \in Cred
      BY <2>2, <3>1 DEF Task, Cred
    <3> HIDE DEF found
    <3> QED BY <3>1, <3>2 DEF Task, Places
  <2>4. Become("resume", r)
    BY <1>5
  <2> HIDE DEF r
  <2>5. task'["resume"] = r /\ \A u \in Names : u # "resume" => task'[u].at = "idle"
    BY <1>1, <2>3, <2>4, Turn DEF At
  <2>6. SigningTrue("resume")' /\ r.at \in PlacesOf["resume"]
    BY <1>1, <1>2, <2>3, <2>5 DEF SigningTrue, Storing, PlacesOf, Names, Asking
  <2> QED BY <1>1, <1>2, <2>1, <2>3, <2>5, <2>6, OneLeft
<1> QED BY <1>4, <1>5 DEF Fetch

(* A credential the server accepts is of one login, whose session the      *)
(* bridge then works with.                                                 *)
LEMMA CallResumeSolo ==
  ASSUME Types, Owners, Alone, valid \subseteq Logins, CallResume PROVE Alone'
<1> DEFINE h == task["resume"].handle
           cred == task["resume"].cred
<1>1. /\ At("resume", "call") /\ "resume" \in Names
      /\ UNCHANGED <<saved, keyring, issued, email, bridge, authenticated, wiped>>
  BY DEF CallResume, disk, server, history, Names
<1>2. /\ ~authenticated /\ ~wiped /\ saved = email /\ email \in Accounts
      /\ bridge # None /\ h = bridge /\ h \in Handles /\ cred \in Cred /\ Owned(cred, email)
  <2>1. ~wiped
    BY <1>1, NotWiped DEF At
  <2>2. ~authenticated /\ saved = email /\ bridge # None /\ h = bridge
    BY <1>1 DEF Alone, Signing, SigningTrue, Saved, Asking, At
  <2>3. email \in Accounts /\ Owned(cred, email)
    BY <1>1 DEF Owners, OwnerTask, At
  <2>4. h \in Handles /\ cred \in Cred
    BY <1>1 DEF Types, Task, At
  <2> QED BY <2>1, <2>2, <2>3, <2>4
<1>3. CASE Goto("resume", "wipe")
  <2>1. PICK r \in Task : Become("resume", r) /\ r.at = "wipe"
    BY <1>1, <1>3, Went DEF Places
  <2>2. task'["resume"] = r /\ \A u \in Names : u # "resume" => task'[u].at = "idle"
    BY <1>1, <2>1, Turn DEF At
  <2>3. SigningTrue("resume")' /\ r.at \in PlacesOf["resume"]
    BY <1>1, <1>2, <2>1, <2>2 DEF SigningTrue, Saved, Asking, Storing, PlacesOf, Names, Wiping
  <2> QED BY <1>1, <1>2, <2>1, <2>2, <2>3, OneLeft
<1>4. CASE /\ Live(h) /\ Accepts(cred) /\ Goto("resume", "persist")
           /\ registry' = [registry EXCEPT ![h].as = cred[1]]
  <2>1. PICK r \in Task : Become("resume", r) /\ r.at = "persist" /\ r.cred = cred
    BY <1>1, <1>4, Went DEF Places
  <2>2. task'["resume"] = r /\ \A u \in Names : u # "resume" => task'[u].at = "idle"
    BY <1>1, <2>1, Turn DEF At
  <2>3. 1 \in Slots /\ LastSlot \in Slots /\ (LastSlot = 1 => Slots = {1})
    BY SessionAssumption DEF SessionAssumption, Slots
  <2>4. cred[1] # None /\ cred[LastSlot] # None /\ \A k \in Slots \ {LastSlot} : cred[k] = cred[1]
    <3>1. PICK n \in valid : \A k \in Slots : IF k = LastSlot
                                THEN cred[k] # None /\ issued[cred[k]] = issued[n]
                                ELSE cred[k] = n
      BY <1>4 DEF Accepts
    <3>2. n # None /\ n \in Logins
      BY Apart
    <3> HIDE DEF cred
    <3>3. cred[LastSlot] # None
      BY <2>3, <3>1
    <3>4. CASE LastSlot = 1
      BY <2>3, <3>3, <3>4
    <3>5. CASE LastSlot # 1
      <4>1. \A k \in Slots \ {LastSlot} : cred[k] = n
        BY <3>1
      <4> QED BY <2>3, <3>2, <3>3, <3>5, <4>1
    <3> QED BY <3>4, <3>5
  <2>5. registry'[h].state = "live" /\ registry'[h].as = cred[1]
    <3> DEFINE c == cred[1]
    <3>1. registry \in [Handles -> Entry] /\ registry[h].state = "live"
      BY <1>4 DEF Types, Live
    <3>2. h \in Handles /\ registry' = [registry EXCEPT ![h].as = c]
      BY <1>2, <1>4
    <3> HIDE DEF h, cred, c
    <3> DEFINE e == [registry[h] EXCEPT !.as = c]
    <3>3. e.state = "live" /\ e.as = c
      BY <3>1, <3>2 DEF Entry
    <3>4. registry'[h] = e
      BY <3>1, <3>2
    <3> HIDE DEF e
    <3>5. registry'[h].state = "live" /\ registry'[h].as = c
      BY <3>3, <3>4
    <3> QED BY <3>5 DEF c
  <2>6. issued[cred[1]] = email /\ issued[cred[LastSlot]] = email
    BY <1>2, <2>3, <2>4 DEF Owned
  <2>7. Works(task["resume"].cred)'
    BY <1>1, <1>2, <2>1, <2>2, <2>4, <2>5, <2>6 DEF Works, Live
  <2>8. SigningTrue("resume")'
    BY <1>1, <1>2, <2>1, <2>2, <2>7 DEF SigningTrue
  <2>9. r.at \in PlacesOf["resume"]
    BY <2>1 DEF PlacesOf, Names, Storing
  <2> QED BY <1>1, <1>2, <2>2, <2>8, <2>9, OneLeft
<1> QED BY <1>3, <1>4 DEF CallResume

(* What the server issues is what the task goes on to store.               *)
LEMMA IssueSolo ==
  ASSUME Types, Alone, NEW t \in {"login", "hv"}, At(t, "call"), Live(task[t].handle),
         email \in Accounts, Issue(t, email),
         UNCHANGED <<saved, keyring, email, bridge, authenticated, wiped>>
  PROVE  Alone'
<1> DEFINE h == task[t].handle
<1>1. /\ ~authenticated /\ ~wiped /\ saved = email
      /\ bridge # None /\ h = bridge /\ h \in Handles /\ t \in Names /\ t \in Signing
  <2>1. t \in Names /\ t \in Signing
    BY DEF Names, Signing
  <2>2. ~wiped
    BY <2>1, NotWiped DEF At
  <2>3. ~authenticated /\ saved = email /\ bridge # None /\ h = bridge
    BY <2>1 DEF Alone, SigningTrue, Saved, Asking, At
  <2>4. h \in Handles
    BY <2>1 DEF Types, At
  <2> QED BY <2>1, <2>2, <2>3, <2>4
<1>2. PICK n \in Logins :
        /\ issued' = [issued EXCEPT ![n] = email]
        /\ registry' = [registry EXCEPT ![h].as = n,
                          ![h].pending = IF t = "hv" THEN None ELSE @]
        /\ Become(t, [task[t] EXCEPT !.at = "persist", !.cred = Bundle(n)])
  BY DEF Issue
<1> DEFINE r == [task[t] EXCEPT !.at = "persist", !.cred = Bundle(n)]
<1>3. r \in Task /\ r.at = "persist" /\ r.cred = Bundle(n)
  <2>1. task[t] \in Task /\ "persist" \in Places
    BY <1>1 DEF Types, Places
  <2>2. Bundle(n) \in Cred
    BY DEF Bundle, Cred
  <2> QED BY <2>1, <2>2 DEF Task
<1>4. Become(t, r)
  BY <1>2
<1> HIDE DEF r
<1>5. task'[t] = r /\ \A u \in Names : u # t => task'[u].at = "idle"
  BY <1>1, <1>3, <1>4, Turn DEF At
<1>6. registry'[h].state = "live" /\ registry'[h].as = n
  <2> DEFINE named == [registry EXCEPT ![h].as = n]
  <2>1. named[h].state = "live" /\ named[h].as = n
    BY <1>1 DEF Types, Entry, Live
  <2>2. registry' = [named EXCEPT ![h].pending = IF t = "hv" THEN None ELSE @]
    BY <1>2, Zenon
  <2>3. named \in [Handles -> Entry]
    BY <1>1 DEF Types, Entry
  <2> HIDE DEF named
  <2> QED BY <1>1, <2>1, <2>2, <2>3 DEF Entry
<1>7. issued'[n] = email /\ n # None /\ \A k \in Slots : r.cred[k] = n
  BY <1>2, <1>3, Apart DEF Types, Bundle
<1>8. LastSlot \in Slots
  BY SessionAssumption DEF SessionAssumption, Slots
<1>9. Works(task[t].cred)'
  BY <1>1, <1>5, <1>6, <1>7, <1>8 DEF Works, Live
<1>10. SigningTrue(t)'
  BY <1>1, <1>3, <1>5, <1>9 DEF SigningTrue
<1>11. r.at \in PlacesOf[t]
  BY <1>3 DEF PlacesOf, Names, Storing
<1> QED BY <1>1, <1>5, <1>10, <1>11, OneLeft

(* A login that has to solve a CAPTCHA hands over to the helper.           *)
LEMMA CallLoginSolo ==
  ASSUME Types, Owners, Alone, CallLogin PROVE Alone'
<1>1. /\ At("login", "call") /\ "login" \in Names /\ "hv" \in Names
      /\ UNCHANGED <<saved, keyring, email, bridge, authenticated, wiped>>
  BY DEF CallLogin, disk, history, Names
<1>2. task["login"].acct = email /\ email \in Accounts
  BY <1>1 DEF Owners, OwnerTask, At
<1>3. ~authenticated /\ ~wiped /\ saved = email
  <2>1. ~wiped
    BY <1>1, NotWiped DEF At
  <2> QED BY <1>1, <2>1 DEF Alone, Signing, SigningTrue, Saved, Asking, At
<1>4. CASE Live(task["login"].handle) /\ Issue("login", task["login"].acct)
  BY <1>1, <1>2, <1>4, IssueSolo
<1>5. CASE End("login")
  BY <1>1, <1>3, <1>5, EndSolo DEF At
<1>6. CASE task' = [task EXCEPT !["login"] = Idle,
                      !["hv"] = IF @ = Idle THEN [Idle EXCEPT !.at = "helper"] ELSE @]
  <2>1. \A u \in Names : u # "login" => task[u].at = "idle"
    BY <1>1 DEF Alone, At
  <2>2. \A u \in Names : u # "hv" => task'[u].at = "idle"
    BY <1>6, <2>1, IdleTask DEF Types
  <2>3. task'["hv"].at \in {"helper", "idle"}
    <3>1. task'["hv"] = IF task["hv"] = Idle THEN [Idle EXCEPT !.at = "helper"] ELSE task["hv"]
      BY <1>1, <1>6 DEF Types
    <3>2. [Idle EXCEPT !.at = "helper"].at = "helper"
      BY DEF Idle
    <3> QED BY <1>1, <2>1, <3>1, <3>2
  <2>4. SigningTrue("hv")' /\ task'["hv"].at \in PlacesOf["hv"]
    BY <1>1, <1>3, <2>3 DEF SigningTrue, Storing, Asking, PlacesOf, Names
  <2> QED BY <1>1, <1>3, <2>2, <2>4, OneLeft
<1> QED BY <1>4, <1>5, <1>6 DEF CallLogin

(* The CAPTCHA is solved, or its window closed.                            *)
LEMMA HelperSolo ==
  ASSUME Types, Alone, Helper PROVE Alone'
<1>1. /\ At("hv", "helper") /\ "hv" \in Names
      /\ UNCHANGED <<saved, keyring, issued, email, bridge, registry, authenticated, wiped>>
  BY DEF Helper, disk, server, memory, history, Names
<1>2. ~authenticated /\ ~wiped /\ saved = email
  <2>1. ~wiped
    BY <1>1, NotWiped DEF At
  <2> QED BY <1>1, <2>1 DEF Alone, Signing, SigningTrue, Saved, At
<1>3. CASE End("hv")
  BY <1>1, <1>2, <1>3, EndSolo DEF At
<1>4. CASE Goto("hv", "ensure")
  <2>1. PICK r \in Task : Become("hv", r) /\ r.at = "ensure"
    BY <1>1, <1>4, Went DEF Places
  <2>2. task'["hv"] = r /\ \A u \in Names : u # "hv" => task'[u].at = "idle"
    BY <1>1, <2>1, Turn DEF At
  <2>3. SigningTrue("hv")' /\ r.at \in PlacesOf["hv"]
    BY <1>1, <1>2, <2>1, <2>2 DEF SigningTrue, Asking, Storing, PlacesOf, Names
  <2> QED BY <1>1, <1>2, <2>2, <2>3, OneLeft
<1> QED BY <1>3, <1>4 DEF Helper

(* The login that asked for the CAPTCHA was of this e-mail.                *)
LEMMA CallHvSolo ==
  ASSUME Types, Owners, Alone, CallHv PROVE Alone'
<1> DEFINE h == task["hv"].handle
<1>1. /\ At("hv", "call") /\ "hv" \in Names
      /\ UNCHANGED <<saved, keyring, email, bridge, authenticated, wiped>>
  BY DEF CallHv, disk, history, Names
<1>2. ~authenticated /\ ~wiped
  <2>1. ~wiped
    BY <1>1, NotWiped DEF At
  <2> QED BY <1>1, <2>1 DEF Alone, Signing, SigningTrue, At
<1>3. registry[h].pending \in {None, email} /\ registry[h].pending \in Accounts \cup {None}
  <2>1. h \in Handles
    BY <1>1 DEF Types, At
  <2> QED BY <1>1, <2>1 DEF Owners, PendingOwner, Types, Entry
<1>4. CASE Live(h) /\ registry[h].pending # None /\ Issue("hv", registry[h].pending)
  BY <1>1, <1>3, <1>4, IssueSolo
<1>5. CASE End("hv")
  BY <1>1, <1>2, <1>5, EndSolo DEF At
<1> QED BY <1>4, <1>5 DEF CallHv

(***************************************************************************)
(* Storing the credential                                                  *)
(***************************************************************************)

(* The task goes on to store under the e-mail of the file, which is its    *)
(* own.                                                                    *)
LEMMA PersistSolo ==
  ASSUME Types, Alone, NEW t \in Names, Persist(t) PROVE Alone'
<1> DEFINE r == [task[t] EXCEPT !.at = "store", !.acct = email, !.todo = Slots]
<1>1. /\ At(t, "persist") /\ Become(t, r)
      /\ UNCHANGED <<saved, keyring, issued, email, bridge, registry, authenticated, wiped>>
  BY DEF Persist, disk, server, memory, history
<1>2. t \in Signing /\ ~authenticated /\ ~wiped /\ saved = email /\ Works(task[t].cred)
        /\ email \in Accounts
  <2>1. t \in Signing
    BY <1>1 DEF Alone, At, PlacesOf, Names, Signing, Wiping, Asking, Storing
  <2>2. ~wiped
    BY <1>1, <2>1, NotWiped DEF At, Signing
  <2> QED BY <1>1, <2>1, <2>2 DEF Alone, SigningTrue, Saved, Storing, At, Works
<1>3. r \in Task /\ r.at = "store" /\ r.acct = email /\ r.todo = Slots /\ r.cred = task[t].cred
  BY <1>2 DEF Types, Task, Places
<1> HIDE DEF r
<1>4. task'[t] = r /\ \A u \in Names : u # t => task'[u].at = "idle"
  BY <1>1, <1>3, Turn DEF At
<1>5. Slots # {} /\ Slots \ Slots = {}
  BY SessionAssumption DEF SessionAssumption, Slots
<1>6. Works(task[t].cred)' /\ Stored(t)'
  BY <1>1, <1>2, <1>3, <1>4, <1>5 DEF Works, Live, Stored
<1>7. SigningTrue(t)' /\ r.at \in PlacesOf[t]
  <2>1. r.at \in PlacesOf[t]
    BY <1>2, <1>3 DEF PlacesOf, Names, Storing, Signing
  <2> QED BY <1>1, <1>2, <1>3, <1>4, <1>5, <1>6, <2>1 DEF SigningTrue, Saved, Asking
<1> QED BY <1>1, <1>2, <1>4, <1>7, OneLeft DEF Signing

(* The slots are filled one after the other with one credential.           *)
LEMMA StoreSolo ==
  ASSUME Types, Alone, NEW t \in Names, Store(t) PROVE Alone'
<1> DEFINE k == Min(task[t].todo)
           left == task[t].todo \ {k}
           cred == task[t].cred
           r == [task[t] EXCEPT !.todo = left, !.at = IF left = {} THEN "flag" ELSE "store"]
<1>1. /\ At(t, "store")
      /\ UNCHANGED <<saved, issued, email, bridge, registry, authenticated, wiped>>
  BY DEF Store, server, memory, history
<1>2. /\ t \in Signing /\ ~authenticated /\ ~wiped /\ saved = email /\ Works(cred)
      /\ email \in Accounts /\ task[t].acct = email /\ task[t].todo # {} /\ Stored(t)
  <2>1. t \in Signing
    BY <1>1 DEF Alone, At, PlacesOf, Names, Signing, Wiping, Asking, Storing
  <2>2. ~wiped
    BY <1>1, <2>1, NotWiped DEF At, Signing
  <2> QED BY <1>1, <2>1, <2>2 DEF Alone, SigningTrue, Saved, Storing, At, Works
<1>3. CASE End(t)
  BY <1>1, <1>2, <1>3, EndSolo DEF At
<1>4. CASE keyring' = [keyring EXCEPT ![task[t].acct][k] = cred[k]] /\ Become(t, r)
  <2> HIDE DEF k
  <2>1. /\ r \in Task /\ r.at = (IF left = {} THEN "flag" ELSE "store") /\ r.acct = email
        /\ r.todo = left /\ r.cred = cred
    BY <1>2 DEF Types, Task, Places
  <2>2. Become(t, r)
    BY <1>4
  <2> HIDE DEF r
  <2>3. task'[t] = r /\ \A u \in Names : u # t => task'[u].at = "idle"
    BY <1>1, <2>1, <2>2, Turn DEF At
  <2>4. keyring[email] \in Cred /\ cred \in Cred /\ task[t].todo \subseteq Slots
    BY <1>2 DEF Types, Task
  <2>5. keyring'[email] = [keyring[email] EXCEPT ![k] = cred[k]]
    BY <1>2, <1>4 DEF Types
  <2>6. \A j \in Slots \ left : keyring'[email][j] = cred[j]
    BY <1>2, <2>4, <2>5 DEF Stored, Cred
  <2>7. Works(task[t].cred)' /\ Stored(t)'
    BY <1>1, <1>2, <2>1, <2>3, <2>6 DEF Works, Live, Stored
  <2>8. left = {} => keyring'[email] = cred
    BY <2>4, <2>5, <2>6 DEF Cred
  <2>9. SigningTrue(t)'
    BY <1>1, <1>2, <2>1, <2>3, <2>7, <2>8 DEF SigningTrue, Asking, Saved
  <2>10. r.at \in PlacesOf[t]
    BY <1>2, <2>1 DEF PlacesOf, Names, Storing, Signing
  <2> QED BY <1>1, <1>2, <2>3, <2>9, <2>10, OneLeft DEF Signing
<1> QED BY <1>3, <1>4 DEF Store

(* Signed in is who has stored all of it.                                  *)
LEMMA FlagSolo ==
  ASSUME Types, Alone, NEW t \in Names, Flag(t) PROVE Alone'
<1>1. /\ At(t, "flag") /\ End(t)
      /\ UNCHANGED <<saved, keyring, issued, email, bridge, registry, wiped>>
  BY DEF Flag, disk, server, history
<1>2. t \in Signing /\ ~wiped
  <2>1. t \in Signing
    BY <1>1 DEF Alone, At, PlacesOf, Names, Signing, Wiping, Asking, Storing
  <2>2. ~wiped
    BY <1>1, <2>1, NotWiped DEF At, Signing
  <2> QED BY <2>1, <2>2
<1>3. Works(task[t].cred) /\ keyring[email] = task[t].cred
  BY <1>1, <1>2 DEF Alone, SigningTrue, Storing, At
<1>4. Works(keyring[email])'
  BY <1>1, <1>3 DEF Works, Live
<1> QED BY <1>1, <1>2, <1>4, EndSolo DEF At

(***************************************************************************)
(* Signing out                                                             *)
(***************************************************************************)

(* The logout takes the bridge's handle before it tells the server.        *)
LEMMA LogoutSolo ==
  ASSUME Types, Alone, Unflag \/ TakeBridge \/ Revoke PROVE Alone'
<1>1. /\ At("logout", "unflag") \/ At("logout", "take") \/ At("logout", "revoke")
      /\ "logout" \in Names
      /\ UNCHANGED <<saved, keyring, email, wiped>>
  BY DEF Unflag, TakeBridge, Revoke, disk, history, At, Names
<1>2. ~wiped
  BY <1>1, NotWiped DEF At
<1>3. email \in Accounts /\ saved \in {email, Torn}
  BY <1>1 DEF Alone, LogoutTrue, At
<1>4. ASSUME NEW r \in Task, Become("logout", r), ~authenticated',
             r.at = "take" \/ (r.at \in {"revoke", "wipe"} /\ bridge' = None)
      PROVE  Alone'
  <2>1. task'["logout"] = r /\ \A u \in Names : u # "logout" => task'[u].at = "idle"
    BY <1>1, <1>4, Turn DEF At
  <2>2. LogoutTrue'
    BY <1>1, <1>3, <1>4, <2>1 DEF LogoutTrue
  <2>3. r.at \in PlacesOf["logout"]
    BY <1>4 DEF PlacesOf, Names, Wiping
  <2> QED BY <1>1, <1>2, <1>4, <2>1, <2>2, <2>3, OneLeft DEF Signing
<1>5. CASE Unflag
  <2>1. PICK r \in Task : Become("logout", r) /\ r.at = "take"
    BY <1>1, <1>5, Went DEF Unflag, Places
  <2> QED BY <1>4, <1>5, <2>1 DEF Unflag
<1>6. CASE TakeBridge
  <2> DEFINE r == [task["logout"] EXCEPT !.handle = bridge,
                     !.at = IF bridge = None THEN "wipe" ELSE "revoke"]
  <2>1. r \in Task /\ r.at \in {"revoke", "wipe"}
    BY <1>1 DEF Types, Task, Places
  <2>2. Become("logout", r) /\ bridge' = None /\ authenticated' = authenticated
    BY <1>6 DEF TakeBridge
  <2>3. ~authenticated
    BY <1>6 DEF TakeBridge, Alone, LogoutTrue, At
  <2> HIDE DEF r
  <2> QED BY <1>4, <2>1, <2>2, <2>3
<1>7. CASE Revoke
  <2>1. Goto("logout", "wipe") /\ UNCHANGED <<bridge, authenticated>> /\ At("logout", "revoke")
    BY <1>7 DEF Revoke
  <2>2. ~authenticated /\ bridge = None
    BY <2>1 DEF Alone, LogoutTrue, At
  <2>3. PICK r \in Task : Become("logout", r) /\ r.at = "wipe"
    BY <1>1, <2>1, Went DEF Places
  <2> QED BY <1>4, <2>1, <2>2, <2>3
<1> QED BY <1>5, <1>6, <1>7

(* A logout deletes the slots of the e-mail that was signed in.            *)
LEMMA WipeSolo ==
  ASSUME Types, Alone, NEW t \in Names, Wipe(t) PROVE Alone'
<1> DEFINE r == [task[t] EXCEPT !.at = "delete", !.acct = email, !.todo = Slots]
<1>1. /\ At(t, "wipe") /\ Become(t, r) /\ wiped' = (t = "logout")
      /\ UNCHANGED <<saved, keyring, issued, email, bridge, registry, authenticated>>
  BY DEF Wipe, disk, server, memory
<1>2. t \in {"resume", "logout"} /\ ~authenticated
  <2>1. t \in {"resume", "logout"}
    BY <1>1 DEF Alone, At, PlacesOf, Names, Asking, Storing
  <2> QED BY <1>1, <2>1 DEF Alone, Signing, SigningTrue, LogoutTrue, At
<1>3. email # Torn
  BY <1>1 DEF Types, At
<1>4. r \in Task /\ r.at = "delete" /\ r.acct = email /\ r.todo = Slots
  BY <1>3 DEF Types, Task, Places
<1> HIDE DEF r
<1>5. task'[t] = r /\ \A u \in Names : u # t => task'[u].at = "idle"
  BY <1>1, <1>4, Turn DEF At
<1>6. Slots # {} /\ Slots \ Slots = {}
  BY SessionAssumption DEF SessionAssumption, Slots
<1>7. t = "resume" => SigningTrue(t)'
  BY <1>1, <1>2, <1>4, <1>5 DEF SigningTrue, Saved, Asking, Storing
<1>8. CASE t = "logout"
  <2>1. bridge = None /\ email \in Accounts /\ saved \in {email, Torn}
    BY <1>1, <1>8 DEF Alone, LogoutTrue, At
  <2>2. LogoutTrue'
    BY <1>1, <1>2, <1>4, <1>5, <1>6, <1>8, <2>1 DEF LogoutTrue, Wiped
  <2>3. WipedTrue'
    BY <1>1, <1>2, <1>4, <1>5, <1>8, <2>1 DEF WipedTrue, At, Names
  <2>4. r.at \in PlacesOf[t]
    BY <1>4, <1>8 DEF PlacesOf, Names, Wiping
  <2> QED BY <1>1, <1>2, <1>5, <1>8, <2>2, <2>3, <2>4, OneLeft DEF Signing
<1>9. CASE t = "resume"
  <2>1. r.at \in PlacesOf[t]
    BY <1>4, <1>9 DEF PlacesOf, Names, Wiping
  <2> QED BY <1>1, <1>2, <1>5, <1>7, <1>9, <2>1, OneLeft
<1> QED BY <1>2, <1>8, <1>9

(* With the last slot a logout has deleted all of them, unless one failed. *)
LEMMA DeleteSolo ==
  ASSUME Types, Alone, NEW t \in Names, NEW k \in Slots, Delete(t, k) PROVE Alone'
<1> DEFINE left == task[t].todo \ {k}
           r == [task[t] EXCEPT !.todo = @ \ {k}]
<1>1. /\ At(t, "delete") /\ k \in task[t].todo /\ task[t].todo \subseteq Slots
      /\ UNCHANGED <<saved, issued, email, bridge, registry, authenticated>>
  BY DEF Delete, server, memory, Types, Task
<1>2. t \in {"resume", "logout"} /\ ~authenticated
  <2>1. t \in {"resume", "logout"}
    BY <1>1 DEF Alone, At, PlacesOf, Names, Asking, Storing
  <2> QED BY <1>1, <2>1 DEF Alone, Signing, SigningTrue, LogoutTrue, At
<1>3. \/ keyring' = [keyring EXCEPT ![task[t].acct][k] = None] /\ wiped' = wiped
      \/ wiped' = FALSE /\ keyring' = keyring
  BY DEF Delete
<1>4. CASE t = "resume"
  <2>1. ~wiped'
    <3>1. ~wiped
      BY <1>1, <1>4, NotWiped DEF At
    <3> QED BY <1>3, <3>1
  <2>2. CASE End(t)
    BY <1>1, <1>2, <2>1, <2>2, EndSolo DEF At
  <2>3. CASE Become(t, r)
    <3>1. r \in Task /\ r.at = "delete"
      BY <1>1 DEF Types, Task, At
    <3>2. Become(t, r)
      BY <2>3
    <3> HIDE DEF r
    <3>3. task'[t] = r /\ \A u \in Names : u # t => task'[u].at = "idle"
      BY <1>1, <3>1, <3>2, Turn DEF At
    <3>4. SigningTrue(t)' /\ r.at \in PlacesOf[t]
      BY <1>1, <1>2, <1>4, <3>1, <3>3 DEF SigningTrue, Saved, Asking, Storing, PlacesOf, Names, Wiping
    <3> QED BY <1>1, <1>2, <1>4, <2>1, <3>3, <3>4, OneLeft
  <2> QED BY <2>2, <2>3 DEF Delete
<1>5. CASE t = "logout"
  <2>1. /\ bridge = None /\ email \in Accounts /\ saved \in {email, Torn}
        /\ task[t].acct = email /\ (wiped => Wiped(t))
    BY <1>1, <1>5 DEF Alone, LogoutTrue, At
  <2>2. ASSUME wiped' PROVE \A j \in Slots \ left : keyring'[email][j] = None
    <3>1. wiped /\ keyring' = [keyring EXCEPT ![email][k] = None]
      BY <1>3, <2>1, <2>2
    <3>2. keyring[email] \in Cred /\ keyring'[email] = [keyring[email] EXCEPT ![k] = None]
      BY <2>1, <3>1 DEF Types
    <3> QED BY <2>1, <3>1, <3>2 DEF Wiped, Cred
  <2>3. keyring' \in [Accounts -> Cred]
    BY <1>3, <2>1 DEF Types, Cred
  <2>4. CASE task[t].todo = {k} /\ End(t)
    <3>1. task'[t] = Idle /\ \A u \in Names : u # t => task'[u].at = "idle"
      BY <1>1, <2>4, Turn, IdleTask DEF At, End
    <3>2. wiped' => keyring'[email] = NoCred
      BY <2>1, <2>2, <2>3, <2>4 DEF NoCred, Cred
    <3>3. wiped' => WipedTrue'
      BY <1>1, <1>2, <1>5, <2>1, <3>1, <3>2, IdleTask DEF WipedTrue, At, Names
    <3> QED BY <1>1, <1>2, <2>4, <3>3, EndSolo DEF At
  <2>5. CASE task[t].todo # {k} /\ Become(t, r)
    <3>1. r \in Task /\ r.at = "delete" /\ r.acct = email /\ r.todo = left
      BY <1>1, <2>1 DEF Types, Task, At
    <3>2. Become(t, r)
      BY <2>5
    <3> HIDE DEF r
    <3>3. task'[t] = r /\ \A u \in Names : u # t => task'[u].at = "idle"
      BY <1>1, <3>1, <3>2, Turn DEF At
    <3>4. LogoutTrue'
      BY <1>1, <1>2, <1>5, <2>1, <2>2, <2>5, <3>1, <3>3 DEF LogoutTrue, Wiped
    <3>5. wiped' => WipedTrue'
      BY <1>1, <1>2, <1>5, <2>1, <3>1, <3>3 DEF WipedTrue, At, Names
    <3>6. r.at \in PlacesOf[t]
      BY <1>5, <3>1 DEF PlacesOf, Names, Wiping
    <3> QED BY <1>1, <1>2, <1>5, <3>3, <3>4, <3>5, <3>6, OneLeft DEF Signing
  <2> QED BY <2>4, <2>5 DEF Delete
<1> QED BY <1>2, <1>4, <1>5

(***************************************************************************)
(* The server and the process                                              *)
(***************************************************************************)

(* A restart leaves every task idle and nobody signed in.                  *)
LEMMA QuitSolo ==
  ASSUME Types, Alone, Quit PROVE Alone'
<1>1. /\ email' = saved /\ bridge' = None /\ authenticated' = FALSE /\ task' = Boot(saved)
      /\ wiped' = (wiped /\ At("logout", "idle")) /\ UNCHANGED <<saved, keyring>>
  BY DEF Quit, disk
<1>2. [Idle EXCEPT !.at = "email"].at = "email" /\ Idle.at = "idle"
  BY DEF Idle
<1>3. /\ task'["resume"].at \in {"idle", "email"} /\ "resume" \in Names
      /\ \A u \in Names : u # "resume" => task'[u].at = "idle"
  BY <1>1, <1>2 DEF Boot, Names
<1>4. SigningTrue("resume")' /\ task'["resume"].at \in PlacesOf["resume"]
  BY <1>1, <1>3 DEF SigningTrue, Asking, Storing, PlacesOf, Names
<1>5. ASSUME wiped' PROVE WipedTrue'
  <2>1. wiped /\ At("logout", "idle")
    BY <1>1, <1>5
  <2>2. /\ saved \in {email, Torn} /\ email \in Accounts \cup {Torn}
        /\ (email # Torn => keyring[email] = NoCred)
    BY <2>1 DEF Alone, WipedTrue
  <2> QED BY <1>1, <1>3, <2>2 DEF WipedTrue, At, Names
<1> QED BY <1>1, <1>3, <1>4, <1>5, OneLeft

(* What nobody looks at.                                                   *)
LEMMA StillSolo ==
  ASSUME Alone, UNCHANGED <<saved, keyring, issued, email, bridge, registry, authenticated,
                            task, wiped>>
  PROVE  Alone'
BY DEF Alone, SigningTrue, LogoutTrue, WipedTrue, Works, Live, Stored, Wiped, At

(* One task at a time: every step of the system keeps it so.               *)
LEMMA AloneNext ==
  ASSUME OwnerInv, Ranges, Accounted, AloneInv, [Next]_vars
  PROVE  AloneInv'
<1> SUFFICES ASSUME overlaps' = 0 PROVE ~renamed' /\ Alone'
  BY DEF AloneInv
<1>1. Types /\ valid \subseteq Logins
  BY DEF OwnerInv, Accounted
<1>2. CASE SignOut \/ Settings \/ \E a \in Accounts : SignIn(a)
  BY <1>1, <1>2, SignInSolo, SignOutSolo, SettingsSolo
<1>3. ASSUME UNCHANGED <<overlaps, renamed>>
      PROVE  ~renamed' /\ Alone /\ Owners
  BY <1>3 DEF AloneInv, OwnerInv
<1>4. CASE ResumeEmail \/ CallResume \/ \E k \in Slots : Fetch(k)
  BY <1>1, <1>3, <1>4, ResumeEmailSolo, CallResumeSolo, FetchSolo
     DEF ResumeEmail, CallResume, Fetch, history
<1>5. CASE CallLogin \/ Helper \/ CallHv
  BY <1>1, <1>3, <1>5, CallLoginSolo, HelperSolo, CallHvSolo
     DEF CallLogin, Helper, CallHv, history
<1>6. CASE Unflag \/ TakeBridge \/ Revoke
  BY <1>1, <1>3, <1>6, LogoutSolo DEF Unflag, TakeBridge, Revoke, history
<1>7. ASSUME NEW t \in Names, Common(t) PROVE ~renamed' /\ Alone'
  <2>1. UNCHANGED <<overlaps, renamed>>
    BY <1>7 DEF Common, Save, Write, EnsureBridge, InitBridge, Persist, Store, Flag, Wipe,
                Delete, history
  <2> QED BY <1>1, <1>3, <1>7, <2>1, SaveSolo, WriteSolo, EnsureSolo, PersistSolo, StoreSolo,
             FlagSolo, WipeSolo, DeleteSolo DEF Common
<1>8. ASSUME NEW n \in Logins, Expire(n) PROVE ~renamed' /\ Alone'
  BY <1>3, <1>8, StillSolo DEF Expire, disk, memory, history
<1>9. CASE Quit
  BY <1>1, <1>3, <1>9, QuitSolo DEF Quit
<1>10. CASE UNCHANGED vars
  BY <1>3, <1>10, StillSolo DEF vars, disk, server, memory, history
<1>11. CASE SaveTotp
  BY <1>3, <1>11, StillSolo DEF SaveTotp, server, memory, history
<1> QED BY <1>2, <1>4, <1>5, <1>6, <1>7, <1>8, <1>9, <1>10, <1>11 DEF Next

(* The first start has nothing stored and nobody signed in.                *)
LEMMA AloneInit == Init => AloneInv
<1> SUFFICES ASSUME Init PROVE ~renamed /\ Alone
  BY DEF AloneInv
<1>1. [Idle EXCEPT !.at = "email"].at = "email" /\ Idle.at = "idle"
  BY DEF Idle
<1>2. /\ task["resume"].at \in {"idle", "email"}
      /\ \A u \in Names : u # "resume" => task[u].at = "idle"
  BY <1>1 DEF Init, Boot, Names
<1>3. /\ ~authenticated /\ ~wiped /\ ~renamed /\ saved = email
  BY DEF Init
<1>4. \A t \in Names : task[t].at \in PlacesOf[t]
  BY <1>2 DEF PlacesOf, Names
<1>5. \A t \in Signing : SigningTrue(t)
  BY <1>2, <1>3 DEF Signing, SigningTrue, Asking, Storing, Names
<1>6. LogoutTrue /\ task["settings"].at = "idle"
  BY <1>2 DEF LogoutTrue, Names
<1> QED BY <1>2, <1>3, <1>4, <1>5, <1>6 DEF Alone, At

(* As long as no button is pressed while a task is at work, one task is at *)
(* work at a time.                                                         *)
THEOREM OneTaskAtATime == Spec => []AloneInv
<1>1. Init => Ranges /\ Accounted
  BY TypesInit
<1> QED BY <1>1, AloneInit, RangesNext, AccountedNext, AloneNext, OwnerInvariant, PTL DEF Spec

-----------------------------------------------------------------------------
(* What the server accepts, and the end of a session                       *)

(* A session nobody has made works with no login.                          *)
Fresh == \A h \in Handles : registry[h].state = "unused" => registry[h].as = None

(* The server accepts the login the bridge works with, unless it has ended *)
(* that login by itself.                                                   *)
Honoured == bridge # None => registry[bridge].as \in {None} \cup valid \cup expired

(* The session a logout revokes is that of the stored credential.          *)
LogoutKnows ==
  /\ task["logout"].at \in {"unflag", "take"} => Works(keyring[email])
  /\ At("logout", "revoke") =>
       /\ task["logout"].handle \in Handles
       /\ keyring[email][1] = registry[task["logout"].handle].as

(* Once it is revoked nobody works with it, and what a start resumes is    *)
(* refused.                                                                *)
RevokedTrue ==
  /\ At("login", "idle") /\ At("hv", "idle")
  /\ task["logout"].at \in {"idle", "wipe", "delete"} /\ task["resume"].at \notin Storing
  /\ ~authenticated /\ saved \in {email, Torn} /\ email \in Accounts \cup {Torn}
  /\ bridge # None => registry[bridge].as = None
  /\ email # Torn => keyring[email][1] \notin valid
  /\ task["resume"].at \in {"fetch"} \cup Asking => task["resume"].cred[1] \notin valid

Ended    == Honoured /\ LogoutKnows /\ (revoked => RevokedTrue)
EndedInv == Fresh /\ (overlaps = 0 => Ended)

(* The first slot holds a token of the login.                              *)
LEMMA FirstSlot == 1 \in Slots \ {LastSlot}
BY SessionAssumption DEF SessionAssumption, Slots

(* A credential the server accepts is of a login it accepts.               *)
LEMMA AcceptsFirst ==
  ASSUME NEW cred, Accepts(cred)
  PROVE  cred[1] \in valid
BY FirstSlot DEF Accepts

(* What the server issues, the session of the task works with, and no      *)
(* other session changes.                                                  *)
LEMMA IssueSessions ==
  ASSUME Types, NEW t \in Names, At(t, "call"), NEW a, Issue(t, a)
  PROVE  \E n \in Logins :
           /\ valid' = valid \cup {n} /\ registry'[task[t].handle].as = n
           /\ registry'[task[t].handle].state = registry[task[t].handle].state
           /\ \A g \in Handles : g # task[t].handle => registry'[g] = registry[g]
<1> DEFINE h == task[t].handle
<1>1. h \in Handles
  BY DEF Types, At
<1>2. PICK n \in Logins :
        /\ valid' = valid \cup {n}
        /\ registry' = [registry EXCEPT ![h].as = n,
                          ![h].pending = IF t = "hv" THEN None ELSE @]
  BY DEF Issue
<1> DEFINE named == [registry EXCEPT ![h].as = n]
<1>3. /\ named \in [Handles -> Entry] /\ named[h].as = n /\ named[h].state = registry[h].state
      /\ \A g \in Handles : g # h => named[g] = registry[g]
  BY <1>1 DEF Types, Entry
<1>4. registry' = [named EXCEPT ![h].pending = IF t = "hv" THEN None ELSE @]
  BY <1>2, Zenon
<1> HIDE DEF named
<1>5. /\ registry'[h].as = n /\ registry'[h].state = registry[h].state
      /\ \A g \in Handles : g # h => registry'[g] = registry[g]
  <2> HIDE DEF h
  <2> QED BY <1>1, <1>3, <1>4 DEF Entry
<1> QED BY <1>2, <1>5

(* A session is made before it is worked with.                             *)
LEMMA FreshNext ==
  ASSUME Types, Fresh, [Next]_vars
  PROVE  Fresh'
<1>1. CASE UNCHANGED registry
  BY <1>1 DEF Fresh
<1>2. ASSUME NEW t \in Names, InitBridge(t) PROVE Fresh'
  <2>1. PICK h \in Handles : registry' = [registry EXCEPT ![h].state = "live"]
    BY <1>2 DEF InitBridge
  <2> QED BY <2>1 DEF Types, Entry, Fresh
<1>3. CASE CallResume
  <2> DEFINE h == task["resume"].handle
             c == task["resume"].cred[1]
  <2>1. UNCHANGED registry \/ (Live(h) /\ registry' = [registry EXCEPT ![h].as = c])
    BY <1>3 DEF CallResume
  <2> HIDE DEF h, c
  <2> QED BY <2>1 DEF Types, Entry, Fresh, Live
<1>4. ASSUME NEW t \in Names, At(t, "call"), NEW a, Live(task[t].handle), Issue(t, a) PROVE Fresh'
  <2>1. PICK n \in Logins :
          /\ registry'[task[t].handle].state = registry[task[t].handle].state
          /\ \A g \in Handles : g # task[t].handle => registry'[g] = registry[g]
    BY <1>4, IssueSessions
  <2> QED BY <1>4, <2>1 DEF Fresh, Live
<1>5. ASSUME NEW h, NEW p, registry' = [registry EXCEPT ![h].pending = p] PROVE Fresh'
  BY <1>5 DEF Types, Entry, Fresh
<1>6. CASE CallLogin
  BY <1>1, <1>4, <1>5, <1>6 DEF CallLogin, Names
<1>7. CASE CallHv
  BY <1>1, <1>4, <1>5, <1>7 DEF CallHv, Names
<1>8. CASE Revoke
  <2> DEFINE h == task["logout"].handle
  <2>1. UNCHANGED registry \/ registry' = [registry EXCEPT ![h].state = "dropped"]
    BY <1>8 DEF Revoke
  <2> HIDE DEF h
  <2> QED BY <2>1 DEF Types, Entry, Fresh
<1>9. CASE Quit
  BY <1>9 DEF Quit, Fresh, Absent
<1>10. CASE SignOut \/ Settings \/ SaveTotp \/ \E a \in Accounts : SignIn(a)
  BY <1>1, <1>10 DEF SignOut, Settings, SaveTotp, SignIn, memory
<1>11. CASE ResumeEmail \/ Helper \/ Unflag \/ TakeBridge \/ \E k \in Slots : Fetch(k)
  BY <1>1, <1>11 DEF ResumeEmail, Helper, Unflag, TakeBridge, Fetch, memory
<1>12. ASSUME NEW t \in Names, Common(t) PROVE Fresh'
  BY <1>1, <1>2, <1>12 DEF Common, Save, Write, EnsureBridge, Persist, Store, Flag, Wipe, Delete,
                           memory
<1>13. ASSUME NEW n \in Logins, Expire(n) PROVE Fresh'
  BY <1>1, <1>13 DEF Expire, memory
<1>14. CASE UNCHANGED vars
  BY <1>1, <1>14 DEF vars, memory
<1> QED BY <1>3, <1>6, <1>7, <1>8, <1>9, <1>10, <1>11, <1>12, <1>13, <1>14 DEF Next

(* An overlap is not forgotten.                                            *)
LEMMA OverlapStays ==
  ASSUME Ranges, [Next]_vars, overlaps' = 0
  PROVE  overlaps = 0
<1>1. CASE SignOut \/ Settings \/ \E a \in Accounts : SignIn(a)
  BY <1>1, PressedAlone DEF SignOut, Settings, SignIn
<1>2. CASE UNCHANGED overlaps
  BY <1>2
<1>3. CASE SaveTotp \/ ResumeEmail \/ CallResume \/ \E k \in Slots : Fetch(k)
  BY <1>2, <1>3 DEF SaveTotp, ResumeEmail, CallResume, Fetch, history
<1>4. CASE CallLogin \/ Helper \/ CallHv \/ Unflag \/ TakeBridge \/ Revoke
  BY <1>2, <1>4 DEF CallLogin, Helper, CallHv, Unflag, TakeBridge, Revoke, history
<1>5. ASSUME NEW t \in Names, Common(t) PROVE overlaps = 0
  BY <1>2, <1>5 DEF Common, Save, Write, EnsureBridge, InitBridge, Persist, Store, Flag, Wipe,
                    Delete, history
<1>6. CASE Quit \/ UNCHANGED vars \/ \E n \in Logins : Expire(n)
  BY <1>2, <1>6 DEF Quit, Expire, vars, history
<1> QED BY <1>1, <1>3, <1>4, <1>5, <1>6 DEF Next

(* The bridge works with a login that was accepted, and one is ended by    *)
(* the logout, which has taken the handle, or by the server.               *)
LEMMA HonouredNext ==
  ASSUME Types, Alone, Fresh, Honoured, [Next]_vars
  PROVE  Honoured'
<1>1. ASSUME UNCHANGED <<bridge, expired>>, valid \subseteq valid',
             bridge # None => registry'[bridge].as = registry[bridge].as
      PROVE  Honoured'
  BY <1>1 DEF Honoured
<1>2. CASE UNCHANGED <<bridge, registry, valid, expired>>
  BY <1>1, <1>2
<1>3. CASE bridge' = None
  BY <1>3 DEF Honoured
<1>4. ASSUME NEW t \in Names, InitBridge(t) PROVE Honoured'
  <2>1. PICK h \in Handles : /\ registry[h].state = "unused" /\ bridge' = h
                             /\ registry' = [registry EXCEPT ![h].state = "live"]
    BY <1>4 DEF InitBridge
  <2>2. registry'[h].as = None
    BY <2>1 DEF Types, Entry, Fresh
  <2> QED BY <2>1, <2>2 DEF Honoured
<1>5. CASE CallResume
  <2> DEFINE h == task["resume"].handle
             c == task["resume"].cred[1]
  <2>1. CASE UNCHANGED registry
    BY <1>2, <1>5, <2>1 DEF CallResume, server, bounds, Fault
  <2>2. CASE Accepts(task["resume"].cred) /\ registry' = [registry EXCEPT ![h].as = c]
    <3>1. c \in valid /\ UNCHANGED <<bridge, valid, expired>>
      BY <1>5, <2>2, AcceptsFirst DEF CallResume, server, bounds, Fault
    <3> HIDE DEF h, c
    <3> QED BY <2>2, <3>1 DEF Types, Entry, Honoured
  <2> QED BY <1>5, <2>1, <2>2 DEF CallResume
<1>6. ASSUME NEW t \in Names, At(t, "call"), NEW a, Issue(t, a), UNCHANGED <<bridge, expired>>
      PROVE  Honoured'
  <2>1. PICK n \in Logins :
          /\ valid' = valid \cup {n} /\ registry'[task[t].handle].as = n
          /\ \A g \in Handles : g # task[t].handle => registry'[g] = registry[g]
    BY <1>6, IssueSessions
  <2>2. bridge \in Handles \cup {None}
    BY DEF Types
  <2> QED BY <1>6, <2>1, <2>2 DEF Honoured
<1>7. ASSUME NEW h, NEW p, registry' = [registry EXCEPT ![h].pending = p],
             UNCHANGED <<bridge, valid, expired>>
      PROVE  Honoured'
  <2>1. bridge # None => registry'[bridge].as = registry[bridge].as
    BY <1>7 DEF Types, Entry
  <2> QED BY <1>1, <1>7, <2>1
<1>8. CASE CallLogin
  <2>1. At("login", "call") /\ "login" \in Names /\ UNCHANGED <<bridge, expired>>
    BY <1>8 DEF CallLogin, bounds, Names
  <2>2. CASE Issue("login", task["login"].acct)
    BY <1>6, <2>1, <2>2
  <2>3. CASE UNCHANGED valid /\ ~Issue("login", task["login"].acct)
    BY <1>2, <1>7, <1>8, <2>1, <2>3 DEF CallLogin
  <2> QED BY <1>8, <2>2, <2>3 DEF CallLogin, server
<1>9. CASE CallHv
  <2>1. At("hv", "call") /\ "hv" \in Names /\ UNCHANGED <<bridge, expired>>
    BY <1>9 DEF CallHv, bounds, Names
  <2> DEFINE a == registry[task["hv"].handle].pending
  <2>2. CASE Issue("hv", a)
    BY <1>6, <2>1, <2>2
  <2>3. CASE UNCHANGED valid /\ ~Issue("hv", a)
    BY <1>2, <1>7, <1>9, <2>1, <2>3 DEF CallHv
  <2> QED BY <1>9, <2>2, <2>3 DEF CallHv, server
<1>10. CASE Revoke
  <2>1. bridge = None /\ UNCHANGED bridge
    BY <1>10 DEF Revoke, Alone, LogoutTrue, At
  <2> QED BY <1>3, <2>1
<1>11. CASE TakeBridge \/ Quit
  BY <1>3, <1>11 DEF TakeBridge, Quit
<1>12. ASSUME NEW n \in Logins, Expire(n) PROVE Honoured'
  <2>1. /\ valid' = valid \ {n} /\ expired' = expired \cup {n}
        /\ UNCHANGED <<bridge, registry>>
    BY <1>12 DEF Expire, memory
  <2> QED BY <2>1 DEF Honoured
<1>13. CASE SignOut \/ Settings \/ SaveTotp \/ \E a \in Accounts : SignIn(a)
  BY <1>2, <1>13 DEF SignOut, Settings, SaveTotp, SignIn, server, memory, bounds
<1>14. CASE ResumeEmail \/ Helper \/ Unflag \/ \E k \in Slots : Fetch(k)
  BY <1>2, <1>14 DEF ResumeEmail, Helper, Unflag, Fetch, server, memory, bounds, Fault
<1>15. ASSUME NEW t \in Names, Common(t) PROVE Honoured'
  BY <1>2, <1>4, <1>15 DEF Common, Save, Write, EnsureBridge, Persist, Store, Flag, Wipe, Delete,
                           server, memory, bounds, Fault
<1>16. CASE UNCHANGED vars
  BY <1>2, <1>16 DEF vars, server, memory, bounds
<1> QED BY <1>5, <1>8, <1>9, <1>10, <1>11, <1>12, <1>13, <1>14, <1>15, <1>16 DEF Next

(* The logout finds the session its e-mail can resume.                     *)
LEMMA KnowsNext ==
  ASSUME Types, Ranges, Alone, LogoutKnows, [Next]_vars, overlaps' = 0
  PROVE  LogoutKnows'
<1>1. "logout" \in Names /\ \A t \in Names : t # "logout" /\ ~At(t, "idle") => At("logout", "idle")
  BY DEF Alone, Names
<1>2. ASSUME task'["logout"].at \notin {"unflag", "take", "revoke"} PROVE LogoutKnows'
  BY <1>2 DEF LogoutKnows, At
<1>3. ASSUME NEW t \in Names, t # "logout", NEW r, Become(t, r), At("logout", "idle")
      PROVE  LogoutKnows'
  <2>1. task'["logout"] = task["logout"]
    BY <1>1, <1>3 DEF Become, Types
  <2> QED BY <1>2, <1>3, <2>1 DEF At
<1>4. CASE UNCHANGED <<saved, keyring, issued, email, bridge, registry, task>>
  BY <1>4 DEF LogoutKnows, Works, Live, At
<1>5. ASSUME NEW place \in Places, Goto("logout", place)
      PROVE  task'["logout"].at = place
  BY <1>1, <1>5, Went, BecomeType
<1>6. CASE \E a \in Accounts : SignIn(a)
  BY <1>1, <1>3, <1>6, PressedAlone DEF SignIn, At, Names
<1>7. CASE Settings
  BY <1>1, <1>3, <1>7, PressedAlone DEF Settings, At, Names
<1>8. CASE SignOut
  <2>1. Works(keyring[email]) /\ UNCHANGED <<saved, keyring, issued, email, bridge, registry>>
    BY <1>8 DEF SignOut, Alone, disk, server, memory
  <2>2. task'["logout"].at = "unflag"
    BY <1>1, <1>8 DEF SignOut, Become, Types, Idle
  <2> QED BY <2>1, <2>2 DEF LogoutKnows, Works, Live, At
<1>9. CASE SaveTotp
  BY <1>4, <1>9 DEF SaveTotp, server, memory
<1>10. CASE ResumeEmail \/ CallResume \/ \E k \in Slots : Fetch(k)
  <2>1. ~At("resume", "idle") /\ "resume" \in Names
    BY <1>10 DEF ResumeEmail, CallResume, Fetch, At, Names
  <2> QED BY <1>1, <1>3, <1>10, <2>1 DEF ResumeEmail, CallResume, Fetch, End, Goto
<1>11. CASE CallLogin
  <2>1. At("logout", "idle") /\ "login" \in Names
    BY <1>1, <1>11 DEF CallLogin, At, Names
  <2>2. CASE task' = [task EXCEPT !["login"] = Idle,
                        !["hv"] = IF @ = Idle THEN [Idle EXCEPT !.at = "helper"] ELSE @]
    BY <1>1, <1>2, <2>1, <2>2 DEF Types, At
  <2> QED BY <1>3, <1>11, <2>1, <2>2 DEF CallLogin, Issue, End
<1>12. CASE Helper \/ CallHv
  <2>1. ~At("hv", "idle") /\ "hv" \in Names
    BY <1>12 DEF Helper, CallHv, At, Names
  <2> QED BY <1>1, <1>3, <1>12, <2>1 DEF Helper, CallHv, Issue, End, Goto
<1>13. CASE Unflag
  <2>1. task'["logout"].at = "take"
    BY <1>5, <1>13 DEF Unflag, Places
  <2>2. Works(keyring[email]) /\ UNCHANGED <<saved, keyring, issued, email, bridge, registry>>
    BY <1>13 DEF Unflag, LogoutKnows, At, disk, server
  <2> QED BY <2>1, <2>2 DEF LogoutKnows, Works, Live, At
<1>14. CASE TakeBridge
  <2>1. Works(keyring[email]) /\ bridge # None /\ bridge \in Handles
    BY <1>14 DEF TakeBridge, LogoutKnows, Works, At, Types
  <2>2. keyring[email][1] = registry[bridge].as
    BY <2>1, FirstSlot DEF Works
  <2>3. task'["logout"].at = "revoke" /\ task'["logout"].handle = bridge
    BY <1>1, <1>14, <2>1 DEF TakeBridge, Become, Types, Task
  <2> QED BY <1>14, <2>1, <2>2, <2>3 DEF LogoutKnows, At, TakeBridge, disk
<1>15. CASE Revoke
  BY <1>2, <1>5, <1>15 DEF Revoke, Places
<1>16. ASSUME NEW t \in Names, Common(t) PROVE LogoutKnows'
  <2>1. ~At(t, "idle")
    BY <1>16 DEF Common, Save, Write, EnsureBridge, InitBridge, Persist, Store, Flag, Wipe, Delete,
                 At
  <2>2. CASE t # "logout"
    BY <1>1, <1>3, <1>16, <2>1, <2>2
       DEF Common, Save, Write, EnsureBridge, InitBridge, Persist, Store, Flag, Wipe, Delete,
           End, Goto
  <2>3. CASE t = "logout"
    <3>1. task["logout"].at \in PlacesOf["logout"]
      BY <1>1 DEF Alone
    <3>2. Wipe("logout") \/ \E k \in Slots : Delete("logout", k)
      BY <1>16, <2>3, <3>1
         DEF Common, Save, Write, EnsureBridge, InitBridge, Persist, Store, Flag, At, PlacesOf,
             Names, Wiping
    <3>3. task'["logout"].at \in {"idle", "delete"}
      <4>1. CASE Wipe("logout")
        BY <1>1, <4>1 DEF Wipe, Become, Types, Task
      <4>2. ASSUME NEW k \in Slots, Delete("logout", k) PROVE task'["logout"].at \in {"idle", "delete"}
        BY <1>1, <4>2, IdleTask DEF Delete, End, Become, Types, Task, At
      <4> QED BY <3>2, <4>1, <4>2
    <3> QED BY <1>2, <3>3
  <2> QED BY <2>2, <2>3
<1>17. CASE Quit
  <2>1. task'["logout"].at = "idle"
    BY <1>1, <1>17, IdleTask DEF Quit, Boot
  <2> QED BY <1>2, <2>1
<1>18. CASE UNCHANGED vars \/ \E n \in Logins : Expire(n)
  BY <1>4, <1>18 DEF vars, Expire, disk, server, memory
<1> QED BY <1>6, <1>7, <1>8, <1>9, <1>10, <1>11, <1>12, <1>13, <1>14, <1>15, <1>16, <1>17, <1>18
        DEF Next

(* What a step may do to a revoked session.                                *)
LEMMA RevokedKept ==
  ASSUME RevokedTrue, UNCHANGED <<email, authenticated>>, valid' \subseteq valid,
         None \notin valid, saved' \in {email, Torn},
         bridge' # None => registry'[bridge'].as = None,
         email # Torn => keyring'[email][1] \in {None, keyring[email][1]},
         task'["login"].at = "idle", task'["hv"].at = "idle",
         task'["logout"].at \in {"idle", "wipe", "delete"},
         task'["resume"].at \notin Storing,
         task'["resume"].at \in {"fetch"} \cup Asking => task'["resume"].cred[1] \notin valid
  PROVE  RevokedTrue'
BY DEF RevokedTrue, At

(* The same when only the tasks move.                                      *)
LEMMA RevokedMoves ==
  ASSUME Types, RevokedTrue, UNCHANGED <<keyring, email, bridge, registry, authenticated>>,
         valid' \subseteq valid, None \notin valid, saved' \in {email, Torn},
         NEW t \in Names, NEW r \in Task, Become(t, r),
         t \notin {"login", "hv"}, t = "logout" => r.at \in {"idle", "wipe", "delete"},
         t = "resume" => /\ r.at \notin Storing
                         /\ r.at \in {"fetch"} \cup Asking => r.cred[1] \notin valid
  PROVE  RevokedTrue'
<1>1. task'[t] = r /\ \A u \in Names : u # t => task'[u] = task[u]
  BY BecomeType
<1>2. \A u \in {"login", "hv", "logout", "resume"} : u \in Names
  BY DEF Names
<1>3. /\ task'["login"].at = "idle" /\ task'["hv"].at = "idle"
      /\ task'["logout"].at \in {"idle", "wipe", "delete"}
      /\ task'["resume"].at \notin Storing
      /\ task'["resume"].at \in {"fetch"} \cup Asking => task'["resume"].cred[1] \notin valid
  BY <1>1, <1>2 DEF RevokedTrue, At
<1>4. /\ bridge' # None => registry'[bridge'].as = None
      /\ email # Torn => keyring'[email][1] \in {None, keyring[email][1]}
  BY DEF RevokedTrue
<1> QED BY <1>3, <1>4, RevokedKept

(* The step that revokes the session the stored credential is of.          *)
LEMMA RevokedByLogout ==
  ASSUME Types, Accounted, Alone, LogoutKnows, revoked => RevokedTrue, Revoke, revoked'
  PROVE  RevokedTrue'
<1> DEFINE h == task["logout"].handle
<1>1. /\ At("logout", "revoke") /\ "logout" \in Names
      /\ UNCHANGED <<saved, keyring, email, bridge, authenticated>>
  BY DEF Revoke, disk, Names
<1>2. valid' = valid \ {registry[h].as}
  <2>1. CASE UNCHANGED revoked
    BY <1>1, <2>1 DEF RevokedTrue, At
  <2> QED BY <2>1 DEF Revoke
<1>3. \A u \in Names : u # "logout" => task[u].at = "idle"
  BY <1>1 DEF Alone, At
<1>4. task'["logout"].at = "wipe" /\ \A u \in Names : u # "logout" => task'[u] = task[u]
  BY <1>1, Went, BecomeType DEF Revoke, Places
<1>5. /\ ~authenticated /\ bridge = None /\ email \in Accounts /\ saved \in {email, Torn}
      /\ keyring[email][1] = registry[h].as
  BY <1>1 DEF Alone, LogoutTrue, LogoutKnows, At
<1>6. keyring'[email'][1] \notin valid'
  BY <1>1, <1>2, <1>5
<1> QED BY <1>1, <1>3, <1>4, <1>5, <1>6 DEF RevokedTrue, At, Names, Storing, Asking

(* A resume after it finds a credential the server refuses.                *)
LEMMA RevokedResume ==
  ASSUME Types, ~renamed => Owners, ~renamed, Accounted, Alone, RevokedTrue,
         ResumeEmail \/ CallResume \/ \E k \in Slots : Fetch(k)
  PROVE  RevokedTrue'
<1>1. /\ "resume" \in Names /\ None \notin valid /\ saved \in {email, Torn}
      /\ UNCHANGED <<saved, keyring, email, bridge, authenticated, valid>>
  BY Apart DEF ResumeEmail, CallResume, Fetch, disk, server, memory, Names, Accounted, RevokedTrue
<1>2. ASSUME NEW r \in Task, Become("resume", r), UNCHANGED registry, r.at \notin Storing,
             r.at \in {"fetch"} \cup Asking => r.cred[1] \notin valid
      PROVE  RevokedTrue'
  BY <1>1, <1>2, RevokedMoves
<1>3. ASSUME End("resume"), UNCHANGED registry PROVE RevokedTrue'
  BY <1>2, <1>3, IdleTask DEF End, Storing, Asking
<1>4. CASE ResumeEmail
  <2> DEFINE r == [Idle EXCEPT !.at = "fetch", !.acct = email, !.todo = Slots]
  <2>1. CASE Become("resume", r) /\ email # None
    <3>1. email \in Accounts
      BY <1>4, <2>1 DEF ResumeEmail, Types, At, Names
    <3>2. r \in Task /\ r.at = "fetch" /\ r.cred[1] = None
      BY <3>1, FirstSlot DEF Idle, Task, Places, NoCred, Cred
    <3> HIDE DEF r
    <3> QED BY <1>1, <1>2, <1>4, <2>1, <3>2 DEF Storing, ResumeEmail, memory
  <2> QED BY <1>3, <1>4, <2>1 DEF ResumeEmail, memory
<1>5. ASSUME NEW k \in Slots, Fetch(k) PROVE RevokedTrue'
  <2> DEFINE found == keyring[task["resume"].acct][k]
             left == task["resume"].todo \ {k}
             r == [task["resume"] EXCEPT !.cred[k] = found, !.todo = left,
                                     !.at = IF left = {} THEN "ensure" ELSE "fetch"]
  <2>1. At("resume", "fetch") /\ UNCHANGED registry /\ (Become("resume", r) \/ End("resume"))
    BY <1>5 DEF Fetch, memory
  <2>2. task["resume"].acct = email /\ email \in Accounts /\ task["resume"] \in Task
    BY <1>1, <2>1 DEF Owners, OwnerTask, Types, At
  <2>3. found \in Logins \cup {None} /\ (k = 1 => found \notin valid)
    BY <1>1, <2>2, Apart DEF Types, Cred, RevokedTrue
  <2>4. task["resume"].cred[1] \notin valid
    BY <2>1 DEF RevokedTrue, At
  <2> HIDE DEF found
  <2>5. r \in Task /\ r.at \in {"fetch", "ensure"} /\ r.cred[1] \notin valid
    BY <2>2, <2>3, <2>4, FirstSlot DEF Task, Cred, Places
  <2> HIDE DEF r
  <2> QED BY <1>2, <1>3, <2>1, <2>5 DEF Storing
<1>6. CASE CallResume
  <2>1. ~Accepts(task["resume"].cred)
    BY <1>6, AcceptsFirst DEF CallResume, RevokedTrue, At, Asking
  <2>2. Goto("resume", "wipe") /\ UNCHANGED registry
    BY <1>6, <2>1 DEF CallResume
  <2>3. PICK r \in Task : Become("resume", r) /\ r.at = "wipe"
    BY <1>1, <2>2, Went DEF Places
  <2> QED BY <1>2, <2>2, <2>3 DEF Storing, Asking
<1> QED BY <1>4, <1>5, <1>6

(* The tasks that can still be at work neither sign in nor store.          *)
LEMMA RevokedCommon ==
  ASSUME Types, Accounted, Alone, Fresh, RevokedTrue, NEW t \in Names, Common(t)
  PROVE  RevokedTrue'
<1>1. task[t].at \in PlacesOf[t] /\ None \notin valid /\ task[t] \in Task
      /\ valid' = valid /\ saved \in {email, Torn} /\ UNCHANGED email
  BY Apart DEF Alone, Accounted, Types, RevokedTrue, Common, Save, Write, EnsureBridge,
               InitBridge, Persist, Store, Flag, Wipe, Delete, server, memory
<1>2. t \notin {"login", "hv"} /\ ~Persist(t) /\ ~Store(t) /\ ~Flag(t)
  <2>1. ~At(t, "idle")
    BY DEF Common, Save, Write, EnsureBridge, InitBridge, Persist, Store, Flag, Wipe, Delete, At
  <2>2. t \notin {"login", "hv"}
    BY <2>1 DEF RevokedTrue
  <2>3. task[t].at \notin Storing
    BY <1>1, <2>2 DEF RevokedTrue, PlacesOf, Names, Storing, Wiping, At
  <2> QED BY <2>2, <2>3 DEF Persist, Store, Flag, At, Storing
<1>3. ASSUME NEW r \in Task, Become(t, r), UNCHANGED <<keyring, bridge, registry, authenticated>>,
             saved' \in {email, Torn}, t = "logout" => r.at \in {"idle", "wipe", "delete"},
             r.at \notin Storing,
             t = "resume" => (r.at \in {"fetch"} \cup Asking => r.cred[1] \notin valid)
      PROVE  RevokedTrue'
  BY <1>1, <1>2, <1>3, RevokedMoves
<1>4. ASSUME Save(t) \/ Write(t) PROVE RevokedTrue'
  <2>1. t = "settings" /\ UNCHANGED <<keyring, bridge, registry, authenticated>>
    BY <1>1, <1>2, <1>4 DEF Save, Write, At, PlacesOf, Names, Storing, Wiping, Asking, memory
  <2>2. saved' \in {email, Torn}
    BY <1>1, <1>4, <2>1 DEF Save, Write, Alone, At
  <2>3. PICK r \in Task : Become(t, r) /\ r.at \in {"write", "idle"}
    BY <1>4, <2>1, Went, IdleTask DEF Save, Write, End, Places
  <2> QED BY <1>3, <2>1, <2>2, <2>3 DEF Storing
<1>5. ASSUME EnsureBridge(t) \/ InitBridge(t) PROVE RevokedTrue'
  <2>1. t = "resume" /\ UNCHANGED <<saved, keyring, authenticated>>
    BY <1>1, <1>2, <1>5
       DEF EnsureBridge, InitBridge, At, PlacesOf, Names, Storing, Wiping, Asking, disk, memory
  <2>2. task["resume"].cred[1] \notin valid
    BY <1>5, <2>1 DEF EnsureBridge, InitBridge, RevokedTrue, At, Asking
  <2>3. ASSUME NEW h \in Handles, Become(t, [task[t] EXCEPT !.at = "call", !.handle = h])
        PROVE  /\ task'["login"].at = "idle" /\ task'["hv"].at = "idle"
               /\ task'["logout"].at \in {"idle", "wipe", "delete"}
               /\ task'["resume"].at = "call" /\ task'["resume"].cred[1] \notin valid
    <3> DEFINE r == [task[t] EXCEPT !.at = "call", !.handle = h]
    <3>1. r \in Task /\ r.at = "call" /\ r.cred = task["resume"].cred
      BY <1>1, <2>1 DEF Task, Places
    <3> HIDE DEF r
    <3>2. task'["resume"] = r /\ \A u \in Names : u # "resume" => task'[u] = task[u]
      BY <2>1, <2>3, <3>1, BecomeType DEF r
    <3> QED BY <2>2, <3>1, <3>2 DEF RevokedTrue, At, Names
  <2>4. CASE InitBridge(t)
    <3>1. PICK h \in Handles :
            /\ registry[h].state = "unused" /\ bridge' = h
            /\ registry' = [registry EXCEPT ![h].state = "live"]
            /\ Become(t, [task[t] EXCEPT !.at = "call", !.handle = h])
      BY <2>4 DEF InitBridge
    <3>2. registry'[bridge'].as = None
      BY <3>1 DEF Types, Entry, Fresh
    <3> QED BY <1>1, <2>1, <2>3, <3>1, <3>2, RevokedKept DEF Storing
  <2>5. CASE EnsureBridge(t) /\ bridge # None
    <3>1. bridge \in Handles /\ Become(t, [task[t] EXCEPT !.at = "call", !.handle = bridge])
          /\ UNCHANGED <<bridge, registry>>
      BY <2>5 DEF EnsureBridge, Types, memory
    <3>2. registry[bridge].as = None
      BY <2>5 DEF RevokedTrue
    <3> QED BY <1>1, <2>1, <2>3, <3>1, <3>2, RevokedKept DEF Storing
  <2>6. CASE EnsureBridge(t) /\ bridge = None
    <3>1. Goto(t, "init") /\ UNCHANGED <<bridge, registry>>
      BY <2>6 DEF EnsureBridge, memory
    <3>2. PICK r \in Task : Become(t, r) /\ r.at = "init" /\ r.cred = task["resume"].cred
      BY <2>1, <3>1, Went DEF Places
    <3> QED BY <1>1, <1>3, <2>1, <2>2, <3>1, <3>2 DEF Storing
  <2> QED BY <1>5, <2>4, <2>5, <2>6
<1>6. CASE Wipe(t)
  <2> DEFINE r == [task[t] EXCEPT !.at = "delete", !.acct = email, !.todo = Slots]
  <2>1. t \in {"resume", "logout"}
    BY <1>1, <1>2, <1>6 DEF Wipe, At, PlacesOf, Names, Storing, Asking, Wiping
  <2>2. email \in Accounts
    <3>1. task[t].at = "wipe"
      BY <1>6 DEF Wipe, At
    <3>2. CASE t = "logout"
      BY <3>1, <3>2 DEF Alone, LogoutTrue
    <3>3. CASE t = "resume"
      BY <1>6, <3>1, <3>3 DEF Types, RevokedTrue, Names
    <3> QED BY <2>1, <3>2, <3>3
  <2>3. r \in Task /\ r.at = "delete"
    BY <1>1, <2>2 DEF Task, Places
  <2>4. Become(t, r) /\ UNCHANGED <<saved, keyring, bridge, registry, authenticated>>
    BY <1>6 DEF Wipe, disk, memory
  <2> HIDE DEF r
  <2> QED BY <1>1, <1>3, <2>3, <2>4 DEF Storing, Asking
<1>7. ASSUME NEW k \in Slots, Delete(t, k) PROVE RevokedTrue'
  <2>1. /\ UNCHANGED <<saved, bridge, registry, authenticated>>
        /\ UNCHANGED keyring \/ keyring' = [keyring EXCEPT ![task[t].acct][k] = None]
    BY <1>7 DEF Delete, memory
  <2>2. email # Torn => keyring'[email][1] \in {None, keyring[email][1]}
    BY <2>1, FirstSlot DEF Types, Cred, RevokedTrue
  <2>3. PICK r \in Task : Become(t, r) /\ r.at \in {"idle", "delete"}
    <3>1. CASE End(t)
      BY <3>1, IdleTask DEF End
    <3>2. CASE Become(t, [task[t] EXCEPT !.todo = @ \ {k}])
      <4> DEFINE r == [task[t] EXCEPT !.todo = @ \ {k}]
      <4>1. r \in Task /\ r.at = "delete"
        BY <1>1, <1>7 DEF Task, Delete, At
      <4> QED BY <3>2, <4>1
    <3> QED BY <1>7, <3>1, <3>2 DEF Delete
  <2>4. task'[t] = r /\ \A u \in Names : u # t => task'[u] = task[u]
    BY <2>3, BecomeType
  <2>5. /\ task'["login"].at = "idle" /\ task'["hv"].at = "idle"
        /\ task'["logout"].at \in {"idle", "wipe", "delete"}
        /\ task'["resume"].at \notin Storing
        /\ task'["resume"].at \in {"fetch"} \cup Asking => task'["resume"].cred[1] \notin valid
    BY <1>2, <2>3, <2>4 DEF RevokedTrue, At, Names, Storing, Asking
  <2>6. bridge' # None => registry'[bridge'].as = None
    BY <2>1 DEF RevokedTrue
  <2> QED BY <1>1, <2>1, <2>2, <2>5, <2>6, RevokedKept
<1> QED BY <1>2, <1>4, <1>5, <1>6, <1>7 DEF Common

(* Nothing works with a session that was revoked, until somebody signs in. *)
LEMMA RevokedNext ==
  ASSUME Types, ~renamed, Owners, Accounted, Alone, Fresh, LogoutKnows, revoked => RevokedTrue,
         [Next]_vars, revoked'
  PROVE  RevokedTrue'
<1>1. None \notin valid
  BY Apart DEF Accounted
<1>2. ASSUME revoked, UNCHANGED <<saved, keyring, email, bridge, registry, authenticated>>,
             valid' \subseteq valid, UNCHANGED task
      PROVE  RevokedTrue'
  BY <1>2 DEF RevokedTrue, At
<1>3. CASE SignOut \/ \E a \in Accounts : SignIn(a)
  BY <1>3 DEF SignOut, SignIn, Anew
<1>4. CASE Settings
  <2> DEFINE r == [Idle EXCEPT !.at = "save", !.acct = email]
  <2>1. r \in Task
    BY <1>4 DEF Settings, Types, Idle, Task, Places, NoCred, Cred
  <2>2. /\ Become("settings", r) /\ revoked
        /\ UNCHANGED <<saved, keyring, email, bridge, registry, authenticated, valid>>
    BY <1>4 DEF Settings, disk, server, memory
  <2> HIDE DEF r
  <2>3. saved' \in {email, Torn} /\ RevokedTrue
    BY <2>2 DEF RevokedTrue
  <2> QED BY <1>1, <2>1, <2>2, <2>3, RevokedMoves DEF Names
<1>5. CASE SaveTotp
  BY <1>2, <1>5 DEF SaveTotp, server, memory, history
<1>6. CASE ResumeEmail \/ CallResume \/ \E k \in Slots : Fetch(k)
  BY <1>6, RevokedResume DEF ResumeEmail, CallResume, Fetch, history
<1>7. CASE CallLogin \/ Helper \/ CallHv
  BY <1>7 DEF CallLogin, Helper, CallHv, history, RevokedTrue, At
<1>8. CASE Unflag \/ TakeBridge
  BY <1>8 DEF Unflag, TakeBridge, history, RevokedTrue, At
<1>9. CASE Revoke
  BY <1>9, RevokedByLogout
<1>10. ASSUME NEW t \in Names, Common(t) PROVE RevokedTrue'
  <2>1. UNCHANGED revoked
    BY <1>10 DEF Common, Save, Write, EnsureBridge, InitBridge, Persist, Store, Flag, Wipe, Delete,
                 history
  <2> QED BY <1>10, <2>1, RevokedCommon
<1>11. ASSUME NEW n \in Logins, Expire(n) PROVE RevokedTrue'
  BY <1>2, <1>11 DEF Expire, disk, memory, history
<1>12. CASE Quit
  <2>1. /\ RevokedTrue /\ email' = saved /\ bridge' = None /\ ~authenticated'
        /\ UNCHANGED <<saved, keyring, valid>> /\ task' = Boot(saved)
    BY <1>12 DEF Quit, disk, server
  <2>2. /\ task'["login"].at = "idle" /\ task'["hv"].at = "idle" /\ task'["logout"].at = "idle"
        /\ task'["resume"].at \in {"idle", "email"}
    <3>1. [Idle EXCEPT !.at = "email"].at = "email"
      BY DEF Idle
    <3> QED BY <2>1, <3>1, IdleTask DEF Boot, Names
  <2>3. email' # Torn => email' = email /\ email # Torn
    BY <2>1 DEF RevokedTrue
  <2>4. email' # Torn => keyring'[email'][1] \notin valid'
    BY <2>1, <2>3 DEF RevokedTrue
  <2>5. saved' \in {email', Torn} /\ email' \in Accounts \cup {Torn}
    BY <2>1 DEF RevokedTrue
  <2> QED BY <2>1, <2>2, <2>4, <2>5 DEF RevokedTrue, At, Storing, Asking
<1>13. CASE UNCHANGED vars
  BY <1>2, <1>13 DEF vars, disk, server, memory, history
<1> QED BY <1>3, <1>4, <1>5, <1>6, <1>7, <1>8, <1>9, <1>10, <1>11, <1>12, <1>13 DEF Next

(* Every step keeps the account of sessions.                               *)
LEMMA EndedNext ==
  ASSUME OwnerInv, Ranges, Accounted, AloneInv, EndedInv, [Next]_vars
  PROVE  EndedInv'
<1>1. Types /\ Fresh /\ Fresh'
  BY FreshNext DEF OwnerInv, EndedInv
<1> SUFFICES ASSUME overlaps' = 0 PROVE Ended'
  BY <1>1 DEF EndedInv
<1>2. overlaps = 0
  BY OverlapStays
<1>3. ~renamed /\ Owners /\ Alone /\ Ended
  BY <1>2 DEF OwnerInv, AloneInv, EndedInv
<1>4. Honoured'
  BY <1>1, <1>3, HonouredNext DEF Ended
<1>5. LogoutKnows'
  BY <1>1, <1>3, KnowsNext DEF Ended
<1>6. revoked' => RevokedTrue'
  BY <1>1, <1>3, RevokedNext DEF Ended
<1> QED BY <1>4, <1>5, <1>6 DEF Ended

(* Before the first login there is no session.                             *)
LEMMA EndedInit == Init => EndedInv
<1> SUFFICES ASSUME Init PROVE EndedInv
  OBVIOUS
<1>1. bridge = None /\ ~revoked /\ registry = [h \in Handles |-> Absent] /\ task = Boot(None)
  BY DEF Init
<1>2. task["logout"].at = "idle"
  BY <1>1, IdleTask DEF Boot, Names
<1> QED BY <1>1, <1>2 DEF EndedInv, Fresh, Ended, Honoured, LogoutKnows, Absent, At

(* All of it at once.                                                      *)
LEMMA SessionInvariant == Spec => [](AloneInv /\ EndedInv /\ TypeInv)
<1>1. Init => Ranges /\ Accounted
  BY TypesInit
<1> QED BY <1>1, AloneInit, EndedInit, RangesNext, AccountedNext, AloneNext, EndedNext,
           OwnerInvariant, PTL DEF Spec, TypeInv

(* daemon.rs:138, 212: whatever failed half way in earlier attempts, the   *)
(* login the bridge works with is the stored one, and the server accepts   *)
(* what is stored unless it has ended that login by itself.                *)
THEOREM SignedInCanResume == Spec => []SignedInIsStored
<1>1. ASSUME AloneInv, EndedInv, TypeInv PROVE SignedInIsStored
  <2> SUFFICES ASSUME ~Busy, overlaps = 0, authenticated
      PROVE  LET n == registry[bridge].as
             IN  /\ bridge # None /\ Live(bridge) /\ n # None /\ saved \in {email, Torn}
                 /\ issued[n] = email
                 /\ \A k \in Slots \ {LastSlot} : keyring[email][k] = n
                 /\ keyring[email][LastSlot] # None /\ issued[keyring[email][LastSlot]] = email
                 /\ Accepts(keyring[email]) \/ n \in expired
    BY DEF SignedInIsStored
  <2>1. Works(keyring[email])
    BY <1>1 DEF AloneInv, Alone
  <2>2. registry[bridge].as \in valid \cup expired
    BY <1>1, <2>1 DEF EndedInv, Ended, Honoured, Works
  <2>3. registry[bridge].as \in valid => Accepts(keyring[email])
    BY <2>1 DEF Works, Accepts
  <2> QED BY <2>1, <2>2, <2>3 DEF Works
<1> QED BY <1>1, SessionInvariant, PTL

(* daemon.rs:183: a session the server has ended stays ended, through any  *)
(* deletion that fails and any restart; a sign-out whose deletions worked  *)
(* leaves none of the slots of the credential, no handle and no flag.      *)
THEOREM SignOutIsComplete == Spec => []SignOutComplete
<1>1. ASSUME AloneInv, EndedInv, TypeInv PROVE SignOutComplete
  <2> SUFFICES ASSUME overlaps = 0, email # Torn
      PROVE  /\ revoked => /\ ~authenticated /\ ~Accepts(keyring[email])
                           /\ bridge # None => registry[bridge].as = None
             /\ wiped /\ At("logout", "idle") =>
                  keyring[email] = NoCred /\ bridge = None /\ ~authenticated
    BY DEF SignOutComplete
  <2>1. wiped => WipedTrue
    BY <1>1 DEF AloneInv, Alone
  <2>2. revoked => RevokedTrue
    BY <1>1 DEF EndedInv, Ended
  <2>3. keyring[email][1] \notin valid => ~Accepts(keyring[email])
    BY AcceptsFirst
  <2> QED BY <2>1, <2>2, <2>3 DEF WipedTrue, RevokedTrue
<1> QED BY <1>1, SessionInvariant, PTL
=============================================================================
