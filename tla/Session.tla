------------------------------ MODULE Session ------------------------------
(***************************************************************************)
(* Signing in, resuming and signing out of the desktop application:        *)
(* core/daemon.rs and core/keyring.rs, the wrappers of bridge/lib.rs, the  *)
(* session registry of bridge.go, and the buttons of ui/mod.rs that start  *)
(* them.  Four tasks run on threads of their own, the fifth on the GTK     *)
(* thread, which waits for it; they share the configuration, the keyring,  *)
(* the bridge handle and the flag:                                         *)
(*   resume   at start-up, while the sign-in form is already usable        *)
(*   login    the Sign In button, disabled until the login has answered    *)
(*   hv       the CAPTCHA helper and what follows; the button is enabled   *)
(*   logout   the Sign Out button; it shows the form again at once         *)
(*   settings the Apply and Save buttons, which save the configuration     *)
(* A credential is the number of the login that issued it.  A TOTP secret  *)
(* is stored by a thread of its own; nothing reads it but the next sign-in *)
(* with its e-mail and nothing deletes it, so it is stored, or lost by an  *)
(* error or a quit, as soon as it is typed.                                *)
(***************************************************************************)
EXTENDS Naturals, FiniteSets, FiniteSetsExt

CONSTANTS
  Accounts, None,
  Torn,        \* content of a config.toml that cannot be parsed
  LastSlot,    \* keyring slots of a credential: 1 is stored first, and the
               \* last one is the key passphrase, the same for all logins
  MaxSecrets,  \* bound on accounts a TOTP secret is typed for
  MaxLogins,   \* bound on credentials issued by the server
  MaxHandles,  \* bound on sessions made by pd_init
  MaxEvents    \* bound on buttons pressed while another task is at work,
               \* errors of the keyring, the disk and the network, logins the
               \* server ends and ends of the process, together

ASSUME SessionAssumption ==
  /\ None \notin Accounts \cup Nat /\ Torn \notin Accounts \cup {None}
  /\ LastSlot \in Nat /\ LastSlot >= 2 /\ MaxSecrets \in Nat
  /\ MaxLogins \in Nat /\ MaxHandles \in Nat /\ MaxEvents \in Nat

VARIABLES
  (* survives the process *)
  saved,    \* e-mail in config.toml, or Torn
  keyring,  \* keyring[a][k]: the credential stored in slot k of account a
  totp,     \* the accounts with a TOTP secret in the keyring
  issued,   \* issued[n]: the account login n was for
  valid,    \* the logins whose tokens the server accepts
  (* memory of the process *)
  email,    \* Config::email; Torn when the program could not start
  bridge,   \* Daemon::bridge: a session handle
  registry, \* registry[h]: the session behind handle h
  authenticated,
  task,     \* how far each of the five tasks is
  (* history *)
  overlaps,   \* how often a button was pressed while another task was at work
  renamed,    \* has such a press changed the e-mail?
  revoked,    \* since the last Sign In or Sign Out: has the server ended the
  wiped,      \* session? has the sign-out deleted every slot it got to?
  (* bounds; expired: the logins the server has ended by itself *)
  faults, expired, quits

disk   == <<saved, keyring, totp>>
server == <<issued, valid>>
memory == <<email, bridge, registry, authenticated>>
history == <<overlaps, renamed, revoked, wiped>>
bounds == <<faults, expired, quits>>
vars   == <<disk, server, memory, task, history, bounds>>

Slots   == 1 .. LastSlot
Logins  == 1 .. MaxLogins
Handles == 1 .. MaxHandles
Names   == {"resume", "login", "hv", "logout", "settings"}
Places  == {"idle", "email", "fetch", "save", "write", "ensure", "init", "call",
            "persist", "store", "flag", "helper", "unflag", "take", "revoke",
            "wipe", "delete"}
Cred    == [Slots -> Logins \cup {None}]
Task    == [at : Places, acct : Accounts \cup {None}, cred : Cred,
            todo : SUBSET Slots, handle : Handles \cup {None}]
Entry   == [state : {"unused", "live", "dropped"}, as : Logins \cup {None},
            pending : Accounts \cup {None}]

NoCred == [k \in Slots |-> None]
Idle   == [at |-> "idle", acct |-> None, cred |-> NoCred, todo |-> {}, handle |-> None]
Absent == [state |-> "unused", as |-> None, pending |-> None]

At(t, place) == task[t].at = place
Become(t, r) == task' = [task EXCEPT ![t] = r]
Goto(t, place) == Become(t, [task[t] EXCEPT !.at = place])
End(t)       == Become(t, Idle)
Busy         == \E t \in Names : ~At(t, "idle")
Live(h)      == registry[h].state = "live"
Happens      == overlaps + faults + Cardinality(expired) + quits < MaxEvents
Fault        == Happens /\ faults' = faults + 1 /\ UNCHANGED <<expired, quits>>

(* One login fills every slot of a credential.                             *)
Bundle(n) == [k \in Slots |-> n]

(* The server accepts the tokens of one valid login, together with the key *)
(* passphrase of any login of the same account.                            *)
Accepts(cred) ==
  \E n \in valid :
    \A k \in Slots : IF k = LastSlot THEN cred[k] # None /\ issued[cred[k]] = issued[n]
                                     ELSE cred[k] = n

(***************************************************************************)
(* Buttons                                                                 *)
(***************************************************************************)
Pressed(e) ==
  /\ At("settings", "idle")
  /\ IF Busy THEN Happens /\ overlaps' = overlaps + 1
             ELSE UNCHANGED overlaps
  /\ renamed' = (renamed \/ (Busy /\ e # email))

(* Sign In and Sign Out begin a new story. *)
Anew == revoked' = FALSE /\ wiped' = FALSE

StoreTotp(a) ==
  /\ Cardinality(totp \cup {a}) <= MaxSecrets
  /\ totp' = totp \cup {a}

(* The form is shown while nobody is signed in, and from the moment Sign   *)
(* Out is pressed.  login: the e-mail is set before anything is checked.   *)
(* A TOTP secret typed into the form is stored under the same e-mail.      *)
FormShown == email # Torn /\ (~authenticated \/ ~At("logout", "idle"))

(* Mutant: the e-mail is only set when there is none yet.                  *)
SignInUnnamed(a) ==
  /\ FormShown /\ At("login", "idle")
  /\ email' = IF email = None THEN a ELSE email
  /\ Become("login", [Idle EXCEPT !.at = "save", !.acct = a])
  /\ Pressed(a) /\ Anew
  /\ StoreTotp(a) \/ UNCHANGED totp
  /\ UNCHANGED <<saved, keyring, server, bridge, registry, authenticated, bounds>>

SignIn(a) ==
  /\ FormShown /\ At("login", "idle")
  /\ email' = a
  /\ Become("login", [Idle EXCEPT !.at = "save", !.acct = a])
  /\ Pressed(a) /\ Anew
  /\ StoreTotp(a) \/ UNCHANGED totp
  /\ UNCHANGED <<saved, keyring, server, bridge, registry, authenticated, bounds>>

SignOut ==
  /\ authenticated /\ At("logout", "idle")
  /\ Become("logout", [Idle EXCEPT !.at = "unflag"])
  /\ Pressed(email) /\ Anew
  /\ UNCHANGED <<disk, server, memory, bounds>>

(* The configuration is copied with the e-mail of this moment.             *)
Settings ==
  /\ email # Torn
  /\ Become("settings", [Idle EXCEPT !.at = "save", !.acct = email])
  /\ Pressed(email)
  /\ UNCHANGED <<disk, server, memory, revoked, wiped, bounds>>

(* Save TOTP Secret, for the e-mail of this moment. *)
SaveTotp ==
  /\ email \in Accounts /\ At("settings", "idle")
  /\ StoreTotp(email)
  /\ UNCHANGED <<saved, keyring, server, memory, task, history, bounds>>

(* save_config: fs::write empties the file, then fills it.  An error ends  *)
(* a login, and is ignored by the settings.                                *)
Save(t) ==
  /\ At(t, "save")
  /\ \/ saved' = Torn /\ Goto(t, "write") /\ UNCHANGED bounds
     \/ Fault /\ End(t) /\ UNCHANGED saved
  /\ UNCHANGED <<keyring, totp, server, memory, history>>

Write(t) ==
  /\ At(t, "write")
  /\ \/ /\ saved' = task[t].acct /\ UNCHANGED bounds
        /\ IF t = "login" THEN Goto(t, "ensure") ELSE End(t)
     \/ Fault /\ End(t) /\ UNCHANGED saved
  /\ UNCHANGED <<keyring, totp, server, memory, history>>

(***************************************************************************)
(* ensure_bridge: looks, makes and stores under three separate locks       *)
(***************************************************************************)
EnsureBridge(t) ==
  /\ At(t, "ensure")
  /\ IF bridge # None
       THEN Become(t, [task[t] EXCEPT !.at = "call", !.handle = bridge])
       ELSE Goto(t, "init")
  /\ UNCHANGED <<disk, server, memory, history, bounds>>

(* pd_init numbers the sessions of a process; nobody else sees the new one *)
(* before its handle is stored.                                            *)
InitBridge(t) ==
  /\ At(t, "init")
  /\ \E h \in Handles :
       /\ registry[h].state = "unused"
       /\ \A g \in Handles : g < h => registry[g].state # "unused"
       /\ registry' = [registry EXCEPT ![h].state = "live"]
       /\ bridge' = h
       /\ Become(t, [task[t] EXCEPT !.at = "call", !.handle = h])
  /\ UNCHANGED <<disk, server, email, authenticated, history, bounds>>

(***************************************************************************)
(* try_resume                                                              *)
(***************************************************************************)
ResumeEmail ==
  /\ At("resume", "email")
  /\ IF email = None
       THEN End("resume")
       ELSE Become("resume", [Idle EXCEPT !.at = "fetch", !.acct = email, !.todo = Slots])
  /\ UNCHANGED <<disk, server, memory, history, bounds>>

(* The slots are read in any order.  One that is missing or cannot be read *)
(* ends the resume, and leaves the others as they are.                     *)
Fetch(k) ==
  /\ At("resume", "fetch") /\ k \in task["resume"].todo
  /\ LET found == keyring[task["resume"].acct][k]
         left  == task["resume"].todo \ {k}
     IN  \/ /\ found # None /\ UNCHANGED bounds
            /\ Become("resume", [task["resume"] EXCEPT !.cred[k] = found, !.todo = left,
                                   !.at = IF left = {} THEN "ensure" ELSE "fetch"])
         \/ found = None /\ End("resume") /\ UNCHANGED bounds
         \/ Fault /\ End("resume")
  /\ UNCHANGED <<disk, server, memory, history>>

(* pd_resume.  Any error, also of the network, leads to the wipe.          *)
CallResume ==
  /\ At("resume", "call")
  /\ LET h    == task["resume"].handle
         cred == task["resume"].cred
     IN  \/ /\ Live(h) /\ Accepts(cred)
            /\ registry' = [registry EXCEPT ![h].as = cred[1]]
            /\ Goto("resume", "persist") /\ UNCHANGED bounds
         \/ /\ ~(Live(h) /\ Accepts(cred))
            /\ Goto("resume", "wipe") /\ UNCHANGED <<registry, bounds>>
         \/ Fault /\ Goto("resume", "wipe") /\ UNCHANGED registry
  /\ UNCHANGED <<disk, server, email, bridge, authenticated, history>>

(***************************************************************************)
(* login and login_hv                                                      *)
(***************************************************************************)
(* The server issues the next credential, and the session works with it.   *)
Issue(t, a) ==
  \E n \in Logins :
    /\ issued[n] = None /\ \A m \in Logins : m < n => issued[m] # None
    /\ issued' = [issued EXCEPT ![n] = a] /\ valid' = valid \cup {n}
    /\ registry' = [registry EXCEPT ![task[t].handle].as = n,
                      ![task[t].handle].pending = IF t = "hv" THEN None ELSE @]
    /\ Become(t, [task[t] EXCEPT !.at = "persist", !.cred = Bundle(n)])

(* pd_login: succeeds, asks for a CAPTCHA, or fails.  A login that asked   *)
(* for one is remembered in the session until a later one asks.  A second  *)
(* helper, opened while the first is still on the screen, is left out.     *)
CallLogin ==
  /\ At("login", "call")
  /\ LET h == task["login"].handle
         a == task["login"].acct
     IN  \/ Live(h) /\ Issue("login", a)
         \/ /\ Live(h)
            /\ registry' = [registry EXCEPT ![h].pending = a]
            /\ task' = [task EXCEPT !["login"] = Idle,
                                    !["hv"] = IF @ = Idle THEN [Idle EXCEPT !.at = "helper"] ELSE @]
            /\ UNCHANGED server
         \/ End("login") /\ UNCHANGED <<registry, server>>
  /\ UNCHANGED <<disk, email, bridge, authenticated, history, bounds>>

(* The helper process: solved, or closed.                                  *)
Helper ==
  /\ At("hv", "helper")
  /\ Goto("hv", "ensure") \/ End("hv")
  /\ UNCHANGED <<disk, server, memory, history, bounds>>

(* Mutant: a login is retried whether one is pending or not.               *)
CallHvUnasked ==
  /\ At("hv", "call")
  /\ LET h == task["hv"].handle
     IN  Live(h) /\ Issue("hv", registry[h].pending)
  /\ UNCHANGED <<disk, email, bridge, authenticated, history, bounds>>

(* pd_login_hv answers for the login the session remembers, which is       *)
(* forgotten before the drive is opened.                                   *)
CallHv ==
  /\ At("hv", "call")
  /\ LET h == task["hv"].handle
     IN  \/ Live(h) /\ registry[h].pending # None /\ Issue("hv", registry[h].pending)
         \/ /\ (registry' = [registry EXCEPT ![h].pending = None]) \/ UNCHANGED registry
            /\ End("hv") /\ UNCHANGED server
  /\ UNCHANGED <<disk, email, bridge, authenticated, history, bounds>>

(***************************************************************************)
(* persist_credential: the account is the e-mail of this moment; the slots *)
(* are stored one after the other, and the first error ends the task.      *)
(***************************************************************************)
Persist(t) ==
  /\ At(t, "persist")
  /\ Become(t, [task[t] EXCEPT !.at = "store", !.acct = email, !.todo = Slots])
  /\ UNCHANGED <<disk, server, memory, history, bounds>>

(* Mutant: an error while storing is ignored.                              *)
StoreAnyway(t) ==
  /\ At(t, "store")
  /\ LET k    == Min(task[t].todo)
         left == task[t].todo \ {k}
     IN  /\ \/ keyring' = [keyring EXCEPT ![task[t].acct][k] = task[t].cred[k]] /\ UNCHANGED bounds
            \/ Fault /\ UNCHANGED keyring
         /\ Become(t, [task[t] EXCEPT !.todo = left,
                         !.at = IF left = {} THEN "flag" ELSE "store"])
  /\ UNCHANGED <<saved, totp, server, memory, history>>

Store(t) ==
  /\ At(t, "store")
  /\ LET k    == Min(task[t].todo)
         left == task[t].todo \ {k}
     IN  \/ /\ keyring' = [keyring EXCEPT ![task[t].acct][k] = task[t].cred[k]]
            /\ Become(t, [task[t] EXCEPT !.todo = left,
                            !.at = IF left = {} THEN "flag" ELSE "store"])
            /\ UNCHANGED bounds
         \/ Fault /\ End(t) /\ UNCHANGED keyring
  /\ UNCHANGED <<saved, totp, server, memory, history>>

Flag(t) ==
  /\ At(t, "flag")
  /\ authenticated' = TRUE
  /\ End(t)
  /\ UNCHANGED <<disk, server, email, bridge, registry, history, bounds>>

(***************************************************************************)
(* logout                                                                  *)
(***************************************************************************)
Unflag ==
  /\ At("logout", "unflag")
  /\ authenticated' = FALSE
  /\ Goto("logout", "take")
  /\ UNCHANGED <<disk, server, email, bridge, registry, history, bounds>>

(* Mutant: the handle is cloned and stays for the next sign-in.            *)
KeepBridge ==
  /\ At("logout", "take")
  /\ Become("logout", [task["logout"] EXCEPT !.handle = bridge,
                         !.at = IF bridge = None THEN "wipe" ELSE "revoke"])
  /\ UNCHANGED <<disk, server, memory, history, bounds>>

TakeBridge ==
  /\ At("logout", "take")
  /\ bridge' = None
  /\ Become("logout", [task["logout"] EXCEPT !.handle = bridge,
                         !.at = IF bridge = None THEN "wipe" ELSE "revoke"])
  /\ UNCHANGED <<disk, server, email, registry, authenticated, history, bounds>>

(* pd_logout: a session without a drive is only dropped; an error of the   *)
(* server leaves the session registered, and is ignored.                   *)
Revoke ==
  /\ At("logout", "revoke")
  /\ LET h == task["logout"].handle
     IN  \/ /\ registry' = [registry EXCEPT ![h].state = "dropped"]
            /\ valid' = valid \ {registry[h].as} /\ revoked' = TRUE /\ UNCHANGED bounds
         \/ registry[h].as # None /\ Fault /\ UNCHANGED <<registry, valid, revoked>>
  /\ Goto("logout", "wipe")
  /\ UNCHANGED <<disk, issued, email, bridge, authenticated, overlaps, renamed, wiped>>

(***************************************************************************)
(* The end of a failed resume and of a logout: the four slots of the       *)
(* credential of the e-mail of this moment are deleted, in any order, and  *)
(* not the TOTP secret.  Errors are ignored.                               *)
(***************************************************************************)
Wipe(t) ==
  /\ At(t, "wipe")
  /\ Become(t, [task[t] EXCEPT !.at = "delete", !.acct = email, !.todo = Slots])
  /\ wiped' = (t = "logout")
  /\ UNCHANGED <<disk, server, memory, overlaps, renamed, revoked, bounds>>

Delete(t, k) ==
  /\ At(t, "delete") /\ k \in task[t].todo
  /\ \/ keyring' = [keyring EXCEPT ![task[t].acct][k] = None] /\ UNCHANGED <<wiped, bounds>>
     \/ Fault /\ wiped' = FALSE /\ UNCHANGED keyring
  /\ IF task[t].todo = {k} THEN End(t)
                           ELSE Become(t, [task[t] EXCEPT !.todo = @ \ {k}])
  /\ UNCHANGED <<saved, totp, server, memory, overlaps, renamed, revoked>>

(***************************************************************************)
(* The server and the process                                              *)
(***************************************************************************)
(* A credential ends: revoked elsewhere, or its refresh token was used by  *)
(* the running client, which tells nobody the new one.                     *)
Expire(n) ==
  /\ n \in valid /\ Happens
  /\ valid' = valid \ {n} /\ expired' = expired \cup {n}
  /\ UNCHANGED <<disk, issued, memory, task, history, faults, quits>>

Boot(e) == [t \in Names |-> IF t = "resume" /\ e # Torn THEN [Idle EXCEPT !.at = "email"] ELSE Idle]

(* Quit of the tray, or a crash, and the next start: Daemon::init, which   *)
(* fails when the configuration cannot be parsed.                          *)
Quit ==
  /\ Happens /\ quits' = quits + 1
  /\ email' = saved /\ bridge' = None /\ authenticated' = FALSE
  /\ registry' = [h \in Handles |-> Absent]
  /\ task' = Boot(saved) /\ wiped' = (wiped /\ At("logout", "idle"))
  /\ UNCHANGED <<disk, server, overlaps, renamed, revoked, faults, expired>>

(***************************************************************************)
(* Specification                                                           *)
(***************************************************************************)
Init ==
  /\ saved = None /\ keyring = [a \in Accounts |-> NoCred]
  /\ totp = {}
  /\ issued = [n \in Logins |-> None] /\ valid = {}
  /\ email = None /\ bridge = None /\ authenticated = FALSE
  /\ registry = [h \in Handles |-> Absent]
  /\ task = Boot(None)
  /\ overlaps = 0 /\ renamed = FALSE /\ revoked = FALSE /\ wiped = FALSE
  /\ faults = 0 /\ expired = {} /\ quits = 0

Common(t) ==
  \/ Save(t) \/ Write(t) \/ EnsureBridge(t) \/ InitBridge(t) \/ Persist(t) \/ Store(t) \/ Flag(t)
  \/ Wipe(t) \/ \E k \in Slots : Delete(t, k)

Next ==
  \/ \E a \in Accounts : SignIn(a)
  \/ SignOut \/ Settings \/ SaveTotp
  \/ ResumeEmail \/ CallResume \/ \E k \in Slots : Fetch(k)
  \/ CallLogin \/ Helper \/ CallHv
  \/ Unflag \/ TakeBridge \/ Revoke
  \/ \E t \in Names : Common(t)
  \/ \E n \in Logins : Expire(n)
  \/ Quit

Spec == Init /\ [][Next]_vars

-----------------------------------------------------------------------------
(* Every variable stays within its type.                                   *)
TypeOK ==
  /\ saved \in Accounts \cup {None, Torn} /\ email \in Accounts \cup {None, Torn}
  /\ keyring \in [Accounts -> Cred] /\ totp \subseteq Accounts
  /\ issued \in [Logins -> Accounts \cup {None}] /\ valid \subseteq {n \in Logins : issued[n] # None}
  /\ bridge \in Handles \cup {None} /\ registry \in [Handles -> Entry]
  /\ authenticated \in BOOLEAN /\ task \in [Names -> Task]
  /\ overlaps \in Nat /\ renamed \in BOOLEAN
  /\ revoked \in BOOLEAN /\ wiped \in BOOLEAN
  /\ faults \in Nat /\ expired \subseteq Logins /\ quits \in Nat

(* The keyring of an account holds credentials of that account only, items *)
(* "tagged with account=<email>" (keyring.rs:15), unless somebody signed   *)
(* in with another e-mail while a task was at work.                        *)
KeyringOwner ==
  ~renamed =>
    \A a \in Accounts, k \in Slots : keyring[a][k] # None => issued[keyring[a][k]] = a

(* Who is signed in could resume: the login the bridge works with is the   *)
(* one in the keyring of the e-mail that is in config.toml (if saving the  *)
(* settings has not torn it), whatever sign-ins failed half way before     *)
(* (daemon.rs:138, 212), and the server accepts it.  Excepted is a login   *)
(* the server has ended by itself, or whose tokens the running client has  *)
(* refreshed: "the most recent refresh token" (keyring.rs:8) is never      *)
(* stored.                                                                 *)
SignedInIsStored ==
  ~Busy /\ overlaps = 0 /\ authenticated =>
    /\ bridge # None /\ Live(bridge) /\ registry[bridge].as # None
    /\ saved \in {email, Torn}
    /\ LET n == registry[bridge].as
       IN  /\ issued[n] = email
           /\ \A k \in Slots \ {LastSlot} : keyring[email][k] = n
           /\ keyring[email][LastSlot] # None /\ issued[keyring[email][LastSlot]] = email
           /\ Accepts(keyring[email]) \/ n \in expired

(* Signed out is signed out, until somebody signs in: from the moment the  *)
(* server has ended the session no restart brings it back, wherever the    *)
(* process ends in the sign-out and whichever deletion fails; and one that *)
(* was not cut short and whose deletions worked leaves none of the four    *)
(* slots of the credential, and no handle.  The TOTP secret (totp) stays,  *)
(* although daemon.rs:183 says "clears all stored credentials"; and        *)
(* logout() returns Ok also where both parts of this excuse it.            *)
SignOutComplete ==
  overlaps = 0 /\ email # Torn =>
    /\ revoked => /\ ~authenticated /\ ~Accepts(keyring[email])
                  /\ bridge # None => registry[bridge].as = None
    /\ wiped /\ At("logout", "idle") =>
         keyring[email] = NoCred /\ bridge = None /\ ~authenticated
=============================================================================
