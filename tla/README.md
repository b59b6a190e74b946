# Verification of ProtonDrive-Linux in TLA+

This directory holds TLA+ models of ProtonDrive-Linux, the TLC configurations
that check them on small instances, and theorems about them checked by TLAPS.
Paths are relative to the repository; `sync/` stands for
`crates/protondrive-sync/src/`, `core/` for `crates/protondrive-core/src/`, `ui/`
for `crates/protondrive-ui/src/`, `bridge/` for `crates/protondrive-bridge/`.

## 1. Inventory

| Part | State it keeps | Operations | Interacts with |
|---|---|---|---|
| Sync agent `sync/agent.rs` | buffer of observations, the running batch | select loop: receive, batch tick (2 s), heartbeat (20 s), resync | both watchers (channels), propagator, UI (events) |
| Reconciliation `sync/reconciliation.rs`, conflicts `sync/conflict.rs` | none | `reconcile`, `resolve` | called by the agent once per batch |
| Propagator `sync/propagation.rs` | none beyond the call in progress | `apply`, `apply_one`, `parent_link_for`, `retry`, `record_mapping` | mapping table, bridge |
| Mapping table and cursor `sync/state.rs` | SQLite rows by path; the event cursor | upsert, batch upsert, delete, lookups, `cursor`, `set_cursor`, migrations | agent, remote watcher, virtual filesystem |
| Local watcher `sync/local.rs` | inotify queue, channel of 1024 | `translate_event` | agent |
| Remote watcher `sync/remote.rs` with `pd_events` in `bridge/go/bridge.go` | scan queue, shared cursor, channel of 1024 | first scan, poll every 30 s | bridge, mapping table, agent |
| Virtual filesystem `crates/protondrive-fuse/src/lib.rs` | inode table, cache files, download locks | lookup, getattr, readdir, open, read | mapping table, bridge, disk |
| Sync controller `ui/sync.rs` | task handle, event sender, mount | `start`, `stop`, `is_running`, the forwarding task | agent, virtual filesystem, window |
| Window `ui/ui/mod.rs` | status, queue rows and their timer, current page | buttons, `apply_sync_event`, a timer of one second | sync controller, session |
| Session `core/daemon.rs`, `keyring.rs`, `config.rs` | current e-mail, bridge handle, keyring slots, `config.toml` | login, login with human verification, resume, logout, saving | bridge, keyring, disk |
| Daemon RPC `crates/protondrive-daemon/src/main.rs` | `AppState`: bridge, sync task, root, behind one mutex | one request per line, a task per client | bridge, agent |
| Bridge `bridge/go/bridge.go`, `bridge/src/lib.rs` | session registry, pending login | one call per exported function | Rust side, fork |
| Bridge fork `bridge/go/proton-api-bridge-fork/` | link cache, upload semaphore, drafts on the server | upload, download, create folder, list, trash | Proton API |
| Blob and metadata cache `core/cache/` | block files, SQLite | write, read, pin, evict | no other crate uses them |
| Tray, crash reporter, CAPTCHA helper, CLI | | | window, session |

What is hard about it: the two sides of a folder change while a batch is being
applied; calls fail after taking effect and are repeated; the agent is aborted
in the middle of a batch; the watcher outlives the agent it was started for;
the change feed is reconstructed from timestamps; several tasks share the
table, the cursor and the cache files; buttons, the resume task and the CAPTCHA
helper start and stop the same things from threads of their own; a credential is
stored in several steps, each of which may fail. What each part must guarantee is listed,
line by line, under `hazards` in `PROJECT.json`, with the properties that cover
each hazard or the reason none does yet.

## 2. Modules

* **Operations** - `reconcile`, `is_excluded` and `resolve` as operators. A
  relative path is a sequence of names. `Resolve` returns the *set* of possible
  results, because the renamed uploads come out of a `HashMap`.
* **ResolveCheck** - grows batches one observation at a time and compares
  `Resolve` with a second definition of it (a filter and an append).
  **ResolveProofs** proves that the two agree, that there is an answer and that it
  loses nothing.
* **SyncEngine** - the agent, the propagator, the mapping table, the local
  watcher and both channels, with users of both sides as environment. One
  action per step that can be interleaved with something else: taking a batch,
  reconciling, resolving and the batch transaction are one step (nothing is
  awaited before the transaction); each bridge call is one step and recording
  its result another. A path's content is the number of the edit that wrote it.
* **SyncEngineProperties**, **SyncEngineInvariant**, **SyncEngineProofs** - its
  properties, the inductive invariants, and the proofs.
* **ChangeFeed** - what the engine wants of a remote watcher: every change once
  or more, folders before their contents, in order, none left out.
* **RemoteWatcher** - first scan, polling, cursor, failing calls, and the
  watchers earlier agents left running; refines ChangeFeed. **RemoteWatcherProofs**
  proves its types and that no older version is handed over,
  **RemoteWatcherFeedProofs** the refinement and what the cursor promises.
* **VirtualFs** - the mounted filesystem: inode table, listings paged over a
  changing table, downloads into the cache block by block, remounts and crashes.
  It has its own table (rows in the order of their ids, because `readdir`
  depends on it); the agent appears as the action that stores a placeholder.
  `lookup` takes the first child whose path ends in the name. What the code
  computes row by row (the inode table, a directory's children) is written as a
  function on row numbers, which the proofs can unfold.
* **VirtualFsInvariant**, **VirtualFsProofs** - the invariants of the cache
  directory, the table, a listing and the inodes, and the proofs.
* **SyncPanel** - `SyncController` with the buttons and the resume task that call
  it, the state database as `State::open` migrates it, what an agent tells, the
  broadcast channel, the forwarding task and the window's channel, and the widgets
  of the sync page. **SyncPanelProofs** proves its safety invariants.
* **Session** - signing in, the CAPTCHA, resuming, signing out and saving settings
  as five tasks over the configuration, the keyring, the bridge handle and the
  session registry, with restarts. **SessionProofs** proves whose credentials a
  keyring holds, that it can resume and what a sign-out leaves.
* **DaemonRpc** - the background process: concurrent clients over `AppState` and
  its mutex, the agents they spawn, the sessions they make. **DaemonRpcProofs**
  proves its safety invariants.
* **MC...** modules only give constants their values.

How state corresponds to the code: `rows` is the `mappings` table (the columns
the properties tell apart: link, parent, folder or file, revision in place of
size and time, `is_materialized`); `buf` is `Observations`; `ops` the operations
`apply` has not finished; `step` the position inside `apply_one`; `localRx`,
`remoteRx` the channels; `stamp` the last conflict timestamp. `drive` and `disk`
are the outside world.

In VirtualFs, `task` is what each mount's one thread (`&mut self`) is doing,
`data` the files on disk with the revision of each block, and `pddl`, `tmp`,
`cache` the three paths `.tmp.<link>.pddl`, `.tmp.<link>` and `<link>`.

In SyncPanel, `call[c]` is how far the GTK thread or the resume task is in `start`
or `stop`; `task`, `sender`, `mounted` are the fields of `SyncController`; `sent[a]`
is the broadcast channel of agent `a` (the oldest events fall out), `hand[a]` the
event its forwarder holds, `ui` the bounded channel to the window; `rows` and
`pulsing` the queue list and its timer. The migrations are the three states of
`version` and `column`, a step for each statement, and each of them may fail, which
ends `start`. An agent is `aborting` from the abort to its next await.

In Session a credential is the number of the login that issued it; `keyring[a][k]`
is slot `k` of account `a`, the last slot being the key passphrase, which is the
same for all logins of an account; `task[t]` is a thread's local variables. `saved`
is `config.toml`, which is `Torn` while `fs::write` has emptied it. `totp` is the set
of accounts with a TOTP secret. `revoked` and `wiped` remember, from one press of Sign
In or Sign Out to the next, whether the server has ended the session and whether every
deletion of the sign-out worked; `expired` the logins the server has ended by itself or
whose refresh token the running client has used. In DaemonRpc
`lock` is the holder of the mutex where a handler keeps it across a call, and
`req[c]` the locals of the handler that serves client `c`.

Abstractions that matter: `LocalChange::Renamed`, `RemoteChange::Removed`,
`UploadUpdate`, `DownloadUpdate`, `DeleteLocal` and `Conflict` are never
constructed, so they are left out. Other clients create, modify, trash, rename
and move files, and create and trash folders; they do not rename or move folders:
no report tells the agent of the files beneath, whose rows keep the old path
until they change themselves. The parent link of a remote entry is never
empty for entries below the root, so the `parent_link_for` branch of `apply` is
not taken. A conflict suffix is a fresh stamp per batch: two conflicting batches
that start within one second (possible only when the two tickers coincide) are
left out. An upload is one atomic effect on the drive: its draft is invisible to
every listing, and a leftover draft is replaced by the next attempt. Names are
compared exactly, although `is_excluded` ignores ASCII case.
The resync branch of the loop is the same as a tick, except that it also runs on
an empty buffer, where it does nothing.

SyncPanel's agent is only what the window can see of SyncEngine's: phases and
events. The recent list, texts and icons are left out, as are `trigger_resync` and
`restart`, which have no caller, and the shared state handle, which nobody reads.
Session stores a TOTP secret in one step, which may not happen (its thread ignores an
error), and leaves out a second CAPTCHA helper opened while one is on the screen.
DaemonRpc keeps the bridge's sessions as far as the daemon can tell them
apart; its `Status` request changes nothing.

## 3. What is checked

| Run | Question | Bounds |
|---|---|---|
| `engine_safety` | Is every row true, is the invariant inductive on reachable states, does a batch that sees both sides keep both? | a folder and a file changed from both sides; a file moved by another client; 4 user actions, 1 failed call, 1 restart, 2 attempts per call, channels of 1 |
| `engine_walk` | Are rows true when two missing parents are created on the way, with failures between; does every cycle end unless a call hangs after a failed one; does nothing excluded leak in? | depth 3, 3 user actions, 2 failed calls |
| `engine_live` | Is no local content and no reported remote node ever forgotten on its way, and does all of it arrive once users stop? | one file written on both sides, trashed and recreated remotely; 4 user actions, no failures |
| `resolve` | Is `resolve` the filter-and-append it is meant to be, conflict-free and lossless? | every batch of up to 4 of 9 observations, a nested folder named like the excluded one among them |
| `watcher_feed` | Does the scan-and-poll watcher implement ChangeFeed? | 3 nodes, failing polls, edits between polls and not in the second of the cursor |
| `watcher_restarts` | Can an older version ever overwrite a newer one? | 2 nodes, 1 restart, failing scans and polls, edits during walks and in the second of the cursor |
| `panel` | Does `start` wait for the agent it replaces, does no folder stay mounted without a task in the controller, does the queue agree with its timer, does every press return, and does the window show the truth in the end? | 1 file, channels of 1, 2 agents, 2 presses or restarts, 1 batch |
| `session` | Does a keyring hold its own account's credentials, can whoever is signed in resume unless the server ended the login, does a revoked session never come back, does a sign-out without failures leave no credential? | 2 accounts, 3 slots, 2 logins, 2 sessions, 1 TOTP secret; 2 in all of faults, logins ended by the server, buttons pressed while a task is at work, and restarts (`MaxEvents`) |
| `rpc` | Is no agent and no session lost, does the installed agent work with the daemon's session, is every request answered? | 2 clients, 2 folders, 2 sessions, 2 agents |
| `vfs` | Are cached files whole, marked rows cached, listings exact and inodes unique, through crashes, failures, remounts and table changes? | 2 files, one reported at two paths and both at one; 2 blocks, 2 mounts, 1 edit or failure |

Runs expected to be violated each quote a sentence of the repository:

| Run | Sentence | What TLC shows |
|---|---|---|
| `doc_removal` | `core/config.rs:20` "synced bidirectionally" | a local deletion carries no link id, so nothing is trashed |
| `doc_any_thread` | `ui/sync.rs:64` "Safe to call from any thread (uses the tokio Handle)." | the resume task calls `start` on a thread of the runtime, where `block_on` panics |

"both-modified -> keep both" (`sync/conflict.rs:5`) holds of a batch
(`KeepBothInBatch`). Across batches it does not: an upload makes a revision over
whatever another client stored since the batch was taken.

Reading the code for these models showed other places where it differs from its
comments, or a reader may be surprised; no run of its own states them:

* `sync/conflict.rs:7` "delete-vs-modified -> modified wins": a deletion and a
  download of one path both stay in the batch, and the deletion runs last.
* `ui/sync.rs:170` "gives a clean full scan": a restart during the first scan lets
  the old watcher store the cursor (this `restart` has no caller; Sync Now does the
  same through `start`).
* `sync/propagation.rs:234` "Invalidate the cache file": a modified file is reported
  as `DownloadNew`, which leaves the cached copy where it is, so a file that was once
  read is served as it was then for ever. No property is stated about it: what the
  comment says fails, and what holds is the opposite of it.
* `crates/protondrive-fuse/src/lib.rs:89` "prevent duplicate concurrent downloads":
  the locks belong to one mount (`overtaken` in VirtualFs).
* `core/daemon.rs:110` speaks of expired tokens, but any error of the resume, a
  network error too, wipes the stored credential (`CallResume` in Session).
* `core/keyring.rs:8` "the most recent refresh token": nobody stores the refresh token
  that the running client gets for the old one. Session has it as `Expire`, and
  `SignedInIsStored` asks for a valid login except for those in `expired`.
* `core/daemon.rs:183` "clears all stored credentials": `logout` deletes four of the
  five slots of `core/keyring.rs:25`, and the TOTP secret, which the sign-in form and
  the settings store (`ui/ui/mod.rs:867`, `:1152`), stays for ever (`totp` in Session
  never shrinks). `logout` also returns `Ok` when the server or a deletion failed.
* `core/daemon.rs:185`: a sign-out that ends with the process before it has revoked the
  session, or whose revocation failed, and which has deleted no slot yet, is undone by
  the next start, which resumes (`SignOutComplete` speaks of the session once it is
  revoked, and of the slots once every deletion has worked).
* `crates/protondrive-daemon/src/main.rs:268`: `StartSync` writes back the folder it
  read before it spawned, over one that `SetSyncRoot` set meanwhile.
* `sync/state.rs:282`: after a crash, an SQL error or a second caller between the
  `ALTER TABLE` and its `user_version` (line 283) the database cannot be opened, by
  this start or any later one. SyncPanel takes these steps; no property excludes them.
* `bridge/go/proton-api-bridge-fork/file_upload.go:282`: a worker whose error nobody
  reads blocks for ever and keeps its permit, so an upload that is repeated after a
  failed one may hang (`BusyEnds` excepts a call made after a failure).
* `ui/sync.rs:191`: the resume task panics where it should wait for the agent it has
  aborted, so a later `start` may run beside that agent for the moment until its next
  await (`OneAgent` names the case).
* `bridge/go/bridge.go:219` and `:401` write fields of one session without a lock.

What the engine promises of the drive is about nodes whose last change the watcher has
found: `ReportRemote` may report a change at any time or never, because the watcher
overlooks edits that fall into the first scan, a poll's walk or the second of the
cursor. RemoteWatcher says which it overlooks, and the four conditions of `Calm`
(section 4) when it overlooks none.

`LocalRemembered` and `RemoteRemembered` say for every moment what the two liveness
properties say for the end, and that nothing is lost in between. Both are about an
agent that is left alone (`Undisturbed`): a call that fails four times is dropped and
an aborted agent forgets its batch, so without that condition neither would hold. A file in a folder is covered only if the folder stays
(`TreeStays`), for an upload into a folder that somebody else trashed or replaced is
refused. The local paths of `engine_live` are in the root, so TLC sees that case only
without folders, and files in folders rest on the theorem.

Why the bounds are enough: the interesting cases are races between two writers
of one path, a folder replaced under an operation, a failure between two calls,
and a restart in between. Each needs two or three user actions and one fault; the
bounds allow one more. Capacity 1 makes every channel full as soon as possible. In SyncPanel two agents
and two presses give an agent that is replaced while its events are on their way; in
DaemonRpc two clients reach every pair of handlers, and two sessions or agents the
replacement of one; in Session presses while another task is at work, faults, logins
ended by the server and restarts share one bound (`MaxEvents`), because each multiplies
the states: two of them give every pair, such as a crash in a sign-out whose revocation
failed. The properties that assume no overlap say so.
`Attempts` is 2 rather than 4 in the runs because attempts differ only in their
number; the proofs are for any number. Deadlock is checked in every run but
`session`, where the program really stops: it does not start with a torn
`config.toml`.

Fairness: both watchers run on threads or tasks of their own, and tokio's
`select!` polls its branches in random order, so each of them is weakly fair;
users, failures and restarts are not. Of the watchers only the local one is fair;
finding a change of the drive is not (see above). Ticks recur, so a cycle with a
non-empty buffer is weakly fair. Nothing is assumed about which branch comes first. A
bridge call has no timeout (its context is `context.Background()`), so that it returns
is an assumption: SyncEngine makes it of calls until the first one fails, and from then
on lets any call take for ever, because of the upload workers named above. `BusyEnds`
says that a cycle ends or waits in such a call; `LocalContentReachesDrive` and
`ReportedEventuallyMirrored` are checked without failing calls. In DaemonRpc each client's handler is strongly fair: tokio polls every task, and its
mutex is handed over in the order of arrival, so a handler that can go on again and
again does; which request a client sends, and whether, is not fair. `Answered`
therefore assumes that a call of the bridge returns, with whatever answer. In SyncPanel the
GTK thread, the agents, their heartbeats, the forwarding tasks and the timer are
weakly fair, and putting an event into the window's channel is strongly fair, because
tokio wakes waiting senders in their order; buttons and batches are not fair. `Settles`
and `CallsReturn` therefore assume that each operation of an agent ends and that an
aborted agent gets to its next await.

Every property of a passing run has a mutant in `PROJECT.json`: an operator next
to the one it replaces in the module, which makes TLC find the property violated.

## 4. What is proved

`SyncEngineProofs` proves, for any names, depth of trees, channel capacity,
number of attempts, edits, faults and restarts:

* `EngineTypes`: `Spec => []TypeOK`;
* `RowsAreFaithful`: `Spec => []RowsFaithful` - a row of the mapping table names
  a node that the server has had at exactly that path, in exactly that parent and
  of that kind;
* `EngineInvariant`: `Spec => []Inv`, from which both follow;
* `ExcludedStaysOut`: `Spec => []ExcludedNotMirrored`, if no conflict copy of a file
  in the root is named like an excluded folder (`CopiesNotExcluded`);
* `BothAreKept`: `Spec => KeepBothInBatch`, if the name of a conflict copy is no path
  of either side and no earlier copy (`CopiesFresh`): nobody uses the suffix of
  `conflict.rs`, and no two batches have the same timestamp.

* `DriveIsRemembered`: `Spec => []RemoteRemembered` - while no call fails and no agent
  is aborted, a node of the drive that selective sync keeps and whose last change the
  watcher has found has its own row, or a report of it is still to be written;
* `LocalIsRemembered`: `Spec => []LocalRemembered` - likewise the content of a local
  file is on the drive or on its way, if folders and files keep their paths
  (`PathsKeepKind`: what a local path lies in is a local folder, and no conflict copy
  has the path of a folder; TLC evaluates it for the instances it runs).

`RowsFaithful` is not inductive: a row is written from what the agent remembers.
`Inv` adds that what it remembers is true - the reports in the channel and the
buffer (`ReportsFaithful`), the folder a walk stands in and the link a call
returned (`StepFaithful`) - and that the paths of the drive are those spelled by
its parent links (`TreeFaithful`). The argument is monotonicity: a node never
forgets a place it has had and a folder never moves, so a true memory stays true
whatever users do. One lemma per environment step says what it leaves true
(`CreateEffect`, `ReviseEffect`, `TrashEffect`, `RenameEffect`), one per kind of
memory that it survives (`RowsKept`, `ReportsKept`, `StepKept`, `StandsLast`), and
each action only has to justify the memory it writes. The assumptions are
`NamesAssumption` and `EngineAssumption`: paths are non-empty sequences of names
and bounds are naturals.

For `ExcludedStaysOut` the strengthening `SelectionInv` says that the operations of
the batch, as well as the rows, lie in selected top-level folders; it survives
conflict renames, parent walks and recorded uploads because each of these stays in
the top-level folder of its operation. For `BothAreKept`, `KeepInv` says that every
place a node of the drive has had is a remote path, a local one or an earlier copy
(`PlacesNamed`), that uploads work in local paths or copies (`OpsNamed`), and that no
upload of the batch has the path of one of its downloads (`Apart`). `resolve` makes
the batch so by renaming to a fresh name, and users cannot undo it: an upload
revises only a file that stands at its own path when the call is made, and no file
reported in the batch does unless it has been renamed since. Both conditions hold of
the instances TLC runs. They are assumptions on the constants, because the model
leaves the spelling of names open.

`RemoteRemembered` alone does not survive a batch: storing a batch removes reports, and
rows of replaced nodes arrive late. `RemoteInv` adds that a path has one node alive
(`OneTree`), that no operation of the batch deletes a row unless a local program
removed the path (`RemovalsAsked`), and the part that is hard, `DriveRemembered`: an
undiscovered node aside, the *last* report of a path on its way, channel behind buffer,
is of the node alive there, or the node's row stands and nothing on its way replaces it,
no report of another node and no upload about to be recorded. The order
is what counts, for earlier reports of the path may name nodes that are gone.
`HandedOver` says that taking a report from the channel keeps it, `BatchReports` that
reconciling and resolving do, and `BatchRow` that the transaction leaves the last
report's link in the row.

For `LocalRemembered` the danger is an upload that the server refuses, because it is
dropped. `LocalInv` says why none is: a path has a node of its kind, on the disk, on
the drive and in all that is on its way between (`KindsKept`), so no folder has the
name of a file; where folders stay, nothing on the drive dies (`AllAlive`) and the
folders that local files lie in have their rows, or are about to (`FoldersRecorded`),
so no walk makes one again; and the folder an operation has found is alive
(`FolderFound`). Then every call
succeeds, and each step hands the content on: event to channel, channel to buffer,
buffer to an operation of the batch under whatever name `resolve` gives it, operation
to drive.

`ResolveProofs` proves, for any observations and batches of any length:

* `ResolvedIsConflictFree`: `Spec => []ConflictFree`, if no reported file has the
  very name a conflict copy gets (`CopiesFresh`; it holds of the instance TLC runs
  and is needed, because `resolve` does not look at its own copies again);
* `ResolvingLosesNothing`: `Spec => []NothingLost` - as many uploads of each local
  file as were observed, and every reported entry outside the excluded folders. A
  resolution is a one-to-one map of the batch's places to themselves, so by the
  theorems on finite sets it reaches each of them, and its uploads of a file are in
  bijection with the observed ones;
* `EveryBatchResolves`: there is a resolution, so the two above are not about an
  empty set. Sorting is an induction over data; instead, each operation is given
  the place that the number of those before it says (`ListedInOrder`), which works
  for any total order;
* `ResolvingIsReference`: `Spec => []ResolveIsReference`. The engine uses `Resolve`,
  which says by conditions on a permutation what a result is; `Reference` builds it
  the way the code does, a filter and then one append per path, for each order the
  `HashMap` may give. Both are lists of the batch's places in one strict order,
  `GoesBefore`, that an order of the paths determines. Building keeps "lists these
  places in that order" step by step (`ListsAppend`, `ListsJoin`, `FilteredLists`,
  `GatheredLists`); a permutation that meets the conditions is such a list for the
  order in which it comes to its paths (`PathsInOrder`); and a set is listed in a
  strict order in one way, because a member stands behind as many as are before it
  (`ListedBehind`, `ListedOnce`). The induction is over a number up to the length of
  the batch, with a set in the place of the property (`UpTo`).

Its assumptions are `NamesAssumption` and `ResolveAssumption` (the observations are
of their types).

`VirtualFsProofs` proves, for any number of files, blocks, mounts, rows, edits,
failed downloads and crashes:

* `CacheIsAlwaysWhole`: `Spec => []CacheWhole` - a file in the cache is a complete
  revision unless a remount overtook a download;
* `CacheInvariant`: `Spec => []CacheInv`, from which it follows (it is a part of
  `VfsInv`, the invariant the run checks: `VfsInvariant`). `CacheInv` (module **VirtualFsInvariant**) says that only the current mount downloads, that
  its link is not cached yet, that the blocks it has copied are of one revision
  and in the link's part file, and that a part file is under no other name
  (`PartsApart`): so writing to it, or emptying the one a crash left, touches
  nothing published. A remount that overtakes a download makes `overtaken` true,
  and then only the types are left: the old mount may publish a file the new one
  has just truncated.

* `MarkedIsCached`: `Spec => []MaterializedIsCached` - a row the filesystem has
  marked as on this machine names a cached file, whatever the agent stored at its
  path since, and though two mounts may publish at once. `FlagInv` adds to the
  property that a marked row is one of a file; the argument needs the types of
  `CacheInv`, and that nothing ever leaves the cache.

* `ListingIsExact`: `Spec => []ListingExact` - a directory read in any number of
  calls has every entry of its start and nothing twice. `ListInv` is the invariant:
  a path has one row (`OneRowPerPath`), and unless an entry changed its directory
  (`moved`) what was handed out is what stands before the offset, and what was there
  at the start is there still (`InPlace`). An upsert keeps this because it leaves a
  row's position or adds one at the end, which `PathsKept` and `PathsGrow` carry over
  from the table to the children of a directory.
* `InodesAreOneToOne`: `Spec => []InodesOneToOne`, whether a link is met by `new`,
  `lookup` or `readdir`.
* `VfsTypes`: `Spec => []TypeOK`.

The inode table and the children of a directory are computed row by row, so what the
last three say is an induction over rows. `UpTo` does it for a set in place of a
property (a set that has 0 and, with each number, its successor has all numbers up
to the last), and `StepsCompose` shows once that a function defined row by row
exists and has the type of its steps.

Its assumption is `VfsAssumption`: the root is not a listed link, a link is a
folder or a file, and bounds are naturals.

`RemoteWatcherProofs` proves, for any finite tree, number of watchers, channel
capacity, calls, faults and restarts, that `WatchInv` is invariant, and from it
`WatcherTypes` and `NeverOlderThanKnown`. What makes `NeverOlder` hard is that a walk
and a poll hold versions they read before the drive changed. `WatchInv` therefore says
that the versions of a node in the channel never fall, and that what the running
agent's watcher still holds of a node is no older than the last version of it handed
over. Within one walk this needs that no node is met twice (each folder is listed
once, which is where the tree shape of `WatcherAssumption` is used).

`RemoteWatcherFeedProofs` proves that, while a watcher is not restarted,
`CursorMonotone` holds (`CursorNeverBack`), and, if moreover no edit falls into a walk
(`RacingEdits`) or into the second that the cursor names (`SecondEdits`) and no listing
of the first scan fails (`Calm`), that the watcher implements
ChangeFeed (`WatcherIsAFeed`: the initial state is one of the feed, and every step is
a step of the feed or hidden) and `CursorSound` (`CursorNamesTheSent`). Its invariant
`FeedInv` follows the phases of the watcher: during the scan, what is in a listed
folder is reported or in the answer at hand, and what is below is still queued
(`Scanned`, `Visited`); while it sends a poll's answer, every change after the cursor
is reported or in it, folders first (`Sending`); at rest, a change that was not
reported is later than the cursor (`Settled`). Each of the four conditions is needed:
without any one of them TLC finds a behaviour that is none of the feed's, so they
are the program's limits and not the proof's (an edit in a walk or in the cursor's
second is lost, a listing that failed is never repeated, an old watcher moves the
cursor).

`DaemonRpcProofs` proves, for any clients, folders, sessions and agents, that
`RpcInv` is invariant, and from it `RpcTypes`, `NoAgentIsLost`, `NoSessionIsLost` and
`SyncIsOnSession`. The four properties are not inductive: a handler acts on what it
remembered before it gave the mutex back. `HandlesTrue` says what of that is still
true - the session it cloned is registered, the agent it spawned was spawned for that
session, a handler that makes or revokes a session holds the mutex, and the session
of a `StartSync` is the daemon's unless a `Logout` overtook it. Assumption:
`RpcAssumption` (bounds are naturals, the default folder is one a client may choose).

`SyncPanelProofs` proves, for any files, channel capacities, agents, presses and
batches, that `PanelInv` is invariant, and from it `PanelTypes` (no channel exceeds
its capacity), `OneAgentWorks`, `MountedHasAgent` and `PulsesWhileQueued`. `OneAgent`
says that an agent which has not ended is the controller's or one that a call of `stop`
waits for, so that `start` never spawns beside the agent it replaced, and names the one
exception, the agent at which the resume task panicked. `StopGoesOn` is the
strengthening: between `stop` and the next spawn the controller holds no task, and the
resume task, which panics, never spawns. Assumption: `PanelAssumption` (capacities are positive, the files
are finitely many).

`SessionProofs` proves, for any accounts, slots, logins, sessions and bounds, that `OwnerInv` is invariant, and from it `KeyringIsOwned`.
A slot is written from what a task carries, for the e-mail of the moment it asks. The
invariant therefore says, unless the e-mail was changed while a task was at work, that
what each task carries belongs to the account it will be stored under (`OwnerTask`),
and that a login waiting for its CAPTCHA, which any session the helper finds may hold,
is one of the current e-mail (`PendingOwner`). Assumption: `SessionAssumption`.

It also proves `SessionTypes` (`Spec => []TypeOK`), `SignedInCanResume`
(`Spec => []SignedInIsStored`) and `SignOutIsComplete` (`Spec => []SignOutComplete`).
The last two are about a user who presses no button while another task is at work
(`overlaps = 0`), and need the history of the one task that works: `AloneInv`
(`OneTaskAtATime`) says that all tasks but one are idle, at which places each kind of
task can be, and for each place of a sign-in, a resume or a sign-out what it has
already put into the configuration, the bridge and the keyring (`SigningTrue`,
`LogoutTrue`); that who is signed in has a credential of one login and account
(`Works`); and what a finished sign-out has left (`WipedTrue`). Every fault ends a task
at a place where these hold again, and a restart keeps what is on disk. Whether the
server still accepts that login is a second invariant, `EndedInv`: the login of the
bridge's session is valid unless the server has ended it itself (`Honoured`), a
sign-out between its steps holds the handle of that login (`LogoutKnows`), and after a
revocation the first slot holds no valid login and no task carries one (`RevokedTrue`). The theorems follow from the two together (`SessionInvariant`).

Left to TLC: liveness (`LocalContentReachesDrive`, `ReportedEventuallyMirrored`,
`BusyEnds`, the fairness of ChangeFeed, `Answered`, `Settles`, `CallsReturn`), which needs fairness
and `ENABLED`. Every safety invariant and every action property of a passing run is
proved.

## 5. Not modelled

* The link cache, the block upload workers and their semaphore, OpenPGP and the API
  client: the Go library below the bridge. The models take the answers of the server
  from it; that an upload may hang after a failed one is in SyncEngine's fairness, and
  the workers are listed as a hazard.
* `search.go` and `mail.go`: not called by the Rust side, but for the lookup before
  an upload, which is part of it.
* `BlobCache` and `MetadataDb` of `core/cache/`: no crate constructs them; they are
  no part of the running program.
* The two fields of a bridge session that concurrent calls write without a lock.
* Texts, layout, the recent list, tray menu, autostart, crash dialog, command line
  tool and packaging: no state that another part relies on. The settings are modelled
  as the e-mail saved with them; the sync folder does not change under an agent.
* Folders renamed by other clients, two batches in one second (section 2), the clocks
  in fractions of a second (a change in the second of the cursor is never reported),
  the kernel's page cache, and attributes of files. No local change happens below a
  mount, so VirtualFs has no uploads: rows that an agent without a mount stored for
  uploaded files are marked materialized although the cache does not hold them.
