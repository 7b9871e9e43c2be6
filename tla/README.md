# Formal model of mail-backup

mail-backup follows a JMAP mail account and keeps a copy of it on disk: one
`.eml` and one `.meta` (sidecar) file per message, in one directory per mailbox,
either as a plain directory (`dir` store) or inside a git repository whose HEAD
is the archive (`git` store). This directory holds TLA+ modules of its core, the
TLC runs that check them on small accounts, and proofs for every size.

## 1. The system

| Component (source) | State it keeps | Operations | Hard behaviour | What makes it correct |
|---|---|---|---|---|
| Backup engine (`engine/mod.rs`, `backfill.rs`, `sync.rs`) | the pass: cursor, collected metadata, plan | `run_backup`, `run_refresh`, `backfill::run`, `finalize_day`, `sync::run`, `reconcile`, `apply_planned` | the account changes during a pass; cancel flag read at fixed points; every await can fail; the process can be killed | the cursor never acknowledges what is not archived; nothing is removed without cause; it converges |
| Mailbox tree (`mailbox_events` in `engine/mod.rs`, `stores/dir.rs`, `stores/layout.rs`) | directories, cards (`.mailbox.yaml`), the index of both | `apply_mailbox_upserted`, `rename_dir`, `apply_mailbox_deleted`, `assign_dir_name`, `topological_order`, `primary_mailbox` | names that collide once sanitized or case-folded; a mailbox that takes a name another one is leaving; removals put off while there is mail; interruption between renames | directories distinct and nested as the mailboxes are; a refresh ends at the account's tree |
| Directory store (`stores/dir.rs`) | worktree files, `path_edits` | one handler per mail event, `checkpoint`, `save_state`, `open` | each handler is several file operations; redelivery onto half-done work | both files of a message together; the index describes the files |
| Index and state files (`stores/index.rs`, `stores/mod.rs`) | `index.json`, `state.json` | load, save, rebuild | two files saved in turn, each removed before it is replaced | a trusted index is true |
| Git store (`stores/git.rs`) | HEAD and its history, `pending` edits, `head_at_save`, `current_commit_day` | `open`, `apply`, `checkpoint` (amend or new commit), `verify` | worktree ahead of HEAD after a kill; queue kept after an error; passes across midnight | HEAD is a consistent archive; the worktree is HEAD between passes; the past is not rewritten |
| JMAP source (`sources/jmap/mod.rs`, `helpers/jmap/client.rs`) | none | `connect`, `changes`, `list_mailboxes`, `enumerate`, `get_messages`, `fetch_blob` | paging over a changing list, lost anchors, two states that are never read together, `cannotCalculateChanges` of each | no live message is taken for a deleted one; the pair of states saved is covered |
| Circuit breaker and retry (`helpers/resilience.rs`) | breaker state and streak, per-call attempts | `try_acquire`, `record_success`, `record_failure`, `retry` | concurrent calls, dropped calls, unreported ends | no call opens it alone; no call hangs; a probe decides |
| Daemon loop (`engine/stream.rs`) | deadlines, pending batch, backoff | `run`, `stream_phase`, `run_sync` | debouncing against safety poll, schedule and disconnection | every notification is followed by a sync in time; everything is caught up in the end |
| Event transports (`sources/jmap/events/*`) | strikes and cooldowns | subscribe, fall back | transports that die at once | some transport is always tried |
| Restore (`restore/*`) | mailboxes by path, mailbox map, summary | match or create mailboxes, skip what is there, import; dry run; `--at` | refused requests, lost answers, cancellation and re-runs, an owner who uses the account meanwhile | nothing imported twice or astray; the summary is true |
| `index`, `verify` (`main.rs`) | none | rebuild the index; compare it with HEAD | the directory store's code runs on a git worktree | a trusted index is HEAD's |
| Layout and entities (`stores/layout.rs`, `sidecar.rs`, `entities/mail.rs`) | none | `primary_mailbox`, paths, sidecar text | name collisions, parent cycles | a message has one place |
| Policies, config, pings, argument parsing, telemetry | configuration | parsing, HTTP pings, dispatch | - | - |

The engine drives a `MailSource` and a `MailStore`. It reads the account
(enumeration or change list), plans adds, updates and deletes against the store's
index, hands the store events, and asks for a checkpoint. The store's checkpoint
makes the tree, then the cursor (`state.json`), then the index cache
(`index.json`) durable, in this order. The git store wraps the directory store:
it takes the path edits that one records and applies them to HEAD's tree, in one
commit per UTC day: a day of mail in the past gets a backdated commit of its own, and
the live commit is amended while its day lasts. Restore reads a directory or a
commit, and needs neither engine nor store. The
daemon repeats passes, and all requests of one client share a circuit breaker.

## 2. The modules

| Module | What it is |
|---|---|
| `MailStore` | no variables: what each mail event does to files, recorded edits and index entry, completely (`UpdateDone`, `AddDone`, `DeleteDone`) or cut short (`UpdateTorn`, ...), and the git layer's `Overlay`, `BuildTree`, `Rebuilt` |
| `BackupEngine` | the state machine that composes those operators with the account, the passes, the saves, and faults; its properties |
| `Mirror` | the abstract specification: an archive, an acknowledged account state, and when each may change |
| `MailboxTree` | mailboxes that are created, renamed, moved and destroyed; their directories, cards and index; the mail that is refiled with them |
| `DailyLedger` | the history of a git store: backdated, new and amended commits over several days, and what `index`, `verify` and `restore --at` read from it |
| `JmapSource` | the requests of a pass one by one, while messages and mailboxes change between any two |
| `Restore` | runs of the restore command against an account that refuses, fails, or is used by its owner |
| `CircuitBreaker` | the calls of one client and the breaker they share |
| `StrategyChain` | how a stream of notifications is obtained: strikes, cooldowns, the two loops over the transports |
| `Daemon` | extends `StrategyChain` with the loop around it: passes, deadlines, syncs, reconnection, shutdown |
| `MCBackupEngine`, `MCMailboxTree`, `MCDailyLedger`, `MCJmapSource`, `MCRestore`, `MCCircuitBreaker`, `MCDaemon` | constants for TLC |
| `BackupEngineProofs`, `MirrorProofs` | theorems about the engine, the second on top of the first |
| `MailboxTreeProofs`, `DailyLedgerProofs`, `JmapSourceProofs`, `RestoreProofs`, `CircuitBreakerProofs`, `DaemonProofs` | theorems about the module they are named for |

The passes of the engine appear in four modules, each with the part of the state its
hazards need and the rest left coarse: `BackupEngine` has the files of a message, the
saves and every fault; `MailboxTree` has mailboxes, and writes a message in one step;
`DailyLedger` has the clock and the history, and plans in one step; `JmapSource` has the
requests, and applies a plan in one step. What one takes for granted is said at its
head, with the module that takes it apart.

Operators whose comment begins with `(mutant: ...)` are deliberately wrong
variants of the definition below them. They take no part in any specification;
each is a bug one of the properties must be able to see.

### State and code

* **Account** (`version, meta, created, changed`; external): one counter for the
  Email state, the metadata of each live message, and the states that created
  and last changed it. `Page(since, upto)` is a response of `Email/changes`.
* **Disk** (`wt, head, dstate, dindex`): worktree, HEAD's tree, `state.json`,
  `index.json`. A file is named by message, mailbox and kind, which is all
  `layout::message_path` makes of it here.
* **Process** (`st, ix, edits, pending, cancel`): `StoreState`, `StoreIndex`,
  `DirMailStore::path_edits`, `GitMailStore::pending`, the cancel flag. An edit
  list is kept as its last edit per path: `build_tree` reads no more of it. The cards of
  the mailboxes, which do not change here, are one unit (`cards`): whether they are in the
  worktree, in HEAD, queued for the next commit, in the index and in `index.json`; a
  backfill and a reconciliation write them before they enumerate.
  `saved` stands for `head_at_save` naming the current HEAD.
* **Pass** (`pc, kind, stage, target, delta, unread, anchor, seen, metas, plan,
  batch`): where the pass is and what its local variables hold.

| Actions | Code |
|---|---|
| `Begin` | `open_and_connect`, then the choice made by `run_backup` / `run_refresh` |
| `Enumerate`, `SkipAfterLostAnchor`, `EnumerationEnds` | the stream of `enumerate` and the loops over it |
| `FinalizeDay`, `BackfillComplete` | `finalize_day`; the end of `backfill::run` |
| `ChangesPage`, `StateTooOld`, `PlanSync`, `PlanReconcile` | `sync::run`, `sync::reconcile` |
| `StartPastDay`, `StartFinal`, `FetchFails` | `apply_planned`, `fetch_raw` |
| `ApplyAdded/Updated/Deleted`, `ApplyEnds` | `DirMailStore::apply`, `GitMailStore::apply` |
| `Commit`, `BuildTreeFails`, `SaveState`, `SaveIndex` | `checkpoint` of both stores, `save_state` |
| `Interrupted`, `Cancel`, `Restart` | the checks of the cancel flag, SIGINT, the next process |
| `Fail`, `Crash` | an I/O error that ends the pass (the queues survive); a kill (they do not) |

A live sync of the daemon reuses the open store; it appears as another
`Begin("backup")`, because after a pass that succeeded memory holds what an open
would read.

`MailboxTree`:

* **Account** (`boxes, retired, mail, touched, version`; external): the tree of mailboxes,
  ids never used again, the mailboxes each message is in. `filter` and `git` are
  settings chosen at the start (`Starts`). `calm` is history: it is TRUE at first, guards no
  action, and ends with the first of the cases that the properties except.
* **Durable** (`disk, head, saved`): directories with their cards and mail, HEAD's tree,
  the last save. **Process** (`ix, edits`): `StoreIndex`, the last path edit of each file.
* **Pass** (`pc, stage, delta, listed, todo, gone, plan, target, done`): what it was told, what
  `list_mailboxes` returned, the mailboxes still to write and to remove, the plan.
* A path is a sequence of segments, a segment a sanitized name with the suffix
  `assign_dir_name` gave it or none. `Sanitized`, `Lower` and `Collation` are
  `sanitize_segment`, `to_lowercase` and the byte order, on the names in use.

| Actions | Code |
|---|---|
| `CreateBox`, `RelocateBox`, `DestroyBox`, `FileMessage` | external: the account |
| `Begin`, `ListMailboxes` | the choice of `run_backup` / `run_refresh`; `list_mailboxes`, `mailbox_events` |
| `PlanSync`, `PlanAll` | `sync::run` and `reconcile` / backfill, with the filter as they evaluate it |
| `RenameDir`, `RenameFails`, `MakeDir`, `WriteCard`, `UpsertsDone` | `apply_mailbox_upserted` in `topological_order`, `rename_dir` |
| `AddMail`, `UpdateMail`, `DeleteMail`, `CommitDay`, `MailDone` | `apply_planned`, the message events, the days of a backfill |
| `Prune`, `PruneDone` | `apply_mailbox_deleted` |
| `Commit`, `CommitFails`, `Save` | `checkpoint`, `build_tree`, `save_state` |
| `Interrupt` | an error, a cancellation or a kill; the process with its edits may live on |

`DailyLedger`:

* **Clock and account** (`today, mail, received, behind, since`; external). Time is the UTC
  day. `behind` is what the cursor has not acknowledged, `since` what the running pass
  will not.
* **Repository** (`chain, work`): the first-parent history of HEAD with each commit's
  tree, date, day in its message (`label`) and kind; the worktree. **Saved** (`dstate,
  dindex`), **store** (`st, ix, pending`, and `edits`, what an apply
  that failed has left in `path_edits`) and **pass** (`pc, refresh, day, plan, point`) as in
  `BackupEngine`, with `last_committed_day`, `current_commit_day` and `head_at_save` in `st`.
* **History** (`atEnd, odd`): HEAD's tree as each day ended, and which of the cases
  went on that the properties except.

| Actions | Code |
|---|---|
| `Arrive`, `Modify`, `Destroy`, `Tick` | external: the account, midnight |
| `Begin` (`WithRoot`, `OpenedIndex`) | `GitMailStore::open`, `ensure_initial_commit`, the trust in the cache |
| `BackfillDay`, `BackfillEnds` | `finalize_day`, the end of `backfill::run` |
| `Plan`, `ApplyOlderDay`, `ApplyRest` | `sync::run` / `reconcile`; `group_by_day` and the two parts of `apply_planned` |
| `Checkpoint` (`BuildTree`, `Amendable`, `Amended`, `NewCommit`), `Save` | `GitMailStore::checkpoint`, `amend_head`, `commit_new`, `save_state` |
| `Stop` | a kill, or a cancellation by a shutdown: the process ends |
| `Fail` | an error, after which the daemon opens the same store again: what was applied stays queued |
| `Reindex` (`Inconsistencies`) | `mail-backup index`, and `verify` before it (`diff_indexes`) |
| `At` (`Resolve`, an operator) | `resolve_commit` of `restore/reader.rs` |

`JmapSource`:

* **Account** (`now, boxes, boxAt, mails, mailAt, bornAt`; external): when each mailbox and message
  last changed, and each message arrived; `EmailState` and `MailboxState` are the latest of each.
* **Store** (`cursor, dirs, held, filed, left`): the pair of states in `state.json`, the
  mailboxes known, the messages held and the directory each is in. `omitted` is history: held
  messages whose end the server has left out of a change list.
* **Pass** (`pc, mode, target, more, relist, listed, ids, seen, destroyed, metas`): the locals of
  a pass, as far as answers of the server set them.

| Actions | Code |
|---|---|
| `PutMailbox`, `DestroyMailbox`, `PutMessage`, `DestroyMessage` | external: the account |
| `Begin`, `ReadEmailState`, `ReadMailboxState` | `run_backup` / `run_refresh`, `connect` |
| `EmailChanges`, `StateTooOld`, `MailboxChanges`, `MailboxStateTooOld` | the two halves of `changes` |
| `List`, `Query`, `Get` | `list_mailboxes`, a page of `enumerate`, a chunk of `get_messages` |
| `Apply` | the plan and its events, the save |

`Restore`:

* **Target** (`boxes, mail`): the account restored into. **Given** (`content, prefix`): what of
  the archive can be read, and `mailbox_prefix`. The archive itself is constant.
* **Run** (`pc, dry, byPath, taken, mapping, places, todo, summary, outcome`): the locals of
  `run_restore`, `ensure_mailboxes` and `import`. A place is an archived mailbox, the prefix,
  or the mailbox for mail that has none left.
* **History and bounds** (`disturbed, foretold, cancel, runs, faults, owner`).

| Actions | Code |
|---|---|
| `Begin`, `ListMailboxes` | the plan of a run (`Resolved`, `Needed`, `Places`), `list_mailboxes` |
| `Reuse`, `Create`, `CreateRefused`, `CreateAnswerLost`, `MailboxesReady` | `ensure_mailboxes`, `create_mailbox` and its retry |
| `SkipExisting`, `PassOver`, `Import`, `ImportFails`, `ReadFails` | the loop over the messages, `message_exists`, `import` |
| `Cancel`, `Interrupted`, `Complete`, `Stop` | SIGINT, the ends of a run |
| `OwnerCreates` | external: the owner |

`CircuitBreaker` has one action per branch of `try_acquire`, `record_failure`
and `retry`: `Admit`, `AdmitProbe`, `Reject`, `Succeed`, `FailTransiently`,
`FailForGood`, `Wake`, `Drop`, and `CoolDown` for the deadline of an open breaker.
Time is only "before" and "after" that deadline.

`Daemon` (with `StrategyChain`):

* **Loop** (`pc, refresh, backoff, pending, deadline`): the locals of `run` and
  `stream_phase`. `deadline` maps each deadline that is set (`quiet`, `batch`, `poll`,
  `schedule`) to the seconds left. `check` is the part of the loop from its head to
  the `select!`; `wait` is the `select!`.
* **Stream** (`phase, again, todo, deferred, current, healthy, tried`): the generator
  `events`. It advances only in `wait`, where the loop polls it, so a deadline can
  interrupt the choice of a transport anywhere. `Ended` is the flag `disconnected`:
  the loop learns of an end in the poll in which it happens.
* **Health** (`strikes, cooling`): survives streams, as `StrategyHealth` does.
* **Account** (`account, fed, held, reading`; external): the changes so far, those
  the server recorded in its change feed, those in the archive, and those the pass
  or sync in progress will bring. A sync reads `fed`; a refresh reads everything.

| Actions | Code |
|---|---|
| `Stop`, `BeginPass`, `PassSucceeds`, `PassInterrupted`, `PassFails`, `BackoffEnds` | `run` |
| `ScheduleDue`, `BeginSync`, `SyncSucceeds`, `SyncFails`, `Disconnected`, `Wait` | `stream_phase` up to its `select!` |
| `Notified`, `StreamChooses`, `StreamEnds`, `Tick`, `Wake` | the arms of the `select!` |
| `Skip`, `SetAside`, `Try`, `Subscribed`, `Refused`, `SecondLoop`, `GiveUp` | the choice of a transport in `events` |
| `Cut`, `Ends`, `Strike`, `StreamEnded` | the ends of a stream and their accounting |

## 3. What is checked

All engine runs have two mailboxes and two days, today being the second, and
two messages.
`MaxVersion` bounds the account's changes (the first state counts as one),
`MaxCancels`, `MaxCrashes` and `MaxFails` the faults.

| Run | Store | Bounds | Properties |
|---|---|---|---|
| `git` | git | 3 states, 1 cancel, moves, flag changes, filter exclusion | `TypeOK`, `CursorSound`, `WorktreeCommitted`, `ImplementsMirror` |
| `dir` | dir | 3 states, 1 cancel, lost anchors, transient messages omitted | `IndexDescribesArchive` |
| `crash` | git | 4 states, 1 kill, moves | `NoMessageLost`, `WellFiled`, `RemovalJustified` |
| `faults` | git | 3 states, 1 error anywhere, torn saves | `BackfilledDaysHeld` |
| `live` | git | 2 states, 1 cancel and restart | `Converges` |
| `mailboxes` | both | 3 mailboxes with 3 names that collide, 1 message, 3 states, 1 stop, 3 starting settings | `TypeOK`, `DirsDistinct`, `DirsNested`, `IndexRebuildable`, `IndexedIsHeld`, `Mirrors`, `RefreshPrunes`, `Resumes` |
| `ledger` | git | 2 messages with 2 metadata, 3 days of which the clock shows 2, 3 changes, 1 kill or error | `TypeOK`, `Sealed`, `AtIsThatDay`, `FoundOnItsDay`, `IndexIsCommitted` |
| `source` | - | 2 messages, 2 mailboxes with 2 names, pages and chunks of 1, 3 changes, change lists that leave out what came and went | `TypeOK`, `CursorCovers` |
| `restore` | - | 4 archived mailboxes, 3 messages, 2 accounts, 3 runs, 1 fault, 1 mailbox added by the owner | `TypeOK`, `MappingFaithful`, `NoDuplicate`, `ImportedInPlace`, `CleanRunSucceeds`, `CompleteMeansAll`, `DryRunForetells` |
| `breaker` | - | 3 calls, 2 attempts, threshold 3, drops | `TypeOK`, `OpensTogether`, `CallsFinish` |
| `daemon` | - | 1 change, 3 transports (1 unsupported), 3 drops, 1 failure, deadlines of 2, 3, 5, 6 | `TypeOK`, `GivesUpOnlyWhenAllFailed`, `Prompt`, `StopsPromptly`, `CatchesUp` |

Why this is enough: every property speaks of one message at a time, so a second
message serves only to share a day, a page or a batch with it, or to be on
another day. Two days distinguish today from the past. A hazard needs at most
one fault and one or two changes; the violation run and the known limits below, found
within these bounds, show the bounds let the interesting cases happen. In `mailboxes`
one mailbox collides with another by its sanitized name, up to case, and with the
directory of unfiled mail, also as a parent and its child; three of them let a name
be passed on. One message is enough, as directories hold mail or do not. In
`ledger` the account may hold mail of the day before the clock starts, so a commit
can be of a past day, of the day before, and of today; two messages share a commit or
do not. In `source` pages and chunks are as short as they can be, so a change falls
between any two requests. In `restore` three runs are a run that stops, one that
takes up its work, and one after that; the archive has mail of a mailbox that is gone,
of two mailboxes, and of none, and one message is corrupt or missing. The breaker's bounds
keep `MaxAttempts < Threshold` as tight as it can be. The daemon's properties speak
of one change at a time, and notifications are unbounded; its four deadlines
differ, so that each can come due first or while another runs, and three drops
are enough to have one transport cooling down while another fails.

The properties:

* `CursorSound`: everything up to the acknowledged state is mirrored exactly:
  right mailbox, right metadata, nothing that should not be there.
* `NoMessageLost`: the weaker promise that survives a kill: what the cursor will
  not deliver again is held.
* `BackfilledDaysHeld`: days a backfill has ticked off are held, whatever error
  ended the pass.
* `WellFiled`: no `.eml` without its sidecar, or the reverse, and no message in two
  places.
* `IndexDescribesArchive`: between passes the trusted index is what the archive is.
* `WorktreeCommitted`: between passes `verify` finds no mail out of place in a git
  worktree, and mailbox cards that are not committed only before the first day is (the first pass was cut
  short) or after a backfill that met no mail; and then no trusted index knows those mailboxes,
  so that the next backfill or refresh writes their cards again.
* `RemovalJustified` (action property): a message leaves the archive only because
  of a change not yet acknowledged, or because it should not be there.
* `ImplementsMirror` (refinement): the engine implements `Mirror`, with a message's
  sidecar in the archive as what is filed and the cursor of a completed backfill
  as what is acknowledged.
* `Converges` (liveness): once the account is quiet the archive becomes, and
  stays, its mirror.
* `DirsDistinct`: no two mailboxes have one directory, not even up to case, and none has
  that of unfiled mail.
* `DirsNested`: a mailbox is directly under its parent, through renames of either.
* `IndexRebuildable`: the index saved after a pass that ended well is what a scan of
  the commit, or of the worktree, gives.
* `IndexedIsHeld`: once a pass has gone through, what the next one takes for held is on
  disk where its index says.
* `Mirrors`: a refresh of a quiet account leaves the account's tree of mailboxes and its
  mail, filtered and filed as they are; a catch-up does so when no filter looks at mailboxes.
  Not so once a refresh has begun while mail waited in `_unfiled`.
* `RefreshPrunes` (action property): a refresh that finds mailboxes to remove removes one.
* `Resumes` (action property): a pass that meets no fault of its own does not fail over
  what an earlier one, the backfill among them, left behind where it was interrupted.

All of them but `TypeOK` speak of behaviours up to where `calm` ends. The account, the passes
and the interruptions are not restricted: `Begin`, `PlanAll`, `ServerBoxes`, `FileMessage`
and `Interrupt` say which of their steps end it. Without an interruption only
two do: a reconciliation that begins while mail waits in `_unfiled`, and a backfill of a git
store that meets no mail. Of the interruptions these do: one of a pass that

* goes on in the same process with edits it had recorded (an error, not a kill or a shutdown),
* has read a list of mailboxes that has changed since,
* has a mailbox on its way to a name that another one still has in the store (`Entangled`),
* has changed mail that was held before it (`Updated`), or has added mail that the account has
  changed since (`Overtaken`);

and, until the next pass ends well, a change of the account's mailboxes or of mail that the
interrupted pass has added. Every other interruption, at any step of a backfill, a catch-up
or a reconciliation, is one the properties hold across. Each of the excepted
kinds has cases in which the properties fail, in the model and in the code (limits of mailboxes below), so `Resumes`
is less than `docs/guide/daemon.md:60` promises.

Of the others:

* `Sealed` (action property): the commit of a day that is over is never amended or dropped.
* `AtIsThatDay`: `restore --at d` reads the archive as it was at the end of day `d`, but for
  mail received by then and backed up later.
* `FoundOnItsDay`: what a later snapshot holds is in the snapshot of the day it was received.
* `IndexIsCommitted`: an index the next open trusts names the messages of HEAD, also when a retry
  takes over the edits of an apply that failed half-way. It and the two before except a
  commit that takes over edits its own events do not make ("leftover"): see the limits of the history.
* `CursorCovers`: what last changed no later than the two states that were saved together
  is held as it is, although the requests were made at different times. A message that
  came and went after the state was read, and that a change list left out, may be held
  until the next reconciliation, and one filed before its mailbox was known stays where it is.
* `MappingFaithful`: a restore files under the mailboxes it means, whoever made them.
* `NoDuplicate`: no message with a Message-ID is in the account twice, however often a
  restore is run again.
* `ImportedInPlace`: what is imported is in all its mailboxes that still exist, and in no other.
* `CleanRunSucceeds`: a run without fault, owner or damaged file does not fail, whatever
  earlier runs left in the account.
* `CompleteMeansAll`: a run that reports nothing failed has everything in the account.
* `DryRunForetells` (action property): a run does what the dry run just before it said.
* `OpensTogether`: whoever opens the breaker, another call has failed too.
* `CallsFinish` (liveness): every call returns, even if the breaker never closes.
* `GivesUpOnlyWhenAllFailed`: the daemon is left without notifications only after a
  subscription by every supported transport has failed.
* `Prompt`: while the loop waits, no notification waits beyond the batch deadline and
  no safety poll is overdue. The clocks stand still during a sync, whose length
  nothing bounds.
* `StopsPromptly`: a shutdown is seen within one poll, short of a pass or sync.
* `CatchesUp` (liveness): whatever is lost, fails or is missing from the change feed,
  the archive has every change in the end. It needs a schedule.

**Fairness.** `BackupEngine!FairSpec` has weak fairness of the engine's own
steps together: `stream::run` starts another pass after every end of one, and
every request and file operation returns. Faults, changes of the account and
cancellations are not fair. `CircuitBreaker!FairSpec` has weak fairness of
`Retry(c)` for each call: a request returns or times out and a sleep ends. It
assumes neither that the breaker cools down nor that any request succeeds.
`CircuitBreaker` runs with `CHECK_DEADLOCK FALSE` because its calls all end.
`Daemon!FairSpec` has weak fairness of the loop's own steps (a pass or sync
returns, a sleep ends, a wake-up is acted on) and strong fairness of `Tick`: a
second passes, however many notifications arrive in it. It assumes nothing of the
stream: no subscription has to work and no notification has to come. Failures
are bounded by `MaxFails`, so that work is not refused for ever. `Daemon` runs with
`CHECK_DEADLOCK FALSE` because the daemon stops. `Restore` and `MailboxTree` state no
fairness and run with `CHECK_DEADLOCK FALSE` too: the number of restores is bounded, and for mailboxes only safety is stated.
`MailboxTree` is the one run with a `CONSTRAINT`: beyond the end of `calm` every property but `TypeOK`
(which is proved) is true whatever happens, so from there TLC goes on only with passes of a git store that find queued edits.

### Disagreements between code and documentation

The run `v_anchor` is one that TLC must find violated.

| Run | Says | Does |
|---|---|---|
| `v_anchor` | `sources/jmap/mod.rs:215` "idempotent application absorbs any overlap"; `sync.rs:212` what the enumeration lacks was deleted | positional paging after a lost anchor skips a live message, and `reconcile` deletes it |

Known limits found the same way, without a run of their own. These can be
reproduced by changing constants in a `.cfg`:

* `MaxCrashes = 1` in `Engine_git.cfg` breaks `CursorSound`: a sidecar that is already in the
  worktree records no edit, so HEAD keeps the old one while the index gives the new
  (`stores/dir.rs:4` "redelivery converges", `git.rs:229` no needed edit is suppressed).
* `TornSaves = TRUE` in `Engine_crash.cfg` breaks `WellFiled`, and `IndexDescribesArchive`
  before it: `state.json` is saved before `index.json`, and a kill between them makes the next open trust an old index
  (`docs/guide/daemon.md:60` interruption at any point is safe).
* `MaxCancels = 1` and both messages on one day in `Engine_faults.cfg` break
  `BackfilledDaysHeld`, without any error: a cancelled enumeration
  looks complete, and its half day is recorded as committed (against the same line).
* `ProbeInFlight` as an invariant in `CircuitBreaker.cfg` fails: a probe that ends with
  a non-transient error, or is dropped, decides nothing, and the breaker stays
  half open until its client is replaced (`helpers/resilience.rs:97` the probe's outcome
  decides). The daemon replaces the client at its next full pass; a restore does not.
* `OmitsTransient = TRUE` in `Engine_git.cfg` breaks `CursorSound`: a message a backfill stored that is
  destroyed before the catch-up may never be named by a change list, and stays
  until the next refresh (`backfill.rs:159-168`). In `JmapSource` change lists always may, and
  `CursorCovers` excepts such messages (`omitted`).
* The cards of mailboxes that a first pass wrote stay uncommitted if it is cancelled or fails
  before its first day is committed, until the next one commits a day; and if the backfill
  meets no mail, until a refresh (`backfill.rs:63-71`, `backfill.rs:162-173`). `verify` reports them.
* `Git = FALSE` in `Engine_crash.cfg` breaks `NoMessageLost`: a directory store trusts an old
  index over newer files.
* `MaxFails = 1` in `Engine_crash.cfg` breaks `WellFiled`, and with a filter that excludes
  (`TwoPlacesWanted`) also `NoMessageLost`: edits recorded by a failed
  pass stay queued (`git.rs:525`), and a later commit of the same process applies
  them.
* A kill before the first day of a backfill is committed re-anchors it over files
  already written, which breaks `CursorSound` (`backfill.rs:38-46`).
* A failure that was in flight when the breaker opened is ignored, but one still in
  flight when it becomes half open re-opens it (`resilience.rs:192`).
* A healthy stream that the daemon drops (`Close`) is accounted to nobody, so its
  strategy keeps strikes that "streams which live longer clear"
  (`sources/jmap/events/mod.rs:40-41`), and a failure days later can demote it.
* A scheduled refresh that fails is followed by an ordinary pass
  (`engine/stream.rs:112`, `BeginPass` and `PassFails`), and a schedule that comes
  due during a pass or a backoff is skipped (`NextSchedule`). `CatchesUp` holds
  because a later occurrence makes up for either.
* Every successful pass resets the backoff (`stream.rs:158`, `PassSucceeds`), so a
  stream that keeps ending is reopened, after a full pass, at the shortest delay,
  where `docs/guide/daemon.md:38` promises exponential backoff.

Of mailboxes. `calm` ends at each of these, where the properties would fail; the filter
and the last one are excepted in `Mirrors` and `IndexedIsHeld` themselves.

* A git store whose backfill meets no mail commits nothing, so an index rebuilt from
  HEAD knows none of its directories (`backfill.rs:162-173`). The next refresh gives the mailboxes
  directories anew, beside the old ones, and a later rename onto one of those fails.
* Mail that is moved, while a catch-up runs, into a mailbox created after the list of mailboxes was read is filed in
  `_unfiled`. A later catch-up refiles it when it is told of the mailbox; a refresh, which begins
  whenever the schedule is due (`stream.rs:252`), does not: `reconcile` compares
  metadata and not places (`sync.rs:197-205`, against `stores/layout.rs:25-27`).
* The filter of a catch-up is evaluated on the mailboxes before the pass writes the new
  ones (`sync.rs:106`, against `docs/advanced/filters.md:31`).
* A mailbox renamed twice with an error in between, in one process, leaves a queued edit of a path
  that is gone: every later checkpoint of that process fails in `build_tree`. Edits left queued
  otherwise are committed by a later pass, whose index does not know them.
* Renames that swap or hand on names (`dir.rs:300`), interrupted between two of them,
  cannot always be finished (`docs/guide/daemon.md:60-61`); nor can those of a tree of
  mailboxes that changes again before the next pass has ended well.
* A message moved by an interrupted pass, and back before the next, leaves a sidecar
  without mail; one deleted by an interrupted pass that matches again is lost to a
  directory store; and one that an interrupted pass has added, and that is moved before
  the next, leaves a copy where it was, which a scan of a directory store may find.
* The card of a mailbox whose removal was interrupted is missing until it is refreshed, and a
  catch-up that returns early (nothing changed) leaves work of an interrupted refresh.

Of the history (the members of `odd` stand for the cases the properties except):

* A backfill commit leaves `current_commit_day` alone (`git.rs:555`): a commit of a past day
  that comes after today's snapshot ("late") is taken for that snapshot by the next
  live checkpoint, which amends it. `--at` finds such a commit only for later days.
* A pass across midnight amends or dates by the day it began ("overnight").
* Two commits of one day come from a backfill that reaches today, and from a kill
  between commit and save, where `docs/guide/daemon.md:21-25` has one.
* An apply that fails half-way leaves its edits in `path_edits`, and `open` clears none
  (`git.rs:452-499`, `git.rs:525`): in the daemon the next commit takes them over. Mostly the retry makes the same
  edits again; if it does not ("leftover"), because the day committed next is another one, the
  message is gone by then, or its files are found in place, the commit holds files that its index does not name, mail later than its day,
  or mail that the snapshot of its day lacks.
* `mail-backup index` after an interrupted pass takes the worktree's files for committed
  ("reindexed"): the index is not HEAD's, and a later update commits a sidecar
  without its `.eml` (`docs/advanced/storage-layout.md:67-68`). `verify` reports it.

Of restores and requests:

* Messages without a Message-ID are imported again by each run: the query that should
  find them asks for a minimal size and an exclusive maximal size that are equal
  (`restore/jmap.rs:141-142`, against `docs/guide/restore.md:55-60`).
* With `Prefixes <- {"Restored"}` `CleanRunSucceeds` fails: the mailbox for unfiled mail is looked
  up under the prefix as written among lower-cased paths, so a second run
  tries to create it again (`restore/mod.rs:393`).
* A mailbox with a slash in its name is taken for a nested one (`entities/mail.rs:122`).
* A mailbox destroyed between the two halves of `changes` lingers in the store until
  mailboxes change again or a refresh.

## 4. What is proved

TLAPS checks the following for every value of the constants: any number of messages,
mailboxes and days, any names, any filter, and any number of changes, faults and
cancellations, but where a hypothesis says otherwise. What a property itself excepts (section 3) its theorem excepts too. Every safety property of every passing
run is the conclusion of a theorem, under the hypotheses its table gives. In each proof an invariant that is inductive carries
the property; that step is proved action by action.

### The engine

The hypotheses, each one of a switch or bound of `BackupEngine`, are:

| Hypothesis | Says | Why it is needed |
|---|---|---|
| `GitStore` | a git store; no I/O error (`MaxFails = 0`) and no kill within the saving of the state files (`TornSaves = FALSE`) | a directory store trusts an old index; edits of a failed pass stay queued; a half-done save makes an old index trusted (known limits above) |
| `AnchorKept` | no page is read after its anchor was destroyed (`LosesAnchor = FALSE`) | `v_anchor`: `reconcile` deletes a live message |
| `WholeDays` | nothing is cancelled, or no two messages are of one day | an enumeration cut within a day makes half a day look complete |
| `NoKills` | `MaxCrashes = 0` | after a kill the worktree is ahead of HEAD |
| `NamesDestroyed` | change lists name what was created and destroyed between them (`OmitsTransient = FALSE`) | a message stored by a backfill may never be named again |

For each, TLC finds one of the properties below violated when it is dropped; they are
limits of the code, not of the proofs. Cancellations are always allowed, and kills
wherever `NoKills` is not a hypothesis.

| Theorem | Under | Property |
|---|---|---|
| `TypesInvariant`, `TypeCorrect` | - | `TypeOK` |
| `ArchiveWellFiled` | `GitStore` | `WellFiled` |
| `RemovalsAreJustified` | `GitStore`, `AnchorKept` | `RemovalJustified` |
| `CursorLosesNothing`, `ResumedBackfillMissesNothing` | `GitStore`, `AnchorKept`, `WholeDays` | `NoMessageLost`, `BackfilledDaysHeld` |
| `VerifyFindsNothing` | `GitStore`, `NoKills` | `WorktreeCommitted` |
| `TrustedIndexIsRebuildable` | `GitStore`, `NoKills`, and there is a mailbox | `IndexDescribesArchive` |
| `CursorNeverAhead`, `MirrorsTheAccount` | all five | `CursorSound`, `ImplementsMirror` |

The last two have what the run `git` has, and drop its bounds. Two runs go further than
the theorems: `dir` checks `IndexDescribesArchive` of a directory store, and `faults`
checks `BackfilledDaysHeld` with an I/O error and torn saves.

* *Types* (`TypeInv`). `TypeOK` alone is not inductive: `ApplyAdded` writes `metas[m]`,
  which must not be `None`. `TypeInv` adds which stage a pass can be in at each step
  (`StageOfStep`), that everything to be filed has metadata (`MetadataCollected`), and
  that a pass that has ended leaves nothing over (`NothingLeftOver`).
* *Files* (`FiledInv`). `WellFiled` says nothing of the worktree, and a commit copies files
  from there. During a pass the tree the *next* commit would have agrees with the
  index in memory (`IndexFollows`), the queues of edits are empty outside their steps
  (`QueuesEmpty`), and a cached index an open would trust agrees with HEAD
  (`CacheFollows`). An event that completes keeps file, edit and entry in agreement
  (`AddFollows`, `UpdateFollows`, `DeleteFollows`, at the head of
  `BackupEngineProofs`); a commit turns that tree into HEAD; a kill empties the
  queues, so HEAD alone remains; and an open reads HEAD or a cache that agrees with it.
* *Removals* (`ReasonInv`). What a pass has collected is as the account has it, or has changed since
  the state the pass acknowledges (`MetadataFresh`); a reconciliation
  has seen every message that is there and has not changed since
  (`EnumerationCovers`); so what it deletes is gone or has changed
  (`DeletionsJustified`), and what leaves HEAD at the commit was deleted by this pass
  (`LeavesForAReason`).
* *Losses* (`CoverInv`). A backfill has every message of the days it has finalized, and has
  the others before it, unless it was cancelled, and then before their day
  (`BackfillCovers`, from `InOrder`: days come in order); a catch-up has been
  told of every change (`DeltaCovers`); and what the cursor of a pass will cover is
  indexed or about to be added (`PassCovers`), until its commit puts it in HEAD.
* *Worktree* (`TreeInv`, `CardInv`). The next commit is the worktree as it is, a sidecar lies in the
  mailbox it names, and the index gives the metadata of each sidecar. The lemmas on the
  operators of `MailStore` say that each event keeps the worktree and the recorded edits
  in step (`InStep`, `InStepBuilds`, `MoveCleans`). Cards that the index knows are in HEAD or queued
  (`CardsFollow`); a backfill commits them with its first day (`BackfillCards`), so that once something is
  saved they are in HEAD, unless there was no such day (`SavedCards`).
* *Exactness* (`ExactInv`). The same argument as for losses with "as the account has it"
  in the place of "there": `SettledExact` for what the saved cursor covers,
  `BackfillExact` and `SavedBackfillExact` for a backfill under way and one left
  behind, `PassExact` for what the pass will acknowledge.
* *Refinement*. A change of the account is a `Change` of `Mirror`; a `Commit` files a message
  that has an unacknowledged change or does nothing (`RemovalJustified`, and `SettledExact` for what
  stays); `SaveState` acknowledges what `PassExact` says is exact; every other step stutters.

### The other components

* `BreakerTypes`, `OpenedTogether`, `ProbeKept` (`CircuitBreakerProofs`). The invariant
  for the second, `StreakInv`: as long as no other call has failed, the streak
  is at most the failures this call has recorded, and those stay below the
  threshold. `ProbeKept` assumes no dropped calls and no unreported errors, which the
  code does not guarantee (see the known limits): these are the only ways to lose a probe.
* `DaemonTypes`, `GivesUpLast`, `AlwaysPrompt`, `AlwaysStopsPromptly` (`DaemonProofs`).
  `GivesUpOnlyWhenAllFailed` needs `NoneForgotten`: while the chain chooses, every
  supported transport is still to come, set aside, being tried, or has failed; and
  `DeferredOnce`: the second loop sets nothing aside. `Prompt` needs `TimeInv`: a batch
  deadline is set exactly while a notification is pending, and what is left of it
  plus what has been waited never exceeds `MaxBatchDelay`; likewise the safety
  poll, except during a sync, which may have re-armed it before it answers it.
* `PassTypes`, `SavedStatesAreCovered` (`JmapSourceProofs`): `TypeOK` and `CursorCovers`,
  without a hypothesis, but with the two exceptions the property states. `PassInv` says, besides what has been read where (`ControlInv`), that every
  state a pass works with is one the account has had (`StatesInv`), that what the cursor
  covers is held (`CoveredInv`), that a catch-up has been told of every change between
  cursor and target, but for the omitted, and has fetched it as it is, or it changed again (`CatchUpInv`), and that an enumeration
  has on its pages, or still to come, every message that has not changed since its target
  (`EnumerationInv`, `ListInv`).
* `LedgerTypes`, `DaysAreSealed`, `IndexAlwaysCommitted`, `RestoreReadsThatDay`,
  `MailIsFoundOnItsDay` (`DailyLedgerProofs`): every property of the run `ledger`, along an
  invariant in five layers. `Types` adds to `TypeOK` that what is planned has been
  received, so that every commit has a day (`InStage`), and that sidecars are metadata
  (`SidecarsRead`). `Dates` says that nothing is from the future (`NotLater`), that a
  `current_commit_day` is no later than some commit of the history (`CommitDayHeld`), and that a commit's
  date is the day it records unless midnight caught a pass (`InItsDay`). Amending the
  commit of a day that is over then contradicts them: a live checkpoint amends only if
  `current_commit_day` is today, so another commit is of today, and the amended one, last in
  the history, came after it and out of order. `Indexes` says that `pending` edits wait only
  from an application to its commit (`EditsCommitted`; those in `edits` wait longer), that a pass knows the HEAD that was saved
  (`HeadsKept`), and that during a pass the index agrees with the tree the next commit would have, and a
  trusted cache with HEAD (`IndexAgrees`, unless a commit took over "leftover" edits: those
  it takes over otherwise are of files that are as its events want them). `Contents` says what a commit can contain: only what was
  received (`Known`), whole messages (`InPairs`), a past day only what came on that day
  (`DayOnly`), and less than HEAD only what is gone (`MissingOnDisk`, `MissingIsGone`), all but the first until a commit
  takes over "leftover" edits; and that commits
  are in the order of their days (`InOrder`). `History` is the two properties of the commits so far. What is
  left is an argument about `resolve_commit`, which reads the last commit
  of a day or before: a new commit is the last one of its date, leaves what earlier
  days read alone, and is read by its day and those after it up to the next
  (`NewCommitLast`, `SameAt`, `LastAt`).

* `RestoreTypes`, `IdsAreFaithful`, `ImportsAreInPlace`, `NothingTwice`, `CompleteIsAll`,
  `CleanRunsSucceed`, `DryRunsForetell` (`RestoreProofs`): every property of the run
  `restore`. `Types` adds to `TypeOK` that a mailbox comes after its parent, that between runs
  nothing is known (`ControlInv`), and that the places mapped are exactly those already
  ensured (`IdsInv`). Paths are recursive functions along the parents, which the prover
  can unfold only once they are known to exist: `Recurse` builds one by taking the least
  depth that has none, `Climb` is the induction that goes with it, and `PathsKept` says that a mailbox
  that is added changes no path. `MappingFaithful` is then inductive: when it is the turn of a place, its
  parent and the prefix are mapped (`TurnOf`), so the request means the place
  (`RequestMeansPlace`); and what is found under a key has that key as its path
  (`KeyMeansPlace`). `CleanRunSucceeds` needs `AccountKnown`: until Unfiled, the
  last place, an undisturbed run knows the path of every mailbox of the account, and every
  role there is was listed or has gone to its one owner. `CompleteMeansAll` needs `DoneIsThere`. For
  `DryRunForetells`, `ForetoldInv` counts: what a run has created, and the paths of the places
  to come that it does not know, are always as many as the forecast of the account has; likewise messages.
  Four of them have a hypothesis, without which TLC finds them violated. `DistinctIds`:
  no two archived messages have one Message-ID (`restore/jmap.rs:132`, "globally
  unique by convention"), for `CompleteIsAll` and `DryRunsForetell`: the second message of an id is
  taken for the first, and a dry run counts both. `PrefixesLowered` for `CleanRunsSucceed`: see the known limits.
  And `NothingTwice` is of accounts that have nothing twice to start with (`StartsWithoutTwins`).

### Mailboxes

| Theorem (`MailboxTreeProofs`) | Under | Property |
|---|---|---|
| `TypeCorrect` | - | `TypeOK` |
| `DirsStayApart`, `DirsStayNested` | a plain store, or no interruption so far (`PlainOrUnbroken`) | `DirsDistinct`, `DirsNested` |
| `TheIndexedIsHeld`, `TheIndexIsACache`, `TheArchiveMirrors` | no interruption so far (`Unbroken`) | `IndexedIsHeld`, `IndexRebuildable`, `Mirrors` |
| `PassesEndWell`, `RefreshesPrune` | no interruption (`[]Unbroken`) | `Resumes`, `RefreshPrunes` |

`Unbroken` is a predicate of the state, not an assumption on the constants: the theorems hold of every
behaviour up to its first `Interrupt`, with the account changing between any two steps, or
up to the first reconciliation begun while mail waits in `_unfiled` or git backfill that
meets no mail: these end `calm` without an interruption, and are exceptions of the properties.
Apartness and nesting go on through the interruptions of a plain store that leave it `calm`, of the
first backfill too: it finds its index by a scan of what an interrupted
backfill has written, or reads the one it saved whatever an interrupted pass has left on disk.
A git store reads HEAD again if that pass had committed.

* *Types* (`TypeInv`) say too that what waits in a queue is there: mailboxes to write are
  on the list, those to remove and mail to update are in the index (`QueuesKnown`).
* *Places* (`IndexInv`). `DirsNested` is false between the renaming of a directory and the
  writing of its card, and would not survive a rename of an ancestor by itself.
  `PlacedInv` says it of what each mailbox is about to become (`PlacedInfo`), together
  with siblings being apart and every suffix being its mailbox's own (`WellPlaced`), of the index
  of the pass and of the saved one. It needs the mailboxes to be a forest and those
  that need no writing to be in the index as listed (`ForestInv`), since the turn of a
  mailbox comes after its parent's (`topological_order`), that an open reads what was
  saved (`OpeningInv`), and that before the first save the cards of a plain store are those of an index
  which a scan gives back (`FreshInv`). The lemmas say what `assign_dir_name` avoids and what moving a
  directory does to the paths below it.
* *Files* (`HeldInv`, with `DiskInv`). Between steps the worktree is a copy of the index: one card for
  each mailbox, both files for each message, no directory that is neither a mailbox's,
  nor the one that has just been made, nor that of unfiled mail (`Stored`); and HEAD is the worktree but for the
  edits recorded (`Agrees`), so that `build_tree` finds every file it looks for and a
  rename always finds its directory, with the new name free: no pass fails. `CleanInv` adds that no edit waits
  before a pass has written, and a scan of a copy gives that index back (`RebuiltFromCopy`).
* *The account* (`MirrorInv`). Mailboxes found gone are gone for good (`AccountInv`); the saved cursor, the
  version the pass will save and the account's are in order, and what a catch-up was told of is what came
  between the first two (`TimeInv`); the mailboxes listed hold all mail up to the version
  to be saved (`ListInv`), since they are listed after that version was read; mail up to the cursor is as the index says, and
  as far as the plan has not to change it, mail up to the new version (`MailInv`); the index has the
  mailboxes of a quiet account (`BoxInv`); and a refresh of one keeps exactly what the filter
  passes on (`FullInv`).
* *Removals* (`ThinInv`). A refresh files no mail under a mailbox that is gone. So the contents that keep such a
  mailbox's directory are those of another one that is gone, and the one with the longest
  path has none: had all of them stayed, its turn would have removed it.

The assumptions are those the modules name, and TLC evaluates each on some run:
`MetaAssumption`, `WantedAssumption`, `NoneAssumption`, `EntryAssumption`,
`CursorAssumption`, `DayAssumption`, `SwitchAssumption`, `BoundAssumption` of the engine and
its store, `LimitsAssumption`, `OutcomeAssumption`, `ChainAssumption`,
`DelayAssumption` of breaker and daemon; `DailyLedger` has its own `DayAssumption`,
`MetaAssumption` and `BoundAssumption`; `JmapSource` has `NoneAssumption`,
`RankAssumption`, `SizeAssumption`, `AccountAssumption` and `CursorAssumption`;
`Restore` has `MailboxAssumption`, `MessageAssumption`, `NameAssumption`,
`AccountAssumption` and `RestoreBounds`; `MailboxTree` (`LayoutAssumption`, `BoxAssumption`,
`TreeBounds`, `NoneAssumption`, `StartsAssumption`) names its own.
They say that absence, and the markers of an edit, are not values; that metadata
names a mailbox; that there is a message and a mailbox to speak of (`AccountAssumption`);
that the threshold exceeds the attempts of one call; that orders are total; that an
archive is finite and none of its mailboxes its own ancestor (`name_path` would walk a cycle
only so far, `entities/mail.rs:105`); that an account lists parents before children;
and that the functions on names are defined on the names in use.

Model-checked only: the three liveness properties (`Converges`, `CallsFinish`,
`CatchesUp`), since the prover handles neither liveness under fairness nor
`ENABLED`; and mailboxes after an interruption, but for `TypeOK` and, in a plain store, where
their directories are. An interrupted pass leaves a worktree between two indexes, which
the next pass meets again with the same renames, half of them done: an invariant of it
would have to describe every prefix of a pass. The run `mailboxes` has these states, within its bounds. Bounds on
the size of an instance are in no theorem; `MaxVersion` and `MaxStops` are arbitrary.

## 5. What is abstracted, and what is not modelled

* In `BackupEngine` the filter (`matches_filter`) is the set `Wanted`; `backfill_start`, `dry_run`
  and the account check are off. Its mailboxes are fixed (`MailboxTree` has them change),
  its commits are HEAD's tree (`DailyLedger` has their history), and its requests are of one
  account state (`JmapSource` has them apart).
* `MailboxTree` writes a message's two files in one step, and fails by stopping: no file is
  torn, no request is answered late. `DailyLedger` plans in one step and has no mailboxes.
  `JmapSource` has no faults, no filter and no tree of mailboxes.
* `sanitize_segment`, `to_lowercase`, the order of names and splitting at slashes are functions
  on the few names in use.
* `Restore` has the archive as a constant with messages that may be corrupt or missing, the
  filter as a set of messages, and an account whose mail nobody else adds or deletes.
* `get_messages` is one step per pass, an enumeration yields one message a step;
  a lost anchor skips exactly one message. A cancel between two messages acts as
  one between two pages. A message that arrives with a day before the
  enumeration's current one is out of its reach.
* `TornSaves = FALSE` keeps kills and errors out of the saving of `state.json` and
  `index.json` (they still fall before and after both); `TRUE` allows them
  inside, with the file missing.
* The branch of `apply_message_added` for an id reused with other content is left
  out: message content never changes in JMAP.
* A call of `CircuitBreaker` is made once; backoff delays have no length.
* `Daemon` takes a pass or a sync to bring what the server told at its start; that
  it does is the matter of `BackupEngine`. Time is counted only while the loop waits or
  syncs, in seconds; cooldowns and the age of a stream end at any time. `Ping`
  notifications only wake the loop, as `Tick` does.
* Not modelled: the transports' protocols (websocket, SSE, polling), pings, parsing of
  configuration and policies, the filter language, telemetry, argument parsing,
  sessions and HTTP, git objects and configuration. `PROJECT.json` gives a reason for each: they
  are input and output, libraries, or have no state the rest depends on.

## 6. Plan

1. Done: `MailStore`, `BackupEngine`, `Mirror`, `CircuitBreaker`, `StrategyChain`, `Daemon`;
   type correctness, `WellFiled` and the safety of breaker and daemon proved.
2. Done: `DailyLedger` with type correctness, `Sealed` and `IndexIsCommitted` proved; `JmapSource`,
   `MailboxTree`, `Restore`.
3. Done: the safety of the engine, with the refinement of `Mirror`, of `JmapSource`, of
   `DailyLedger` and of `Restore` proved.
4. Done: the safety of `MailboxTree` proved, up to the first interruption or other end of `calm`.
5. Left: passes over mailboxes after an interruption; a second refinement, of a calendar of
   snapshots by `DailyLedger`.

With two workers every run takes between ten seconds and a minute and a half, but for
`mailboxes` with its 860 thousand states, which takes up to three; new modules
are kept to runs of their own so that they stay so.
