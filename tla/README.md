# vidsilo in TLA+

A formal model of [vidsilo](../src/README.md), a self-hosted video server: a Go
backend (an HTTP server and worker processes that share a Postgres database and
a media store) and a Next.js front end. The modules are translated from the
source; TLC checks them on small instances and TLAPS proves the theorems below
for every value of the constants.

## 1. The system

| component | where | state it keeps | operations | talks to |
|---|---|---|---|---|
| job queue | `internal/queue/queue.go`, table `jobs` | one row per job: type, status, attempts, `run_at`, worker, heartbeat, pause and cancel requests | Enqueue, Claim, Heartbeat, Pause, Resume, RequestCancel, Cancel, Done, Fail, RequeueStale | everybody, through Postgres |
| worker process | `cmd/vidsilo/worker.go` | pool semaphore, the jobs it runs, their contexts, its tickers | claim loop, heartbeat, stale reclaim, runJob, abort watcher | queue, pipeline |
| jobs page | `internal/api/activity.go` | none | retry, pause, resume, cancel, listings | queue |
| processing pipeline | `internal/jobs/jobs.go` | `entries.status`, `entry_flavors.status`, spool files, media objects, a semaphore per entry | Download, Probe, Transcode, finalizeTranscode, buildMaster | queue, media stores, ffmpeg |
| entries api | `internal/api/entries.go`, `internal/db/entries.go` | `entries`, `entry_flavors`, `subtitles` | create, flavors, reprocess, delete, bulk, subtitles | queue, media stores |
| resumable uploads | `internal/upload/upload.go`, `api/tus.go`, `cmd/vidsilo/cleanup.go` | `uploads` rows, spool files | NewUpload, WriteChunk, FinishUpload, Terminate, hourly sweep | media stores, queue |
| url downloads | `internal/api/fromurl.go` | `url_downloads` rows | check, submit | queue |
| media stores | `internal/store/*.go` | objects in local directories or S3, a primary and a legacy location | Put, Open, Delete, promotion on read, migrate, prune | disk cache |
| disk cache | `internal/store/cache.go` | an LRU index per process, one cache directory for all | Put, Open, Delete, eviction, rebuild at start | media stores |
| sessions, users | `internal/api/auth.go`, `jwt.go`, `denylist.go`, `users.go` | `sessions`, `token_denylist`, login guard | login, refresh, logout, change password | settings |
| viewers | `internal/api/viewers.go` | viewer sessions and groups | as above, for portal users | sessions |
| settings | `internal/settings/settings.go` | a table and a cached copy per process | Get, Update, Reload | all handlers |
| analytics | `internal/analytics/analytics.go` | an accumulator, daily rows | Record, Flush, Prune | worker's tickers |
| web upload store | `web/lib/upload-store.ts`, `lib/idb.ts` | list of upload jobs, files in memory and in IndexedDB, the transfer, the loop of `startAll` | addFiles, startAll, removeJob, clearAll, load | uploads |
| web url download store | `web/lib/url-download-store.ts` | list of url jobs, the loop of `startDownloads`, an interval timer | checkUrls, startDownloads, waitForEntry, remove, clearAll, load | url downloads |
| upload dialog | `web/components/upload-dialog.tsx` | tab, text, confirmation | open, close, add, check, start, remove, cancel all, discard | both stores |
| dialogs, query cache | `web/hooks/use-dialog.tsx`, `components/query-provider.tsx` | the dialogs in front; one answer and one request per query | open, confirm, escape; fetch, invalidate, poll | every page of the console |
| console table pages | `web/app/admin/{flavors,categories,players,users,domain-acls,viewers,jobs}` | a cached list, a form | create, edit, remove, switch, job actions | api client |
| entries page | `web/app/admin/entries` | view, cached lists, selection | filter, page, select, bulk delete and reprocess | api client |
| entry dialog | `web/components/entry-detail-dialog.tsx` | the entry as answered, a draft of it | edit, save, reprocess, subtitles, polling | api client |
| settings page | `web/app/admin/settings` | all settings, edited in place | save a group, set a switch | api client |
| api client | `web/lib/api.ts` | the refresh in flight | api, tryRefresh | sessions |
| public library | `web/app/(public)/page.tsx` | filters, items, page | search, choose, load more | catalogue |
| player | `web/components/vidsilo-player.tsx` | refs beside the video element: played, watched, timers | play, pause, seek, beacons | analytics |
| sign-in and shell | `web/components/auth-provider.tsx`, `app/admin/admin-shell.tsx`, `app/admin/login`, `app-sidebar.tsx`, `change-password-dialog.tsx` | the signed-in user, the page in sight | sign in, sign out, change the password | api client, sessions |
| the rest of the web | dashboard, analytics, storage, texts, ui kit | little | one query or call each | api client |

The server and any number of worker processes never call each other: they meet
in the database and on the shared data directory. The server enqueues
(`probe` after an upload, `download` for a URL, `transcode` per flavor after a
probe); the worker's claim loop marks rows `running` and hands them to a pool of
goroutines; a handler reports by returning, and the goroutine settles the row.
The jobs page and entry deletion write the same rows at any moment.

What is hard, and what correctness means, per component:

- **Job queue and workers.** Several claim loops race on the table under READ
  COMMITTED; processes die between statements; a live process may look dead;
  the settling updates name only an id. Correct: no two transcodes of an
  entry and no two downloads together, no paused job running, claims do not
  deadlock, a job is in one pair of hands, a finished outcome stands, a job
  is given up only after its attempts, every job ends.
- **Pipeline and entries api.** Statuses of an entry are derived from those of
  its flavors in several statements, by handlers that retry, are cancelled, or
  outlive their entry. Correct: an entry does not stay `transcoding` when
  nothing is left to do, does not fall back from `ready` through a late
  handler, and a deleted entry leaves no media behind.
- **Uploads.** Chunks race with termination and with the hourly sweep; the
  final move into the store is not atomic with the row. Correct: bytes are
  accepted in order and once, a finished upload is enqueued exactly once.
- **Stores and disk cache.** Processes share files and not indexes. Correct: a
  read returns a version that was stored, the index agrees with the lock, the
  footprint follows the budget, a deleted object does not come back.
- **Sessions, settings.** Read and write are separate statements; revocation
  goes through a denylist that is cached. Correct: a refresh token is used
  once, a revoked session ends, every process serves a new setting in the end.
- **Web stores.** Promises, aborts, timers and user actions interleave in one
  tab. Correct: one transfer at a time, nothing listed twice, every job of a
  running batch ends.
- **Console.** A list is fetched, edited over and invalidated while calls are in
  flight whose dialogs are closed again. Correct: what a quiet page shows is
  what the server has, a form makes one row, a save sends nothing that its
  user did not decide on.
- **Api client, sign-in.** Several calls meet an expired token at once; logins,
  logouts and new passwords change the tokens beside them. Correct: one
  refresh, no call of a whole session ends unauthorized, and the console is shown
  to those who have a session.
- **Library and player.** Answers overtake each other; a second is reported from
  three places. Correct: a list is of one choice of filters, a second
  watched is reported once.

The hazards, each at its line, are under `hazards` in `PROJECT.json`, with the
properties that watch over them. Those of parts that are not modelled are
in section 10.

## 2. Plan

| order | module | models | composes with | status |
|---|---|---|---|---|
| 1 | `JobQueue` | jobs table, Claim, worker processes, jobs page | | checked; all safety properties proved (`JobQueueProofs`) |
| 2 | `Pipeline` | entry and flavor statuses under Download, Probe, Transcode, finalizeTranscode, reprocess, flavor changes, cancel and deletion; the media of the entry | abstracts `JobQueue` to the outstanding jobs of an entry, using what `JobQueue` shows | checked; all safety properties proved (`PipelineProofs`) |
| 3 | `JobList`, `UploadStore`, `UrlStore`, `UploadDialog` | the two transfer stores and the dialog over them | `UploadDialog` extends both stores | checked; all safety properties proved (`TransfersProofs`) |
| 4 | `AdminPages`, `EntriesPage`, `EntryDialog`, `SettingsPage` | the console over the server's rows | `Site` | checked; all safety properties proved (`ConsoleProofs`, `SiteProofs`) |
| 5 | `ApiSession`, `SessionGate` | the api client against the session, and what it promises | `SessionGate` is implemented by `ApiSession`; `Site` | checked and proved (`ApiSessionProofs`) |
| 5a | `SignIn` | the provider, the shell, the login form, logout and the password against the handlers | `Site` | checked and proved (`SignInProofs`) |
| 6 | `Library`, `Player` | the public pages | `Site` | checked and proved (`SiteProofs`) |
| 7 | `Uploads`, `DiskCache` | the server's side of an upload with its sweep, the cache before a remote store | `Server` | checked; all safety properties proved (`ServerProofs`) |
| 8 | remote and legacy stores, the settings cache, analytics | | | not modelled, see section 10 |

`MCJobQueue`, `MCPipeline`, `MCTransfers`, `MCSite` and `MCServer` hold the constants of the
runs.

## 3. JobQueue

### State and actions

The columns of `jobs` are one function each (`kind`, `entry`, `status`, ...).
Time is abstracted to two facts: `due` (`run_at <= now()`) and `stale`
(`heartbeat_at` older than three minutes). Of `entry_flavors` only the set of
rows that read `transcoding` is kept. A worker is an incarnation of the process,
because `jobs.worker_id` contains the pid and a random suffix: a restart is a new
element of `Worker`.

| code | model |
|---|---|
| `Queue.Enqueue` | `Enqueue(k, e)`; refused by the foreign key when the entry is gone |
| `Queue.Claim` | `ClaimScan`, one `ClaimLock` per entry, `ClaimSelect`, `ClaimCommit`: one transaction split where another transaction can be seen (each statement has its own snapshot) or waited for (advisory locks, row locks) |
| `Queue.Heartbeat`, `RequeueStale` | `Heartbeat`, `StaleTick`, and the reclaim in `StartWorker` |
| claim loop and pool | `handoff`, `Launch`: the loop gives its claimed jobs to free slots one by one and does nothing else meanwhile (`LoopBlocked`), so that its heartbeats may age (`Age`) |
| `runJob` | `Launch`, `BeginEncode`, `HandlerReturns`, then `RunDone`, or `RunCheckCancel` and `RunCancel`, or `RunFailRead` and `RunFailWrite`; `rctx` says whether the job's context still lives, `WatcherFires` and `JobTimesOut` end it |
| `Queue.Done`, `Cancel`, `Fail` | `Settle`: an UPDATE by id alone, whatever the row says by then |
| jobs page | `Pause`, `Resume`, `RequestCancel`, `Retry` |
| deletion of an entry | `DeleteEntry`: the cascade |
| death of a process | `Crash`: its transaction is rolled back, its goroutines are gone, its rows stay |

`guarded`, `expired` and `revived` are history: jobs whose last claim held their
entry's advisory lock, jobs whose last run outlived its four hours, jobs put back
after they had ended.

### Runs

| run | setting | shows |
|---|---|---|
| `queue_serial` | 2 workers, pool of 1, two jobs (transcodes of two entries, a download), pause and retry | `TypeOK`; `GuardedTranscodesAlone`; `DownloadOverlapNeedsRevival`; `RunningNotPaused`; `NoLockCycle` |
| `queue_roomy` | 2 workers, pool of 2, two transcodes of one entry, crash, cancel, delete, retry | `HolderOwnsRow`: a job is in one pair of hands, and its row names them; `TranscodingHasJob`; `OutcomeStands`; `DeadLetterExhausted` |
| `queue_settle` | 2 workers, pool of 1, two transcodes of one entry, a crash, the four-hour limit, fairness | `AbandonedOnlyByAbort`; `JobsSettle` |
| `queue_reclaimed` | 2 workers, pool of 1, no event at all | violates `OnlyDeadWorkersLoseJobs`: finding 1 |
| `queue_cancel` | one job, cancel | violates `CancelTakesEffect`: finding 2 |

Bounds. Two jobs are the smallest number with a conflict, and every exclusion
property speaks of two; `MaxJob` bounds the enqueues. Two workers make every race
of claims, and one crash with a survivor that reclaims (`Crash` spares the last
worker that is not dead, since a system whose workers are all gone is not the
question). `AttemptBound` cuts the endless claim, crash, reclaim loop, which the
code does not cut; it is large enough for one retry after the attempts are used
up. `MaxAttempts` is 1 in these runs (3 or 2 in the code), so that a job that failed runs again only
because the jobs page resets its attempts. The entries are 1 and 3 because locks are taken in order. `Scenario` names the
events of the environment a run includes, so that each run spends its states on
one question. `queue_serial` holds for over-subscribed pools too; `queue_roomy`
needs pools at least as large as the number of jobs, which is why it has a run
of its own: finding 1 is what happens otherwise.

Fairness (`FairSpec`). A live worker's loop polls every two seconds and its
tickers keep firing: weak fairness of the claim's steps; strong fairness of
`Heartbeat` and `StaleTick`, because `select` picks at random among ready
channels, and of the advisory lock, which Postgres hands to its waiters in turn.
Goroutines go on, ffmpeg and downloads are bounded by the job's context, the
back-off and the heartbeat's age follow the clock, a supervisor restarts the
worker (`StartWorker`). Nothing is assumed of users and crashes.

A property can hold because a bound hides the interesting case, so every property
has a mutant: a plausible slip of the code that TLC shows to break it in the same
run. The slips are the definitions nothing uses, each before the one it varies:
`NeverLocked` (no row locks), `LockNeedless` (no advisory lock), `AnyOrder` (no
sorted acquisition), `NoQueueOrder` (no order among downloads), `DueJobIds` (job
ids where entry ids belong), `RetryableRunning` (retry of a running job),
`AllRunning` (a reclaim that ignores the heartbeat), `StaleWithBudget` (a reclaim
that strands jobs without attempts left), `KeepFlavors` (a reclaim without its
second UPDATE), `AbortUnread` (a watcher that fires unasked).

### Findings

1. *A live worker loses its jobs.* `queue.go:315` and `worker.go:143` promise that
   running jobs are never reclaimed while their worker lives. `claimRound` claims
   as many jobs as the pool has slots, not as many as are free, and blocks on the
   pool; blocked, the loop serves no heartbeat. Three minutes later another worker
   takes the jobs back, running ones included.
2. *A cancelled job that returns without error stays `running`.* `Done` runs on
   the job's own context, which the watcher has cancelled; the failed UPDATE is
   only logged, and the heartbeats of its worker keep the reclaim away. The
   download or entry behind it is blocked from then on.

Seen in the model, without a promise in the code that it would break: a retried
job keeps its cancel flag and is aborted at once if it was flagged after it had
ended; a reclaim does not look at `max_attempts`. A transcode that becomes due
between Claim's two SELECTs is claimed without its entry's lock, and a retried
earlier download can overtake a claim in progress: `GuardedTranscodesAlone` and
`DownloadOverlapNeedsRevival` say exactly what is left to rely on.

### Proofs

`JobQueueProofs` proves for every number of jobs, entries, workers and slots, and
every set of events:

| theorem | states |
|---|---|
| `SpecTyped` | `Spec => []TypeOK` |
| `SpecRunningNotPaused` | `Spec => []RunningNotPaused` |
| `SpecGuardedTranscodesAlone` | `Spec => []GuardedTranscodesAlone` |
| `SpecDownloadOverlapNeedsRevival` | `Spec => []DownloadOverlapNeedsRevival` |
| `SpecNoLockCycle` | `Spec => []NoLockCycle` |
| `SpecAbandonedOnlyByAbort` | `Spec => []AbandonedOnlyByAbort` |
| `SpecHolderOwnsRow` | `Spec /\ OnlyDeadWorkersLoseJobs => []HolderOwnsRow` |
| `SpecOutcomeStands` | `Spec /\ OnlyDeadWorkersLoseJobs => OutcomeStands` |
| `SpecDeadLetterExhausted` | `Spec /\ OnlyDeadWorkersLoseJobs => DeadLetterExhausted` |
| `SpecTranscodingHasJob` | the same for `[]TranscodingHasJob`, if no two jobs name one flavor |
| `SpecOnlyDeadWorkersLoseJobs` | `Spec /\ []NoneBlocked => OnlyDeadWorkersLoseJobs` |

They use the two named assumptions of `JobQueue` only. Typing comes first, with
a lemma per group of actions. What follows is not inductive by itself: what a claim
may do at its commit depends on what its SELECT saw. `ClaimInv` carries that
across the gap: every row a claim has locked is queued, due and not paused, was
claimable when it was selected, and stays so until the commit, because locked
rows accept no other write and because a guarded transcode's entry is locked. The
lemmas classify the steps: those that leave the columns the invariant reads
alone, those that only take jobs out of `running`, and the four that put jobs in
(enqueue, retry and reclaim into the queue, commit into `running`); only the
last need an argument. `LockOrder`, for `NoLockCycle`, says that every
lock a claim holds is below every lock it still wants.

The hypotheses of the last five are finding 1 turned round. `OnlyDeadWorkersLoseJobs`
is the comment in the code; the code breaks it, and it breaks it in one way.
`SpecOnlyDeadWorkersLoseJobs` says which: as long as no claim loop waits for a slot
(`NoneBlocked`), no live worker loses a job (`StaleDead`: what is stale belongs to a
worker that is dead or blocked); whether a loop waits depends on how many due jobs meet
how many slots, which no code bounds, so that `queue_roomy` can only show the case in
which all jobs fit. And the others
say that this is all that goes wrong: if live workers keep their jobs, every job is in one
pair of hands whose row is `running` in their name (`HandInv`: `OneHand`, `OwnsRow`), so that no late
goroutine overwrites an outcome or dead-letters a job that has attempts left
(`AttemptsInv`: what `Fail` has read is still true when it writes). `AbandonedOnlyByAbort` needs no
such hypothesis (`AbortInv`): over-subscribed pools lose a job only to another worker, never to nobody.
`FlavorInv`, for `TranscodingHasJob`, follows the mark of a flavor through the encoding; that no two
jobs name one flavor is how `Pipeline` enqueues them.

Only model-checked: liveness (`JobsSettle`).

### Left out

Errors of the database other than those of an ended context, the list of excluded
types that `Claim` accepts and no caller passes, payloads, and the listings. Of the handlers only what the
queue can see is modelled: the entry's slot, the flavor's mark, the return.

## 4. Pipeline

### State and actions

One entry: its row (`status`, `source`), its `entry_flavors` rows (`flavors`), its
media in the local store (`media`, `files` by flavor, and `listed`, the renditions in
the stored master playlist). Entries share only the queue, so one is enough. An
outstanding job is a slot with its type, its flavor, its state, its attempts and
its cancel flag; `phase` is the program counter of a job's goroutine or of a
request's handler, `ctx` says that its context still lives, `todo` and `seen` are
its local lists. One action is one statement, one sweep or write of the store, or
one run of ffmpeg; reads that fail alike are one step.

| code | model |
|---|---|
| `FinishUpload`, `handleFromURLSubmit`, a published entry | `Uploaded`, `Submitted`, `Published`: the states `Init` allows |
| `Queue.Claim`, `Enqueue`, `RequestCancel`, `RequeueStale` | actions of the same names; `Guard` is what `GuardedTranscodesAlone` of `JobQueue` leaves: one transcode of the entry at a time |
| `runJob` | `Settle`: queued again, settled, or left `running` because `Done` ran on an ended context; `WatcherFires`; `Crash` |
| `Download` | `CheckEntry`, `DownloadFetch`, `CheckEntry`, `DownloadPut`, `DownloadUpdate`, `DownloadEnqueue` |
| `Probe` | `CheckEntry`, `ProbeSource`, `CheckEntry`, `ProbePoster`, `ProbeRead`, one `ProbeReset` per flavor, then `ProbePublish` and `ProbeReady`, or `ProbeTranscoding` and one `ProbeEnqueue` per flavor |
| `Transcode` | `CheckEntry`, `TranscodeSpool`, `TranscodeMark`, `CheckEntry`, `TranscodeEncode`, `EncodeEnds`, `EncodeCheck`, `TranscodeDone` |
| `finalizeTranscode`, `buildMaster` | `FinalizeCheck` ... `FinalizeReady`; the playlist is read in one step and written in another |
| `applyFlavors` with its helpers | `Edit` (the comparison), `EditInsert` and `EditEnqueue` per added flavor, `EditRemoveFiles` and `EditRemoveRow` per removed one, `EditStatus`, `EditRebuild`, `EditMaster`, `EditCount`, `EditFail` |
| `handleEntryReprocess` | `Reprocess`, `ReprocessStatus` |
| `handleEntryDelete` | `Delete` (first sweep), `DeleteRow` (with the cascade), `DeleteSweep` |

A statement on an ended context does nothing, and so does an UPDATE of a row that
is gone (`Writes`, `SetStatus`, `SetFlavor`). A deleted job's goroutine goes on
(`state` reads `deleted`) and settles nothing. The store and the disk may fail to
read, spool or write (`DownloadPut`, `ProbeSource`, `TranscodeSpool`, `ProbePublish`,
`FinalizeMaster`, `EditMaster`), as may a download, ffprobe and ffmpeg.

`dropped` is history: what the jobs were for that failed for good or were cancelled, a flavor or
the source itself, until another job is enqueued for it. `torn` marks flavors removed in the middle
of their transcode, see below.

### Runs

| run | shows |
|---|---|
| `pipeline_entry` | `TypeOK`; `UnsettledHasJob`: a flavor that is not settled has somebody to settle it, or the queue shows a job that lapsed; `QuietSettled`: the same for an entry that stays `transcoding` or `probing`; `ReadyPlayable`: a ready entry's playlist lists what is there and all of it; `FilesMatchRows`: a flavor that is done has its files, and a deleted entry has none, though the encoding outlives its entry |
| `pipeline_orphan` | violates `NothingLeft`: finding 3 |
| `pipeline_forgotten` | violates `EveryFlavorEffective`: finding 4 |

`Quiet` means that no job is outstanding and no request is served. The module
states what must then be true instead of a liveness property: that jobs end is
`JobsSettle` of `JobQueue`, under the fairness argued there.

Bounds. Two flavors: finalization is about the last one and another. `scenario`, chosen
in `Init`, names where a behaviour begins, how high its source is (`low`: flavor 2 is
skipped; `tiny`: both are) and what may happen to it, so that one run covers
combinations that together would be too many states: a submitted URL that is
cancelled, deleted, or both; an upload that is cancelled, that is deleted, whose
workers die, or both of these with a deletion; a published entry that is
reprocessed twice, or changed and deleted. Failures of store, disk and
encoders need no permission: they meet all ten. A change that meets a reprocessing, or crashes that meet
cancels, are left to the proofs, which hold for every scenario. Two requests
are the least that interleave. Three slots hold a probe and the transcodes of both flavors, or the
transcodes of two probes as they are claimed; an Enqueue waits for a free
slot. `MaxAttempts` is 2 where the code has 3 (2 for downloads): one retry and the
last attempt. A worker does not die with a job's last attempt, which keeps the
number of crashes finite; in the code such a job is taken back all the same. Slots and requests
are interchangeable (`Symmetries`), the flavors are not; the run checks invariants only. It has 2.5
million states.

When a job fails for good or is cancelled, the code leaves what it was to settle as it is. The
properties do not hide that, they ask that it can be seen: `Lapsed` says that a job for the flavor, or the
probe or download (`SourceItself`), has failed, was cancelled, or was left running by a cancel that
came too late. So a flavor may stay `pending` and the entry `transcoding`

- when a transcode is cancelled, or cannot spool its source (`jobs.go:532-536`), in its last attempt;
- when a probe fails for good after a crash that left its transcodes half enqueued;
- when flavors are added to an entry that is downloading, or whose download has failed: their transcodes have
  no source;

the entry also when `buildMaster` cannot write the playlist (`jobs.go:633`), and the entry may stay
`probing` when a probe cannot spool its source (`jobs.go:379`). What `Lapsed` rules out is that any of
this happens with nothing in the queue to show for it.

The remaining exceptions in the properties are behaviours the model has and the code makes no
promise about; each was found as a counterexample:

- reprocess and flavor changes enqueue first and set `probing` afterwards, so the status may
  overwrite the `ready` of a quick worker and stay (`QuietSettled`);
- a probe that has nothing to transcode ignores that it cannot write the playlist of the source, and the
  entry is `ready` without one (`jobs.go:472`; `ReadyPlayable` asks for a playlist when a flavor is done);
- `rebuildMaster` in the server and `buildMaster` in a worker overwrite each
  other's playlist with an older list (`ReadyPlayable` excepts
  flavor changes), and the server may write one for an entry deleted meanwhile;
- an aborted second run of a flavor removes the files of the first, which the
  playlist still lists, and a second probe that is cut off resets flavors just before a
  transcode of the first one writes the playlist without them (`ReadyPlayable` excepts
  second runs that are cancelled or fail for good, and entries with an unsettled flavor);
- a second probe that meets the rows of a first one half written takes them for the user's choice:
  the rows are written in the order of `position, id` (`flavors.go:59`), and if those so far are all
  skipped it has nothing to transcode and publishes the source while the first probe goes on.
  `ReadyPlayable` asks for runs that do not disturb each other (`Undisturbed`): one run, which may be
  cancelled; or, if no transcode fails for good, one probe, whose workers may die, or runs that find the
  flavors of an earlier one;
- a flavor that is removed while it is transcoded and added again at once gets its row back
  and not its job: the old transcode ends on the new row, and if the new job is
  cancelled, the row says `done` over files that are gone (`torn`, history, names these
  flavors; `FilesMatchRows`).

The slips behind the mutants: `KeepPartial` (a transcode that fails leaves what it has
written), `PendingUndone` (a retried probe skips what is done but has already
reset it), `NoneSkipped` (finalization waits for flavors that were skipped),
`AnyEnded` (the master lists failed flavors), `WithSource` (it lists the source too).

### Findings

3. *A deletion during a probe leaves media behind.* The probe checks that its entry
   exists before it writes the poster and the sprite (`jobs.go:389`), and the deletion
   sweeps the store twice (`entries.go:449`); ffmpeg takes seconds between the
   check and the write, and both sweeps fit in there. Nothing removes the files
   afterwards. The original of a download and the master playlist have the same gap.
4. *A probe whose worker dies forgets flavors.* Existing `entry_flavors` rows count
   as the user's choice (`jobs.go:447`), and the probe itself writes them one by
   one. A retry after a crash in between encodes only those already written, and
   the entry becomes `ready` without the others.

### Proofs

`PipelineProofs` proves `Spec => []TypeOK` and `Spec => []FilesMatchRows` for any
flavors, jobs, requests and scenarios, combinations that no run takes included. The
inductive invariant `PipelineInv` is typing with the slots of the jobs
(`Typed`), `Alone` (at most one transcode runs, which is what `Guard` buys) and `FilesInv`. Of the
latter, `AtWorkUndone` says that a flavor being encoded does not read `done`, so
that removing its output on failure takes nothing from a done flavor;
`OutputThere` that the output of an encoding stays until its row is written, unless a removal or a
deletion has swept it; `DoneThere` is the first half of the property while work goes on, when a removal
has deleted files and is about to delete the row; `GoneEmpty` the second half, when a
deletion still has a sweep to do or an encoding its output to drop. The second half needs no crashes:
nobody removes what a worker leaves that dies while it encodes for a deleted entry.

`Spec => []UnsettledHasJob` and `Spec => []QuietSettled` follow from `SettledInv`, whatever fails, dies or is
cancelled. `CoverInv` says that each unsettled flavor has somebody who
`Covers` it, or that a job has lapsed (`Shown`): its transcode until it has noted the outcome, retries included, a probe
that is still to reset it or about to
enqueue it, a request that is, or a deletion. `StatusInv` says who takes the entry
out of `transcoding` (`Busy`) and out of `probing` (`Probes`), or that a job has lapsed (`AnyShown`). It needs `CoverInv`: a
transcode that counts unsettled flavors and finds some leaves the entry to whoever covers one.
`ResetSeen` says that a probe enqueues what it resets, and `Sourced` that whoever probes has a
source, and so has a transcode unless flavors were added before there was one.
Each lemma about steps shows that a step of one actor leaves to the others what they cover, and
settles, hands on or shows as lapsed what it covered itself.

`Spec => []ReadyPlayable` rests on three invariants. `RunInv` is for all undisturbed runs: a
flavor is skipped or transcoded and never both, a first run has one probe (`Starter`), later ones find rows
(`Rooted`), a probe that finds nothing to transcode is right (`NothingToTranscode`), and what is listed, if
only by a playlist that a later one was to replace, has a row (`PlaylistInv`). Then
there are two ways a playlist stays right. Without cancels and without lapsed transcodes (`UncutInv`), crashes
or not, a playlist that is not right is still `Mending`: a flavor is unsettled, or a transcode
is yet to build from all of them (`Fixes`). Most steps are `Bland`, which one lemma (`BlandMends`) settles. In
one run that may be cancelled (`OneRunInv`) nothing mends, and the argument is about order: only the last
job alive looks at all flavors, and then they are settled for good (`LastFinishes`), so that what it lists is
right (`ListsRight`) and nobody works after an entry is ready (`ReadyEnds`).

### Left out

Errors of the store when it deletes (`RemoveTree`), and of the database on a live connection; remote
stores (`publishFlavor`'s uploads), the spool cache and `clearSpool`, subtitles,
posters picked by hand, flavor definitions that change or disappear meanwhile, the
four-hour limit, retries from the jobs page, a job taken back from a live worker
(finding 1) and the unguarded claim race, which would let two transcodes
of one flavor overlap.

Every safety property of `pipeline_entry` is proved. That jobs end at all is not stated here
(see `JobQueue`), and the two violations are the runs'.

## 5. Transfers

### State and actions

`JobList` has what the two stores do alike with their lists. `UploadStore` and
`UrlStore` keep the module-level variables of the two files; `UploadDialog` extends
both and adds the dialog, whose handlers are the only callers of the stores.

JavaScript runs to completion, so one action is the code between two awaits, or
one callback; what a handler calls is part of its action. The stores outlive the
dialog, and a reload (`Reload`) leaves only localStorage and IndexedDB.

| code | model |
|---|---|
| `addFiles` | `AddFiles`: resume an interrupted job, skip a listed file and a file selected twice, respect `MAX_BATCH` |
| `startAll`, `startJob` | `StartAll`, `NextJob`, `RestoreEnds` (the await of `idbGet`), then the wait for the promise; `batch` says where the loop is |
| tus callbacks | `UploadUrlAvailable`, `TransferDone`, `TransferFailed`, which `Resolve` the promise |
| `removeJob`, `resetIdle`, `clearAllUploads`, `load` | `RemoveJobs`, `ResetIdle`, `ClearAllUploads`, `LoadUploads` |
| `checkUrls` | `HandleCheckUrls` sends, `CheckAnswered` calls `AddUrls`; a URL that is listed, or twice in the answer, is skipped; a check whose dialog was closed is a stray, and its answer still arrives |
| `startDownloads`, `submitOne` | `StartDownloads`, `NextUrl`, `ServerAccepts`, `SubmitAccepted`, `SubmitRefused`, `SubmitThrows` |
| `waitForEntry` | `Tick` (the interval, also over a poll that has not ended), `ListArrives`, `EntryArrives`, `PollThrows` |
| the dialog's handlers | one action each; `question` holds the lists a confirmation captured |

`news` is history: the jobs that ended well while the dialog was closed.

### Runs

| run | shows |
|---|---|
| `transfers_dialog` | `TransfersTypeOK`; `LoopsWait`: the loop of uploads waits for the one transfer there is, a job reads `uploading` only with it, and a late poll never lets the loop of URLs pass; `NothingListedTwice`; `NewsKept`; `BatchFinishesJob` and `DownloadFinishes`, under fairness |

Bounds. Two files or two URLs are the least that queue behind each other;
`MaxBatch` is then full (10 in the code). `Id` and `UrlId` bound the ids in use at
one time, not over time: an id that nothing refers to is free again. Two polls (`Slot`)
overlap. The files picked and the URLs accepted are sequences (`Selection`, `Accepted`) and may
name one twice. `MaxChecks` is one check in flight, and the dialog can be closed and
opened around it. `Scenario` splits the work: files alone with a reload; URLs over
a bad and over a good network; one of each with a reload. A bad network lets the
submission and the polls throw; in a good one only the read of a deleted entry does.

Fairness. Transfers, database requests, calls and downloads on the server end, and
the interval fires: weak fairness of each. Nothing is assumed of the user, of a
check's answer or of a reload. Interval ticks may overlap, but a poll that has begun ends.

The exceptions in `BatchFinishesJob` and `DownloadFinishes` are what the code does
and makes no promise about: a job removed or cleared while it uploads leaves the
loop waiting for a promise that never resolves (`TakenAway`); a job without
its file is picked for ever (`FileMissing`); a URL that is cancelled leaves its loop behind. `SubmitThrows`
leaves a card that says `downloading` with no loop, and after a reload a URL reads
`checking` for good. A poll that ends its job clears the timer before it reads the
entry (`url-download-store.ts:245`); if that read fails, nothing polls again and
the loop takes no later URL, although the catch says that it keeps polling (254).

The slips behind the mutants: `Pushed` (a patched job is appended again),
`StartAllTwice` (no re-entrance guard), `ListedQueued` (duplicates found among
queued jobs only), `ClearAnyTimer` (a late poll acts for the next URL),
`FilesCompleted` (the flag of one store decides for both), `FailUnresolved` (a failure
that does not resolve its promise).

### Proofs

`TransfersProofs` proves `Spec => []TransfersTypeOK`, `[]LoopsWait`, `[]NothingListedTwice` and
`Spec => NewsKept` for any files, URLs, selections, batch sizes, numbers of polls, checks and
reloads. They use the named assumptions of the three modules: ids are positive numbers, as many as there
are, and what is picked or accepted is a sequence of files or URLs. First come facts about
lists: the k-th of a set of numbers (`NthIs`, by a smallest counterexample), what filtering
keeps (`KeptIs`), and what a new status, a removal and an addition make of a list
(`StatusKeepsList`, `WithoutKeepsList`, `AddedKeepsList`).

The inductive invariant `TransfersInv` has a part per store and one for the dialog.
`UploadInv`: the list has no id and no live file twice (`WellListed`); a transfer under way is
the one the loop waits for, its job reads `uploading`, and no other does, and a job whose file
is looked up is still to be started (`BatchOk`). `UrlInv`: no id and no URL twice
(`WellCarded`); a queued card has no entry and is not the loop's, and a card that downloads an
entry is the one the loop waits for (`RunnerOk`); timers and polls are typed (`Polled`).
`DialogInv` types the dialog and its question, and counts checks. `LoopsWait` is not inductive
without `RunnerOk` and `BatchOk`: a late callback changes the card or the job that it names,
and they say which one the loop is at.

`NewsKept` rests on a second invariant, `NewsInv`. Two things could lose what ended while the
dialog was closed. A poll that ends late could turn a `done` card into a `failed` one: until a
reload every timer and poll is about a card that has an entry, and a card that ended says what
the server says of that entry, which no longer changes but to `deleted` (`PollsAsk`,
`CardsSay`). And opening the dialog could clear the list: while there is news of a kind, that
list is marked as completed or has something under way (`NewsShown`), which `FilesKept` and
`UrlsKept` carry over every step of the stores, because a round of a loop either starts a job
or marks the list. After a reload none of this holds: cards read `checking`, and a list of
jobs that are over may be cleared.

Only model-checked: `BatchFinishesJob` and `DownloadFinishes`, liveness.

## 6. Console

`Site` composes the pages, signing in, the api client, the library and the player. The links of the menu
load a page afresh, so that a behaviour is one visit of one of them
(`visit`), and the others keep one initial state.

`AdminPages` is the seven pages that show one table. They share the query, the
form and the confirmation, and differ in what they offer for a row
(`FlavorsPage`, ... `JobsPage`) and in what a form lets through and sends
(`FlavorForm`, ... `ViewerForm`). A row is a text, a flag and a parent. The
server is `table`; `Performed` and `Refused` answer a call, `FetchAnswered` a query, and
their answers travel: `Succeeded`, `Failed`, `FetchLands`. The answer to a query is the table or, for the
categories, the tree that the server makes of it (`CategoryTree`). That tree copies each child into its
parent by value, in the order of the ids, before it copies the roots (`categories.go:47-54`): a category
whose parent is no root and was copied before it is in no copy, and the page does not show it. Only roots
are offered as parents, but a root that has children may be saved below another one, so the run has such
categories. A dialog closed with the
escape key disowns its call, whose answer still invalidates the list.

`EntriesPage` keeps an answer and a request per view (filter and page), a selection
that outlives both, and confirmed questions as tasks with the calls that are left.
`EntryDialog` keeps the entry as answered last and a draft; the effect that copies
an answer into the draft runs only when the answer differs. `SettingsPage` keeps
each save as a flow of PATCH and GET.

| run | shows |
|---|---|
| `site_pages` | `SiteTypeOK`: no call and no other user leaves a row with a parent that is not there, and a form and a confirmation are never in front together; `QuietListIsServer`: a page at rest shows what the server answers; `OneRowPerSave`; `FreshParentsKeepTree`: the parents of every category lead to a root in the table; `BulkDeleteFinishes`; `UnsavedIsEdited` and `LockedFlavors`: a save names flavors only when its user changed them, and never during a run; `ProcessingShown`; `SwitchNotUndone`; and the properties of sections 7 and 8 |

Bounds. `Limits`, `Visit` and `Stay` say of one visit whether calls may fail, how
many calls it makes and how often others interfere; `MCSite` lists the combinations.
Two calls are given where it takes two to go wrong (two saves of a tree, a save
after a lost answer, two saves of settings: `MaxFlows`), one elsewhere. Three entries
and pages of two give a second page; four ids of rows leave room for two new ones.
Two of what a text, a field or the metadata may hold tell an old value
from a new one.

Fairness. Requests and calls are answered, workers end their runs, and the pages
poll (`refetchInterval`) while visible; nothing is assumed of users.

What the model has and the code makes no promise about: `QuietListIsServer` excepts lost
answers and changes by others, until the next fetch; `OneRowPerSave` allows a second
row after an answer was lost; categories saved over a list that is being
fetched can become each other's parent, and no root leads to them (`hurried`); the server's tree lacks the
categories named above, and `QuietListIsServer` compares the page with that tree, not with the table; an answer
overwrites an unsaved draft; a bulk answer empties a later selection; a save sends
all of a draft's metadata, and a flavor's switch its whole cached row.

The slips: `FormClosed` (a confirmation does not keep a form away), `RenewIfIdle` (an
invalidation that lets an older request answer), `SubmitAgain` (a button that a pending
save does not disable), `AnyParents` (any category as a parent), `AllKeys` (a group sends
its switches), `SyncFields` (the effect leaves the flavors of the draft), `LeftAlone` (a
bulk deletion that stops at the first error), `PollNever`.

Proofs. `ConsoleProofs` proves six properties, for any rows, values and numbers of calls:

- `SpecQuietListIsServer` and `SpecOneRowPerSave`, of `PageSpec`. A list that is not
  `astray` is what the server answers, or its answer on the way is, or a call that took effect has
  not been answered yet (`ListInv`); what ends that call has the list fetched again or leads it astray. A
  form has one call of its own under way at most, while it waits for it (`CallsInv`), and has made no more
  rows than it saw saves fail, but for the one whose answer is on its way (`MadeInv`).
- `SpecFreshParentsKeepTree`, of `PageSpec`. `Rooted` is the smallest set that has the roots and the
  children of its own, so that a tree is proved one without following paths: a new row is a leaf
  (`AddKeepsTree`), a row may be put below a root (`RootKeepsTree`), a deleted one leaves its children as
  roots (`DropKeepsTree`). The invariant `TreeInv` says of every parent that the list, an answer on its
  way, a form or a call names that it `Fits`: it is the one the row has; or it leaves a tree and no save of
  another row is under way; or the row or that parent has been deleted, for good, because ids are not
  given twice. A parent is chosen over a list at rest, which offers roots only, and a save
  over such a list is the only one under way.
- `SwitchStands`: `SettingsSpec => []SwitchNotUndone`. The invariant says which keys a flow
  carries: `on` if it is that of a switch, and only then.
- `UnsavedWasEdited` and `FlavorsAreLocked`, of `EntrySpec`. The invariant adds that a draft that was not
  edited since the last answer is a copy of the entry, and keeps `LockedFlavors`
  because an answer that shows a run replaces the draft.

`SiteProofs` takes these to `Site`. `VisitIsOfItsPart`: a visit does to every part what the part does
by itself, or leaves it alone, so that `VisitKeepsItsPart` has all the invariants above, and those of
sections 7 and 8, of every visit. And it proves `SpecSiteTypeOK`: `Spec => []SiteTypeOK`. The
invariants behind it:

- `TableTyped` says of the rows of the server, of the list, of an answer on its way, of the form and of
  the body of every call what a row of that page can be (`PageRow`): only categories have a
  parent, and the text of a job is its status. It says too which calls a page can have sent
  (`PageKinds`): the page of the jobs deletes nothing, so that whatever it lists, asks about or acts on is
  still there (`Shows`), which is what the server's actions on a job rely on. A save passes on the parent that
  the server has just checked, or none (`FormRows`), and a deletion takes itself out of the parents of others.
- `ViewsTyped`, for any number of entries and any page size: a page may be turned only with more rows
  behind it than those up to its end, so that the next page is one there may be (`NextPage`).
- `SettingsTyped` and `DialogTyped` say what flows, posts and replies carry, `RefreshAwaited` that no request
  waits for a refresh when none is under way, `PlaysOnce` that a play is reported once.

The assumptions: entries are finitely many numbers and `Matching` some of them
(`EntriesAssumption`), there is some metadata (`MetaAssumption`), the texts have the empty one and
that of the first rows (`TextAssumption`), and `Limits` is of the seven pages and has those
visited (`LimitsAssumption`, `SiteAssumption`).

Only model-checked: `BulkDeleteFinishes` and `ProcessingShown`, liveness.

## 7. Session

`ApiSession` models `api` and `tryRefresh` with the tokens of the server. Tokens come in
pairs, numbered by issue; a call carries the access token of the cookies of its moment, a
refresh the refresh token. A refused call starts a refresh or awaits the shared one;
`Settle` is its answer: cookies are set and all that awaited it go on in one turn of the event loop.
`Picky` calls have handlers with a 401 of their own.

`SessionGate` is what callers rely on: a call ends with its answer, and unauthorized
only if the session is not whole or the call is picky (`SessionKept` says the last as an invariant). `GateHolds`
says that `ApiSession` implements it, with `outcome` and `whole` as the mapping.

`site_pages` checks `GateHolds` for three calls, one of them picky: the starter of a
refresh, one that shares it, and one that meets the next. `ApiSessionProofs` proves `SessionKept` and `GateHolds`, and the
typing, for any set of calls. The inductive invariant says why: one refresh at most is
under way (`OneFlight`), so that the tokens it carries are the newest unless the session is
broken (`Latest`); it therefore fails only of a broken session (`FailedBroken`), and a call
sent again carries a token that has not expired (`FreshAgain`). The refinement
is proved step by step: `Begin`, `Answered`, `Denied` (of all that awaited a failed
refresh at once) or `Breaks`, or a stutter.

Two assumptions are in the actions. `Expire` waits for calls that are being sent again and for a refresh
whose answer is under way: an access token lives minutes, and the retry follows at
once. And there is one tab: a second one has a `refreshing` of its own, and the two
can sign each other out. A refresh without an answer (`lost`) breaks the session, as it does in
the code. The slip is `StartsAlways`: a refresh per call.

`SignIn` asks the other question: which page is in sight while the tokens come and go.

| code | model |
|---|---|
| `AuthProvider`: `me`, `login`, `logout` | `SignInInit`, `Reopen`; `MeLands`, `LoginLands`, `LogoutLands` |
| the effects of the shell and of the login page | `Present` |
| the forms, the sidebar, a page that polls | `SubmitLogin`, `ChangePassword`, `SignOut`, `PagePolls` |
| `handleLogin`, `handleLogout`, `handleChangePassword`, `handleMe`, `requireAuth` | `HandleLogin`, `HandleLogout`, `HandlePassword`, `HandleMe`, `HandleUnauthorized` |
| `handleRefresh` | `RefreshLookup`, then `RefreshRotate`: it deletes the row it has read, and issues a pair even if the row is gone |
| `api`, `tryRefresh` | `AwaitRefresh`, `RefreshLands`; `AnswerLost`, `RefreshAnswerLost` |

A request carries the pair of its moment, and an answer sets the cookies that are there when it lands.
`SignInShown` says of a browser at rest that the console is in sight exactly if the server keeps
the refresh token of its cookie, and the login page otherwise. It excepts runs in which an
answer was lost (`unanswered`), and those in which a login, a logout or a new password
met a refresh (`crossed`). What the model has in these, without a promise in the code:

- a `me` of an expired session that is still being refreshed when its user signs in
  ends after the login, and sends the signed-in user back to the login page;
- a logout beside a refresh deletes the row of the old token; the refresh
  has read it before and issues another pair: the browser that was signed out has a session;
- a new password beside a refresh keeps the row of the token in its request
  (`auth.go:262`), which is by then replaced: the session that changed the password ends;
- a logout whose call fails shows the login page while the session lives on
  (`auth-provider.tsx:40`).

`MaxDeeds` bounds what the user does, and expiries: four are a login, a new password, an
expiry, and a poll that finds the session whole or not. A page is opened afresh only at rest, and access
tokens do not expire while an answer is under way, for the reason given above. The slip is `RevokeAll`: a new password that
revokes every refresh token.

`SignInProofs` proves `SignInSpec => []SignInShown`, for any number of deeds. The invariant
(`SignInTyped`, `ShownInv`) says of every answer that is on its way, and not only of a browser at
rest, what it will do to the page: that it carries the pair that the server keeps or that
the page it leads to is the right one, as long as nothing has `crossed` and no call was left `unanswered`.

## 8. Library and player

`Library`: a request carries the filters it was made for; `Choose` cancels the first pages of
earlier choices, as the clean-up of the effect does; `LoadMore` takes the filters and the page number of
its moment, and its answer is dropped when the filters have changed since. `LibraryInOrder` says that
the list is pages 1 to n of one choice of filters. It excepts requests that were under way
together for the same filters (`met`). Bounds: two
words, two shelves, answers of three and two pages, three choices (`MaxChoices`: away, back, and away), four pages (`MaxPage`).

What `met` excepts: `loadMore` compares
the filters of its request with those of the moment (`page.tsx:131`), not with those
of the items in sight. Pressed between a change and its first page, it appends page 2
of the new results to the old ones. The first page then replaces both; if it comes
before, and two pages of the old results were in sight, page 2 of the new ones is skipped.

`Player`: the video element changes at once and tells its listeners later (`events`, at
most `MaxEvents` waiting). A second on the page is one `Ticker`. `WatchAccounted`: each second
watched is reported once, but for those of a player that is taken off the page (`Unmount`
reports nothing), never more than `FlushEvery` (30 in the code, 2 in the run). The slip is `Never`: a timer that does not report.

`SiteProofs` proves `LibrarySpec => []LibraryInOrder`, for any filters, any lengths of the
answers and any number of choices; its invariant says of each request under way which pages the list may have
when it lands. And it proves `PlayerSpec => []WatchAccounted` for every `FlushEvery`; that
invariant adds that `watched` never exceeds `since`.

## 9. Server: uploads and disk cache

`Server` runs one of two parts in a behaviour (`part`); they share neither state nor
locks, and the other part keeps one initial state.

### Uploads

The bytes of one file are counted in parts, of which a PATCH sends a chunk. A
request is a record with its next step. tusd has no locker here
(`api/tus.go`), so the request of a client that has gone runs on beside the next one. The
client is tus-js-client, which is external: `StartUpload` and `AbortUpload` are
what the upload store calls, `Answer`, `Learns` and `Fail` what it does with an
answer.

| code | model |
|---|---|
| `NewUpload` | `PostEntry`, `PostRow` |
| `GetUpload`, `GetInfo` | `HeadFile`; `PatchFile` when a PATCH begins |
| `WriteChunk` | `WriteOpen`, one `WritePart` per part, `WriteBreaks`; the open file may be moved or removed under it (`linked`) |
| `FinishUpload` | `FinishStat`, `FinishStore`, `FinishRemove` (remote driver), `FinishUpdate`, `FinishEnqueue`, `FinishRow`; `RequestFails` at any statement |
| `Terminate` | `TerminateSpool`, `TerminateRow`, `TerminateEntry` |
| deletion of the entry | `DeleteEntry`: the row goes with it, the spool does not |
| `cleanupStaleUploads` | `SweepRead`, `SweepSpool` and `SweepRow` per upload, `SweepEntries`; `Age` makes an upload older than 24 hours |

### Disk cache

The versions of an object stand for its bytes, with a size each. One action is an
operation of the backend or the disk, or one critical section; the mutex is
a variable only because `Put` holds it over two steps, and because of finding 5.

| code | model |
|---|---|
| `Open` | `OpenLook`, `OpenHit`, or `OpenMiss`, `OpenCopy`, `OpenRename`, `OpenInsert`, `OpenReopen`; between the two `OpenDrop` and `OpenUnlock`, when the file of a hit is gone |
| `Put` | `PutWrite` to the backend; `PutFetch`, `PutStat`, `PutLock` (truncates the cached file in place), `PutFill` |
| `Delete`, `Stat` | `DeleteForget`, `DeleteErase`, `DeleteDestroy`; `Stat` |
| `insertLocked`, `evictLocked`, `removeLocked`, `touchLocked` | `Inserted`, `Evicted`, `Removed`, `Touched`: functions of the index |
| `NewCache`, `rebuildIndex` | `Restart`, `Rebuilt`: the files as the walk of the directory meets them; evicting once at the end leaves what evicting after each insertion leaves |

The backend may fail in any call, a write with or without effect, and the disk may refuse a directory or a
file, or to be written. `Put` returns nil for most of these errors (`cache.go:130-144`) and leaves the
old copy indexed (`Skip`), or notes the size 0 if only the backend's `Stat` failed.

A backend's reader fetches by ranges up to the size it was opened with (`s3.go`),
so that a copy of an object that is replaced meanwhile may be the new version,
a part of it, or an error (`Read`).

### Runs

| run | shows |
|---|---|
| `server_parts` | `ServerTypeOK`; `DoneIsStored`: a file whose last PATCH is answered well is stored and its probe queued; `UploadsEnd`: no entry stays `uploading` for ever; `StaleNeedsOverlap`: an idle cache serves what the backend holds, except for keys of which a change met another call or a restart, or of which an error cut a put short; `WithinBudget`: the files of an idle cache fit its budget |
| `server_evicted` | violates `EvictedStillServes`: finding 5 |

Bounds. Two uploads (a client whose upload is gone makes a second), three parts in chunks of two, so
that a request writes in several steps and a file takes several requests; two requests, the one
that runs and the one that was left behind. `Days` says which troubles meet: an
abort with lost connections and failing statements; a restart over the remote
driver; the sweep with lost connections, or with failing statements over the
remote driver; deletion, Terminate and lost connections. `MaxTries` bounds all retries of the
client (in the browser it starts again after progress), `MaxFaults` the
interruptions. Of the cache two keys and two goroutines, which is what a race
takes, four calls or three and one restart; sizes are 2 and 4 in a budget of 3 (two objects do not fit
together, and the larger one not at all), in `server_evicted` 1 and 2 in a budget of 2.

Fairness. The worker's ticker runs the sweep every hour and days pass. Nothing is
assumed of clients and requests: `UploadsEnd` holds although they stop anywhere.

What the model has and the code makes no promise about, with the history variable that
excepts it where a property needs one:

- a `FinishUpload` that fails before it moved the file leaves a spool that a HEAD
  finds complete: the console says done, and after a day the sweep deletes the entry
  (`assumed`);
- the sweep goes by the creation of an upload and not by its last chunk; it
  removes the spool of a slow one, and a request that runs meanwhile may store
  a short file as the original (`taken`);
- a PATCH that was left behind opens the spool by its path after another one has stored
  the file: it makes the spool anew, and the next `FinishUpload` stores that in the place of the
  original (`taken` too; it takes three requests, one more than the run has: the proof met it);
- a spool whose entry was deleted stays: the sweep finds no row that names it;
- a put or a deletion that meets a fill of the same key can leave the older version, a
  torn copy or a deleted object in the cache, and a restart in the middle of a
  put does the same; a put that the backend or the disk cuts short after the object has changed leaves the older
  version there, mostly without an error (`tainted`);
- a key that is inserted again changes the size of its entry and not the total, and one whose `Stat` failed
  counts for nothing, so that the
  footprint drifts from the budget until the next start (`resized`);
- an object larger than the budget is evicted by its own insertion, and the open that fetched
  it fails; so does one whose copy another insertion evicts before it is opened.

The slips: `EnqueueLogged` (a probe that cannot be queued is logged only),
`SweepOnlyRead` (a sweep that leaves the entries), `PushedToFront` (a key that is
touched twice is in the index twice), `KeepNewest` (an eviction that spares the last
object), `PutFetchMissing` (a put that leaves a cached copy alone).

Left out: a disk that does not open or remove a file that is there, or loses what it has written; temporary files, `List`, a second process with an
index of its own over the same directory; `WriteInfo` and `GetReader`, which
nothing in `src/` calls; the metadata of an upload and its checks.

### Proofs

`ServerProofs` proves of `Spec`, for any number of uploads, requests, parts, retries and
faults, and any mixture of troubles, `[]UploadsTypeOK` and `[]DoneIsStored`; for any objects,
goroutines, calls, restarts, sizes and budget, `[]StaleNeedsOverlap` and `[]WithinBudget`; and
of both parts `[]ServerTypeOK`, that the index has each key once included.

For `DoneIsStored` each request is described by what it has in hand (`OnDisk`, `OnRecord`): a
request past the store has a whole original, one past the update an entry that left `uploading`, one past the
enqueue a probe. `Whole` keeps an original whole while others write: an upload that was not taken has its
original whole or not at all, and once it is whole the spool is gone or whole too. At most one request is `heard`, so that the answer
which ends the client is that of a request of its own upload.

For `StaleNeedsOverlap`, a key whose history is clean has a change to itself (`Lone`); what
a call carries of it is what the backend has (`OwnFresh`); and without a change under way the cache holds that or
nothing (`Served`), whatever eviction does to the index.

For `WithinBudget` the invariant is `IndexInv`. As long as no object was replaced by one of another
size, the total is the sum of the sizes noted and fits the budget (`InBudget`), because an insertion evicts
before it leaves the mutex; and every cached file is in the index with its size, or a call is about to insert
its key or to erase the file (`Filed`). The second holds only until the mutex is unlocked twice, which a
hit on an evicted file does (finding 5): that unlock either ends the process or, if a put holds
the mutex, lets one goroutine too many inside, until one of those inside ends the process by its own unlock.
`Settled` lists these ways out (`exited`, `Unlocking`, `Intruded`, `Filed`). An idle cache is in none of the
first three, and after an exit `Boot` rebuilds the index from the files.

The index is a sequence, and its footprint a sum over a finite set. What eviction, insertion, removal and
the walk at the start make of them are lemmas of their own; each one about every index is proved by
its shortest or smallest counterexample, because the induction theorems of the library cannot be used.

Only model-checked: `UploadsEnd`, liveness.

### Finding

5. *A hit whose file has been evicted ends the process.* A hit leaves the mutex
   (`cache.go:160`) before it opens the file. If it is gone by then, the entry is dropped under the
   mutex, and control falls through to the `c.mu.Unlock()` of the miss (169): Go
   ends a process that unlocks an unlocked mutex. In the run one insertion between the two
   steps is enough; `cache_test.go:54` says that an evicted object must still serve.

## 10. Not modelled

- *Remote and legacy stores, the settings cache, analytics.* What the modelled parts need of
  them is an external step (an object that is there, a submitted URL). What can go
  wrong in them: a read that promotes a legacy object races its deletion, and
  the object comes back (`fallback.go:56`); two reloads of the settings may
  leave the older answer in the cached copy (`settings.go:50`); counts
  whose flush fails are lost, because they have left the accumulator by then (`analytics.go:119`).
- *Two browsers or tabs, viewers' sessions, the login guard.* Two tabs refresh with one
  token, and the later one signs both out (`api.ts:12`); two refreshes that read the
  row before either deletes it both get a session (`auth.go:206`).
- *Between modelled parts.* An entry whose download waits in the queue for a day is
  `uploading` without an `uploads` row, so that the sweep deletes it (`cleanup.go:47`): `Uploads` has
  no downloads, and `Pipeline` no sweep.
- *Media serving, catalogue tables, http server, schema and bootstrap, configuration, deployment.*
  Stateless per request, single statements, or run once.
- *The rest of the web*: the login page of viewers, dashboard, analytics and storage pages, texts,
  ui kit, notifications: one query or call each, or pure rendering.

## 11. What the proofs leave to TLC

Every invariant and action property that a run checks, and the refinement of `SessionGate`, has a
theorem. What stays with TLC are the liveness properties (`JobsSettle`, `BatchFinishesJob`,
`DownloadFinishes`, `BulkDeleteFinishes`, `ProcessingShown`, `UploadsEnd`), which the prover
does not reach, and the five findings, which are counterexamples.

The proofs assume of the constants what the named `ASSUME`s of the modules say, and nothing else.
The bounds of the runs (calls, faults, choices, deeds) are constants of the theorems too, and may be
any number.
