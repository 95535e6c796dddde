# sqlite-web-starter in TLA+

sqlite-web-starter is a small Rust service: a counter in one SQLite file, a
single writer behind a bounded queue, and Litestream that replicates the file to
object storage. Little code, but most of it is order: which of two things a
shutdown waits for first, what a caller may be told when a reply is lost, what a
restore may overwrite, what a retry may repeat. This directory states that order
as TLA+ modules, checks it with TLC on small instances, and proves the safety
part with TLAPS for every value of the constants.

- [The system](#the-system): parts, state, operations, what is hard
- [Modules](#modules): what models what, and how
- [Runs](#runs): what TLC checks, with which bounds and why they suffice
- [Fairness](#fairness)
- [Proofs](#proofs)
- [What the code says differently](#what-the-code-says-differently)
- [Not modelled](#not-modelled)
- [Plan](#plan)

To repeat the checks: `tlc -config WriteQueue.cfg MCWriteQueue` and so on
for each pair of the table under [Runs](#runs); `tlapm ApplicationProofs.tla` and
so on for the eight `*Proofs` modules.

## The system

```
 clients -> axum handlers -> Database::increment --try_send--> mpsc(64)
   |            |                    ^                            |
   |            |                    +------- oneshot reply ---- Writer task -> SQLite thread -> file
   |            +-> read pool (query_only) ---------------------------------------------------> file
   |
   +-> POST /contention -> semaphore(1), 10 s -> direct round (12 connections), queued round (own queue)

 supervisor (startup.rs): open, barrier, bind, serve | signal, task lost -> drain HTTP -> drain writer -> exit

 pod: entrypoint.sh restore -> litestream replicate -exec app -> final sync      object store
 release: release.sh or a person -> tag -> wait_for_ci.sh -> retag_image.sh -> registry
 browser: page (no-cache) -> hashed assets (immutable) -> counter.js, form -> increments
```

| Part (source) | State it keeps | Operations | Interacts through | What makes it correct |
| --- | --- | --- | --- | --- |
| Write queue (`src/database.rs`) | channel, ready flag, writer's position, the command in hand, COMMIT under way, read pool | `increment`, `counter`, `is_ready`, `stop_readiness`; `Writer::run`, `process`, `execute` | mpsc, one oneshot per call, cancellation token, SQLite thread | answers are true of the file; commits follow admission; a clean end ran everything; nobody waits for ever |
| Supervisor (`src/startup.rs`) | two tokens, two optional join handles, the first failure, a deadline | build, run until stop, shutdown, drain, abort | signal task, HTTP task, writer task | HTTP is drained before the writer; success means nothing was lost; neither of its tasks survives it; it ends |
| Routes (`src/routes.rs`) | the contention semaphore | read and write the counter, probe, run the lab | `Database`, `contention::run` | one experiment at a time, none outlives its request; `/ready` vouches for a writer that serves |
| Barrier (`src/replication.rs`) | subprocess, deadline, last error | `wait_until_ready` | `litestream sync`, termination token | serving starts only after a sync that covers the file; it ends |
| Contention lab (`src/database/contention.rs`) | twelve connections or a queue of its own, a JoinSet | `direct`, `queued`, `collect`, `Request::record` | SQLite's write lock; the write queue | the report loses no update; contention is told from errors |
| Pod (`entrypoint.sh`, `litestream.yml`, chart) | the file in the `emptyDir`, the replica | restore, replicate, final sync, crash, replacement | exit status of the application | one history; only the last run is at risk; nothing is created afresh beside a replica |
| Release (`bin/ci/*.sh`, `release.yaml`, `ci.yaml`) | tags, CI status, images in the registry | wait for CI, look up, put, look up again | GitHub, ECR | a version denotes one tested image for ever; success is true |
| `bin/release.sh` | a clone's tags | list and compare tags, resolve and check the commit, tag, push | origin, ECR, people with `git push --tags` | a published version denotes a checked commit; a reported push is true; no version is published behind one that was reported before |
| Assets (`build.rs`, `src/dashboard/assets.rs`, `layouts.rs`, `pages.rs`) | the two bundles in the binary, the browser's cache | build, link, serve, load | a page outlives the image that rendered it | a page runs its own assets; a rebuild changes no URL; assets go only when their source changes; a reload heals |
| Clients (`counter.js`, the form, API callers; `write_error`, `pages::increment`) | a disabled button, a page under way | click, submit, redirect, retry after 429 | `POST /counter`, `POST /increment`, `GET /` | one intent counts once; the counter shown never falls and is never ahead, unless a lost node took back what it had counted |

Hard to test, and therefore what the properties are about (PROJECT.json lists
each at its line): a reply that is lost before or after its COMMIT landed; one
write that fails in front of others; admission while the channel closes; an abort
while COMMIT is with the SQLite thread; a drain that refuses work it accepted; a
deadline at any await; a task that dies during startup; restores over leftovers;
a sync that races its deadline and the signal; lock races in deferred
transactions; a dropped experiment; two promotions of one version; a put or a push that is
executed after its sender gave up, and the tag it leaves behind; a deployment
between a page and its assets; a reply that is lost after its commit, and a
client that may or may not send again; a probe that awaits a read after it looked at
the channel; a page that outlives the node it came from.

## Modules

An action is what a task does between two awaits, or one step of an external
party. Variables carry the source's names where they have one.

**CounterService** is the abstract promise of the queue: one log of increments,
each applied at most once; *ok* carries the place in the log, *refused* and
*failed* are not in the log and never will be, *unknown* promises nothing and may
still take effect.

**WriteQueue** (`src/database.rs`). `call[c]` is one call of
`Database::increment` as its caller sees it, `reply[c]` the oneshot sender in its
`Command`; `queue`, `closed` are the channel; `ready` the AtomicBool; `pc` is
where `Writer::run` awaits: `select` (the biased select of `process`), `drain`
(the second loop), `execute` and `commit` (inside `execute`: before COMMIT is
sent, and waiting for the SQLite thread), `stop`, `closeReaders`,
`closeConnection` (the three stages of `run`), `returned`, `aborted`.
`Admit`/`Reject` are `try_send`; `Land`/`CommitFails` are the SQLite thread, which
executes a COMMIT even when the writer was aborted meanwhile; `Reply` and
`ReplyError` are the two ends of `execute`, the second leaving `process` through
`?`; `DropCommands` is what dropping the receiver does to the senders in it.
`Abort` is `JoinHandle::abort` or a panic at any await. `accepted` and `log` are
history. A call's increment counts 1 up from `Saved`, the value found in the
file.

**Application** (`src/startup.rs`, the counter's handlers of `src/routes.rs`)
EXTENDS WriteQueue and lets the process drive it: every step of the writer,
of callers and readers is WriteQueue's own. `sup` is the supervisor's await:
`start`, `prepare` (the biased select of `build`), `running` (that of
`run_until_stop`), `drainHttp` and `drainWriter` (the two waits of `drain`),
`abortWait`, `exited`. `httpKept`/`writerKept` are the two `Option<JoinHandle>`,
`failure` the error `first_failure` returns. Connections are axum's own tasks: they
go on when the HTTP task is aborted, and `NothingOutlivesExit` speaks of the two tasks that
the supervisor owns. `probe` is a `GET /ready`, one at a time: `Probe` looks at flag and channel
(WriteQueue's `Ready`), `ProbeBegins` gets a read connection, `ProbeAnswers` has its row, and
`ProbeFails` is a closed pool, a timeout, a failed read or a client that left. Between those steps
everything else may happen, which is why `ReadinessTruthful` excuses a probe that was under
way when the writer stopped, and no other. The barrier is one step here.

**Lifecycle** is the abstract promise of one application to `entrypoint.sh` and
Litestream, and where the two halves of the project meet. It is killed and begins
anew at any time; it commits only between the moment it serves and its exit, exits with
success only when it was asked to stop, and never once something has failed.
Application implements it (`Phase` is the mapping; a shutdown during startup is
still *preparing*), and Durability takes its application from it: each step there is a step of
Lifecycle together with what it does to the files.

**DurableLog** is the abstract promise of the deployment: a log that grows at its
end, of which a prefix is stable; a loss takes the log back to that prefix.

**Durability** (`entrypoint.sh`, `litestream.yml`, the StatefulSet,
`src/replication.rs`, the startup of `src/startup.rs`). `disk` and `replica` are
sequences of increments or `Absent`. `phase`, `requested` and `commits` are those of an
INSTANCE of Lifecycle, and `barrier` is where `wait_until_ready` is while the application prepares.
`Restore` is the entrypoint's guarded restore,
`Open` creates a missing file and migrates it; `SyncReports`, `SyncFails`,
`Retry`, `Expire`, `Interrupt` are the arms of `wait_until_ready`
(whose answer to a termination request is Ok without a sync, so that it is
`Serve` that must look again); `Upload` and `FinalSync` are Litestream, `Crash`
the end of a container, `PodLost` the loss of the file with its node. The
migrations are the first transaction, so `Txid` of an empty database is 1. A
commit is one step: its making is WriteQueue's subject. An application that is
asked to stop before it serves ends well (`Withdraw`) unless its database does not close, which is,
like a broken setting, an unreadable report or a port that is taken, a case of `PrepareFails`.

**DirectRound** (the direct round of `contention.rs`). `step[w]` is where a task
is between `barrier.wait()` and its recorded result; `seen[w]` the counter in its
snapshot, `lock` SQLite's write lock, `code[w]` its result code. A deferred
transaction takes the lock with its UPDATE, and only on the newest snapshot; with
`busy_timeout = 0` nobody waits. `IsBusy` is the code's `& 0xff == 5`.

**ContentionLab** (`POST /contention` and the queued round) EXTENDS WriteQueue:
the experiment's writer is not a task but a branch of `try_join!`, so `Drop`
aborts it with the request. `permits` is the semaphore, `post[p]` a request,
`stage` the experiment. `Open` gives the next experiment a new file and queue. That a
request ends includes that its permit is back (`EveryPostAnswered`).

**Promotion** (`wait_for_ci.sh`, `retag_image.sh`, and what `release.yaml` and
`ci.yaml` ask of GitHub and ECR). `step[p]` is the command a run of the workflow
is at, `job[p]` its version and commit, `late` its deadline, `puts` the put-image
requests under way, which the registry executes or loses at any time, their
sender's death included. An image is named by its commit, its digest by the same
name. CI publishes an image before its run is over, a run may succeed without an
image, and anybody may rerun it. Tags are pushed by hand at any commit, and moved.
GitHub's one-promotion-per-tag rule is not used: the script answers for
concurrent runs itself.

**ReleaseTag** (`bin/release.sh`). `run[k].at` is the command the helper in clone
`k` is at, from the two listings over the checks of order, branch and image to
`git tag` and `git push`; `set -e` and `die` are the ways back to `Idle`, and
`Fails` is everything that ends it in between. The script keeps nothing but the
clone's tags, so a helper that is killed differs from one that fails in nothing.
`sent` holds the pushes under way; origin executes each late or never, and
refuses a tag it has. Around the helper people do what its usage text describes:
tag by hand, push all tags, delete a leftover, fetch. `reported`, the versions whose push some
helper has reported, and `before`, those reported when a run began, are history.

**Site** (`build.rs`, `assets.rs`, `layouts.rs`, the cache header of `pages.rs`).
A revision has a text, or none, at each path, and a minifier of each kind; what a minifier
makes of texts is a constant function, so that texts may differ and their bytes agree. An image is what a build of a revision can produce: one for each order in which
the directories may be listed, unless `Sorted` makes them the same: it is the set
of the arrangements `sort_by` may leave, those without an inversion. A URL stands
for the hash by holding the bytes. `Serves` is the router, which knows the two
URLs of its own binary; `Load` is the page with `no-cache`, `FromServer` an asset
with `immutable`. One pod serves at a time, any image may be next, a rollback
included.

**Client** (`counter.js`, `write_error` of `routes.rs`, `pages::increment`, the
counter's form) takes its increments from an INSTANCE of CounterService, the
abstract service that WriteQueue is shown to implement, rather than from the
queue's own steps. `Restart(n)` is what it adds to that service: a pod ends, and the next application
goes on from the first `n` increments, from all of them unless the file was lost, which is what Durability shows of
a loss. The posts in the old one's hands are *gone* without an answer, as is every request in the gap between the pods; a
post that was told *ok* and is not among the `n` is *lost*. The page lives on, and `old` remembers that increments were lost
after it was rendered. A post is its number. The tab has a page, at most one
navigation and the page's request; `scripted` tells whether `counter.js` came
(what Site's `lost` and `notfound` assets mean here). `Finish` is the script's
tail with its `finally`; `FormReply` is the redirect, or the error as a page.
Beside the tab an API client repeats a post only after a 429, as `write_error`
tells it. `intents` is history: what users and the API client meant.

The `MC*` modules add symmetry sets, ReleaseTag's bound and, for Site, the texts and minifiers of four revisions.
Operators commented as *mutant* are
plausible mistakes, used by no specification: PROJECT.json pairs each with the
property it must break.

## Runs

| Run | Module, configuration | Instance | States | Question |
| --- | --- | --- | --- | --- |
| queue | MCWriteQueue, WriteQueue | 3 calls, queue of 2, 1 read connection | 193 821 | Are answers true of the log, whatever fails, is the queue an atomic log, is everybody answered, and does shutdown end? |
| queue_failure | MCWriteQueue, WriteQueueFailure | 2 calls, queue of 2 | (violated) | Does every accepted write execute? No. |
| application_safety | MCApplication, ApplicationSafety | 3 requests, a probe, queue of 2 | 762 096 | Can a process lose an increment behind a successful exit, and what is `/ready` worth? |
| application_liveness | MCApplication, ApplicationLiveness | 2 requests, a probe, queue of 1 | 298 745 | Does it end when asked, or without its writer? |
| durability | MCDurability, Durability | 4 commits | 6 022 | What can crashes and lost pods take away, and does the barrier end? |
| direct | MCDirectRound, DirectRound | 4 connections | 144 216 | Is the report true under contention, and does the round end? |
| lab | MCContentionLab, ContentionLab | 3 callers, 2 requests | 433 624 | Can an experiment outlive its request, or report half a result, and is every request answered, its permit back? |
| promotion_safety | MCPromotion, PromotionSafety | 2 commits, 1 version, 2 runs | 244 315 | What can a version denote? |
| promotion_liveness | MCPromotion, PromotionLiveness | 1 commit, 1 version, 2 runs | 7 851 | Does a promotion end? |
| release | MCReleaseTag, ReleaseTag | 2 clones, 2 versions, 2 commits, one of them also tagged by hand | 1 437 596 | What can a pushed tag denote, and in which order? |
| site | MCSite, Site | 4 revisions of 3 styles and 1 or 2 scripts, 5 events | 19 109 | Can a page run assets of another revision, lose its own for no reason, or stay without them? |
| client | MCClient, Client | 3 posts, integers safe up to 3, restarts and losses | 864 311 | Can one intent count twice, or a page show a wrong counter? |

What the properties say is written above each in its module. In short: the
queue's callers are told only what stays true; the process's exit status is
honest; the deployment loses a suffix at most, and one that only the last run
wrote; the lab's two reports are complete; a version denotes what was checked and
tested; a page runs its own assets; what a user meant once counts once.

Each module but the abstract ones states a type invariant, proved for every value of
the constants; the runs check what is more than a type.

**Bounds.** Three calls and a queue of two are the smallest instance with one
command in the writer's hands, two queued behind it and, when one of those was
rejected, a full queue. One read connection is enough to hold up
`readers.close()`; the program's four differ only in count. `Saved = 5` keeps the counter's
value apart from the log's length. Four commits let two runs of the
application each commit twice with a pod lost in between. Four connections
are enough for a committed, a stale, a locked-out and a broken one at once. The
lab needs a queue of exactly as many places as callers (`LabAssumption`), which
is what the code allocates, and two requests for one to follow or to meet another.
Two commits, one version and two promotions are what a race for a tag takes:
versions have no state in common. Two clones and two versions let one overtake
the other; only one of the two commits may be tagged by hand, so that a wrong tag on the other is the
helper's. Beside the first, Site's revisions are one that edits a style and adds a script, one that edits
only comments, which its minifier drops, and one with another minifier for styles: so a bundle changes with its
files, without them, or not at all; three styles make the shared one last in path order, with two before it. Three
posts let the script's, the form's and the API client's meet, or a refused post be
repeated beside another; `MaxSafe = 3` with `Saved = 1` makes the third increment one
that `Number.isSafeInteger` rejects.

Symmetry is declared only where no liveness is checked, where it would be
unsound. The caps are `MaxCommits` (guard of `Commit`), `MaxEvents` (stops,
departures, evictions and losses in Site; starts, loads and fetches are free), `MaxPosts` (guard of
`Post`) and, as a CONSTRAINT of MCReleaseTag that the specification and its theorems do not have, `FewAbandoned`: of
the pushes that nobody waits for any more, two at most are under way at once. Probes come one
at a time; restarts are not bounded. Everything else is finite by itself. The theorems show that the safety part of
none of this depends on the size.

**Deadlock** is checked for Durability, Promotion, ReleaseTag, Site and Client, which never stop. The others stop when
their writer has returned, their process has exited, or their experiment is over.

## Fairness

Assumed is only what the runtime owes the code. Where an
answer from outside may be missing for ever, it is not assumed, and the property says that
the code ends all the same.

- *WriteQueue*: the writer is polled, the SQLite thread answers what it was
  sent, a read ends, a woken caller is polled. Callers need not call, and writes need not succeed.
- *Application*: the supervisor is polled and its deadline fires; an abort takes
  effect at the task's next await, to which `stop`, the one stretch of the writer
  without an await, gets by itself. Nothing is assumed of clients, handlers or the SQLite thread.
- *Durability*: timers fire and the barrier is polled. A sync may hang for ever.
- *DirectRound*: tasks are polled and SQLite answers; nothing has to break.
- *ContentionLab*: the ten-second timer fires and the handler is polled.
- *Promotion*: commands end, the AWS client has a timeout, the clock runs. CI may
  hang, and the registry need not execute a put.
- *ReleaseTag*: none; a helper may be left alone at any command.
- *Site*: the pod comes back, requests end, and somebody reloads: `ReloadHeals` says what reloading is
  good for. Stops, losses and evictions end with `MaxEvents`, as an outage must for anybody to be healed.
- *Client*: the browser delivers the reply to the page's post or reports it lost: `fetch` has no timeout of its own,
  so the button's return rests on that. The service owes no answer, and nobody has to click, reload or retry.

## Proofs

Eight modules prove the safety properties for every value of the constants. Each
has one inductive invariant `Inv`, shown to hold initially and to be kept by each
action; the theorems follow by PTL. The assumptions are the `ASSUME`s of the
modules: a capacity and a pool of at least one, model values that are distinct
from what they are distinguished from, `Saved` an integer (a natural number for
clients), finitely many connections, a finite set of calls as large as the lab's
queue, versions that are natural numbers, finitely many styles and scripts.

- **ApplicationProofs**, of the queue: `TypeCorrect`, `AdmissionOrder`, `AnswersAreTrue`,
  `AnswersInOrder`, `CleanStop`, `Quiescence`, `Refinement` (of CounterService). The
  properties are not inductive: that the next commit is the next admitted call
  needs where every admitted call is. `HistoryInv` says so: `accepted` is the
  log, then the command in hand, then what was given up, then the queue. `ControlInv` ties the
  writer's position to channel, pool and result; `CounterInv` the
  counter to the log's length; `ReplyInv` each reply to the place of its call;
  `DrainInv` what a result of Ok has to imply long before `run` returns it; `CallInv` what
  a caller was told to the admission and reply it came from, which is why an aborted
  writer leaves nobody waiting and its last COMMIT only one caller to surprise, who was told *unknown*.
- **ApplicationProofs**, of the process: `QueueImplemented` shows that it
  takes only steps of WriteQueue, so that the queue's invariant and all its theorems hold
  inside it, and the whole process implements the counter service (`ServiceImplemented`).
  `AppInv` then ties the supervisor's position to its two
  tasks: `AppTypeCorrect`, `CleanExit`, `ShutdownOrder`, `NoOrphanTask`, `DrainAdmits`, and
  `Readiness`, which needs of the queue that a stopped writer has closed its channel, and of the process who cleared the flag.
  `LifecycleKept` is the refinement of Lifecycle. Its one hard step is the COMMIT: that none
  lands in a process that has not served needs the queue's invariant (a COMMIT under way belongs
  to a call that was made) beside the supervisor's (nobody has connected yet).
- **DurabilityProofs**: `TypeCorrect`, `OneHistory`, `BoundedLoss`,
  `NoFreshStart`, `FileGrows`, `FoundForGood`, `Refinement` (of DurableLog). The step that
  matters is the barrier's: a replica that reached the opened file's transaction has all of the file,
  because it is a prefix of it; `CoverInv` keeps that until the next commit. `FoundForGood` follows from
  the refinement: what an application found is in the stable part, which DurableLog never touches.
  `NoFreshStart` says that a file is created only before the first commit and where the store has none; the first
  commits of all may still go with their pod, and then the next one serves the empty database that the store kept.
- **DirectRoundProofs**: `TypeCorrect`, `TrueReport`, `NoLostUpdate`,
  `ContentionMeasured`. `LedgerInv` is the round's ledger: as long as nothing broke,
  the counter is the number of commits, and their values are 1 to that number. It uses
  the library's theorems on cardinality.
- **PromotionProofs**: `TypeCorrect`, `OnlyTestedReleases`, `TrueSuccess`. `RunInv` and `PutInv` carry what each command has learned;
  lemma `Monotone` says that none of it is ever undone, so that it still holds when a
  put is executed late.
- **ContentionLabProofs** EXTENDS ApplicationProofs for the queue's lemmas: `LabTypeCorrect`,
  `LabIsQueues`, `NoOrphanExperiment`, `QueueSuffices`, `CompleteReport`. Between two experiments the lab takes
  WriteQueue's steps and `Open` re-establishes its initial predicate, so the queue's
  invariant carries over; that the queue never refuses is a pigeonhole argument over the distinct
  calls that were admitted, and that a report is complete is one more over the log.
- **ReleaseTagProofs**: `TypeCorrect`, `OnlyCheckedCommits`, `TruePush`,
  `OrderKept`. The invariant carries through each command what the run has checked, and says that
  every tag in any clone, leftovers included, denotes a commit with an image or one
  tagged by hand; nothing on origin or in the registry is ever taken back, so a version reported before a
  run began is among those that the run lists.
- **ClientProofs**: `TypeCorrect`, `ServiceUsed`, `CountedOnce`, `OwnIncrementShown`,
  `ShownRises`. `ServiceInv` is CounterService's own invariant; `LedgerInv` gives every post that may still
  count an intent of its own, with one owed while the API client holds a refusal; `ShowInv` puts
  the value on the page before every post the page waits for, which is why one button is
  enough to keep the counter from falling; until a loss that the page may have counted, a restart keeps all of that
  (`TabRestarts`). `ServiceUsed` closes the chain from the process to its
  clients: between two restarts, what `ServiceImplemented` proves of the one is all that the others rely on.
- **SiteProofs**: `TypeCorrect`, `OneBuild`, `OwnAssets`, `GoneForAReason`. First, of
  sorting: `SortedOnce` compares two results at the first place where they differ, and
  `SortedExists` takes the smallest set of paths without one, so that no induction over data is
  needed. A revision then has one build, whatever the listing (`OneBuild`), and its styles begin with the shared
  ones. `SiteInv` says of cache and page that a URL stands for its own bytes only. The minifiers and the texts are any:
  `GoneForAReason` names both as the reasons for which a URL may go.

The theorems of one module are the next one's assumptions:

```
 WriteQueue --Refinement--> CounterService <--ServiceUsed (between restarts)-- Client
     ^  ^
     |  +--LabIsQueues-- ContentionLab
     |
 Application --LifecycleKept--> Lifecycle <--INSTANCE-- Durability --Refinement--> DurableLog
   (QueueImplemented, ServiceImplemented)
```

Only model-checked: the liveness properties `Answered`, `ShutdownCompletes`,
`EndsWhenItMust`, `BarrierEnds`, `RoundEnds`, `EveryPostAnswered`, `PromotionEnds`,
`ReloadHeals` and `ButtonReturns`. They rest on fairness, and so on ENABLED,
which the prover does not treat. Every other property that a passing run checks has its theorem.
Only proved, with no run of their own: `AnswersInAdmissionOrder`, `ImplementsLifecycle`,
`FoundStays`, `EveryCommitCounts` and `Reproducible`, and that the lab and the clients take
the queue's and the service's steps; for each the theorem says more than an instance would.

## What the code says differently

`queue_failure` refutes a promise of the documentation. `database.rs:117-118`
says that after `try_send` "the accepted write still executes", README.md:40 that
"Accepted writes still run if callers disconnect". They do as long as every write
succeeds. When BEGIN, UPDATE or COMMIT of one fails, `process` returns at once
(`database.rs:190`), `run` drops the receiver, and the commands behind it never
execute. Their callers are told *unknown*, which is true, so no property of the
queue is lost, only the promise. `AcceptedWritesExecute` states it; TLC shows
two calls, a failure of the first, and the second one dropped.

Remarks that no run makes:

- The comment at `startup.rs:209-210` (the writer stops "only after every handler
  finishes") holds while the HTTP task lives. axum serves each connection in a
  task of its own; when the HTTP task is aborted or panics, they go on, and the
  writer is told to stop beside them. `WriterToldLast` excludes that case by name, as
  it excludes the deadline.
- `routes.rs:49-55` answers a closed queue like a full one. README.md:37 documents it.
- `release.sh:82` demands a version "later than the latest stable release". Two
  helpers that overlap can still publish in the other order, since nothing is locked between the
  listing and the push; `OrderAsReported` is what the check is worth. A person's
  `git push --tags` is not checked at all, as the usage text says.
- "Reload the page before trying again" (`counter.js:28`) does not show whether the
  increment will count: one that was admitted may commit after the reload. `OncePerIntent`
  therefore counts a click after the reload as an intent of its own.
- An open page can show more than the service has: `docs/operations.md:137` lets a lost node take
  acknowledged writes, and nothing tells the page. `NeverBackwards` and `FormShowsItself` name that case, and no other.
- That contention occurs at all (`contention/tests.rs`, README.md:77)
  depends on the 75 ms hold. The model has no time: any number of the connections from
  one upwards may commit.

## Not modelled

- **Markup, content types, what a minifier does**: formatting. A build that fails makes no image.
- **The gap between two pods**: to a client it is requests that are lost.
- **The other page parts**: the inventory is a read (`ReadHandler`); `contention.js`
  draws one report and checks its shape, its abort after 15 s is ContentionLab's `ClientLeaves`.
- **The browser's back/forward cache**, which may show a page again with its old
  script running, and several tabs: a second tab is one more client of the same service.
- **Chart, workflows, tests, `smoke.sh`**: declarations and drivers. Promotion has
  the steps of `ci.yaml` and `release.yaml` its scripts depend on. The jobs after a promotion (release notes, the
  production values PR) are left out: their order across versions is people's.
- **Two owners of one replica**: the chart renders one replica and the docs ask
  for a fence; the program has no lock of its own to be checked.
- **Local mode** (no `LITESTREAM_SOCKET`): the barrier is skipped and nothing is replicated.
- **A rewritten default branch** in Promotion: protection rules are configuration.
- **The counter at 2^63 - 1**: the model's counter is unbounded.

## Plan

Done in this order: the write queue with its abstract service and proofs; the
process around it; durability with its abstract log; the direct round; the lab,
which composes the queue with the route, and its proofs; the promotion of
releases; the tags of `release.sh` and their proofs; pages and assets through
deployments; the clients on top of the abstract service, and their proofs; the
proofs for Site; the lifecycle between process and deployment; the readiness probe; clients through
restarts and losses.

Next:

1. *Durability of answers*: Client's `Restart` takes from Durability that a beginning of the log is left; what is
   left is to state of both together that an increment answered with 200 is
   lost only with the node of the run that made it.
2. *Two owners*: the history of a replica that a partitioned pod still writes to,
   to state exactly what the fence has to exclude.
3. *A barrier refinement*: `wait_until_ready` as one step of Application, shown
   to be implemented by Durability's.
