# ppg3: a verification project

TLA+ models of ppg3, a pipeline system with a content-addressed store, and
what TLC and TLAPS show about them. Paths are relative to the repository;
`core/` stands for `crates/ppg3-core/src/`.

A script defines jobs (`python/ppg3/jobs.py`), `ppg3.run` hands the list to the
Rust core, and the scheduler runs it with a pool of worker threads. Each job has
an *input key* (ik), the hash of its recipe and of its inputs' hashes. A worker
looks the key up in the store; on a miss it runs the command in a staging
directory and publishes the result as an entry named by its *output hash* (oh),
with a link from the key to it. Entries no generation, pin or live run refers
to are removed by a garbage collector, which other processes run on the same
store. What a run has produced becomes a numbered *generation* of links.

## The system's parts

| part | state | operations | talks to |
|---|---|---|---|
| job graph (`core/scheduler.rs`) | the list of jobs | `validate_and_index`, `detect_cycle` | called by `run` and at every merge of a graph job |
| worker pool (`core/scheduler.rs`) | `State` behind a mutex and a condition variable: jobs, statuses, edge counts, ready queue, counters, report | `insert_job`, `worker_loop`, `apply_outcome`, `complete_success`, `fail_job` | resource pools, store, executor, host callbacks, lease, abort flag |
| resource pools (`core/resources.rs`) | available units, a mutex and a condition variable | `acquire`, `try_acquire`, drop of a `Guard` | called by the workers around a build |
| store (`core/store.rs`) | `inputs/`, `entries/`, `staging/`, `logs/`, `roots/`, `pins/`, `gc.lock` | `lookup`, `open_staging`, `publish` in six steps, `pin`, `add_root`, `remove_root`, `alias_input`, `nuke` | every process that uses the store, through the file system |
| leases (`core/lease.rs`) | `leases/<run>.json`, its mtime | `create`, `protect`, drop, `live_protected_ohs` | written by a run, read by the collector |
| collector (`core/gc.rs`) | the roots it has read, what it has still to remove | `run` at five levels | holds `gc.lock` exclusively; look-ups, leases, pins and roots take no lock |
| store set (`core/storeset.rs`) | an ordered list of stores | `lookup`, `write_store` | the scheduler, views |
| generations (`core/views.rs`) | `.ppg3/views/<n>`, `current`, `outputs` | `write_generation`, `rollback`, `drop_generation`, `keep_last`, `remove_old_generations` | roots of the stores |
| executor, sandbox (`core/executor.rs`, `sandbox.rs`) | staging and log directory of a job | `stage`, `run`, `finish` | the command |
| forkserver (`core/forkserver.rs`, `python/ppg3/_template.py`) | a slot and a waiter table for each interpreter | `get_or_spawn`, `dispatch`, `reader_loop`, `drop_template`, `shutdown` | template processes, over pipes |
| `ppg3.run` (`python/ppg3/run.py`, `crates/ppg3-py/src/lib.rs`) | last-run record, session | one call after the other: ownership, scheduler, fetch hashes, look-ups, generation | everything above |
| fetch hashes (`python/ppg3/tofu.py`, `jobs.py`, `_shim.py`) | the hashes in the script | `FetchJob`, `run_fetch`, `run_tofu_pass` | the script's text, the store set |
| keys (`core/scheduler.rs`) | none | `derive_key`, `lower_argv`, `missing_declared_outputs` | called for each job |
| explain (`core/explain.rs`) | none | `explain_view_path`, `diff_entries` | generations, manifests |
| watch, webwatch (`watch.py`, `webwatch.py`) | baselines of the watched files, subscribers' queues | polling loop, event tailer, broadcasts | `ppg3.run`, browsers |
| the rest | canonical JSON, manifests, command line, job definitions, shim, jj, stat cache, script ownership | mostly pure or single-threaded | |

What is hard, and what makes each part correct:

- **Worker pool.** Threads sleep and wake, failures cascade while siblings run,
  graph jobs add jobs below finished and failed ones, counters and edge counts
  are kept by hand. Correct: no job starts before its parents are done, a
  failure reaches exactly what is below it, no wake-up is lost, every run
  returns, the report accounts for each job once.
- **Pools.** Several pools in one request. Correct: no unit lost, nobody asleep
  beside a request that fits, no deadlock.
- **Store and collector.** No in-memory state, only files that several
  processes change step by step and that any of them may leave half-done. The
  only lock is shared by publishers and exclusive to the collector; look-ups,
  leases, pins and roots are outside it. Correct: a link never leads to half an
  entry, a key has one output, a build keeps what it works on, the collector
  removes nothing that has been protected throughout, everybody ends.
- **Generations.** Numbers are taken from a directory listing, roots and
  directory are separate steps. Correct: what a generation shows is rooted, and
  `current` leads to a generation.
- **Forkserver.** Processes that die at any moment, a reader thread and a table
  of waiters for each, one retry, a shutdown in another thread. Correct: every
  dispatch is answered, an answer that was written is not lost, a job keeps its
  directory, no template is left without an owner, and a job that is to be
  enforced is.
- **Keys and the memo table.** A long series of edits, runs, failures,
  collections and rollbacks decides what is reused. Correct: what a run has is
  what building everything anew would give, nothing that was obtained is built
  again, and explain has a reason for whatever has changed.
- **Watch.** Files change while a pass reads them. Correct: the last state of
  every watched file is seen by some pass.

`PROJECT.json` lists all components with what is modelled of them, and the
hazards of the code, each at its line, with the property that covers it or the
reason why none does yet.

## Modules

| module | models | from |
|---|---|---|
| `JobGraph` | job definitions, validation, the failure cascade, as operators | `core/scheduler.rs` |
| `Kahn` | `detect_cycle` as a loop | `core/scheduler.rs` |
| `RunPromise` | the abstract specification of a run: start, succeed, fail, grow | |
| `Scheduler` | the worker pool; implements `RunPromise` | `core/scheduler.rs` |
| `Pools` | resource pools | `core/resources.rs` |
| `StoreFiles` | the files of one store, and what protects an entry | `core/store.rs`, `lease.rs` |
| `Publisher` | runs with their worker threads on the store, up to the generation's roots | `core/scheduler.rs`, `store.rs`, `lease.rs`, `executor.rs`, `views.rs` |
| `Collector` | the garbage collector beside them | `core/gc.rs`, `lease.rs` |
| `Store` | both on one store, with time and history; the store's properties; implements `MemoTable` | |
| `MemoTable` | the abstract specification of a store: a table from keys to hashes that records, forgets and answers | |
| `Views` | the generations of a project, their roots and the commands on them | `core/views.rs`, the command line |
| `Templates` | template processes, their children, pipes and reader threads | `python/ppg3/_template.py`, `core/forkserver.rs` |
| `Forkserver` | the pool of templates, dispatch and its retry, the other executors, and which one a job gets | `core/forkserver.rs`, `executor.rs`, `crates/ppg3-py/src/lib.rs`, `python/ppg3/run.py` |
| `Keys` | what a job is, what it is keyed by, what it reads and writes, as operators | `core/scheduler.rs` |
| `Project` | a project over its runs: whole operations of scheduler, store set and generations between edits and commands | `python/ppg3`, `core/scheduler.rs`, `store.rs`, `storeset.rs`, the command line |
| `Explain` | `ppg3 explain` and `ppg3 diff-entries` on such a project | `core/explain.rs` |
| `MC...` | small instances for TLC | |
| `GraphLemmas`, `KahnProofs`, `SchedulerProofs`, `PoolsProofs`, `StoreProofs`, `ViewsProofs`, `ForkserverProofs`, `ProjectProofs` | theorems and proofs | |

A definition marked "Mutant" is a slip somebody could make in the definition
after it. No specification uses it; put in place of that definition it breaks
the property `PROJECT.json` names beside it, which shows that the property
depends on the code it is about.

### Scheduler

A step is one critical section of one thread on `State`. A worker is at the top
of the loop (`check`), asleep on the condition variable (`waiting`), between two
critical sections (`dispatch`) or has left. `Take`, `Wait` and `Leave` are the
three ways through the inner loop of `worker_loop`; `SpuriousWake` is what a
condition variable may do. A dispatch ends in `Succeed`, `Fail`, `Merge` or
`MergeInvalid`, each the whole of `apply_outcome` on that path with `running`
taken down and everybody notified. `Abort` is the flag the host sets; it
notifies nobody, as in the code.

What happens during a dispatch (look-up, pools, build, publish) is a step of
unspecified length here and the subject of `Publisher` and `Pools`. Jobs are
model values; inputs are named, because the code counts edges per input name;
`Leaf` stands for inputs that are no jobs. Woken jobs enter the queue in any
order. Left out: the event log, timings, the texts of errors.

`RunPromise` says the same without threads, queue, counters or edge counts.
`Scheduler!Implements` maps a job's status to its phase and is checked by TLC
and proved.

### Pools

`Ask` is the validation before the lock; `Grant` or `Sleep` is a turn of the
loop in `acquire`; `TryAcquire` is the call without waiting; `Drop` gives units
back and notifies all, unless the guard is empty.

### Store, Publisher, Collector

A step is one file-system operation whose effect another process can see. A
worker goes through `lookup` (read the link, read the manifest, write `.atime`),
`open_staging` and the log directory, the build, the shared lock, step 5 of
publish (rename or dedup, evict marker, chmod), step 6 (link), the second
look-up, the checks of the outputs with the pin, and `apply_outcome` with the
lease. A run then drops its lease, registers roots and resolves the links of its
generation. `Crash` kills a run anywhere: its locks go, its files stay.

The collector takes the lock, removes debris, reads roots, then pins, then each
lease, removes dangling links, then entries, part by part, then orphaned logs.
`Killed` stops it anywhere. `LeaseGone` is a lease file that disappears between
listing and reading: the call fails with an error.

What is abstracted:

- An output hash *is* the content (blake3 does not collide), so two manifests
  with one hash agree. A build of a key yields any hash of `Yields[key]`: a
  non-deterministic job has several.
- Time shows only as "idle for 30 minutes", for a lease and for a key's logs.
- Sizes, access times and the budget: at the default level the sweep visits
  unrooted entries in any order and may stop anywhere.
- One host: the 24 hours of a foreign staging directory are left out, as are
  `dry_run`, `staging/violations` and intents (which have no caller).
- One store. Phase A of the collector is one step, and so is `protect`.
- A process ends with its generation; the generation holds all its run's
  entries.

### Views

Scripts write generations (`Number`, `Register` store by store, `Build`, `Place`,
`Point`, `LinkOutputs`), shells roll back (`Rollback`, `Repoint`) and drop:
`Remove` is `generations rm`; `Retain` and `List` are `generations keep` and
`gc`, which read `current`, list the directories and choose what is over the
budget; `Check`, `Unregister`, `Delete` and `RemoveDir` are `drop_generation`,
which removes the roots and then the directory file by file. A step is one file
operation. `Crash` kills a process between any two.

What is abstracted: an entry of a view is a store and a hash, without the path
and the name of its link; the roots of one generation in one store are written,
and removed, in one step; a listing of the directories is one step; nobody reads
what an interrupted write leaves under a temporary name, so it is left out, as
are `materialize`, which only copies, and dry runs. `undone` is history: the
generations somebody has begun to drop.

### Templates, Forkserver

A template reads run lines from its standard input (`Fork`), forks a child for
each, and writes an exit when it has reaped one (`Reap`); it ends when its input
does (`HangUp`), when nobody reads its exits (`ReapUnheard`), when `Drop` or a
shutdown kills it, or when anybody else does (`Die`). `Route` and `Drain` are the
two ways through `reader_loop`. Children keep the template's input: they hold the
pipe open after it has died, and may read from it (`ChildReads`).

A worker goes through `ForkserverExecutor::run`: `Take`, `FindSlot` and `Get` (the
locks of the map and of the slot), `Spawn`, `Check`, `Register`, `Write`,
`Receive`; after a death `Drop`, and once more from `FindSlot` in the same
directory. Jobs that are no python jobs, or of a graph without templates, end in
`Fallback` or `Sandboxed`. `Begin` is what `run.py` and `run` of the binding make of
the settings of the graph and of the host. `Shutdown` and `StopSlot` are
`session_stop` in another thread. `Crash` kills the coordinator: its memory goes, its
pipes close, templates and children stay.

What is abstracted: a job is what it does with its standard input; the exits in a
pipe have no order, since the reader treats each by its id; whether a process is
alive is seen at once, as `try_wait` does; a template has printed its ready line
when it is in its slot; the texts of errors and what is preloaded are left out.

### Keys, Project, Explain

A hash *is* what was hashed: an output hash is a content map, an input key is a key
document. So a key that says too little, or too much, shows as what it would do:
a wrong content, or a job that is built again.

A step of `Project` is a whole operation: a job is looked up, or has run and is
published. That is the scheduler's view of the store; what may come between the parts of an
operation is the subject of `Publisher`. `StartRun` lowers the jobs, with the files
hashed then; `Cascade`, `Broken`, `Hit`, `Miss`, `Exit` and `Built` are the ways
through `dispatch_argv_job`. After a good run comes the pass over fetches without a hash
(`TofuPass`): each pinned key may be linked or not (`linked`) and each call patched in the
script or not (`patched`), since either fails on its own. `Succeeds` writes the generation
after it; `Unwritten` is the run that is killed, or fails, before it could, and
`Killed` ends a run anywhere earlier. What was published, linked and patched stays.
Between runs the script is edited, generations are rolled back and dropped, stores are
collected (`Collect`: level aggressive, which removes most) and deleted (`Nuke`); files and
URLs change at any moment. The script is executed anew for each run.

`known`, `mixed` and `rootless` are for the properties: what has been obtained for which
work and is not collected, which keys were published for a file that had changed since it was hashed, and
which generations lost their roots with a deleted store.

A job's inputs may be other jobs, one named output of a job, files and values. The core
takes a subset of several names too, keys the job by those files and mounts the whole entry;
the python binding never makes one (`_lower_input`, `python/ppg3/jobs.py:501`), and
`ScriptsAssumption` leaves it out.

`SameAsClean` compares what a run has for a job with `Clean`, what building everything anew would
give. It exempts a job that was published for a file that had changed since it was hashed
(the code hashes before the run and mounts later), and what builds on it: it speaks of the
sets of jobs closed under parents in which no key is `mixed`.

`Explain` reads generations and manifests as `explain_view_path` does. The chain of reasons,
a recursive function in the code, is built level by level: `pairs[d]` are the documents
compared at depth `d`. A step of the chain whose document is mixed may be empty: two jobs
with one key, built into two stores before and after an edit in the middle of a run, have different contents
for the same reasons.

## Runs

| run | asks | bounds |
|---|---|---|
| `kahn` | does `detect_cycle` accept exactly the acyclic slices? | all graphs of three jobs with two inputs each, an outside job, every queue order |
| `scheduler` | bookkeeping, order, cascade, wake-ups, end of the run; does the pool implement `RunPromise`? | three workers; every graph of three argv jobs with two inputs, a diamond, two chains with an in-process job, a graph job with nine lists to merge; abort at any moment |
| `pools` | conservation, missed grants, starvation in a finite run | three workers with two requests each, two pools, nine kinds of request |
| `store_collect` | are links, outputs and staging safe, is what stays protected kept, and is the store a `MemoTable`, while everything interleaves and what they touch ages? | two runs, two keys (one non-deterministic) and two contents, one call of the collector at levels 0, 2 or 4, one of the leases and the logs of one key may age at any moment |
| `store_ends` | does every job and every call of the collector end, and what do kills leave in the store? | one non-deterministic key whose second content lacks an output, two runs, one of them and the collector killed anywhere |
| `views` | is what a generation shows rooted, does a script find its number free, does a listing work, do `gc` and `generations keep` keep their budgets? | one script and one shell, a store of the project and a read-only one, views of three kinds (clean, dirty, explicit), a budget for each of the two kinds `gc` counts (one and none), numbers up to 3, one process killed anywhere |
| `forkserver` | is no template, answer or directory lost, does every dispatch end, does nothing outlive the coordinator? | two workers with one shim job each, which may read its standard input, one key, two templates, one killed from outside, one shutdown, one crash, four settings |
| `project` | is what is reused what building anew would give, is nothing built twice, has every change a reason? | three runs and two edits, three scripts of up to five jobs, a file and a URL with three contents, three stores, one of them read-only and filled by somebody else with what a job makes of a later content of its file |

The bounds let the interesting cases happen. Two keys share a content, and one
key has two contents: dedup, determinism violation, shared entries. Two
publishers and a collector give each pair of lock holders; a third publisher
adds nobody new to wait for, since shared holders do not exclude each other.
One collection suffices for what one collection may do wrong; levels 1 and 3 do
nothing 2 or 4 may not do (the sweep of `Default` may stop anywhere). The lease
that does not age is the other run's, which is like the first; that both age
is left to the proofs. Three
workers let one sleep, one dispatch and one take; three jobs let a failure come
from two sides. The proofs do not have these bounds.

`views` has one script and one shell, because the code promises no more: nothing
in `views.rs` keeps two writers from one number, or two droppers from one
directory. With a second script and a shell, or a second shell, TLC refutes
`RootsBeforeView`: the writer who has lost the race has registered its roots
under the winner's number, and a dropper removes roots for a directory that has
been replaced meanwhile. Even with one of each `current` may come to lead
nowhere: `rm` of a generation that has been placed and not yet been pointed to
passes the check for the current one. Both are hazards without a property. Three
numbers let a generation in the middle be dropped, and a number be used again
after the largest was.

`NoHalfEntry` is asked where the collector may be killed (`store_ends`): half-way through
an entry it leaves a linked directory without some of its parts, and nothing else
ever does, so there is one at most for each collector that was killed.

In `forkserver` two workers want one template, so that one may drop it while the other
has spawned the next; two templates allow a death and a second attempt, which may fail too.
A shutdown in between gives a third owner. Its settings are the default one (templates on a host
without bwrap), a graph without templates, enforced or not, and one that is refused.

In `project` the first script takes one of two outputs of a job (so that a rebuild may leave
its input as it was), fetches, and joins both; the second makes that job otherwise, gives it a twin
that does the same in another store, and moves outputs; in the third jobs fail in each way there is. Three
runs allow an edit, an edit back and a comparison with the generation before the last; a store
may be deleted in place of an edit.

Deadlock is checked but in `forkserver` and `project`. A dispatcher there may wait for good
(`forkserver_hangs`) or be out of templates, and a project is at rest when its runs and edits
are used up. In the others a finished system stutters.

### Disagreements

Four runs are expected to find a violation. Each states what a document or a
comment says and the code does not do; `PROJECT.json` quotes the lines.

| run | what happens |
|---|---|
| `collected_is_miss` | the link of an evicted entry stays until the next collection: its key fails as corrupt, it is no miss |
| `held_survives` | between the end of publish and the lease's `protect` an entry is kept by nobody and can be swept |
| `forkserver_hangs` | a dispatcher that registers after the reader of a dead template has drained the table, and whose write succeeds because a child holds the pipe, waits for good |
| `sandbox_bypassed` | with an enforcing sandbox at hand and the forkserver on, python jobs go to templates, which do not enforce |

Three more have been seen in the models and have no run:

- Nothing refreshes a lease but a finished job (`core/lease.rs:92`, `heartbeat`, has no caller;
  `PPG3_DESIGN.md:703` has it beat every five minutes): after 30 minutes the
  collector deletes that of a live run.
- The log directory of a build of more than 30 minutes is swept (`core/gc.rs:340`, `364`), and the
  build fails when it writes its logs.
- A fetch of the wrong content is published before it is held against its declared hash and
  refused, and the next look-up, which compares nothing, takes it for a hit
  (`core/scheduler.rs:776`; `CONTRACT.md:214` has the hash verified).

## Fairness

- `Scheduler`: each thread that can go on does, and a dispatched job comes to an
  end. Nothing is assumed of `Abort` and spurious wake-ups. The mutex is held for
  one step, so weak fairness of each worker is that of the operating system.
- `Pools`: a thread that holds the lock goes on, and whoever holds units gives
  them back, as a `Guard` does when its job ends. `EveryRequestGranted` rests on
  the run being finite: the code keeps no queue.
- `Store`: worker threads and a started collector go on. Waiting for `gc.lock`
  is weakly fair because a collection ends and no other one starts within the
  bound; with endless collections `flock` promises nothing, and nothing is
  claimed. New jobs, calls of the collector, crashes and time are not assumed.
- `Forkserver`: worker and reader threads, a shutdown that has begun and template processes
  go on, and jobs end. Nothing makes a template die, a job read its
  input, a shutdown begin or the coordinator crash.

## Proofs

All theorems hold for any values of the constants that satisfy the named
assumptions: finitely many workers and input names, resource requests that are
numbers, a run for each worker, `Leaf` and `None` that are no ids, a job and a key that
there are, `Nobody` that is no worker. Of a project they are `ScriptsAssumption` (what `validate_and_index` and
`_lower_input` let through: parents are in the script, there is no cycle, a subset names one
output, a fetch has no other job or file for input) and
`PublishedAssumption` (what others have put into a read-only store was made in the same way).
Bounds (`MaxJobs`, `MaxCrashes`, `MaxSweeps`,
`MaxKills`, `MaxTemplates`, `MaxDeaths`, `MaxShutdowns`, `MaxRuns`, `MaxEdits`, `MaxWhyDepth`) are any numbers.

`WhatARunHas` and `WhatExplainSees` have a hypothesis, `Blind`: what a job writes does not depend on whether
an input with some content is a file or a value. `derive_key` keys the two alike
(`core/scheduler.rs:1192`), so a script in which an input turns from one into the other finds what
the other gave. The jobs of `MCProject` are blind.

- **`KahnProofs`.** `IInv`: a job's count is the number of its edges from jobs
  not yet visited, the queue holds the unvisited jobs with none, and no job of a
  cyclic set is visited. When the queue is empty the unvisited jobs are a cyclic
  set, so the verdict is right (`VerdictCorrect`).
- **`SchedulerProofs`.** `IInv` joins the invariants that are not inductive
  alone: the counters, the queue and the edge counts are the numbers they stand
  for, ready jobs have their parents done, failures have spread, *the graph is
  sound* (acyclic, closed, parents have entries) and finished jobs have their
  entry on record. Soundness has to be carried through `Merge`: the new jobs are
  acyclic among themselves, and no old job has a new parent. From `IInv` follow
  the safety properties, `NeverStalls` (a pending job has an open edge, follow
  it through the acyclic graph to a job that is ready or running) and
  `KeepsPromise`, the refinement, one step of the pool being one step of the
  promise or none. `NoWakeupLost` needs a second invariant: workers asleep imply
  a worker dispatching.
- **`PoolsProofs`.** No pool is overdrawn; nobody sleeps beside units that would
  do. That is inductive because `Drop` wakes all sleepers at once.
- **`StoreProofs`.** `Sound` says who may hold the lock and what a
  worker relies on at each step: its staging directory until it is renamed, a
  manifest and data behind the hash it has made from the rename to the link, and
  that the key's link, unless the collector has removed it since, leads to what
  the look-up has followed (`Memo`). `PublishIsProtected`, `BuildsKeepStaging`
  and `OneOutput` follow. So does `IsMemoTable`, the refinement of `MemoTable`: a rename or a
  marker stores a content, the first file the collector deletes discards it, `link` records
  (only where there is no link, and behind it the entry is whole), removing a dangling link forgets, and
  what `apply_outcome` reports a link has said; all other steps stutter.
  `KillsAreHarmless` adds `Untouched`: before the first collection every entry is whole and
  every build has its log directory, wherever runs were killed. `EntriesAreWhole` adds
  `Dismantled`, the collector's progress through the parts of its one victim, and counts:
  only a kill makes the victim a half entry. `LinkedArePublished` adds that before
  the first collection nothing is ever removed. `SteadyIsKept` adds `HasKept`:
  whatever protects an entry from the first reading to the last is in what the
  collector has read by the stage it is at, and victims are never in that set.
  `Born` says where outputs come from: whatever a worker makes, follows or links, and whatever
  a link leads to, is an output of the job's own command. `HeldAreOutputs` and
  `AlarmsAreTrue` follow: a run holds no other output, one that lacks something declared
  only if the collector has unlinked the key, and deterministic commands are never reported as not so.
  The exception is needed. Without it TLC refutes the first with two collections and a second
  publisher: `dispatch_argv_job` checks the manifest of what the key leads to by then
  (`core/scheduler.rs:994`), while `apply_outcome` takes what was built.
- **`ViewsProofs`.** `Kept` is inductive with one shell (`OneShell`) and any number of
  scripts: a drop under way has its directory, and a directory lacks `meta.json` only where a
  drop has begun. With one script too (`OneScript`) it says that the number of a write under
  way is above every directory there is, so its rename meets none, and that its entries are
  rooted but in the stores it has not come to. `Roots` (`RootsBeforeView`) and
  `NumbersAreFree` need both; `TypeCorrect`, `ListingsWork` and `RetentionIsKept` only the
  first. The last is an action property: what `gc` or `generations keep` begins to drop was not
  the current generation when the command looked and is not now, is ephemeral where the command
  counts explicit ones as kept, and still has a budget of younger generations that count with
  it, whatever scripts write meanwhile.
  `PlacedIsKept` needs neither: of two scripts with one number the second loses its run, and never
  the first its generation, because a rename is only over nothing or over an empty directory.
- **`ForkserverProofs`.** `SessionInv` follows each dispatch through the pipes. Its id is
  in the table of the template it was sent to, and in one place at most: a line not
  read, a child, an exit not reaped, an exit not routed (`TablesOK`, `MessagesOK`,
  `ExitsOK`). Whoever sent it is at `receive` and has no answer (`Awaits`). So a new id
  meets no other, and the exit a reader routes is the only one its worker waits for.
  `StagesAreKept` follows: one place per id means one child per directory, and the directory
  goes when its own dispatch ends. `PoolOK` says that who spawns has the lock of
  its slot and finds nothing that lives in it, and that each live template is in one slot,
  of the map or of an earlier one that a shutdown still goes through:
  `TemplatesAreKept`. `TriedOK` (the templates a job has tried, the last apart, are dead)
  and `MailOK` (nothing is in the mail of a worker that is about to write, unless its
  template is dead) give `AnswersAreHeard`. All of it holds through `Crash` and
  `Shutdown`. The parts on pipes say nothing once the coordinator is gone.
  `EnforcedWithout` bounds the finding on the sandbox: with the forkserver off there are no
  templates, and `EnforcedWhenWanted` holds.
- **`ProjectProofs`.** `Right` says that every link in every store leads to the content its
  key stands for (`Fulfils`), that what a run has is keyed by what its parents gave and
  linked, and that what was obtained for some work is what the key of that work leads to. It is
  inductive over edits, runs, kills, pins, collections and `nuke`: a build fulfils its key because
  what a job reads is what its key says (`ContentIs`), and the link a fetch gets with its hash is true
  because its entry is (`PinnedFulfils`). `BuildsOnlyNew` follows at once. `WhatARunHas`
  also needs that `Clean`, which is defined by recursion over the jobs, is the function its
  definition says: `CleanIs` builds it from partial solutions, since every set of jobs has one
  whose parents are not in it. `Readable` adds what `explain` relies on: manifests, too, stand for their
  entries; a fetch without a hash has a key that is used in one run only and by one build (`OnceUsed`), so its
  manifest names one content; and what generations show stays while their roots do. Two
  manifests without a difference then stand for one content (`NoDiffSame`), and
  `WhatExplainSees` follows for the path and each step of the chain, at any depth.

No run states `AbortIsHeeded` (`SchedulerProofs`: nothing is dispatched once the abort flag is
up), `NeverTwice` (`KahnProofs`: no job is visited twice), `HeldAreOutputs`, `AlarmsAreTrue`,
`PlacedIsKept` and `EnforcedWithout`.

Every safety property of the passing runs and both refinements are proved. Only model-checked is
liveness (`RunEnds`, `EveryRequestGranted`, `EverybodyEnds`, `DispatchEnds`, `NoneOutlives`), for
which ENABLED is needed.

## Not modelled

- Canonical JSON and hashes (`core/canon.rs`, `hash.rs`, `python/ppg3/canon.py`): pure functions
  on strings. The models suppose that the canonical form is injective.
- Manifests and error types: serialisation and texts.
- What runs inside a job, and what isolates it: arguments of bwrap, environments,
  closures of nix, the shim's input and output, tracebacks.
- The normalisation of a job's source and its fingerprint (`recipe.py`, `localscope.py`,
  `transport.py`, `tools.py`): one value, the recipe, in `Keys`.
- The last-run record, `ppg3 why` and the partial tree of a failed run: they
  inform, and nothing reads them back.
- `verify_entry`, `materialize`, dry runs, intents (which have no caller).
- Watch and webwatch, the stat cache, jj, the ownership of a script.
- The lock of a store as a file that `nuke` removes while others wait for it; sizes and the
  arithmetic of the budget; the lease that only the default store has, which
  matters when a collector runs beside a run that publishes elsewhere.

## Plan

What would add most from here, in this order.

1. `Views`, the rest: several scripts and shells with what still holds for them,
   `check_and_record`. The collector of `Store` against the roots of generations that come and go.
2. Several stores under `Publisher` and `Collector`, with the lease of the default store and
   `nuke` with the lock as an inode.
3. `Watch`: the polling loop against an editor, the tailer and the queues.
4. Pure parts against reference definitions: the budget sweep's arithmetic,
   canonical numbers and key order.

## Running

`tlc -config MCScheduler.cfg MCScheduler`, and so on for the other
configurations; `tlapm StoreProofs.tla` and so on for the proofs. The longest
run takes about two and a half minutes, the longest proof about three minutes.
