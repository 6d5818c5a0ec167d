----------------------------- MODULE Scheduler ------------------------------
(***************************************************************************)
(* The worker pool of a ppg3 run                                           *)
(* (crates/ppg3-core/src/scheduler.rs: State, insert_job, fail_job,        *)
(* complete_success, worker_loop, apply_outcome).                          *)
(*                                                                         *)
(* Worker threads share one State behind a mutex and a condition variable. *)
(* A step here is what a thread does in one critical section.  What happens *)
(* between two of them - store look-ups, running the command, the host     *)
(* callbacks - is the time a worker spends at "dispatch"; it ends in one   *)
(* of the outcomes of JobOutcome.                                          *)
(*                                                                         *)
(* A definition marked "Mutant" is a slip somebody could make in the       *)
(* definition after it; no specification uses it.                          *)
(***************************************************************************)
EXTENDS JobGraph, SequencesExt

CONSTANTS
  Workers,      \* worker threads (parallelism["workers"], at least one)
  None,         \* no job
  Submissions,  \* job lists run() may be called with
  Expansions    \* job lists expand_graph_job may return

ASSUME WorkersAssumption == IsFiniteSet(Workers) /\ Workers # {}
ASSUME NoneAssumption == None \notin Ids
ASSUME ListsAssumption == Submissions \cup Expansions \subseteq Seq(JobDef)

VARIABLES
  jobs,       \* State.jobs: id -> definition, of every job inserted so far
  status,     \* State.status
  remaining,  \* State.remaining_parents: input edges whose parent is not done
  ready,      \* State.ready: the FIFO of dispatchable ids
  completed,  \* ids with a CompletedInfo (store entry) for their children
  report,     \* RunReport.hits, .built and the keys of .failed
  total,      \* State.total_jobs
  running,    \* State.running
  terminal,   \* State.terminal
  abort,      \* the abort flag, set from outside
  pc,         \* where each worker thread is
  job         \* the job each worker has in hand

graphVars == <<jobs, status, remaining, ready, completed, report, total, terminal>>
vars == <<jobs, status, remaining, ready, completed, report, total, running,
          terminal, abort, pc, job>>

Statuses == {"Pending", "Ready", "Running", "Done", "Failed"}

With(s)   == { j \in DOMAIN jobs : status[j] = s }

\* Mutant: the cascade visits only what is queued.
NotYetRunQueued == With("Ready")

NotYetRun == With("Pending") \cup With("Ready")

-----------------------------------------------------------------------------
(***************************************************************************)
(* Inserting a validated list of jobs (insert_job for each).  A new job    *)
(* counts the edges whose parent is neither done nor failed, other new     *)
(* jobs among them; a failed parent fails it and its descendants at once;  *)
(* with nothing left to wait for it is ready.  remaining of a job that     *)
(* fails here is never read again, so its value does not matter.           *)
(***************************************************************************)
Settled(p) == p \in DOMAIN jobs /\ status[p] \in {"Done", "Failed"}

OpenEdges(def) == { n \in Names : def.inputs[n] # Leaf /\ ~Settled(def.inputs[n]) }

\* Mutant: insert_job does not look at failed parents.
BornFailedNone(new) == {}

BornFailed(new) ==
  LET defs == DefsOf(new)
      hit  == { j \in DOMAIN defs : ParentIds(defs[j]) \cap With("Failed") # {} }
  IN  Cascade(defs, hit, DOMAIN defs)

RemainingAfterInsert(new) ==
  Extend(remaining,
         [ j \in IdsOf(new) |-> Cardinality(OpenEdges(DefsOf(new)[j])) ])

ReadyAtInsert(new) ==
  { j \in IdsOf(new) \ BornFailed(new) : RemainingAfterInsert(new)[j] = 0 }

(***************************************************************************)
(* complete_success: every edge from the finished job is taken off its     *)
(* children's counts (never below zero), and a pending child left with     *)
(* none is woken.                                                          *)
(***************************************************************************)
Minus(n, k) == IF n > k THEN n - k ELSE 0

RemainingAfter(js, rem, id) ==
  [ c \in DOMAIN js |-> Minus(rem[c], Cardinality(Edges(js[c], id))) ]

\* Mutant: a child is woken one edge too early.
WokenByEarly(js, rem, id, pending) ==
  { c \in pending : Edges(js[c], id) # {} /\ RemainingAfter(js, rem, id)[c] <= 1 }

WokenBy(js, rem, id, pending) ==
  { c \in pending : Edges(js[c], id) # {} /\ RemainingAfter(js, rem, id)[c] = 0 }

(***************************************************************************)
(* Jobs woken together enter the queue in some order; the code's is that   *)
(* of their insertion.                                                     *)
(***************************************************************************)
Enqueue(woken) == \E order \in SetToSeqs(woken) : ready' = ready \o order

(***************************************************************************)
(* ready.retain: take the jobs of a set out of the queue.                  *)
(***************************************************************************)
Retain(queue, gone) ==
  IF ToSet(queue) \cap gone = {}
  THEN queue
  ELSE SelectSeq(queue, LAMBDA j : j \notin gone)

-----------------------------------------------------------------------------
(***************************************************************************)
(* run(): a submission that does not validate is refused before a worker   *)
(* exists, so every run begins with a valid one.                           *)
(***************************************************************************)
Init ==
  \E new \in Submissions :
    /\ Valid(new, << >>)
    /\ jobs = DefsOf(new)
    /\ remaining = [ j \in IdsOf(new) |->
                       Cardinality({ n \in Names : DefsOf(new)[j].inputs[n] # Leaf }) ]
    /\ status = [ j \in IdsOf(new) |-> IF remaining[j] = 0 THEN "Ready" ELSE "Pending" ]
    /\ ready \in SetToSeqs({ j \in IdsOf(new) : remaining[j] = 0 })
    /\ completed = {}
    /\ report = [hits |-> {}, built |-> {}, failed |-> {}]
    /\ total = Len(new)
    /\ running = 0
    /\ terminal = 0
    /\ abort = FALSE
    /\ pc = [ w \in Workers |-> "check" ]
    /\ job = [ w \in Workers |-> None ]

\* Mutant: nothing running is taken for the end.
AllOverIdle == running = 0

(***************************************************************************)
(* worker_loop with the lock held, at the top of the inner loop: leave,    *)
(* take the next ready job, or wait on the condition variable.             *)
(***************************************************************************)
AllOver == terminal >= total /\ running = 0
MayTake == ~abort /\ ready # << >>

Leave(w) ==
  /\ pc[w] = "check"
  /\ AllOver \/ (abort /\ running = 0)
  /\ pc' = [pc EXCEPT ![w] = "gone"]
  /\ UNCHANGED <<graphVars, running, abort, job>>

\* Mutant: the job is copied and stays in the queue.
TakeCopy(w) ==
  /\ pc[w] = "check" /\ ~AllOver /\ MayTake
  /\ status' = [status EXCEPT ![Head(ready)] = "Running"]
  /\ running' = running + 1
  /\ pc' = [pc EXCEPT ![w] = "dispatch"]
  /\ job' = [job EXCEPT ![w] = Head(ready)]
  /\ UNCHANGED <<jobs, remaining, ready, completed, report, total, terminal, abort>>

\* Mutant: a dispatch is not counted.
TakeUncounted(w) ==
  /\ pc[w] = "check" /\ ~AllOver /\ MayTake
  /\ ready' = Tail(ready)
  /\ status' = [status EXCEPT ![Head(ready)] = "Running"]
  /\ pc' = [pc EXCEPT ![w] = "dispatch"]
  /\ job' = [job EXCEPT ![w] = Head(ready)]
  /\ UNCHANGED <<jobs, remaining, completed, report, total, running, terminal, abort>>

Take(w) ==
  /\ pc[w] = "check"
  /\ ~AllOver
  /\ MayTake
  /\ ready' = Tail(ready)
  /\ status' = [status EXCEPT ![Head(ready)] = "Running"]
  /\ running' = running + 1
  /\ pc' = [pc EXCEPT ![w] = "dispatch"]
  /\ job' = [job EXCEPT ![w] = Head(ready)]
  /\ UNCHANGED <<jobs, remaining, completed, report, total, terminal, abort>>

Wait(w) ==
  /\ pc[w] = "check"
  /\ ~AllOver
  /\ ~(abort /\ running = 0)
  /\ ~MayTake
  /\ pc' = [pc EXCEPT ![w] = "waiting"]
  /\ UNCHANGED <<graphVars, running, abort, job>>

(***************************************************************************)
(* A condition variable may wake a thread for no reason.                   *)
(***************************************************************************)
SpuriousWake(w) ==
  /\ pc[w] = "waiting"
  /\ pc' = [pc EXCEPT ![w] = "check"]
  /\ UNCHANGED <<graphVars, running, abort, job>>

-----------------------------------------------------------------------------
\* Mutant: nobody is notified.
NotifyNone(w) == pc' = [pc EXCEPT ![w] = "check"]

(***************************************************************************)
(* The end of a dispatch: the worker takes the lock, counts itself out,    *)
(* applies the outcome and notifies everybody.                             *)
(***************************************************************************)
NotifyAll(w) ==
  pc' = [ v \in Workers |-> IF v = w \/ pc[v] = "waiting" THEN "check" ELSE pc[v] ]

Return(w) ==
  /\ pc[w] = "dispatch"
  /\ running' = running - 1
  /\ NotifyAll(w)
  /\ job' = [job EXCEPT ![w] = None]
  /\ UNCHANGED abort

(***************************************************************************)
(* Hit, Built and InProcessDone.  A hit or a built job has a store entry   *)
(* its children are keyed on; an in-process job has none.                  *)
(***************************************************************************)
Succeed(w, how) ==
  LET id    == job[w]
      rem   == RemainingAfter(jobs, remaining, id)
      woken == WokenBy(jobs, remaining, id, With("Pending"))
  IN  /\ Return(w)
      /\ jobs[id].kind # "Graph"
      /\ how = "hits" => jobs[id].kind = "Argv"
      /\ report' = IF how = "hits" THEN [report EXCEPT !.hits  = @ \cup {id}]
                                  ELSE [report EXCEPT !.built = @ \cup {id}]
      /\ completed' = IF jobs[id].kind = "Argv" THEN completed \cup {id} ELSE completed
      /\ remaining' = rem
      /\ status' = [ j \in DOMAIN jobs |->
                       CASE j = id        -> "Done"
                         [] j \in woken   -> "Ready"
                         [] OTHER         -> status[j] ]
      /\ Enqueue(woken)
      /\ terminal' = terminal + 1
      /\ UNCHANGED <<jobs, total>>

\* Mutant: only the job itself is counted.
FailJobCountsOne(id) ==
  LET doomed == Cascade(jobs, {id}, NotYetRun)
  IN  /\ status' = [ j \in DOMAIN jobs |->
                       IF j \in doomed THEN "Failed" ELSE status[j] ]
      /\ report' = [report EXCEPT !.failed = @ \cup doomed]
      /\ terminal' = terminal + 1
      /\ ready' = Retain(ready, doomed)
      /\ UNCHANGED <<jobs, remaining, completed, total>>

\* Mutant: a failure takes down everything that has not run.
FailJobEverything(id) ==
  LET doomed == {id} \cup NotYetRun
  IN  /\ status' = [ j \in DOMAIN jobs |->
                       IF j \in doomed THEN "Failed" ELSE status[j] ]
      /\ report' = [report EXCEPT !.failed = @ \cup doomed]
      /\ terminal' = terminal + Cardinality(doomed)
      /\ ready' = Retain(ready, doomed)
      /\ UNCHANGED <<jobs, remaining, completed, total>>

(***************************************************************************)
(* fail_job: the job and every descendant that has not run yet.            *)
(***************************************************************************)
FailJob(id) ==
  LET doomed == Cascade(jobs, {id}, NotYetRun)
  IN  /\ status' = [ j \in DOMAIN jobs |->
                       IF j \in doomed THEN "Failed" ELSE status[j] ]
      /\ report' = [report EXCEPT !.failed = @ \cup doomed]
      /\ terminal' = terminal + Cardinality(doomed)
      /\ ready' = Retain(ready, doomed)
      /\ UNCHANGED <<jobs, remaining, completed, total>>

(***************************************************************************)
(* Failed: a bad exit, an executor error, a determinism violation, a       *)
(* missing output, an exception of a callback.                             *)
(***************************************************************************)
Fail(w) == Return(w) /\ FailJob(job[w])

(***************************************************************************)
(* GraphExpanded: the new jobs are validated against the running graph;    *)
(* a list that does not validate fails the graph job and inserts nothing.  *)
(***************************************************************************)
MergeInvalid(w, new) ==
  /\ Return(w)
  /\ jobs[job[w]].kind = "Graph"
  /\ ~Valid(new, jobs)
  /\ FailJob(job[w])

Merge(w, new) ==
  LET id      == job[w]
      js      == Extend(jobs, DefsOf(new))
      born    == BornFailed(new)
      rem     == RemainingAfterInsert(new)
      pending == { j \in DOMAIN js \ born :
                     j \in DOMAIN jobs => status[j] = "Pending" }
      woken   == ReadyAtInsert(new) \cup WokenBy(js, rem, id, pending)
  IN  /\ Return(w)
      /\ jobs[id].kind = "Graph"
      /\ Valid(new, jobs)
      /\ jobs' = js
      /\ remaining' = RemainingAfter(js, rem, id)
      /\ status' = [ j \in DOMAIN js |->
                       CASE j = id               -> "Done"
                         [] j \in born           -> "Failed"
                         [] j \in woken          -> "Ready"
                         [] j \in DOMAIN jobs \ (woken \cup {id}) -> status[j]
                         [] OTHER                -> "Pending" ]
      /\ Enqueue(woken)
      /\ report' = [report EXCEPT !.built = @ \cup {id}, !.failed = @ \cup born]
      /\ total' = total + Len(new)
      /\ terminal' = terminal + Cardinality(born) + 1
      /\ UNCHANGED completed

(***************************************************************************)
(* Ctrl-C in the host process.                                             *)
(***************************************************************************)
Abort ==
  /\ ~abort
  /\ abort' = TRUE
  /\ UNCHANGED <<graphVars, running, pc, job>>

Examine(w) == Leave(w) \/ Take(w) \/ Wait(w)

Finish(w) ==
  \/ \E how \in {"hits", "built"} : Succeed(w, how)
  \/ Fail(w)
  \/ \E new \in Expansions : Merge(w, new) \/ MergeInvalid(w, new)

Returned == \A w \in Workers : pc[w] = "gone"

Next ==
  \/ \E w \in Workers : Examine(w) \/ Finish(w) \/ SpuriousWake(w)
  \/ Abort
  \/ Returned /\ UNCHANGED vars

(***************************************************************************)
(* Threads run, and a dispatched job comes to an end: the command, or the  *)
(* callback, returns.  Nothing is assumed of Abort or of spurious wake-ups.*)
(***************************************************************************)
Fairness == \A w \in Workers : WF_vars(Examine(w)) /\ WF_vars(Finish(w))

Spec == Init /\ [][Next]_vars /\ Fairness

-----------------------------------------------------------------------------
(***************************************************************************)
(* The shared State is well formed: its maps speak of the inserted jobs    *)
(* and of no others, and running, an unsigned counter, never falls below   *)
(* zero.                                                                   *)
(***************************************************************************)
TypeOK ==
  /\ DOMAIN jobs \subseteq Ids
  /\ jobs \in [DOMAIN jobs -> JobDef]
  /\ status \in [DOMAIN jobs -> Statuses]
  /\ remaining \in [DOMAIN jobs -> Nat]
  /\ ready \in Seq(DOMAIN jobs)
  /\ completed \subseteq DOMAIN jobs
  /\ report \in [ hits   : SUBSET DOMAIN jobs,
                 built  : SUBSET DOMAIN jobs,
                 failed : SUBSET DOMAIN jobs ]
  /\ total \in Nat /\ running \in Nat /\ terminal \in Nat
  /\ abort \in BOOLEAN
  /\ pc \in [Workers -> {"check", "waiting", "dispatch", "gone"}]
  /\ job \in [Workers -> DOMAIN jobs \cup {None}]

Dispatching == { w \in Workers : pc[w] = "dispatch" }

(***************************************************************************)
(* The three counters the termination test reads (terminal, total and      *)
(* running) are kept by hand on every path: they always are the numbers    *)
(* they stand for, or the run would return early or never.                 *)
(***************************************************************************)
CountersAgree ==
  /\ total = Cardinality(DOMAIN jobs)
  /\ terminal = Cardinality(With("Done") \cup With("Failed"))
  /\ running = Cardinality(Dispatching)

(***************************************************************************)
(* Each running job is in the hands of exactly one worker: no job is run   *)
(* by two threads, and none is dropped.                                    *)
(***************************************************************************)
OneWorkerEach ==
  /\ \A w \in Dispatching : job[w] \in With("Running")
  /\ \A j \in With("Running") : \E w \in Dispatching : job[w] = j
  /\ \A v, w \in Dispatching : job[v] = job[w] => v = w

(***************************************************************************)
(* The ready queue holds the Ready jobs, each once: a job pushed twice     *)
(* would be built twice, one left out would never be built.                *)
(***************************************************************************)
QueueAgrees ==
  /\ ToSet(ready) = With("Ready")
  /\ \A i, k \in DOMAIN ready : ready[i] = ready[k] => i = k

(***************************************************************************)
(* remaining_parents of a pending job is the number of its input edges     *)
(* whose parent is not done, and never zero while it is pending.           *)
(***************************************************************************)
EdgesAgree ==
  \A j \in With("Pending") :
    /\ remaining[j] = Cardinality({ n \in Names :
         jobs[j].inputs[n] # Leaf /\ status[jobs[j].inputs[n]] # "Done" })
    /\ remaining[j] > 0

(***************************************************************************)
(* A job that is ready, running or done has all its parents done, with the *)
(* output hash its own key is derived from on record: derive_key's         *)
(* "internal scheduling error" cannot be reached.                          *)
(***************************************************************************)
ParentsFirst ==
  \A j \in With("Ready") \cup With("Running") \cup With("Done") :
    ParentIds(jobs[j]) \subseteq With("Done") \cap completed

(***************************************************************************)
(* Nothing below a failure is left waiting or is ever run, jobs merged     *)
(* after the failure included.                                             *)
(***************************************************************************)
FailureReaches ==
  \A j \in DOMAIN jobs :
    ParentIds(jobs[j]) \cap With("Failed") # {} => status[j] = "Failed"

(***************************************************************************)
(* With nothing running and nothing ready the run is over: there is no     *)
(* graph on which all workers wait for each other.                         *)
(***************************************************************************)
NoStall == running = 0 /\ ready = << >> => terminal = total

(***************************************************************************)
(* A worker sleeps only while another one is dispatching, and never beside *)
(* a job it could take: no wake-up is lost.                                *)
(***************************************************************************)
NoLostWakeup ==
  (\E w \in Workers : pc[w] = "waiting") => running > 0 /\ ~MayTake

(***************************************************************************)
(* The report accounts for every job that has come to an end, once.        *)
(***************************************************************************)
ReportAgrees ==
  /\ report.failed = With("Failed")
  /\ report.hits \cup report.built = With("Done")
  /\ report.hits \cap report.built = {}

(***************************************************************************)
(* All the books that are kept by hand agree with the statuses, on every   *)
(* path: success, cascade, merge, a merge that is refused.                 *)
(***************************************************************************)
BooksAgree ==
  CountersAgree /\ QueueAgrees /\ EdgesAgree /\ OneWorkerEach /\ ReportAgrees

(***************************************************************************)
(* A job that fails without having run has a failed parent to blame: a     *)
(* failure never spreads sideways or upwards.                              *)
(***************************************************************************)
FailsForCause ==
  [][\A j \in DOMAIN jobs' \ With("Running") :
       (j \in DOMAIN jobs => status[j] # "Failed") /\ status'[j] = "Failed"
         => \E p \in ParentIds(jobs'[j]) : status'[p] = "Failed"]_vars

(***************************************************************************)
(* Outcomes are final, and a job leaves "Running" only through the worker  *)
(* that runs it.                                                           *)
(***************************************************************************)
OutcomesFinal ==
  [][\A j \in DOMAIN jobs :
       /\ status[j] \in {"Done", "Failed"} => status'[j] = status[j]
       /\ status[j] = "Running" /\ status'[j] # "Running" =>
            \E w \in Dispatching : job[w] = j /\ pc'[w] # "dispatch"]_vars

(***************************************************************************)
(* Once the abort flag is up no further job is dispatched                  *)
(* (tests/scheduler.rs, abort_stops_dispatch).                             *)
(***************************************************************************)
AbortStopsDispatch ==
  [][abort => \A j \in DOMAIN jobs' : status'[j] = "Running" =>
       j \in DOMAIN jobs /\ status[j] = "Running"]_vars

(***************************************************************************)
(* run() returns, with every job done or failed unless it was aborted.     *)
(***************************************************************************)
RunEnds ==
  <>(Returned /\ (abort \/ With("Done") \cup With("Failed") = DOMAIN jobs))

-----------------------------------------------------------------------------
(***************************************************************************)
(* The scheduler implements the abstract promise of a run.                 *)
(***************************************************************************)
PhaseOf(s) ==
  CASE s \in {"Pending", "Ready"} -> "waiting"
    [] s = "Running"              -> "running"
    [] s = "Done"                 -> "ok"
    [] s = "Failed"               -> "failed"

Promise == INSTANCE RunPromise
  WITH graph <- jobs, phase <- [ j \in DOMAIN jobs |-> PhaseOf(status[j]) ]

Implements == Promise!Spec
=============================================================================
