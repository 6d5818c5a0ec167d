----------------------------- MODULE Forkserver -----------------------------
(***************************************************************************)
(* The executors of a coordinator session: workers hand jobs to warm       *)
(* templates (TemplateManager and ForkserverExecutor of forkserver.rs), or *)
(* run them as processes of their own (NoneExecutor and BwrapExecutor of   *)
(* executor.rs), as the settings of the run say (run.py, run of            *)
(* crates/ppg3-py/src/lib.rs).  The templates, their pipes and the threads *)
(* that read them are in Templates.                                        *)
(*                                                                         *)
(* The pool maps a key to a slot, and a slot, under a lock of its own, to  *)
(* a template.  Only shutdown removes slots from the map, and it removes   *)
(* them all: a slot is named by its key and by the shutdowns before it.    *)
(***************************************************************************)
EXTENDS Templates

CONSTANTS
  Keys,         \* template keys: interpreter, preload list, python environment
  KeyOf,        \* shim job -> its key; the other jobs are no python jobs
  Settings,     \* what is set of a graph, and whether bwrap and nix work on the
                \* host: [sandbox, forkserver, available]
  MaxShutdowns, \* bound: session_stop calls
  MaxCrashes    \* bound: coordinators killed

ASSUME KeysAssumption ==
  /\ DOMAIN KeyOf \subseteq Jobs /\ \A j \in DOMAIN KeyOf : KeyOf[j] \in Keys
  /\ Jobs # {} /\ Keys # {}
ASSUME SettingsAssumption ==
  Settings \subseteq [ sandbox : {"off", "auto", "require"}, forkserver : BOOLEAN,
                       available : BOOLEAN ]
ASSUME SessionBounds == MaxShutdowns \in Nat /\ MaxCrashes \in {0, 1}

VARIABLES
  setting,   \* settings of the graph and the host
  session,   \* "new", "running", "refused" or "gone" (the coordinator is killed)
  mapped,    \* keys that have a slot in the map
  shutdowns, \* how often the pool was shut down
  slot,      \* slot -> its template, 0 for none
  lock,      \* slot -> the worker that spawns a template for it, or Nobody
  stopping,  \* slots a shutdown has taken and not visited
  stages,    \* staged directories on disk: worker, and its how manieth job
  task,      \* worker -> the job it is at (see NoTask)
  taken,     \* worker -> jobs taken
  sent       \* worker -> ids it has used

Nobody == "nobody"
ASSUME NobodyAssumption == Nobody \notin Workers

Slots  == Keys \X (0 .. MaxShutdowns)

AnyJob  == CHOOSE j \in Jobs : TRUE
AnySlot == CHOOSE s \in Slots : TRUE

(***************************************************************************)
(* The locals of a job: where it is, the job, the slot and the template it *)
(* has, whether it was respawned_once, and the templates it has tried.     *)
(***************************************************************************)
NoTask == [at |-> "idle", job |-> AnyJob, slot |-> AnySlot, template |-> 0,
           again |-> FALSE, tried |-> {}]

pool == <<mapped, shutdowns, slot, lock, stopping>>
rest == <<setting, session>>
vars == <<pipes, pool, rest, stages, task, taken, sent>>

At(w)    == task[w].at
Job(w)   == task[w].job
Mine(w)  == task[w].template
Id(w)    == <<w, sent[w]>>
Stage(w) == <<w, taken[w]>>

Tasks ==
  [ at : {"idle", "fallback", "find", "get", "spawn", "check", "register", "write",
          "receive", "drop", "gone"},
    job : Jobs, slot : Slots, template : 0 .. MaxTemplates, again : BOOLEAN,
    tried : SUBSET Template ]

PoolTypeOK ==
  /\ setting \in Settings
  /\ session \in {"new", "running", "refused", "gone"}
  /\ mapped \subseteq Keys
  /\ shutdowns \in 0 .. MaxShutdowns
  /\ slot \in [Slots -> 0 .. MaxTemplates]
  /\ lock \in [Slots -> Workers \cup {Nobody}]
  /\ stopping \subseteq Slots
  /\ stages \subseteq Workers \X (1 .. MaxJobs)

WorkersTypeOK ==
  /\ task \in [Workers -> Tasks]
  /\ taken \in [Workers -> 0 .. MaxJobs]
  /\ sent \in [Workers -> 0 .. 2 * MaxJobs]

TypeOK == PipesTypeOK /\ PoolTypeOK /\ WorkersTypeOK

Init ==
  /\ NoTemplates
  /\ setting \in Settings
  /\ session = "new"
  /\ mapped = {} /\ shutdowns = 0 /\ stopping = {}
  /\ slot = [ s \in Slots |-> 0 ]
  /\ lock = [ s \in Slots |-> Nobody ]
  /\ stages = {}
  /\ task = [ w \in Workers |-> NoTask ]
  /\ taken = [ w \in Workers |-> 0 ]
  /\ sent = [ w \in Workers |-> 0 ]

Goes(w, there) == task' = [task EXCEPT ![w].at = there]

\* The job ends.  finish removes its directory only after a good exit.
Ends(w, how) ==
  /\ task' = [task EXCEPT ![w] = NoTask]
  /\ stages' = IF how = "ok" THEN stages \ {Stage(w)} ELSE stages

-----------------------------------------------------------------------------
(***************************************************************************)
(* What the settings come to.  run.py passes no template command when      *)
(* enforcement is wanted and possible, and opens a session, which has the  *)
(* command anyway, whenever the forkserver is on; run (lib.rs) takes the   *)
(* manager of the session if it is given one.                              *)
(***************************************************************************)
Enforce == setting.sandbox # "off" /\ setting.available
Refused == setting.sandbox = "require" /\ ~setting.available
Command == setting.forkserver /\ ~Enforce
Enabled == IF setting.forkserver THEN TRUE ELSE Command

\* run: a sandbox that is required and not available is an error.
Begin ==
  /\ session = "new"
  /\ session' = IF Refused THEN "refused" ELSE "running"
  /\ UNCHANGED <<pipes, pool, setting, stages, task, taken, sent>>

\* stage: the job gets a directory with links to its inputs.
Staged(w) == stages \cup {<<w, taken[w] + 1>>}

Given(w, j) ==
  IF Enabled /\ j \in DOMAIN KeyOf
  THEN /\ task' = [task EXCEPT ![w] = [NoTask EXCEPT !.at = "find", !.job = j]]
       /\ stages' = Staged(w)
  ELSE /\ task' = [task EXCEPT ![w] = [NoTask EXCEPT !.at = "fallback", !.job = j]]
       /\ stages' = IF Enforce THEN stages ELSE Staged(w)

\* Mutant: the counter behind the name of a staged directory does not advance.
TakeSameName(w, j) ==
  /\ session = "running" /\ At(w) = "idle" /\ taken[w] < MaxJobs
  /\ Given(w, j)
  /\ UNCHANGED <<pipes, pool, rest, taken, sent>>

\* A worker is given a job.  It is staged and goes to a template if templates
\* are enabled and it is a shim job (is_shim_job), and to the fallback if not.
Take(w, j) ==
  /\ session = "running" /\ At(w) = "idle" /\ taken[w] < MaxJobs
  /\ taken' = [taken EXCEPT ![w] = @ + 1]
  /\ Given(w, j)
  /\ UNCHANGED <<pipes, pool, rest, sent>>

\* NoneExecutor waits for the process of the job.  An error (it cannot be
\* started, its logs cannot be written) leaves the directory, as a bad exit does.
Fallback(w, how) ==
  /\ At(w) = "fallback" /\ ~Enforce
  /\ Ends(w, how)
  /\ UNCHANGED <<pipes, pool, rest, taken, sent>>

\* BwrapExecutor stages nothing: what the job may see is bound into the sandbox,
\* whose end it waits for.  A closure that nix does not know is an error.
Sandboxed(w) ==
  /\ At(w) = "fallback" /\ Enforce
  /\ task' = [task EXCEPT ![w] = NoTask]
  /\ UNCHANGED <<pipes, pool, rest, stages, taken, sent>>

\* Staging itself fails.
StagingFails(w) ==
  /\ At(w) = "find" /\ ~task[w].again
  /\ Ends(w, "error")
  /\ UNCHANGED <<pipes, pool, rest, taken, sent>>

-----------------------------------------------------------------------------
(***************************************************************************)
(* get_or_spawn.  The lock of the map is held for the look-up only; that   *)
(* of the slot while a template is spawned.                                *)
(***************************************************************************)
FindSlot(w) ==
  /\ At(w) = "find"
  /\ mapped' = mapped \cup {KeyOf[Job(w)]}
  /\ task' = [task EXCEPT ![w].at = "get", ![w].slot = <<KeyOf[Job(w)], shutdowns>>]
  /\ UNCHANGED <<pipes, shutdowns, slot, lock, stopping, rest, stages, taken, sent>>

\* The template of the slot if it is alive; a new one is spawned if not.
Get(w) ==
  LET s == task[w].slot IN
  /\ At(w) = "get" /\ lock[s] = Nobody
  /\ IF slot[s] # 0 /\ Live(slot[s])
     THEN /\ task' = [task EXCEPT ![w].at = "check", ![w].template = slot[s]]
          /\ UNCHANGED lock
     ELSE /\ Goes(w, "spawn")
          /\ lock' = [lock EXCEPT ![s] = w]
  /\ UNCHANGED <<pipes, mapped, shutdowns, slot, stopping, rest, stages, taken, sent>>

\* spawn_template: the process is started, has printed its ready line, and
\* its reader runs.
Spawn(w, t) ==
  LET s == task[w].slot IN
  /\ At(w) = "spawn" /\ proc[t] = "none" /\ \A u \in 1 .. t - 1 : proc[u] # "none"
  /\ proc' = [proc EXCEPT ![t] = "live"]
  /\ reader' = [reader EXCEPT ![t] = "reading"]
  /\ slot' = [slot EXCEPT ![s] = t]
  /\ lock' = [lock EXCEPT ![s] = Nobody]
  /\ task' = [task EXCEPT ![w].at = "check", ![w].template = t]
  /\ UNCHANGED <<stdin, running, zombies, stdout, waiters, mail, stolen, deaths,
                 mapped, shutdowns, stopping, rest, stages, taken, sent>>

\* It ends, or says it is not ready: it is killed and waited for.  One that says
\* anything else is let go, and ends with its input.  The slot stays as it is.
SpawnFails(w) ==
  /\ At(w) = "spawn"
  /\ lock' = [lock EXCEPT ![task[w].slot] = Nobody]
  /\ Ends(w, "error")
  /\ UNCHANGED <<pipes, mapped, shutdowns, slot, stopping, rest, taken, sent>>

-----------------------------------------------------------------------------
(***************************************************************************)
(* dispatch.                                                               *)
(***************************************************************************)
\* A template that is seen dead is not written to.
Check(w) ==
  /\ At(w) = "check"
  /\ task' = [task EXCEPT ![w].at = IF Live(Mine(w)) THEN "register" ELSE "drop",
                          ![w].tried = @ \cup {Mine(w)}]
  /\ UNCHANGED <<pipes, pool, rest, stages, taken, sent>>

\* The id is in the table of those who wait before the line is written.
Register(w) ==
  /\ At(w) = "register"
  /\ sent' = [sent EXCEPT ![w] = @ + 1]
  /\ waiters' = [waiters EXCEPT ![Mine(w)] = @ \cup {<<w, sent[w] + 1>>}]
  /\ mail' = [mail EXCEPT ![w] = "none"]
  /\ Goes(w, "write")
  /\ UNCHANGED <<proc, stdin, running, zombies, stdout, reader, stolen, deaths,
                 pool, rest, stages, taken>>

\* The write succeeds while any process has the reading end of the pipe: the
\* template or a child of it.
Readable(t) == Live(t) \/ running[t] # {}

Write(w) ==
  LET t == Mine(w) IN
  /\ At(w) = "write"
  /\ IF Readable(t)
     THEN /\ stdin' = [stdin EXCEPT ![t] =
                         Append(@, [id |-> Id(w), job |-> Job(w), stage |-> Stage(w)])]
          /\ Goes(w, "receive")
          /\ UNCHANGED waiters
     ELSE /\ waiters' = [waiters EXCEPT ![t] = @ \ {Id(w)}]
          /\ Goes(w, "drop")
          /\ UNCHANGED stdin
  /\ UNCHANGED <<proc, running, zombies, stdout, reader, mail, stolen, deaths,
                 pool, rest, stages, taken, sent>>

\* The exit of the job is its result.
Receive(w) ==
  /\ At(w) = "receive" /\ mail[w] \in Codes
  /\ Ends(w, mail[w])
  /\ UNCHANGED <<pipes, pool, rest, taken, sent>>

ReceiveDied(w) ==
  /\ At(w) = "receive" /\ mail[w] = "died"
  /\ waiters' = [waiters EXCEPT ![Mine(w)] = @ \ {Id(w)}]
  /\ Goes(w, "drop")
  /\ UNCHANGED <<proc, stdin, running, zombies, stdout, reader, mail, stolen, deaths,
                 pool, rest, stages, taken, sent>>

-----------------------------------------------------------------------------
(***************************************************************************)
(* drop_template: the slot the map has now is emptied if it still holds    *)
(* the dead template, which is killed and waited for in any case.  The     *)
(* first time, run_via_template then makes a second attempt, in the same   *)
(* staged directory, with whatever template the slot has by then; the      *)
(* second time the job fails.                                              *)
(***************************************************************************)
Current(w) == <<KeyOf[Job(w)], shutdowns>>

\* Mutant: the directory of the job is cleaned up before its second attempt.
AgainAfresh(w) ==
  IF task[w].again
  THEN Ends(w, "error")
  ELSE /\ task' = [task EXCEPT ![w].at = "find", ![w].again = TRUE]
       /\ stages' = stages \ {Stage(w)}

Again(w) ==
  IF task[w].again
  THEN Ends(w, "error")
  ELSE /\ task' = [task EXCEPT ![w].at = "find", ![w].again = TRUE]
       /\ UNCHANGED stages

\* Mutant: the slot is emptied whatever template it holds.
DropAny(w) ==
  /\ At(w) = "drop"
  /\ IF KeyOf[Job(w)] \in mapped
     THEN /\ lock[Current(w)] = Nobody
          /\ slot' = [slot EXCEPT ![Current(w)] = 0]
     ELSE UNCHANGED slot
  /\ Killed(Mine(w)) /\ UNCHANGED deaths
  /\ Again(w)
  /\ UNCHANGED <<mapped, shutdowns, lock, stopping, rest, taken, sent>>

Drop(w) ==
  /\ At(w) = "drop"
  /\ IF KeyOf[Job(w)] \in mapped
     THEN /\ lock[Current(w)] = Nobody
          /\ slot' = IF slot[Current(w)] = Mine(w) THEN [slot EXCEPT ![Current(w)] = 0] ELSE slot
     ELSE UNCHANGED slot
  /\ Killed(Mine(w)) /\ UNCHANGED deaths
  /\ Again(w)
  /\ UNCHANGED <<mapped, shutdowns, lock, stopping, rest, taken, sent>>

-----------------------------------------------------------------------------
(***************************************************************************)
(* shutdown: session_stop, in any thread, or the drop of a manager.  All   *)
(* slots leave the map at once; each is then locked and its template       *)
(* killed.  The session can be used again after it.                        *)
(***************************************************************************)
Shutdown ==
  /\ session = "running" /\ stopping = {} /\ shutdowns < MaxShutdowns
  /\ stopping' = mapped \X {shutdowns}
  /\ mapped' = {}
  /\ shutdowns' = shutdowns + 1
  /\ UNCHANGED <<pipes, slot, lock, rest, stages, task, taken, sent>>

StopSlot(s) ==
  /\ session = "running" /\ s \in stopping /\ lock[s] = Nobody
  /\ stopping' = stopping \ {s}
  /\ slot' = [slot EXCEPT ![s] = 0]
  /\ IF slot[s] = 0 THEN UNCHANGED pipes ELSE Killed(slot[s]) /\ UNCHANGED deaths
  /\ UNCHANGED <<mapped, shutdowns, lock, rest, stages, task, taken, sent>>

\* The coordinator is killed: its threads and all it has in memory are gone,
\* and its ends of the pipes closed.
Crash ==
  /\ session = "running" /\ MaxCrashes = 1
  /\ session' = "gone"
  /\ task' = [ w \in Workers |-> [NoTask EXCEPT !.at = "gone"] ]
  /\ mapped' = {} /\ shutdowns' = 0 /\ stopping' = {}
  /\ slot' = [ s \in Slots |-> 0 ]
  /\ lock' = [ s \in Slots |-> Nobody ]
  /\ taken' = [ w \in Workers |-> 0 ]
  /\ sent' = [ w \in Workers |-> 0 ]
  /\ Unread
  /\ UNCHANGED <<setting, stages>>

(***************************************************************************)
(* The pipe to a template has a writer while anything of the coordinator   *)
(* refers to the template: its slot, which the map, a shutdown or a worker *)
(* refers to, or a worker that dispatches to it.                           *)
(***************************************************************************)
Reachable(s) ==
  \/ s[1] \in mapped /\ s[2] = shutdowns
  \/ s \in stopping
  \/ \E w \in Workers : At(w) \in {"get", "spawn"} /\ task[w].slot = s

Held(t) ==
  /\ session = "running"
  /\ \/ \E s \in Slots : slot[s] = t /\ Reachable(s)
     \/ \E w \in Workers : Mine(w) = t

Side(A) == A /\ UNCHANGED <<pool, rest, stages, task, taken, sent>>

EndOfInput(t) == ~Held(t) /\ Side(HangUp(t))
Forks(t)      == Side(Fork(t))
JobEnds(t)    == \E child \in running[t], code \in Codes : Side(ChildEnds(t, child, code))
JobReads(t)   == \E child \in running[t] : Side(ChildReads(t, child))
Reaps(t)      == \E z \in zombies[t] : IF session = "running" THEN Side(Reap(t, z))
                                                              ELSE Side(ReapUnheard(t))
Dies(t)       == session = "running" /\ Side(Die(t))
Routes(t)     == session = "running" /\ \E z \in stdout[t] : Side(Route(t, z))
Drains(t)     == session = "running" /\ Side(Drain(t))

TemplateSteps(t) == Forks(t) \/ Reaps(t) \/ EndOfInput(t)
ReaderSteps(t)   == Routes(t) \/ Drains(t)

WorkerSteps(w) ==
  \/ StagingFails(w) \/ FindSlot(w) \/ Get(w) \/ SpawnFails(w) \/ (\E t \in Template : Spawn(w, t))
  \/ Check(w) \/ Register(w) \/ Write(w) \/ Receive(w) \/ ReceiveDied(w) \/ Drop(w)
  \/ Sandboxed(w) \/ \E how \in Codes \cup {"error"} : Fallback(w, how)

Next ==
  \/ Begin \/ Shutdown \/ Crash
  \/ \E s \in Slots : StopSlot(s)
  \/ \E w \in Workers : WorkerSteps(w) \/ \E j \in Jobs : Take(w, j)
  \/ \E t \in Template : \/ TemplateSteps(t) \/ ReaderSteps(t) \/ JobEnds(t)
                         \/ JobReads(t) \/ Dies(t)

(***************************************************************************)
(* Threads and processes run, and jobs end.  Nothing makes a job read its  *)
(* input, or a template, the session or the coordinator end.               *)
(***************************************************************************)
Fairness ==
  /\ WF_vars(\E s \in Slots : StopSlot(s))
  /\ \A w \in Workers : WF_vars(WorkerSteps(w))
  /\ \A t \in Template : /\ WF_vars(TemplateSteps(t))
                         /\ WF_vars(ReaderSteps(t))
                         /\ WF_vars(JobEnds(t))

Spec == Init /\ [][Next]_vars
FairSpec == Spec /\ Fairness

-----------------------------------------------------------------------------
(***************************************************************************)
(* However late a dispatcher finds out that its template has died, and     *)
(* whatever was spawned in between: no slot has two templates that live,   *)
(* and a template that lives is in the slot it was spawned for or is about *)
(* to be ended (get_or_spawn, drop_template, shutdown): none is lost.      *)
(***************************************************************************)
NoTemplateLost ==
  \A t \in Template : session = "running" /\ Live(t) =>
    /\ Cardinality({ s \in Slots : slot[s] = t }) = 1
    /\ \A s \in Slots : slot[s] = t =>
         \/ Reachable(s)
         \/ s[2] < shutdowns

(***************************************************************************)
(* What a template runs for a job has the directory the job was staged in, *)
(* and is alone in it but for a child that has outlived its template: a    *)
(* second attempt is made only when the template of the first is dead, and *)
(* the directory is still there (run_via_template, finish).                *)
(***************************************************************************)
StageIsKept ==
  \A t \in Template : \A child \in running[t] : session = "running" /\ Live(t) =>
    /\ child.stage \in stages
    /\ \A u \in Template : \A other \in running[u] :
         Live(u) /\ other.stage = child.stage => other = child

(***************************************************************************)
(* A job is not run again, and not given up, when the exit of what ran it  *)
(* was written: all a template has written is read before its dispatchers  *)
(* are told that it died.  And a job is given up for two templates that    *)
(* died, not for one (reader_loop, run_via_template).                      *)
(***************************************************************************)
NoAnswerLost ==
  \A w \in Workers :
    At(w) = "drop" => /\ \A z \in stdout[Mine(w)] : z.id # Id(w)
                      /\ task[w].again => Cardinality(task[w].tried) = 2

(***************************************************************************)
(* Who waits on a template that has not been given up by its reader gets   *)
(* an answer, unless a job reads lines meant for a template (dispatch,     *)
(* reader_loop).                                                           *)
(***************************************************************************)
DispatchEnds ==
  [](stolen = {}) =>
    \A w \in Workers :
      At(w) = "receive" /\ reader[Mine(w)] = "reading" ~> At(w) # "receive"

(***************************************************************************)
(* The templates of a coordinator that is killed end (main_loop of         *)
(* _template.py; PPG3_DESIGN.md 6.7), also when one of them cannot report  *)
(* an exit any more.                                                       *)
(***************************************************************************)
NoneOutlives == session = "gone" ~> \A t \in Template : ~Live(t)

(***************************************************************************)
(* forkserver.rs:550, of the wait for a template: "a dead template is      *)
(* guaranteed to eventually produce some event for every registered id     *)
(* [...] so this cannot hang forever".                                     *)
(***************************************************************************)
NoWaitForever == \A w \in Workers : At(w) = "receive" ~> At(w) # "receive"

(***************************************************************************)
(* run.py:817: "when real enforcement is available and wanted, disable the *)
(* forkserver templates - template children run unenforced, so every job   *)
(* must take the (sandboxed) fallback executor instead".                   *)
(***************************************************************************)
EnforcedWhenWanted == Enforce => \A t \in Template : running[t] = {}
=============================================================================
