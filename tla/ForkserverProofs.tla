-------------------------- MODULE ForkserverProofs --------------------------
(***************************************************************************)
(* Safety of the forkserver, for any number of workers, jobs, keys,        *)
(* templates, deaths and shutdowns. The invariant says where every         *)
(* dispatch under way is: its id is in the table of the template it was    *)
(* sent to, and is in one place of its pipes at most -- a line not read, a *)
(* child, an exit not reaped, an exit not routed -- and whoever sent it is *)
(* at receive, with no answer. What a template runs for a job is then the  *)
(* only thing that runs for it, and an answer that is written is read      *)
(* before the template is given up.                                        *)
(***************************************************************************)
EXTENDS Forkserver, FiniteSetTheorems, SequenceTheorems, TLAPS

USE NobodyAssumption, TemplateBounds, KeysAssumption, SessionBounds

-----------------------------------------------------------------------------
(***************************************************************************)
(* The locals of a worker fit what it is at.                               *)
(***************************************************************************)
HasTemplate(w) == At(w) \in {"check", "register", "write", "receive", "drop"}
AtPool(w)      == At(w) \in {"find", "get", "spawn"}

\* The ids a worker may still use for the job it is at.
Attempts(w) ==
  IF AtPool(w) \/ At(w) \in {"check", "register"}
  THEN IF task[w].again THEN 1 ELSE 2
  ELSE IF At(w) \in {"write", "receive", "drop"} /\ ~task[w].again THEN 1 ELSE 0

LocalOK(w) ==
  /\ AtPool(w) \/ HasTemplate(w) => Job(w) \in DOMAIN KeyOf
  /\ At(w) \notin {"idle", "gone"} => taken[w] >= 1
  /\ HasTemplate(w) => Mine(w) \in Template /\ proc[Mine(w)] # "none"
  /\ At(w) \in {"write", "receive"} => sent[w] >= 1
  /\ sent[w] + Attempts(w) <= 2 * taken[w]

LocalsOK == \A w \in Workers : LocalOK(w)

(***************************************************************************)
(* The pool.  Known(s, n, keys): s is a slot of the map, which has the     *)
(* keys after n shutdowns, or was one before the last of them.             *)
(***************************************************************************)
Known(s, n, keys) == s[2] < n \/ (s[2] = n /\ s[1] \in keys)

SpawnersOK ==
  \A w \in Workers : At(w) = "spawn" =>
    /\ lock[task[w].slot] = w
    /\ slot[task[w].slot] = 0 \/ proc[slot[task[w].slot]] = "dead"

KnownOK ==
  /\ \A w \in Workers :
       At(w) \in {"get", "spawn"} => Known(task[w].slot, shutdowns, mapped)
  /\ \A s \in Slots : slot[s] # 0 => Known(s, shutdowns, mapped)

SlotsOK ==
  /\ \A s \in Slots : slot[s] # 0 => proc[slot[s]] # "none"
  /\ \A s1, s2 \in Slots : slot[s1] = slot[s2] /\ slot[s1] # 0 => s1 = s2

HomesOK ==
  session # "gone" => \A t \in Template : Live(t) => \E s \in Slots : slot[s] = t

PoolOK == SpawnersOK /\ KnownOK /\ SlotsOK /\ HomesOK

(***************************************************************************)
(* The dispatches under way.  Awaits(w, t, id): w waits for t to answer    *)
(* id, and nothing was sent to it yet.                                     *)
(***************************************************************************)
Awaits(w, t, id) ==
  At(w) = "receive" /\ Mine(w) = t /\ id = Id(w) /\ mail[w] = "none"

Gone      == session = "gone"
GoneOK    == Gone => \A w \in Workers : At(w) = "gone"
Exited(t) == zombies[t] \cup stdout[t]
Ours(m, t) == Awaits(m.id[1], t, m.id) /\ m.stage = Stage(m.id[1])

Fresh ==
  \A t \in Template : proc[t] = "none" =>
    stdin[t] = << >> /\ running[t] = {} /\ zombies[t] = {} /\ stdout[t] = {}

TableOK(t) ==
  \A id \in waiters[t] :
    /\ At(id[1]) \in {"write", "receive"} /\ Mine(id[1]) = t
    /\ id = Id(id[1]) /\ mail[id[1]] = "none"

TablesOK == ~Gone => \A t \in Template : TableOK(t)

MailOK ==
  ~Gone => \A w \in Workers :
    At(w) = "write" => mail[w] = "none" \/ proc[Mine(w)] = "dead"

ExitOK(t) ==
  /\ \A z \in Exited(t) : Awaits(z.id[1], t, z.id)
  /\ \A y, z \in Exited(t) : y.id = z.id => y = z
  /\ zombies[t] \cap stdout[t] = {}
  /\ proc[t] = "dead" => zombies[t] = {}

ExitsOK == ~Gone => \A t \in Template : ExitOK(t)

MessageOK(t) ==
  /\ \A m \in running[t] : Ours(m, t)
  /\ \A i \in DOMAIN stdin[t] : Ours(stdin[t][i], t)
  /\ \A m, n \in running[t] : m.id = n.id => m = n
  /\ \A i, l \in DOMAIN stdin[t] : stdin[t][i].id = stdin[t][l].id => i = l
  /\ \A m \in running[t], i \in DOMAIN stdin[t] : m.id # stdin[t][i].id
  /\ \A z \in Exited(t) : /\ \A m \in running[t] : m.id # z.id
                          /\ \A i \in DOMAIN stdin[t] : z.id # stdin[t][i].id

MessagesOK == ~Gone => \A t \in Template : Live(t) => MessageOK(t)

(***************************************************************************)
(* The directory of a job that is under way is there, and of the templates *)
(* it has tried the last is the one it has.                                *)
(***************************************************************************)
StagesOK == \A w \in Workers : AtPool(w) \/ HasTemplate(w) => Stage(w) \in stages

TriedBy(w) ==
  LET tried == task[w].tried IN
  /\ AtPool(w) \/ At(w) = "check" =>
       IF task[w].again THEN \E t \in Template : tried = {t} /\ proc[t] = "dead"
                        ELSE tried = {}
  /\ At(w) = "check" => Mine(w) \notin tried
  /\ At(w) \in {"register", "write", "receive", "drop"} =>
       IF task[w].again THEN \E t \in Template : t # Mine(w) /\ tried = {t, Mine(w)}
                        ELSE tried = {Mine(w)}

TriedOK == \A w \in Workers : TriedBy(w)

SessionInv ==
  /\ TypeOK /\ LocalsOK /\ PoolOK /\ GoneOK
  /\ TablesOK /\ MailOK /\ ExitsOK /\ Fresh /\ MessagesOK
  /\ StagesOK /\ TriedOK
-----------------------------------------------------------------------------

(***************************************************************************)
(* What the locals of a worker can be.                                     *)
(***************************************************************************)
LEMMA TaskFacts ==
  ASSUME TypeOK, NEW w \in Workers
  PROVE  /\ task[w] \in Tasks
        /\ At(w) \in {"idle", "fallback", "find", "get", "spawn", "check", "register", "write",
          "receive", "drop", "gone"}
        /\ Job(w) \in Jobs /\ task[w].slot \in Slots /\ Mine(w) \in 0 .. MaxTemplates
        /\ task[w].again \in BOOLEAN /\ task[w].tried \in SUBSET Template
        /\ taken[w] \in 0 .. MaxJobs /\ sent[w] \in 0 .. 2 * MaxJobs
<1>1. task[w] \in Tasks
  BY DEF TypeOK, WorkersTypeOK
<1>2. QED
  BY <1>1 DEF TypeOK, WorkersTypeOK, Tasks, At, Job, Mine

(***************************************************************************)
(* The locals of a worker without a job are locals.                        *)
(***************************************************************************)
LEMMA NoTaskFacts ==
    /\ NoTask \in Tasks
    /\ NoTask.at = "idle"
    /\ NoTask.again = FALSE
    /\ NoTask.tried = {}
    /\ NoTask.template = 0
<1>1. AnyJob \in Jobs
  BY DEF AnyJob
<1>2. AnySlot \in Slots
  <2>1. PICK key \in Keys : TRUE
    OBVIOUS
  <2>2. <<key, 0>> \in Slots
    BY <2>1 DEF Slots
  <2>3. QED
    BY <2>2 DEF AnySlot
<1>3. QED
  BY <1>1, <1>2 DEF NoTask, Tasks

(***************************************************************************)
(* Every step leaves every worker with locals of the right type.           *)
(***************************************************************************)
LEMMA TaskTyped ==
  TypeOK /\ LocalsOK /\ [Next]_vars => task' \in [Workers -> Tasks]
<1> SUFFICES ASSUME TypeOK, LocalsOK, [Next]_vars PROVE task' \in [Workers -> Tasks]
  OBVIOUS
<1>1. task \in [Workers -> Tasks]
  BY DEF TypeOK, WorkersTypeOK
<1>2. ASSUME NEW w \in Workers, NEW r \in Tasks, task' = [task EXCEPT ![w] = r]
      PROVE task' \in [Workers -> Tasks]
  BY <1>2, <1>1
<1>3. ASSUME NEW w \in Workers, task' = [task EXCEPT ![w] = NoTask]
      PROVE task' \in [Workers -> Tasks]
  BY <1>2, <1>3, NoTaskFacts
<1>4. ASSUME NEW w \in Workers,
             NEW there \in {"idle", "fallback", "find", "get", "spawn", "check", "register", "write",
          "receive", "drop", "gone"}, Goes(w, there)
      PROVE task' \in [Workers -> Tasks]
  <2>1. [task[w] EXCEPT !.at = there] \in Tasks
    BY <1>1 DEF Tasks
  <2>2. task' = [task EXCEPT ![w] = [task[w] EXCEPT !.at = there]]
    BY <1>4, <1>1 DEF Goes
  <2>3. QED
    BY <2>1, <2>2, <1>2
<1>5. CASE Crash
  BY <1>5, NoTaskFacts DEF Crash, Tasks
<1>6. ASSUME NEW w \in Workers, StagingFails(w) PROVE task' \in [Workers -> Tasks]
  BY <1>6, <1>3 DEF StagingFails, Ends
<1>7. ASSUME NEW w \in Workers, FindSlot(w) PROVE task' \in [Workers -> Tasks]
  <2>1. <<KeyOf[Job(w)], shutdowns>> \in Slots
    BY <1>7 DEF FindSlot, LocalsOK, LocalOK, AtPool, TypeOK, PoolTypeOK, Slots
  <2>2. [task[w] EXCEPT !.at = "get", !.slot = <<KeyOf[Job(w)], shutdowns>>] \in Tasks
    BY <2>1, <1>1 DEF Tasks
  <2>3. QED
    BY <1>7, <1>1, <2>2 DEF FindSlot
<1>8. ASSUME NEW w \in Workers, Get(w) PROVE task' \in [Workers -> Tasks]
  <2>1. slot[task[w].slot] \in 0 .. MaxTemplates
    BY TaskFacts DEF TypeOK, PoolTypeOK
  <2>2. [task[w] EXCEPT !.at = "check", !.template = slot[task[w].slot]] \in Tasks
    BY <2>1, <1>1 DEF Tasks
  <2>3. CASE Goes(w, "spawn")
    BY <1>4, <2>3
  <2>4. QED
    BY <1>8, <1>1, <2>2, <2>3 DEF Get
<1>9. ASSUME NEW w \in Workers, SpawnFails(w) PROVE task' \in [Workers -> Tasks]
  BY <1>9, <1>3 DEF SpawnFails, Ends
<1>10. ASSUME NEW w \in Workers, NEW t \in Template, Spawn(w, t)
       PROVE  task' \in [Workers -> Tasks]
  <2>1. t \in 0 .. MaxTemplates
    BY DEF Template
  <2>2. [task[w] EXCEPT !.at = "check", !.template = t] \in Tasks
    BY <2>1, <1>1 DEF Tasks
  <2>3. QED
    BY <1>10, <1>1, <2>2 DEF Spawn
<1>11. ASSUME NEW w \in Workers, Check(w) PROVE task' \in [Workers -> Tasks]
  <2>1. Mine(w) \in Template
    BY <1>11 DEF Check, LocalsOK, LocalOK, HasTemplate
  <2>2. ASSUME NEW there \in {"register", "drop"}
        PROVE [task[w] EXCEPT !.at = there, !.tried = @ \cup {Mine(w)}] \in Tasks
    BY <2>1, <1>1 DEF Tasks
  <2>3. QED
    BY <1>11, <1>1, <2>2 DEF Check
<1>12. ASSUME NEW w \in Workers, Register(w) PROVE task' \in [Workers -> Tasks]
  BY <1>12, <1>4 DEF Register
<1>13. ASSUME NEW w \in Workers, Write(w) PROVE task' \in [Workers -> Tasks]
  BY <1>13, <1>4 DEF Write
<1>14. ASSUME NEW w \in Workers, Receive(w) PROVE task' \in [Workers -> Tasks]
  BY <1>14, <1>3 DEF Receive, Ends
<1>15. ASSUME NEW w \in Workers, ReceiveDied(w) PROVE task' \in [Workers -> Tasks]
  BY <1>15, <1>4 DEF ReceiveDied
<1>16. ASSUME NEW w \in Workers, Drop(w) PROVE task' \in [Workers -> Tasks]
  <2>1. [task[w] EXCEPT !.at = "find", !.again = TRUE] \in Tasks
    BY <1>1 DEF Tasks
  <2>2. QED
    BY <1>16, <1>1, <1>3, <2>1 DEF Drop, Again, Ends
<1>17. ASSUME NEW w \in Workers, Sandboxed(w) PROVE task' \in [Workers -> Tasks]
  BY <1>17, <1>3 DEF Sandboxed
<1>18. ASSUME NEW w \in Workers, NEW how \in Codes \cup {"error"}, Fallback(w, how)
       PROVE  task' \in [Workers -> Tasks]
  BY <1>18, <1>3 DEF Fallback, Ends
<1>19. ASSUME NEW w \in Workers, NEW j \in Jobs, Take(w, j)
       PROVE  task' \in [Workers -> Tasks]
  <2>1. ASSUME NEW there \in {"find", "fallback"}
        PROVE [NoTask EXCEPT !.at = there, !.job = j] \in Tasks
    BY NoTaskFacts DEF Tasks
  <2>2. QED
    BY <1>19, <1>1, <2>1 DEF Take, Given
<1>20. CASE UNCHANGED task
  BY <1>20, <1>1
<1>21. CASE Next
  BY <1>20, <1>21, <1>5, <1>6, <1>7, <1>8, <1>9, <1>10, <1>11, <1>12, <1>13, <1>14,
     <1>15, <1>16, <1>17, <1>18, <1>19
    DEF Next, WorkerSteps, TemplateSteps, ReaderSteps, Begin, Shutdown, StopSlot, Side,
        Forks, Reaps, EndOfInput, Routes, Drains, JobEnds, JobReads, Dies
<1>22. QED
  BY <1>20, <1>21 DEF vars

(***************************************************************************)
(* No worker takes more jobs than its bound, and none uses an id beyond    *)
(* two for each job.                                                       *)
(***************************************************************************)
LEMMA CountersTyped ==
  TypeOK /\ LocalsOK /\ [Next]_vars
    => taken' \in [Workers -> 0 .. MaxJobs] /\ sent' \in [Workers -> 0 .. 2 * MaxJobs]
<1> SUFFICES ASSUME TypeOK, LocalsOK, [Next]_vars
             PROVE  /\ taken' \in [Workers -> 0 .. MaxJobs]
                    /\ sent' \in [Workers -> 0 .. 2 * MaxJobs]
  OBVIOUS
<1> DEFINE G == /\ taken' \in [Workers -> 0 .. MaxJobs]
                /\ sent' \in [Workers -> 0 .. 2 * MaxJobs]
<1>1. taken \in [Workers -> 0 .. MaxJobs] /\ sent \in [Workers -> 0 .. 2 * MaxJobs]
  BY DEF TypeOK, WorkersTypeOK
<1>2. CASE UNCHANGED <<taken, sent>>
  BY <1>2, <1>1
<1>3. CASE Crash
  BY <1>3 DEF Crash
<1>4. ASSUME NEW w \in Workers, NEW j \in Jobs, Take(w, j) PROVE G
  BY <1>4, <1>1 DEF Take
<1>5. ASSUME NEW w \in Workers, Register(w) PROVE G
  <2>1. sent[w] + 1 \in 0 .. 2 * MaxJobs
    BY <1>5, TaskFacts DEF Register, LocalsOK, LocalOK, Attempts, AtPool
  <2>2. QED
    BY <1>5, <1>1, <2>1 DEF Register
<1>6. CASE Next
  BY <1>6, <1>2, <1>3, <1>4, <1>5
    DEF Next, WorkerSteps, TemplateSteps, ReaderSteps, Begin, Shutdown, StopSlot, Side,
        Forks, Reaps, EndOfInput, Routes, Drains, JobEnds, JobReads, Dies, StagingFails,
        FindSlot, Get, SpawnFails, Spawn, Check, Write, Receive, ReceiveDied, Drop,
        Sandboxed, Fallback, rest
<1>7. QED
  BY <1>2, <1>6 DEF vars

(***************************************************************************)
(* The map of the pool, its slots and their locks, and the staged          *)
(* directories keep their types.                                           *)
(***************************************************************************)
LEMMA PoolTyped ==
  TypeOK /\ LocalsOK /\ [Next]_vars => PoolTypeOK'
<1> SUFFICES ASSUME TypeOK, LocalsOK, [Next]_vars PROVE PoolTypeOK'
  OBVIOUS
<1>1. PoolTypeOK
  BY DEF TypeOK
<1>2. CASE UNCHANGED <<pool, rest, stages>>
  BY <1>2, <1>1 DEF PoolTypeOK, pool, rest
<1>3. ASSUME NEW w \in Workers, NEW how, Ends(w, how), UNCHANGED <<pool, rest>>
      PROVE  PoolTypeOK'
  BY <1>3, <1>1 DEF PoolTypeOK, pool, rest, Ends
<1>4. CASE Crash
  BY <1>4, <1>1 DEF Crash, PoolTypeOK
<1>5. CASE Begin
  BY <1>5, <1>1 DEF Begin, PoolTypeOK, pool
<1>6. CASE Shutdown
  <2>1. mapped \X {shutdowns} \subseteq Slots
    BY <1>1 DEF PoolTypeOK, Slots
  <2>2. QED
    BY <1>6, <1>1, <2>1 DEF Shutdown, PoolTypeOK, rest
<1>7. ASSUME NEW s \in Slots, StopSlot(s) PROVE PoolTypeOK'
  BY <1>7, <1>1 DEF StopSlot, PoolTypeOK, rest
<1>8. ASSUME NEW w \in Workers, FindSlot(w) PROVE PoolTypeOK'
  BY <1>8, <1>1 DEF FindSlot, LocalsOK, LocalOK, AtPool, PoolTypeOK, rest
<1>9. ASSUME NEW w \in Workers, Get(w) PROVE PoolTypeOK'
  BY <1>9, <1>1, TaskFacts DEF Get, PoolTypeOK, rest
<1>10. ASSUME NEW w \in Workers, SpawnFails(w) PROVE PoolTypeOK'
  BY <1>10, <1>1, TaskFacts DEF SpawnFails, PoolTypeOK, rest, Ends
<1>11. ASSUME NEW w \in Workers, NEW t \in Template, Spawn(w, t) PROVE PoolTypeOK'
  <2>1. t \in 0 .. MaxTemplates
    BY DEF Template
  <2>2. QED
    BY <1>11, <1>1, <2>1, TaskFacts DEF Spawn, PoolTypeOK, rest
<1>12. ASSUME NEW w \in Workers, Drop(w) PROVE PoolTypeOK'
  <2>1. stages' \subseteq stages
    BY <1>12 DEF Drop, Again, Ends
  <2>2. slot' \in [Slots -> 0 .. MaxTemplates]
    BY <1>12, <1>1 DEF Drop, PoolTypeOK
  <2>3. QED
    BY <1>12, <1>1, <2>1, <2>2 DEF Drop, PoolTypeOK, rest
<1>13. ASSUME NEW w \in Workers, NEW j \in Jobs, Take(w, j) PROVE PoolTypeOK'
  <2>1. <<w, taken[w] + 1>> \in Workers \X (1 .. MaxJobs)
    BY <1>13, TaskFacts DEF Take
  <2>2. stages' \subseteq stages \cup {<<w, taken[w] + 1>>}
    BY <1>13 DEF Take, Given, Staged
  <2>3. QED
    BY <1>13, <1>1, <2>1, <2>2 DEF Take, PoolTypeOK, rest, pool
<1>14. CASE Next
  BY <1>14, <1>2, <1>3, <1>4, <1>5, <1>6, <1>7, <1>8, <1>9, <1>10, <1>11, <1>12, <1>13
    DEF Next, WorkerSteps, TemplateSteps, ReaderSteps, Side, Forks, Reaps, EndOfInput,
        Routes, Drains, JobEnds, JobReads, Dies, StagingFails, Check, Register, Write,
        Receive, ReceiveDied, Sandboxed, Fallback
<1>15. QED
  BY <1>2, <1>14 DEF vars

(***************************************************************************)
(* What goes through the pipes keeps its type.                             *)
(***************************************************************************)
LEMMA PipesTyped ==
  TypeOK /\ LocalsOK /\ [Next]_vars => PipesTypeOK'
<1> SUFFICES ASSUME TypeOK, LocalsOK, [Next]_vars PROVE PipesTypeOK'
  OBVIOUS
<1>1. PipesTypeOK
  BY DEF TypeOK
<1>2. CASE UNCHANGED pipes
  BY <1>2, <1>1 DEF PipesTypeOK, pipes
<1>3. ASSUME NEW t \in Template, Killed(t), UNCHANGED deaths PROVE PipesTypeOK'
  BY <1>3, <1>1 DEF Killed, PipesTypeOK
<1>4. CASE Crash
  BY <1>4, <1>1 DEF Crash, PipesTypeOK, Unread
<1>5. ASSUME NEW s \in Slots, StopSlot(s) PROVE PipesTypeOK'
  <2>1. slot[s] \in 0 .. MaxTemplates
    BY DEF TypeOK, PoolTypeOK
  <2>2. slot[s] = 0 \/ slot[s] \in Template
    BY <2>1 DEF Template
  <2>3. QED
    BY <1>5, <1>2, <1>3, <2>2 DEF StopSlot
<1>6. ASSUME NEW w \in Workers, NEW t \in Template, Spawn(w, t) PROVE PipesTypeOK'
  BY <1>6, <1>1 DEF Spawn, PipesTypeOK
<1>7. ASSUME NEW w \in Workers, Register(w) PROVE PipesTypeOK'
  <2>1. sent[w] + 1 \in 1 .. 2 * MaxJobs
    BY <1>7, TaskFacts DEF Register, LocalsOK, LocalOK, Attempts, AtPool
  <2>2. <<w, sent[w] + 1>> \in Ids
    BY <2>1 DEF Ids
  <2>3. QED
    BY <1>7, <1>1, <2>2 DEF Register, PipesTypeOK
<1>8. ASSUME NEW w \in Workers, Write(w) PROVE PipesTypeOK'
  <2> DEFINE m == [id |-> Id(w), job |-> Job(w), stage |-> Stage(w)]
  <2>1. Id(w) \in Ids /\ Stage(w) \in Workers \X (1 .. MaxJobs)
    <3>1. At(w) = "write" /\ taken[w] >= 1 /\ sent[w] >= 1
      BY <1>8 DEF Write, LocalsOK, LocalOK, HasTemplate
    <3>2. taken[w] \in 1 .. MaxJobs /\ sent[w] \in 1 .. 2 * MaxJobs
      BY <3>1, TaskFacts
    <3>3. QED
      BY <3>2 DEF Ids, Id, Stage
  <2>2. m \in Messages
    BY <2>1, TaskFacts DEF Messages
  <2>3. \A t \in Template : Append(stdin[t], m) \in Seq(Messages)
    BY <2>2, <1>1 DEF PipesTypeOK
  <2>4. CASE Readable(Mine(w))
    <3>1. stdin' = [stdin EXCEPT ![Mine(w)] = Append(@, m)] /\ UNCHANGED waiters
      BY <1>8, <2>4 DEF Write
    <3>2. stdin' \in [Template -> Seq(Messages)]
      BY <3>1, <2>3, <1>1 DEF PipesTypeOK
    <3>3. QED
      BY <1>8, <1>1, <3>1, <3>2 DEF Write, PipesTypeOK
  <2>5. CASE ~Readable(Mine(w))
    <3>1. waiters' = [waiters EXCEPT ![Mine(w)] = @ \ {Id(w)}] /\ UNCHANGED stdin
      BY <1>8, <2>5 DEF Write
    <3>2. waiters' \in [Template -> SUBSET Ids]
      BY <3>1, <1>1 DEF PipesTypeOK
    <3>3. QED
      BY <1>8, <1>1, <3>1, <3>2 DEF Write, PipesTypeOK
  <2>6. QED
    BY <2>4, <2>5
<1>9. ASSUME NEW w \in Workers, ReceiveDied(w) PROVE PipesTypeOK'
  BY <1>9, <1>1 DEF ReceiveDied, PipesTypeOK
<1>10. ASSUME NEW w \in Workers, Drop(w) PROVE PipesTypeOK'
  BY <1>10, <1>3 DEF Drop, LocalsOK, LocalOK, HasTemplate
<1>11. ASSUME NEW t \in Template, Fork(t) PROVE PipesTypeOK'
  <2>1. stdin[t] \in Seq(Messages) /\ stdin[t] # << >>
    BY <1>11, <1>1 DEF Fork, PipesTypeOK
  <2>2. Head(stdin[t]) \in Messages /\ Tail(stdin[t]) \in Seq(Messages)
    BY <2>1, HeadTailProperties
  <2>3. QED
    BY <1>11, <1>1, <2>2 DEF Fork, PipesTypeOK
<1>12. ASSUME NEW t \in Template, NEW z \in zombies[t], Reap(t, z) PROVE PipesTypeOK'
  BY <1>12, <1>1 DEF Reap, PipesTypeOK
<1>13. ASSUME NEW t \in Template, ReapUnheard(t) PROVE PipesTypeOK'
  BY <1>13, <1>1 DEF ReapUnheard, PipesTypeOK
<1>14. ASSUME NEW t \in Template, HangUp(t) PROVE PipesTypeOK'
  BY <1>14, <1>1 DEF HangUp, PipesTypeOK
<1>15. ASSUME NEW t \in Template, NEW z \in stdout[t], Route(t, z) PROVE PipesTypeOK'
  <2>1. z \in Exits
    BY <1>1 DEF PipesTypeOK
  <2>2. z.id[1] \in Workers /\ z.code \in Codes
    BY <2>1 DEF Exits, Ids
  <2>3. /\ mail' \in [Workers -> {"none", "ok", "failed", "died"}]
        /\ waiters' \in [Template -> SUBSET Ids]
    <3>1. CASE z.id \in waiters[t]
      <4>1. mail' = [mail EXCEPT ![z.id[1]] = z.code]
        BY <1>15, <3>1 DEF Route
      <4>2. waiters' = [waiters EXCEPT ![t] = @ \ {z.id}]
        BY <1>15, <3>1 DEF Route
      <4>3. QED
        BY <4>1, <4>2, <2>2, <1>1 DEF PipesTypeOK, Codes
    <3>2. CASE z.id \notin waiters[t]
      BY <1>15, <1>1, <3>2 DEF Route, PipesTypeOK
    <3>3. QED
      BY <3>1, <3>2
  <2>4. QED
    BY <1>15, <1>1, <2>3 DEF Route, PipesTypeOK
<1>16. ASSUME NEW t \in Template, Drain(t) PROVE PipesTypeOK'
  <2>1. mail' \in [Workers -> {"none", "ok", "failed", "died"}]
    BY <1>16, <1>1 DEF Drain, PipesTypeOK
  <2>2. QED
    BY <1>16, <1>1, <2>1 DEF Drain, PipesTypeOK
<1>17. ASSUME NEW t \in Template, NEW c \in running[t], NEW code \in Codes, ChildEnds(t,
              c, code)
       PROVE  PipesTypeOK'
  <2>1. [id |-> c.id, code |-> code] \in Exits
    BY <1>1 DEF PipesTypeOK, Messages, Exits
  <2>2. QED
    BY <1>17, <1>1, <2>1 DEF ChildEnds, PipesTypeOK
<1>18. ASSUME NEW t \in Template, NEW c \in running[t], ChildReads(t, c)
       PROVE  PipesTypeOK'
  <2>1. stdin[t] \in Seq(Messages) /\ stdin[t] # << >>
    BY <1>18, <1>1 DEF ChildReads, PipesTypeOK
  <2>2. Head(stdin[t]) \in Messages /\ Tail(stdin[t]) \in Seq(Messages)
    BY <2>1, HeadTailProperties
  <2>3. Head(stdin[t]).id \in Ids
    BY <2>2 DEF Messages
  <2>4. QED
    BY <1>18, <1>1, <2>2, <2>3 DEF ChildReads, PipesTypeOK
<1>19. ASSUME NEW t \in Template, Die(t) PROVE PipesTypeOK'
  BY <1>19, <1>1 DEF Die, Killed, PipesTypeOK
<1>20. CASE Next
  BY <1>20, <1>2, <1>4, <1>5, <1>6, <1>7, <1>8, <1>9, <1>10, <1>11, <1>12, <1>13, <1>14,
     <1>15, <1>16, <1>17, <1>18, <1>19
    DEF Next, WorkerSteps, TemplateSteps, ReaderSteps, Begin, Shutdown, Side, Forks,
        Reaps, EndOfInput, Routes, Drains, JobEnds, JobReads, Dies, StagingFails,
        FindSlot, Get, SpawnFails, Check, Receive, Sandboxed, Fallback, Take
<1>21. QED
  BY <1>2, <1>20 DEF vars

Others(w) == \A v \in Workers \ {w} : task'[v] = task[v]
SameLocals(w)   == /\ Job(w)' = Job(w) /\ task'[w].slot = task[w].slot /\ Mine(w)' = Mine(w)
             /\ task'[w].again = task[w].again /\ task'[w].tried = task[w].tried

(***************************************************************************)
(* A worker that goes on with its job keeps the rest of its locals.        *)
(***************************************************************************)
LEMMA GoesFacts ==
  ASSUME TypeOK, NEW w \in Workers, NEW there, Goes(w, there)
  PROVE At(w)' = there /\ SameLocals(w) /\ Others(w)
<1>1. task \in [Workers -> Tasks]
  BY DEF TypeOK, WorkersTypeOK
<1>2. task'[w] = [task[w] EXCEPT !.at = there]
  BY <1>1 DEF Goes
<1>3. Others(w)
  BY <1>1 DEF Goes, Others
<1>4. task[w] \in Tasks
  BY <1>1
<1>5. QED
  BY <1>2, <1>3, <1>4 DEF At, SameLocals, Job, Mine, Tasks

(***************************************************************************)
(* A worker whose job has ended is idle.                                   *)
(***************************************************************************)
LEMMA EndsFacts ==
  ASSUME TypeOK, NEW w \in Workers, task' = [task EXCEPT ![w] = NoTask]
  PROVE At(w)' = "idle" /\ Others(w)
<1>1. task \in [Workers -> Tasks]
  BY DEF TypeOK, WorkersTypeOK
<1>2. QED
  BY <1>1, NoTaskFacts DEF At, Others

(***************************************************************************)
(* What FindSlot does to the locals of its worker: it names a slot.        *)
(***************************************************************************)
LEMMA FindFacts ==
  ASSUME TypeOK, NEW w \in Workers, FindSlot(w)
  PROVE /\ At(w)' = "get" /\ task'[w].slot = <<KeyOf[Job(w)], shutdowns>>
        /\ Job(w)' = Job(w)
        /\ task'[w].again = task[w].again
        /\ task'[w].tried = task[w].tried
        /\ Others(w)
<1>1. task \in [Workers -> Tasks]
  BY DEF TypeOK, WorkersTypeOK
<1>2. task'[w] = [task[w] EXCEPT !.at = "get", !.slot = <<KeyOf[Job(w)], shutdowns>>]
  BY <1>1 DEF FindSlot
<1>3. Others(w)
  BY <1>1 DEF FindSlot, Others
<1>4. task[w] \in Tasks
  BY <1>1
<1>5. QED
  BY <1>2, <1>3, <1>4 DEF At, Job, Tasks

(***************************************************************************)
(* What getting a template does to the locals of its worker.               *)
(***************************************************************************)
LEMMA GetsFacts ==
  ASSUME TypeOK, NEW w \in Workers, NEW t \in Template,
         task' = [task EXCEPT ![w].at = "check", ![w].template = t]
  PROVE /\ At(w)' = "check" /\ Mine(w)' = t /\ task'[w].slot = task[w].slot
        /\ Job(w)' = Job(w)
        /\ task'[w].again = task[w].again
        /\ task'[w].tried = task[w].tried
        /\ Others(w)
<1>1. task \in [Workers -> Tasks]
  BY DEF TypeOK, WorkersTypeOK
<1>2. task'[w] = [task[w] EXCEPT !.at = "check", !.template = t]
  BY <1>1
<1>3. Others(w)
  BY <1>1 DEF Others
<1>4. \A r \in Tasks : LET n == [r EXCEPT !.at = "check", !.template = t]
      IN  /\ n.at = "check"
          /\ n.template = t
          /\ n.slot = r.slot
          /\ n.job = r.job
          /\ n.again = r.again
          /\ n.tried = r.tried
  BY DEF Tasks
<1>5. task[w] \in Tasks
  BY <1>1
<1>6. QED
  BY <1>2, <1>3, <1>4, <1>5 DEF At, Job, Mine

(***************************************************************************)
(* What Check does to the locals of its worker: the template is tried.     *)
(***************************************************************************)
LEMMA CheckFacts ==
  ASSUME TypeOK, NEW w \in Workers, Check(w)
  PROVE /\ At(w)' = IF Live(Mine(w)) THEN "register" ELSE "drop"
        /\ Mine(w)' = Mine(w) /\ task'[w].slot = task[w].slot
        /\ Job(w)' = Job(w) /\ task'[w].again = task[w].again
        /\ task'[w].tried = task[w].tried \cup {Mine(w)}
        /\ Others(w)
<1>1. task \in [Workers -> Tasks]
  BY DEF TypeOK, WorkersTypeOK
<1>2. task'[w] = [task[w] EXCEPT !.at = IF Live(Mine(w))
                                        THEN "register"
                                        ELSE "drop", !.tried = task[w].tried \cup {Mine(w)}]
  BY <1>1 DEF Check
<1>3. Others(w)
  BY <1>1 DEF Others, Check
<1>4. task[w] \in Tasks
  BY <1>1
<1>5. QED
  BY <1>2, <1>3, <1>4 DEF At, Job, Mine, Tasks

(***************************************************************************)
(* What Again does to the locals of its worker: the job is over, or it is  *)
(* found a slot once more.                                                 *)
(***************************************************************************)
LEMMA AgainFacts ==
  ASSUME TypeOK, NEW w \in Workers, Again(w)
  PROVE /\ IF task[w].again THEN At(w)' = "idle"
           ELSE /\ At(w)' = "find" /\ Mine(w)' = Mine(w) /\ task'[w].slot = task[w].slot
                /\ Job(w)' = Job(w)
                /\ task'[w].again = TRUE
                /\ task'[w].tried = task[w].tried
        /\ Others(w)
        /\ UNCHANGED stages
<1>1. task \in [Workers -> Tasks]
  BY DEF TypeOK, WorkersTypeOK
<1>2. task[w] \in Tasks
  BY <1>1
<1>3. CASE task[w].again
  <2>1. task' = [task EXCEPT ![w] = NoTask] /\ UNCHANGED stages
    BY <1>3 DEF Again, Ends
  <2>2. QED
    BY <1>3, <2>1, EndsFacts
<1>4. CASE ~task[w].again
  <2>1. task' = [task EXCEPT ![w].at = "find", ![w].again = TRUE] /\ UNCHANGED stages
    BY <1>4 DEF Again
  <2>2. task'[w] = [task[w] EXCEPT !.at = "find", !.again = TRUE]
    BY <1>1, <2>1
  <2>3. Others(w)
    BY <1>1, <2>1 DEF Others
  <2>4. \A r \in Tasks : LET n == [r EXCEPT !.at = "find", !.again = TRUE]
        IN  /\ n.at = "find"
            /\ n.template = r.template
            /\ n.slot = r.slot
            /\ n.job = r.job
            /\ n.again = TRUE
            /\ n.tried = r.tried
    BY DEF Tasks
  <2>5. QED
    BY <1>4, <2>1, <2>2, <2>3, <2>4, <1>2 DEF At, Job, Mine
<1>5. QED
  BY <1>3, <1>4

(***************************************************************************)
(* What Given does to the locals of its worker: a new job, with no         *)
(* template tried.                                                         *)
(***************************************************************************)
LEMMA GivenFacts ==
  ASSUME TypeOK, NEW w \in Workers, NEW j \in Jobs, Given(w, j)
  PROVE /\ \/ At(w)' = "find" /\ j \in DOMAIN KeyOf /\ stages' = Staged(w)
           \/ At(w)' = "fallback" /\ stages \subseteq stages'
        /\ Job(w)' = j
        /\ task'[w].again = FALSE
        /\ task'[w].tried = {}
        /\ task'[w].template = 0
        /\ Others(w)
<1>1. task \in [Workers -> Tasks]
  BY DEF TypeOK, WorkersTypeOK
<1>2. \A there : LET r == [NoTask EXCEPT !.at = there, !.job = j]
      IN  r.at = there /\ r.job = j /\ r.again = FALSE /\ r.tried = {} /\ r.template = 0
  BY DEF NoTask
<1>3. Others(w)
  BY <1>1 DEF Others, Given
<1>4. CASE Enabled /\ j \in DOMAIN KeyOf
  <2>1. task'[w] = [NoTask EXCEPT !.at = "find", !.job = j]
    BY <1>1, <1>4 DEF Given
  <2>2. QED
    BY <1>4, <2>1, <1>2, <1>3 DEF Given, At, Job
<1>5. CASE ~(Enabled /\ j \in DOMAIN KeyOf)
  <2>1. task'[w] = [NoTask EXCEPT !.at = "fallback", !.job = j]
    BY <1>1, <1>5 DEF Given
  <2>2. QED
    BY <1>5, <2>1, <1>2, <1>3 DEF Given, At, Job, Staged
<1>6. QED
  BY <1>4, <1>5

(***************************************************************************)
(* After a crash no worker is at anything.                                 *)
(***************************************************************************)
LEMMA CrashFacts ==
  ASSUME TypeOK, Crash, NEW w \in Workers
  PROVE  At(w)' = "gone" /\ Mine(w)' = 0
<1>1. task'[w] = [NoTask EXCEPT !.at = "gone"]
  BY DEF Crash
<1>2. QED
  BY <1>1 DEF NoTask, At, Mine

Grows == \A t \in Template : /\ proc[t] # "none" => proc'[t] # "none"
                             /\ proc[t] = "dead" => proc'[t] = "dead"
                             /\ proc'[t] = "dead" => proc[t] # "none"

(***************************************************************************)
(* Killing a template that was spawned takes nothing back.                 *)
(***************************************************************************)
LEMMA KilledGrows ==
  ASSUME TypeOK, NEW t \in Template, proc[t] # "none", proc' = [proc EXCEPT ![t] = "dead"]
  PROVE  Grows
<1>1. proc \in [Template -> {"none", "live", "dead"}]
  BY DEF TypeOK, PipesTypeOK
<1>2. QED
  BY <1>1 DEF Grows

(***************************************************************************)
(* A template that was spawned stays so, a dead one stays dead, and none   *)
(* dies before it is spawned.                                              *)
(***************************************************************************)
LEMMA ProcGrows ==
  TypeOK /\ LocalsOK /\ PoolOK /\ [Next]_vars => Grows
<1> SUFFICES ASSUME TypeOK, LocalsOK, PoolOK, [Next]_vars PROVE Grows
  OBVIOUS
<1>1. proc \in [Template -> {"none", "live", "dead"}]
  BY DEF TypeOK, PipesTypeOK
<1>2. CASE UNCHANGED proc
  BY <1>2 DEF Grows
<1>3. ASSUME NEW s \in Slots, StopSlot(s) PROVE Grows
  <2>1. slot[s] \in 0 .. MaxTemplates
    BY DEF TypeOK, PoolTypeOK
  <2>2. CASE slot[s] = 0
    BY <1>3, <1>2, <2>2 DEF StopSlot, pipes
  <2>3. CASE slot[s] # 0
    <3>1. slot[s] \in Template /\ proc[slot[s]] # "none"
      BY <2>1, <2>3 DEF Template, PoolOK, SlotsOK
    <3>2. proc' = [proc EXCEPT ![slot[s]] = "dead"]
      BY <1>3, <2>3 DEF StopSlot, Killed
    <3>3. QED
      BY <3>1, <3>2, KilledGrows
  <2>4. QED
    BY <2>2, <2>3
<1>4. ASSUME NEW w \in Workers, NEW t \in Template, Spawn(w, t) PROVE Grows
  BY <1>4, <1>1 DEF Spawn, Grows
<1>5. ASSUME NEW w \in Workers, Drop(w) PROVE Grows
  <2>1. Mine(w) \in Template /\ proc[Mine(w)] # "none"
    BY <1>5 DEF Drop, LocalsOK, LocalOK, HasTemplate
  <2>2. proc' = [proc EXCEPT ![Mine(w)] = "dead"]
    BY <1>5 DEF Drop, Killed
  <2>3. QED
    BY <2>1, <2>2, KilledGrows
<1>6. ASSUME NEW t \in Template, ReapUnheard(t) PROVE Grows
  BY <1>6, KilledGrows DEF ReapUnheard, Live
<1>7. ASSUME NEW t \in Template, HangUp(t) PROVE Grows
  BY <1>7, KilledGrows DEF HangUp, Live
<1>8. ASSUME NEW t \in Template, Die(t) PROVE Grows
  BY <1>8, KilledGrows DEF Die, Killed, Live
<1>9. CASE Next
  BY <1>9, <1>2, <1>3, <1>4, <1>5, <1>6, <1>7, <1>8
    DEF Next, WorkerSteps, TemplateSteps, ReaderSteps, Begin, Shutdown, Crash, Unread,
        Side, Forks, Fork, Reaps, Reap, EndOfInput, Routes, Route, Drains, Drain,
        JobEnds, ChildEnds, JobReads, ChildReads, Dies, StagingFails, FindSlot, Get,
        SpawnFails, Check, Register, Write, Receive, ReceiveDied, Sandboxed, Fallback,
        Take, pipes
<1>10. QED
  BY <1>2, <1>9 DEF vars, pipes

(***************************************************************************)
(* The locals of a worker stay consistent while they and its counters do   *)
(* not change.                                                             *)
(***************************************************************************)
LEMMA LocalKept ==
  ASSUME NEW w \in Workers, LocalOK(w), Grows, UNCHANGED <<task[w], taken[w], sent[w]>>
  PROVE  LocalOK(w)'
<1>1. task'[w] = task[w] /\ taken'[w] = taken[w] /\ sent'[w] = sent[w]
  OBVIOUS
<1>2. UNCHANGED <<At(w), Mine(w), Job(w), HasTemplate(w), AtPool(w), Attempts(w)>>
  BY <1>1 DEF At, Mine, Job, HasTemplate, AtPool, Attempts
<1>3. QED
  BY <1>1, <1>2 DEF LocalOK, Grows

(***************************************************************************)
(* Every step keeps the locals of the workers consistent (LocalsOK).       *)
(***************************************************************************)
LEMMA LocalsHold ==
  TypeOK /\ LocalsOK /\ PoolOK /\ [Next]_vars => LocalsOK'
<1> SUFFICES ASSUME TypeOK, LocalsOK, PoolOK, [Next]_vars PROVE LocalsOK'
  OBVIOUS
<1>1. Grows
  BY ProcGrows
<1>2. CASE UNCHANGED <<task, taken, sent>>
  BY <1>2, <1>1, LocalKept DEF LocalsOK
<1>3. ASSUME NEW w \in Workers, Others(w), UNCHANGED <<taken, sent>>, LocalOK(w)'
      PROVE  LocalsOK'
  BY <1>1, <1>3, LocalKept DEF LocalsOK, Others
<1>4. ASSUME NEW w \in Workers, At(w)' = "idle", Others(w), UNCHANGED <<taken, sent>>
      PROVE  LocalsOK'
  <2>1. sent[w] <= 2 * taken[w]
    BY TaskFacts DEF LocalsOK, LocalOK, Attempts
  <2>2. QED
    BY <1>3, <1>4, <2>1, TaskFacts DEF LocalOK, AtPool, HasTemplate, Attempts
<1>5. CASE Crash
  <2>1. \A w \in Workers : At(w)' = "gone" /\ taken'[w] = 0 /\ sent'[w] = 0
    BY <1>5, CrashFacts DEF Crash
  <2>2. QED
    BY <2>1 DEF LocalsOK, LocalOK, AtPool, HasTemplate, Attempts
<1>6. ASSUME NEW w \in Workers, FindSlot(w) PROVE LocalsOK'
  BY <1>6, <1>3, FindFacts
    DEF FindSlot, LocalsOK, LocalOK, AtPool, HasTemplate, Attempts
<1>7. ASSUME NEW w \in Workers, NEW t \in Template,
             task' = [task EXCEPT ![w].at = "check", ![w].template = t],
        At(w) \in {"get", "spawn"}, UNCHANGED <<taken, sent>>, proc'[t] # "none" PROVE LocalsOK'
  <2>1. /\ At(w)' = "check" /\ Mine(w)' = t /\ Others(w)
        /\ Job(w)' = Job(w) /\ task'[w].again = task[w].again
    BY <1>7, GetsFacts
  <2>2. /\ Job(w) \in DOMAIN KeyOf /\ taken[w] >= 1
        /\ sent[w] + (IF task[w].again THEN 1 ELSE 2) <= 2 * taken[w]
    BY <1>7 DEF LocalsOK, LocalOK, AtPool, Attempts
  <2>3. LocalOK(w)'
    BY <1>7, <2>1, <2>2 DEF LocalOK, AtPool, HasTemplate, Attempts
  <2>4. QED
    BY <1>7, <1>3, <2>1, <2>3
<1>8. ASSUME NEW w \in Workers, Get(w) PROVE LocalsOK'
  <2>1. CASE Goes(w, "spawn")
    BY <2>1, <1>8, <1>3, GoesFacts
      DEF Get, LocalsOK, LocalOK, AtPool, HasTemplate, Attempts, SameLocals
  <2>2. CASE ~Goes(w, "spawn")
    <3>1. slot[task[w].slot] \in 0 .. MaxTemplates
      BY TaskFacts DEF TypeOK, PoolTypeOK
    <3>2. slot[task[w].slot] \in Template /\ Live(slot[task[w].slot])
      BY <1>8, <2>2, <3>1 DEF Get, Template
    <3>3. QED
      BY <1>8, <2>2, <3>2, <1>7 DEF Get, pipes, Live
  <2>3. QED
    BY <2>1, <2>2
<1>9. ASSUME NEW w \in Workers, NEW t \in Template, Spawn(w, t) PROVE LocalsOK'
  <2>1. proc'[t] # "none"
    BY <1>9 DEF Spawn, TypeOK, PipesTypeOK
  <2>2. QED
    BY <1>9, <1>7, <2>1 DEF Spawn
<1>10. ASSUME NEW w \in Workers, Check(w) PROVE LocalsOK'
  <2>1. /\ At(w)' \in {"register", "drop"} /\ Mine(w)' = Mine(w) /\ Others(w)
        /\ Job(w)' = Job(w) /\ task'[w].again = task[w].again /\ task[w].again \in BOOLEAN
        /\ UNCHANGED <<taken, sent, proc>> /\ At(w) = "check"
    BY <1>10, CheckFacts, TaskFacts DEF Check, pipes
  <2>2. /\ Job(w) \in DOMAIN KeyOf
        /\ taken[w] >= 1
        /\ Mine(w) \in Template
        /\ proc[Mine(w)] # "none"
        /\ sent[w] + (IF task[w].again THEN 1 ELSE 2) <= 2 * taken[w]
    BY <2>1 DEF LocalsOK, LocalOK, AtPool, Attempts, HasTemplate
  <2>3. LocalOK(w)'
    BY <2>1, <2>2, TaskFacts DEF LocalOK, AtPool, HasTemplate, Attempts
  <2>4. QED
    BY <2>1, <1>3, <2>3
<1>11. ASSUME NEW w \in Workers, Register(w) PROVE LocalsOK'
  <2>1. sent' = [sent EXCEPT ![w] = @ + 1] /\ UNCHANGED taken /\ UNCHANGED proc
    BY <1>11 DEF Register
  <2>2. sent'[w] = sent[w] + 1 /\ \A v \in Workers \ {w} : sent'[v] = sent[v]
    BY <2>1 DEF TypeOK, WorkersTypeOK
  <2>3. At(w) = "register" /\ At(w)' = "write" /\ SameLocals(w) /\ Others(w)
    BY <1>11, GoesFacts DEF Register
  <2>4. LocalOK(w)'
    BY <2>1, <2>2, <2>3, TaskFacts
      DEF LocalsOK, LocalOK, AtPool, HasTemplate, Attempts, SameLocals
  <2>5. QED
    BY <2>1, <2>2, <2>3, <2>4, <1>1, LocalKept DEF LocalsOK, Others
<1>12. ASSUME NEW w \in Workers, Write(w) PROVE LocalsOK'
  <2>1. /\ At(w)' \in {"receive", "drop"} /\ SameLocals(w) /\ Others(w) /\ At(w) = "write"
        /\ UNCHANGED <<taken, sent, proc>>
    BY <1>12, GoesFacts DEF Write
  <2>2. QED
    BY <2>1, <1>3 DEF LocalsOK, LocalOK, AtPool, HasTemplate, Attempts, SameLocals
<1>13. ASSUME NEW w \in Workers, ReceiveDied(w) PROVE LocalsOK'
  <2>1. /\ At(w)' = "drop" /\ SameLocals(w) /\ Others(w) /\ At(w) = "receive"
        /\ UNCHANGED <<taken, sent, proc>>
    BY <1>13, GoesFacts DEF ReceiveDied
  <2>2. QED
    BY <2>1, <1>3 DEF LocalsOK, LocalOK, AtPool, HasTemplate, Attempts, SameLocals
<1>14. ASSUME NEW w \in Workers, Drop(w) PROVE LocalsOK'
  <2>1. CASE task[w].again
    BY <2>1, <1>14, <1>4, AgainFacts DEF Drop
  <2>2. CASE ~task[w].again
    <3>1. /\ At(w)' = "find"
          /\ Job(w)' = Job(w)
          /\ task'[w].again = TRUE
          /\ Others(w)
          /\ At(w) = "drop"
          /\ UNCHANGED <<taken, sent>>
      BY <2>2, <1>14, AgainFacts DEF Drop
    <3>2. QED
      BY <2>2, <3>1, <1>3, TaskFacts
        DEF LocalsOK, LocalOK, AtPool, HasTemplate, Attempts
  <2>3. QED
    BY <2>1, <2>2
<1>15. ASSUME NEW w \in Workers, NEW j \in Jobs, Take(w, j) PROVE LocalsOK'
  <2>1. taken' = [taken EXCEPT ![w] = @ + 1] /\ UNCHANGED sent /\ At(w) = "idle"
    BY <1>15 DEF Take
  <2>2. taken'[w] = taken[w] + 1 /\ \A v \in Workers \ {w} : taken'[v] = taken[v]
    BY <2>1 DEF TypeOK, WorkersTypeOK
  <2>3. /\ (At(w)' = "find" /\ Job(w)' \in DOMAIN KeyOf) \/ At(w)' = "fallback"
        /\ Others(w) /\ task'[w].again = FALSE
    BY <1>15, GivenFacts DEF Take
  <2>4. LocalOK(w)'
    BY <2>1, <2>2, <2>3, TaskFacts DEF LocalsOK, LocalOK, AtPool, HasTemplate, Attempts
  <2>5. QED
    BY <2>1, <2>2, <2>3, <2>4, <1>1, LocalKept DEF LocalsOK, Others
<1>16. ASSUME NEW w \in Workers, task' = [task EXCEPT ![w] = NoTask],
              UNCHANGED <<taken, sent>>
       PROVE  LocalsOK'
  BY <1>16, <1>4, EndsFacts
<1>17. CASE Next
  BY <1>17, <1>2, <1>5, <1>6, <1>8, <1>9, <1>10, <1>11, <1>12, <1>13, <1>14, <1>15,
     <1>16
    DEF Next, WorkerSteps, TemplateSteps, ReaderSteps, Begin, Shutdown, StopSlot, Side,
        Forks, Reaps, EndOfInput, Routes, Drains, JobEnds, JobReads, Dies, StagingFails,
        SpawnFails, Receive, Sandboxed, Fallback, Ends
<1>18. QED
  BY <1>2, <1>17 DEF vars

(***************************************************************************)
(* A slot the map has, or has had, is one it has or has had ever after.    *)
(***************************************************************************)
LEMMA KnownKept ==
  ASSUME TypeOK, NEW s \in Slots, Known(s, shutdowns, mapped),
         (shutdowns' = shutdowns /\ mapped \subseteq mapped') \/ Shutdown
  PROVE  Known(s, shutdowns', mapped')
<1>1. shutdowns \in Nat
  BY DEF TypeOK, PoolTypeOK
<1>2. s[2] \in Nat
  BY DEF Slots
<1>3. QED
  BY <1>1, <1>2 DEF Known, Shutdown

(***************************************************************************)
(* Every step keeps KnownOK: what a worker is at, and what holds a         *)
(* template, is a slot of the map, or was one before a shutdown.           *)
(***************************************************************************)
LEMMA SlotsStayKnown ==
  TypeOK /\ LocalsOK /\ PoolOK /\ [Next]_vars => KnownOK'
<1> SUFFICES ASSUME TypeOK, LocalsOK, PoolOK, [Next]_vars PROVE KnownOK'
  OBVIOUS
<1>1. KnownOK
  BY DEF PoolOK
<1>2. CASE Crash
  BY <1>2, CrashFacts DEF Crash, KnownOK
<1>3. ASSUME (shutdowns' = shutdowns /\ mapped \subseteq mapped') \/ Shutdown,
             \A w \in Workers : At(w)' \in {"get", "spawn"} => Known(task'[w].slot, shutdowns', mapped'),
             \A s \in Slots : slot'[s] # 0 => Known(s, shutdowns', mapped')
      PROVE  KnownOK'
  BY <1>3 DEF KnownOK
<1> DEFINE Keep == (shutdowns' = shutdowns /\ mapped \subseteq mapped') \/ Shutdown
           Slot == \A s \in Slots : slot'[s] \in {0, slot[s]}
<1>4. ASSUME Keep, Slot
      PROVE  \A s \in Slots : slot'[s] # 0 => Known(s, shutdowns', mapped')
  BY <1>1, <1>4, KnownKept DEF KnownOK
<1>5. ASSUME Keep, NEW w \in Workers, task'[w] = task[w], At(w)' \in {"get", "spawn"}
      PROVE  Known(task'[w].slot, shutdowns', mapped')
  BY <1>1, <1>5, KnownKept, TaskFacts DEF KnownOK, At
<1>6. ASSUME NEW w \in Workers, Others(w), Keep, Slot,
             At(w)' \in {"get", "spawn"} => Known(task'[w].slot, shutdowns', mapped')
      PROVE KnownOK'
  BY <1>3, <1>4, <1>5, <1>6 DEF Others
<1>7. CASE UNCHANGED task /\ Keep /\ Slot
  BY <1>7, <1>3, <1>4, <1>5
<1>8. ASSUME NEW w \in Workers, FindSlot(w) PROVE KnownOK'
  <2>1. /\ task'[w].slot = <<KeyOf[Job(w)], shutdowns>> /\ Others(w)
        /\ shutdowns' = shutdowns /\ slot' = slot /\ mapped' = mapped \cup {KeyOf[Job(w)]}
    BY <1>8, FindFacts DEF FindSlot
  <2>2. Known(<<KeyOf[Job(w)], shutdowns>>, shutdowns', mapped')
    BY <2>1 DEF Known
  <2>3. QED
    BY <2>1, <2>2, <1>6
<1>9. ASSUME NEW w \in Workers, Get(w) PROVE KnownOK'
  <2>1. UNCHANGED <<slot, shutdowns, mapped>> /\ At(w) = "get"
    BY <1>9 DEF Get
  <2>2. CASE Goes(w, "spawn")
    <3>1. Known(task[w].slot, shutdowns', mapped')
      BY <1>1, <2>1, KnownKept, TaskFacts DEF KnownOK
    <3>2. task'[w].slot = task[w].slot
      BY <2>2, GoesFacts DEF SameLocals
    <3>3. Others(w)
      BY <2>2, GoesFacts
    <3>4. QED
      BY <1>6, <2>1, <3>1, <3>2, <3>3
  <2>3. CASE ~Goes(w, "spawn")
    <3>1. slot[task[w].slot] \in 0 .. MaxTemplates
      BY TaskFacts DEF TypeOK, PoolTypeOK
    <3>2. slot[task[w].slot] \in Template
      BY <1>9, <2>3, <3>1 DEF Get, Template
    <3>3. QED
      BY <1>9, <2>3, <3>2, <1>6, GetsFacts DEF Get
  <2>4. QED
    BY <2>2, <2>3
<1>10. ASSUME NEW w \in Workers, NEW t \in Template, Spawn(w, t) PROVE KnownOK'
  <2>1. UNCHANGED <<shutdowns, mapped>> /\ At(w) = "spawn" /\ task[w].slot \in Slots
    BY <1>10, TaskFacts DEF Spawn
  <2>2. Known(task[w].slot, shutdowns', mapped')
    BY <1>1, <2>1, KnownKept DEF KnownOK
  <2>3. \A s \in Slots \ {task[w].slot} : slot'[s] = slot[s]
    BY <1>10 DEF Spawn, TypeOK, PoolTypeOK
  <2>4. \A s \in Slots : slot'[s] # 0 => Known(s, shutdowns', mapped')
    BY <1>1, <2>1, <2>2, <2>3, KnownKept DEF KnownOK
  <2>5. At(w)' = "check" /\ Others(w)
    BY <1>10, GetsFacts DEF Spawn
  <2>6. QED
    BY <1>3, <1>5, <2>1, <2>4, <2>5 DEF Others
<1>11. ASSUME NEW w \in Workers, Drop(w) PROVE KnownOK'
  <2>1. UNCHANGED <<shutdowns, mapped>>
    BY <1>11 DEF Drop
  <2>2. Slot
    BY <1>11 DEF Drop, TypeOK, PoolTypeOK
  <2>3. At(w)' \in {"idle", "find"} /\ Others(w)
    BY <1>11, AgainFacts DEF Drop
  <2>4. QED
    BY <1>6, <2>1, <2>2, <2>3
<1>12. ASSUME NEW s \in Slots, StopSlot(s) PROVE KnownOK'
  <2>1. Slot
    BY <1>12 DEF StopSlot, TypeOK, PoolTypeOK
  <2>2. QED
    BY <1>12, <1>7, <2>1 DEF StopSlot
<1>13. ASSUME NEW w \in Workers, At(w)' \notin {"get", "spawn"}, Others(w),
              UNCHANGED <<slot, shutdowns, mapped>>
       PROVE  KnownOK'
  BY <1>13, <1>6
<1>14. ASSUME NEW w \in Workers, task' = [task EXCEPT ![w] = NoTask],
              UNCHANGED <<slot, shutdowns, mapped>>
       PROVE  KnownOK'
  BY <1>14, <1>13, EndsFacts
<1>15. ASSUME NEW w \in Workers, Check(w) PROVE KnownOK'
  BY <1>15, <1>13, CheckFacts DEF Check, pool
<1>16. ASSUME NEW w \in Workers, Register(w) PROVE KnownOK'
  BY <1>16, <1>13, GoesFacts DEF Register, pool
<1>17. ASSUME NEW w \in Workers, Write(w) PROVE KnownOK'
  BY <1>17, <1>13, GoesFacts DEF Write, pool
<1>18. ASSUME NEW w \in Workers, ReceiveDied(w) PROVE KnownOK'
  BY <1>18, <1>13, GoesFacts DEF ReceiveDied, pool
<1>19. ASSUME NEW w \in Workers, NEW j \in Jobs, Take(w, j) PROVE KnownOK'
  BY <1>19, <1>13, GivenFacts DEF Take, pool
<1>20. CASE Next
 <2>1. CASE Shutdown
   BY <2>1, <1>7 DEF Shutdown
 <2>2. QED
   BY <2>1, <1>20, <1>2, <1>7, <1>8, <1>9, <1>10, <1>11, <1>12, <1>14, <1>15, <1>16,
      <1>17, <1>18, <1>19
     DEF Next, WorkerSteps, TemplateSteps, ReaderSteps, Begin, Side, Forks, Reaps,
         EndOfInput, Routes, Drains, JobEnds, JobReads, Dies, StagingFails, SpawnFails,
         Receive, Sandboxed, Fallback, Ends, pool
<1>21. QED
  BY <1>7, <1>20 DEF vars, pool

SpawnerOK(w) ==
  /\ lock[task[w].slot] = w
  /\ slot[task[w].slot] = 0 \/ proc[slot[task[w].slot]] = "dead"

(***************************************************************************)
(* Every step keeps SpawnersOK: who spawns has the lock of its slot, and   *)
(* nobody puts a template there meanwhile.                                 *)
(***************************************************************************)
LEMMA SpawnersKeepLocks ==
  TypeOK /\ LocalsOK /\ PoolOK /\ [Next]_vars => SpawnersOK'
<1> SUFFICES ASSUME TypeOK, LocalsOK, PoolOK, [Next]_vars PROVE SpawnersOK'
  OBVIOUS
<1>1. SpawnersOK /\ Grows
  BY ProcGrows DEF PoolOK
<1>2. slot \in [Slots -> 0 .. MaxTemplates] /\ lock \in [Slots -> Workers \cup {Nobody}]
  BY DEF TypeOK, PoolTypeOK
<1>3. ASSUME NEW v \in Workers, task'[v] = task[v], At(v)' = "spawn",
             lock'[task[v].slot] = lock[task[v].slot],
             slot'[task[v].slot] \in {0, slot[task[v].slot]}
      PROVE  SpawnerOK(v)'
  <2>1. At(v) = "spawn"
    BY <1>3 DEF At
  <2>2. SpawnerOK(v)
    BY <2>1, <1>1 DEF SpawnersOK, SpawnerOK
  <2>3. slot[task[v].slot] = 0 \/ slot[task[v].slot] \in Template
    BY <1>2, TaskFacts DEF Template
  <2>4. QED
    BY <1>1, <1>3, <2>2, <2>3 DEF SpawnerOK, Grows
<1> DEFINE Keep == UNCHANGED lock /\ \A s \in Slots : slot'[s] \in {0, slot[s]}
<1>4. ASSUME \A v \in Workers : At(v)' = "spawn" => SpawnerOK(v)' PROVE SpawnersOK'
  BY <1>4 DEF SpawnersOK, SpawnerOK
<1>5. ASSUME NEW w \in Workers, Others(w), Keep, At(w)' # "spawn" PROVE SpawnersOK'
  BY <1>3, <1>4, <1>5, TaskFacts DEF Others
<1>6. ASSUME NEW w \in Workers, Others(w), Keep, task'[w] = task[w] PROVE SpawnersOK'
  BY <1>3, <1>4, <1>6, TaskFacts DEF Others
<1>7. ASSUME UNCHANGED task, Keep PROVE SpawnersOK'
  BY <1>3, <1>4, <1>7, TaskFacts
<1>8. ASSUME NEW w \in Workers, task' = [task EXCEPT ![w] = NoTask], Keep
      PROVE  SpawnersOK'
  BY <1>5, <1>8, EndsFacts
<1>9. CASE Crash
  BY <1>9, CrashFacts DEF Crash, SpawnersOK
<1>10. ASSUME NEW w \in Workers, FindSlot(w) PROVE SpawnersOK'
  BY <1>10, <1>5, FindFacts DEF FindSlot
<1>11. ASSUME NEW w \in Workers, Get(w) PROVE SpawnersOK'
  <2>1. task[w].slot \in Slots /\ slot[task[w].slot] \in 0 .. MaxTemplates
    BY TaskFacts, <1>2
  <2>2. CASE slot[task[w].slot] # 0 /\ Live(slot[task[w].slot])
    <3>1. slot[task[w].slot] \in Template
      BY <2>2, <2>1 DEF Template
    <3>2. QED
      BY <1>11, <2>2, <3>1, <1>5, GetsFacts DEF Get
  <2>3. CASE ~(slot[task[w].slot] # 0 /\ Live(slot[task[w].slot]))
    <3>1. /\ lock[task[w].slot] = Nobody /\ lock' = [lock EXCEPT ![task[w].slot] = w]
          /\ UNCHANGED <<slot, proc>> /\ task'[w].slot = task[w].slot /\ Others(w)
      BY <1>11, <2>3, GoesFacts DEF Get, SameLocals, pipes
    <3>2. slot[task[w].slot] = 0 \/ proc[slot[task[w].slot]] = "dead"
      <4>1. slot[task[w].slot] # 0 => proc[slot[task[w].slot]] \in {"live", "dead"}
        <5>1. slot[task[w].slot] # 0 => slot[task[w].slot] \in Template
          BY <2>1 DEF Template
        <5>2. QED
          BY <2>1, <5>1 DEF PoolOK, SlotsOK, TypeOK, PipesTypeOK
      <4>2. QED
        BY <2>3, <4>1 DEF Live
    <3>3. SpawnerOK(w)'
      BY <3>1, <3>2, <2>1, <1>2 DEF SpawnerOK
    <3>4. ASSUME NEW v \in Workers \ {w}, At(v)' = "spawn" PROVE SpawnerOK(v)'
      <4>1. task'[v] = task[v] /\ At(v) = "spawn" /\ task[v].slot \in Slots
        BY <3>1, <3>4, TaskFacts DEF Others, At
      <4>2. lock[task[v].slot] # Nobody
        BY <4>1, <1>1 DEF SpawnersOK
      <4>3. lock'[task[v].slot] = lock[task[v].slot]
        BY <3>1, <4>1, <4>2, <1>2
      <4>4. QED
        BY <1>3, <3>1, <3>4, <4>1, <4>3
    <3>5. QED
      BY <1>4, <3>3, <3>4
  <2>4. QED
    BY <2>2, <2>3
<1>12. ASSUME NEW w \in Workers, At(w) = "spawn", Others(w), At(w)' # "spawn",
             lock' = [lock EXCEPT ![task[w].slot] = Nobody],
             \A s \in Slots \ {task[w].slot} : slot'[s] = slot[s]
      PROVE SpawnersOK'
  <2>1. ASSUME NEW v \in Workers \ {w}, At(v)' = "spawn" PROVE SpawnerOK(v)'
    <3>1. task'[v] = task[v] /\ At(v) = "spawn" /\ task[v].slot \in Slots
      BY <1>12, <2>1, TaskFacts DEF Others, At
    <3>2. task[v].slot # task[w].slot
      BY <3>1, <1>12, <1>1 DEF SpawnersOK
    <3>3. /\ lock'[task[v].slot] = lock[task[v].slot]
          /\ slot'[task[v].slot] = slot[task[v].slot]
      BY <1>12, <3>1, <3>2, <1>2
    <3>4. QED
      BY <1>3, <2>1, <3>1, <3>3
  <2>2. QED
    BY <1>12, <1>4, <2>1
<1>13. ASSUME NEW w \in Workers, SpawnFails(w) PROVE SpawnersOK'
  BY <1>13, <1>12, EndsFacts DEF SpawnFails, Ends
<1>14. ASSUME NEW w \in Workers, NEW t \in Template, Spawn(w, t) PROVE SpawnersOK'
  <2>1. \A s \in Slots \ {task[w].slot} : slot'[s] = slot[s]
    BY <1>14, <1>2 DEF Spawn
  <2>2. At(w)' = "check" /\ Others(w)
    BY <1>14, GetsFacts DEF Spawn
  <2>3. QED
    BY <1>12, <1>14, <2>1, <2>2 DEF Spawn
<1>15. ASSUME NEW w \in Workers, Drop(w) PROVE SpawnersOK'
  <2>1. Keep
    BY <1>15, <1>2 DEF Drop
  <2>2. At(w)' \in {"idle", "find"} /\ Others(w)
    BY <1>15, AgainFacts DEF Drop
  <2>3. QED
    BY <1>5, <2>1, <2>2
<1>16. ASSUME NEW s \in Slots, StopSlot(s) PROVE SpawnersOK'
  <2>1. Keep
    BY <1>16, <1>2 DEF StopSlot
  <2>2. QED
    BY <1>16, <1>7, <2>1 DEF StopSlot
<1>17. ASSUME NEW w \in Workers, Check(w) PROVE SpawnersOK'
  BY <1>17, <1>5, CheckFacts DEF Check, pool
<1>18. ASSUME NEW w \in Workers, Register(w) PROVE SpawnersOK'
  BY <1>18, <1>5, GoesFacts DEF Register, pool
<1>19. ASSUME NEW w \in Workers, Write(w) PROVE SpawnersOK'
  BY <1>19, <1>5, GoesFacts DEF Write, pool
<1>20. ASSUME NEW w \in Workers, ReceiveDied(w) PROVE SpawnersOK'
  BY <1>20, <1>5, GoesFacts DEF ReceiveDied, pool
<1>21. ASSUME NEW w \in Workers, NEW j \in Jobs, Take(w, j) PROVE SpawnersOK'
  BY <1>21, <1>5, GivenFacts DEF Take, pool
<1>22. CASE Next
  BY <1>22, <1>7, <1>8, <1>9, <1>10, <1>11, <1>13, <1>14, <1>15, <1>16, <1>17, <1>18,
     <1>19, <1>20, <1>21
    DEF Next, WorkerSteps, TemplateSteps, ReaderSteps, Begin, Shutdown, Side, Forks,
        Reaps, EndOfInput, Routes, Drains, JobEnds, JobReads, Dies, StagingFails,
        Receive, Sandboxed, Fallback, Ends, pool
<1>23. QED
  BY <1>7, <1>22 DEF vars, pool

(***************************************************************************)
(* Every step keeps SlotsOK and HomesOK: no template is in two slots, and  *)
(* one that lives is in one. It is the lock that makes it so: a slot is    *)
(* written when the template in it is dead, or is killed by the same step. *)
(***************************************************************************)
LEMMA TemplatesStayHome ==
  TypeOK /\ LocalsOK /\ PoolOK /\ [Next]_vars => SlotsOK' /\ HomesOK'
<1> SUFFICES ASSUME TypeOK, LocalsOK, PoolOK, [Next]_vars PROVE SlotsOK' /\ HomesOK'
  OBVIOUS
<1>1. SlotsOK /\ HomesOK /\ SpawnersOK /\ Grows
  BY ProcGrows DEF PoolOK
<1>2. /\ slot \in [Slots -> 0 .. MaxTemplates]
      /\ proc \in [Template -> {"none", "live", "dead"}]
  BY DEF TypeOK, PoolTypeOK, PipesTypeOK
<1>3. \A s \in Slots : slot[s] # 0 => slot[s] \in Template
  BY <1>2 DEF Template
<1>4. ASSUME \A s \in Slots : slot'[s] \in {0, slot[s]},
             session' # "gone" => session # "gone",
             \A t \in Template : Live(t)' => Live(t),
             \A s \in Slots : slot'[s] # slot[s] => proc'[slot[s]] # "live"
      PROVE  SlotsOK' /\ HomesOK'
  <2>1. SlotsOK'
    BY <1>1, <1>4, <1>3 DEF SlotsOK, Grows
  <2>2. HomesOK'
    BY <1>1, <1>4 DEF HomesOK, Live
  <2>3. QED
    BY <2>1, <2>2
<1>5. ASSUME UNCHANGED slot, session' # "gone" => session # "gone",
             \A t \in Template : Live(t)' => Live(t)
      PROVE  SlotsOK' /\ HomesOK'
  BY <1>4, <1>5
<1>6. ASSUME UNCHANGED <<slot, session, proc>> PROVE SlotsOK' /\ HomesOK'
  BY <1>5, <1>6 DEF Live
<1>7. ASSUME NEW t \in Template, proc' = [proc EXCEPT ![t] = "dead"],
             UNCHANGED <<slot, session>>
      PROVE  SlotsOK' /\ HomesOK'
  BY <1>5, <1>7, <1>2 DEF Live
<1>8. CASE Crash
  BY <1>8 DEF Crash, SlotsOK, HomesOK
<1>9. CASE Begin
  BY <1>9, <1>5 DEF Begin, pipes, pool, Live
<1>10. ASSUME NEW w \in Workers, NEW t \in Template, Spawn(w, t)
       PROVE  SlotsOK' /\ HomesOK'
  <2> DEFINE s == task[w].slot
  <2>1. s \in Slots /\ proc[t] = "none" /\ At(w) = "spawn"
    BY <1>10, TaskFacts DEF Spawn
  <2>2. slot[s] = 0 \/ proc[slot[s]] = "dead"
    BY <2>1, <1>1 DEF SpawnersOK
  <2>3. /\ slot' = [slot EXCEPT ![s] = t]
        /\ proc' = [proc EXCEPT ![t] = "live"]
        /\ session' = session
    BY <1>10 DEF Spawn, rest
  <2>4. \A r \in Slots : slot[r] # t
    BY <2>1, <1>1 DEF SlotsOK, Template
  <2>5. t # 0
    BY DEF Template
  <2>6. SlotsOK'
    BY <1>1, <1>2, <1>3, <2>1, <2>3, <2>4, <2>5 DEF SlotsOK, Grows
  <2>7. HomesOK'
    BY <1>1, <1>2, <2>1, <2>2, <2>3, <2>5 DEF HomesOK, Live, Template
  <2>8. QED
    BY <2>6, <2>7
<1>11. ASSUME NEW w \in Workers, Drop(w) PROVE SlotsOK' /\ HomesOK'
  <2>1. Mine(w) \in Template /\ session' = session
    BY <1>11 DEF Drop, LocalsOK, LocalOK, HasTemplate, rest
  <2>2. proc' = [proc EXCEPT ![Mine(w)] = "dead"]
    BY <1>11 DEF Drop, Killed
  <2>3. \A r \in Slots : slot'[r] = slot[r] \/ (slot'[r] = 0 /\ slot[r] = Mine(w))
    BY <1>11, <1>2 DEF Drop
  <2>4. \A t \in Template : Live(t)' => Live(t)
    BY <2>1, <2>2, <1>2 DEF Live
  <2>5. proc'[Mine(w)] = "dead"
    BY <2>1, <2>2, <1>2
  <2>6. QED
    BY <1>4, <2>1, <2>3, <2>4, <2>5
<1>12. ASSUME NEW s \in Slots, StopSlot(s) PROVE SlotsOK' /\ HomesOK'
  <2>1. session' = session /\ slot' = [slot EXCEPT ![s] = 0]
    BY <1>12 DEF StopSlot, rest
  <2>2. CASE slot[s] = 0
    BY <1>12, <1>6, <1>2, <2>1, <2>2 DEF StopSlot, pipes
  <2>3. CASE slot[s] # 0
    <3>1. slot[s] \in Template
      BY <2>3, <1>3
    <3>2. proc' = [proc EXCEPT ![slot[s]] = "dead"]
      BY <1>12, <2>3 DEF StopSlot, Killed
    <3>3. \A t \in Template : Live(t)' => Live(t)
      BY <3>1, <3>2, <1>2 DEF Live
    <3>4. \A r \in Slots : slot'[r] # slot[r] => proc'[slot[r]] # "live"
      BY <3>1, <3>2, <2>1, <1>2
    <3>5. QED
      BY <1>4, <1>2, <2>1, <3>3, <3>4 DEF Live
  <2>4. QED
    BY <2>2, <2>3
<1>13. ASSUME NEW t \in Template, ReapUnheard(t), UNCHANGED <<slot, session>>
       PROVE  SlotsOK' /\ HomesOK'
  BY <1>13, <1>7 DEF ReapUnheard
<1>14. ASSUME NEW t \in Template, HangUp(t), UNCHANGED <<slot, session>>
       PROVE  SlotsOK' /\ HomesOK'
  BY <1>14, <1>7 DEF HangUp
<1>15. ASSUME NEW t \in Template, Die(t), UNCHANGED <<slot, session>>
       PROVE  SlotsOK' /\ HomesOK'
  BY <1>15, <1>7 DEF Die, Killed
<1>16. CASE Next
  BY <1>16, <1>6, <1>8, <1>9, <1>10, <1>11, <1>12, <1>13, <1>14, <1>15
    DEF Next, WorkerSteps, TemplateSteps, ReaderSteps, Shutdown, Side, Forks, Fork,
        Reaps, Reap, EndOfInput, Routes, Route, Drains, Drain, JobEnds, ChildEnds,
        JobReads, ChildReads, Dies, StagingFails, FindSlot, Get, SpawnFails, Check,
        Register, Write, Receive, ReceiveDied, Sandboxed, Fallback, Take, Ends, pool,
        rest, pipes
<1>17. QED
  BY <1>6, <1>16 DEF vars, pool, rest, pipes

Kept(v) ==
  task'[v] = task[v] /\ sent'[v] = sent[v] /\ taken'[v] = taken[v] /\ mail'[v] = mail[v]
Alone(w) == \A v \in Workers \ {w} : Kept(v)

Steady(w) ==
  /\ At(w) = "receive" => mail[w] # "none"
  /\ At(w) \notin {"register", "write", "receive"} => UNCHANGED mail
  /\ Alone(w)
  /\ session' = session
  /\ UNCHANGED <<running, stdout>>
  /\ \A t \in Template : /\ zombies'[t] \in {zombies[t], {}}
                         /\ proc'[t] = "dead" => proc[t] = "dead" \/ zombies'[t] = {}

(***************************************************************************)
(* What the step of a worker leaves alone: every other worker, and all     *)
(* that children and templates have written. A worker that takes a step    *)
(* does not wait for an answer.                                            *)
(***************************************************************************)
LEMMA WorkerFacts ==
  ASSUME TypeOK, NEW w \in Workers, WorkerSteps(w) \/ \E j \in Jobs : Take(w, j)
  PROVE  Steady(w)
<1>1. /\ taken \in [Workers -> 0 .. MaxJobs]
      /\ sent \in [Workers -> 0 .. 2 * MaxJobs]
      /\ mail \in [Workers -> {"none", "ok", "failed", "died"}]
      /\ zombies \in [Template -> SUBSET Exits]
      /\ proc \in [Template -> {"none", "live", "dead"}]
  BY DEF TypeOK, WorkersTypeOK, PipesTypeOK
<1>2. ASSUME At(w) # "receive", Others(w),
             UNCHANGED <<sent, taken, mail, session, running, stdout, zombies>>,
             \A t \in Template : proc'[t] = "dead" => proc[t] = "dead" PROVE Steady(w)
  <2>1. Alone(w)
    BY <1>2 DEF Alone, Kept, Others
  <2>2. QED
    BY <1>2, <2>1 DEF Steady
<1>3. ASSUME At(w) # "receive", task' = [task EXCEPT ![w] = NoTask],
             UNCHANGED <<sent, taken, mail, session, running, stdout, zombies>>,
             \A t \in Template : proc'[t] = "dead" => proc[t] = "dead" PROVE Steady(w)
  BY <1>3, <1>2, EndsFacts
<1>4. ASSUME At(w) # "receive", NEW there, Goes(w, there),
             UNCHANGED <<sent, taken, mail, session, running, stdout, zombies>>,
             \A t \in Template : proc'[t] = "dead" => proc[t] = "dead" PROVE Steady(w)
  BY <1>4, <1>2, GoesFacts
<1>5. CASE StagingFails(w)
  BY <1>5, <1>3 DEF StagingFails, Ends, rest, pipes
<1>6. CASE FindSlot(w)
  BY <1>6, <1>2, FindFacts DEF FindSlot, rest, pipes
<1>7. CASE Get(w)
  <2>1. CASE Goes(w, "spawn")
    BY <1>7, <2>1, <1>4 DEF Get, rest, pipes
  <2>2. CASE ~Goes(w, "spawn")
    <3>1. slot[task[w].slot] \in 0 .. MaxTemplates
      BY TaskFacts DEF TypeOK, PoolTypeOK
    <3>2. slot[task[w].slot] \in Template
      BY <1>7, <2>2, <3>1 DEF Get, Template
    <3>3. QED
      BY <1>7, <2>2, <3>2, <1>2, GetsFacts DEF Get, rest, pipes
  <2>3. QED
    BY <2>1, <2>2
<1>8. CASE SpawnFails(w)
  BY <1>8, <1>3 DEF SpawnFails, Ends, rest, pipes
<1>9. ASSUME NEW t \in Template, Spawn(w, t) PROVE Steady(w)
  <2>1. \A u \in Template : proc'[u] = "dead" => proc[u] = "dead"
    BY <1>9, <1>1 DEF Spawn
  <2>2. QED
    BY <1>9, <2>1, <1>2, GetsFacts DEF Spawn, rest, pipes
<1>10. CASE Check(w)
  BY <1>10, <1>2, CheckFacts DEF Check, rest, pipes
<1>11. CASE Register(w)
  <2>1. Others(w)
    BY <1>11, GoesFacts DEF Register
  <2>2. Alone(w)
    BY <1>11, <1>1, <2>1 DEF Register, Alone, Kept, Others
  <2>3. QED
    BY <1>11, <2>2 DEF Register, rest, Steady
<1>12. CASE Write(w)
  <2>1. PICK there \in {"receive", "drop"} : Goes(w, there)
    BY <1>12 DEF Write
  <2>2. QED
    BY <1>12, <2>1, <1>4 DEF Write, rest
<1>13. CASE Receive(w)
  <2>1. Others(w)
    BY <1>13, EndsFacts DEF Receive, Ends
  <2>2. Alone(w)
    BY <1>13, <2>1 DEF Receive, pipes, Alone, Kept, Others
  <2>3. QED
    BY <1>13, <2>2 DEF Receive, rest, pipes, Codes, Steady
<1>14. CASE ReceiveDied(w)
  <2>1. Others(w)
    BY <1>14, GoesFacts DEF ReceiveDied
  <2>2. Alone(w)
    BY <1>14, <2>1 DEF ReceiveDied, Alone, Kept, Others
  <2>3. QED
    BY <1>14, <2>2 DEF ReceiveDied, rest, Steady
<1>15. CASE Drop(w)
  <2>1. Others(w)
    BY <1>15, AgainFacts DEF Drop
  <2>2. \A t \in Template : /\ zombies'[t] \in {zombies[t], {}}
                         /\ proc'[t] = "dead" => proc[t] = "dead" \/ zombies'[t] = {}
    <3>1. /\ zombies' = [zombies EXCEPT ![Mine(w)] = {}]
          /\ proc' = [proc EXCEPT ![Mine(w)] = "dead"]
      BY <1>15 DEF Drop, Killed
    <3>2. QED
      BY <3>1, <1>1
  <2>3. Alone(w)
    BY <1>15, <2>1 DEF Drop, Killed, Alone, Kept, Others
  <2>4. QED
    BY <1>15, <2>2, <2>3 DEF Drop, Killed, rest, Steady
<1>16. CASE Sandboxed(w)
  BY <1>16, <1>3 DEF Sandboxed, rest, pipes
<1>17. ASSUME NEW how, Fallback(w, how) PROVE Steady(w)
  BY <1>17, <1>3 DEF Fallback, Ends, rest, pipes
<1>18. ASSUME NEW j \in Jobs, Take(w, j) PROVE Steady(w)
  <2>1. Others(w)
    BY <1>18, GivenFacts DEF Take
  <2>2. Alone(w)
    BY <1>18, <1>1, <2>1 DEF Take, pipes, Alone, Kept, Others
  <2>3. QED
    BY <1>18, <2>2 DEF Take, rest, pipes, Steady
<1>19. QED
  BY <1>5, <1>6, <1>7, <1>8, <1>9, <1>10, <1>11, <1>12, <1>13, <1>14, <1>15, <1>16,
     <1>17, <1>18 DEF WorkerSteps

(***************************************************************************)
(* The exits of a template stay awaited while those who wait for them do   *)
(* not move.                                                               *)
(***************************************************************************)
LEMMA ExitKept ==
  ASSUME TypeOK, NEW t \in Template, ExitOK(t),
         \A v \in Workers : At(v) = "receive" /\ Mine(v) = t /\ mail[v] = "none" => Kept(v),
         zombies'[t] \subseteq zombies[t], stdout'[t] \subseteq stdout[t],
         proc'[t] = "dead" => zombies'[t] = {}
  PROVE  ExitOK(t)'
<1>1. \A z \in Exited(t) : z.id[1] \in Workers
  BY DEF TypeOK, PipesTypeOK, Exited, Exits, Ids
<1>2. Exited(t)' \subseteq Exited(t)
  BY DEF Exited
<1>3. \A z \in Exited(t)' : Awaits(z.id[1], t, z.id)'
  <2> TAKE z \in Exited(t)'
  <2>1. z.id[1] \in Workers /\ Awaits(z.id[1], t, z.id)
    BY <1>1, <1>2 DEF ExitOK
  <2>2. Kept(z.id[1])
    BY <2>1 DEF Awaits
  <2>3. QED
    BY <2>1, <2>2 DEF Kept, Awaits, At, Mine, Id
<1>4. QED
  BY <1>2, <1>3 DEF ExitOK

(***************************************************************************)
(* The messages of a template stay awaited while those who wait for them   *)
(* do not move.                                                            *)
(***************************************************************************)
LEMMA MessageKept ==
  ASSUME TypeOK, NEW t \in Template, MessageOK(t),
         \A v \in Workers : At(v) = "receive" /\ Mine(v) = t /\ mail[v] = "none" => Kept(v),
         zombies'[t] \subseteq zombies[t], stdout'[t] \subseteq stdout[t],
         running'[t] = running[t], stdin'[t] = stdin[t]
  PROVE  MessageOK(t)'
<1>1. Exited(t)' \subseteq Exited(t)
  BY DEF Exited
<1>2. ASSUME NEW m \in Messages, Ours(m, t) PROVE Ours(m, t)'
  <2>1. m.id[1] \in Workers
    BY DEF Messages, Ids
  <2>2. Kept(m.id[1])
    BY <1>2, <2>1 DEF Ours, Awaits
  <2>3. QED
    BY <1>2, <2>1, <2>2 DEF Ours, Kept, Awaits, At, Mine, Id, Stage
<1>3. running[t] \subseteq Messages /\ \A i \in DOMAIN stdin[t] : stdin[t][i] \in Messages
  BY ElementOfSeq DEF TypeOK, PipesTypeOK
<1>4. \A m \in running'[t] : Ours(m, t)'
  BY <1>2, <1>3 DEF MessageOK
<1>5. \A i \in DOMAIN stdin'[t] : Ours(stdin[t][i], t)'
  BY <1>2, <1>3 DEF MessageOK
<1>6. QED
  BY <1>1, <1>4, <1>5 DEF MessageOK

(***************************************************************************)
(* Every worker is kept when no worker moves.                              *)
(***************************************************************************)
LEMMA Quiet ==
  ASSUME UNCHANGED <<task, sent, taken, mail>>, NEW v \in Workers
  PROVE  Kept(v)
  BY DEF Kept

(***************************************************************************)
(* Every step keeps ExitsOK. A child that ends puts an exit in the place   *)
(* of its message; a reader takes out the exit it delivers, and that was   *)
(* the only one its worker waits for.                                      *)
(***************************************************************************)
LEMMA ExitsStayAwaited ==
  TypeOK /\ LocalsOK /\ PoolOK /\ TablesOK /\ ExitsOK /\ MessagesOK /\ [Next]_vars
    => ExitsOK'
<1> SUFFICES ASSUME TypeOK, LocalsOK, PoolOK, TablesOK, ExitsOK, MessagesOK,
                    [Next]_vars, session' # "gone", NEW t \in Template
             PROVE  ExitOK(t)'
  BY DEF ExitsOK, Gone
<1>1. CASE Crash
  BY <1>1 DEF Crash
<1> SUFFICES ASSUME session # "gone" PROVE ExitOK(t)'
  <2>1. session = "gone" => session' = "gone" \/ Crash
    BY
      DEF Next, vars, Begin, rest, Shutdown, Crash, StopSlot, WorkerSteps, StagingFails,
          FindSlot, Get, SpawnFails, Spawn, Check, Register, Write, Receive,
          ReceiveDied, Drop, Sandboxed, Fallback, Take, TemplateSteps, ReaderSteps,
          Forks, Reaps, EndOfInput, Routes, Drains, JobEnds, JobReads, Dies, Side
  <2>2. QED
    BY <1>1, <2>1
<1>2. ExitOK(t)
  BY DEF ExitsOK, Gone
<1>3. /\ zombies \in [Template -> SUBSET Exits]
      /\ stdout \in [Template -> SUBSET Exits]
      /\ waiters \in [Template -> SUBSET Ids]
      /\ running \in [Template -> SUBSET Messages]
      /\ proc \in [Template -> {"none", "live", "dead"}]
      /\ mail \in [Workers -> {"none", "ok", "failed", "died"}]
  BY DEF TypeOK, PipesTypeOK
<1>4. ASSUME NEW w \in Workers, WorkerSteps(w) \/ \E j \in Jobs : Take(w, j)
      PROVE  ExitOK(t)'
  <2>1. Steady(w)
    BY <1>4, WorkerFacts
  <2>2. \A v \in Workers : At(v) = "receive" /\ Mine(v) = t /\ mail[v] = "none" => Kept(v)
    BY <2>1 DEF Steady, Alone
  <2>3. /\ zombies'[t] \subseteq zombies[t] /\ stdout'[t] \subseteq stdout[t]
        /\ proc'[t] = "dead" => zombies'[t] = {}
    BY <2>1, <1>2 DEF Steady, ExitOK
  <2>4. QED
    BY <2>2, <2>3, <1>2, ExitKept
<1>5. ASSUME UNCHANGED <<task, sent, taken, mail>>, zombies'[t] \subseteq zombies[t],
             stdout'[t] \subseteq stdout[t],
         proc'[t] = "dead" => zombies'[t] = {} PROVE ExitOK(t)'
  BY <1>2, <1>5, Quiet, ExitKept
<1>6. ASSUME UNCHANGED <<task, sent, taken, mail, zombies, stdout, proc>>
      PROVE  ExitOK(t)'
  BY <1>2, <1>5, <1>6 DEF ExitOK
<1>7. ASSUME NEW u \in Template, proc' = [proc EXCEPT ![u] = "dead"],
             zombies' = [zombies EXCEPT ![u] = {}],
             UNCHANGED <<task, sent, taken, mail, stdout>> PROVE ExitOK(t)'
  BY <1>2, <1>5, <1>7, <1>3 DEF ExitOK
<1>8. ASSUME NEW s \in Slots, StopSlot(s) PROVE ExitOK(t)'
  <2>1. slot[s] \in 0 .. MaxTemplates
    BY DEF TypeOK, PoolTypeOK
  <2>2. CASE slot[s] = 0
    BY <1>8, <1>6, <2>2 DEF StopSlot, pipes
  <2>3. CASE slot[s] # 0
    <3>1. slot[s] \in Template
      BY <2>1, <2>3 DEF Template
    <3>2. QED
      BY <1>8, <2>3, <3>1, <1>7 DEF StopSlot, Killed
  <2>4. QED
    BY <2>2, <2>3
<1>9. ASSUME NEW u \in Template, NEW z \in zombies[u], Reap(u, z),
             UNCHANGED <<task, sent, taken>>
      PROVE  ExitOK(t)'
  <2>1. proc[u] = "live" /\ UNCHANGED <<proc, mail>>
    BY <1>9 DEF Reap, Live
  <2>2. CASE u # t
    <3>1. zombies'[t] = zombies[t] /\ stdout'[t] = stdout[t]
      BY <1>9, <2>2 DEF Reap
    <3>2. QED
      BY <1>9, <2>1, <3>1, <1>5, <1>2 DEF ExitOK
  <2>3. CASE u = t
    <3>1. zombies'[t] = zombies[t] \ {z} /\ stdout'[t] = stdout[t] \cup {z}
      BY <1>9, <1>3, <2>3 DEF Reap
    <3>2. Exited(t)' = Exited(t)
      BY <3>1, <2>3 DEF Exited
    <3>3. \A y : Awaits(y.id[1], t, y.id) => Awaits(y.id[1], t, y.id)'
      BY <1>9, <2>1 DEF Awaits, At, Mine, Id
    <3>4. QED
      BY <1>2, <2>1, <2>3, <3>1, <3>2, <3>3 DEF ExitOK
  <2>4. QED
    BY <2>2, <2>3
<1>10. ASSUME NEW u \in Template, NEW c \in running[u], NEW code \in Codes, ChildEnds(u,
              c, code), UNCHANGED <<task, sent, taken>>
       PROVE  ExitOK(t)'
  <2> DEFINE z == [id |-> c.id, code |-> code]
  <2>1. UNCHANGED <<proc, mail, stdout>>
    BY <1>10 DEF ChildEnds
  <2>2. CASE u # t \/ ~Live(u)
    <3>1. zombies'[t] = zombies[t]
      BY <1>10, <2>2 DEF ChildEnds
    <3>2. QED
      BY <1>10, <2>1, <3>1, <1>5, <1>2 DEF ExitOK
  <2>3. CASE u = t /\ Live(t)
    <3>1. zombies'[t] = zombies[t] \cup {z}
      BY <1>10, <1>3, <2>3 DEF ChildEnds
    <3>2. /\ Exited(t)' = Exited(t) \cup {z}
      BY <3>1, <2>1 DEF Exited
    <3>3. \A y : Awaits(y.id[1], t, y.id) => Awaits(y.id[1], t, y.id)'
      BY <1>10, <2>1 DEF Awaits, At, Mine, Id
    <3>4. MessageOK(t)
      BY <2>3 DEF MessagesOK, Gone
    <3>5. Awaits(z.id[1], t, z.id) /\ \A y \in Exited(t) : y.id # z.id
      BY <3>4, <2>3 DEF MessageOK, Ours
    <3>6. proc'[t] # "dead"
      BY <2>3, <2>1 DEF Live
    <3>7. zombies'[t] \cap stdout'[t] = {}
      BY <3>1, <3>5, <2>1, <1>2 DEF ExitOK, Exited
    <3>8. \A y, x \in Exited(t)' : y.id = x.id => y = x
      BY <3>2, <3>5, <1>2 DEF ExitOK
    <3>9. \A y \in Exited(t)' : Awaits(y.id[1], t, y.id)'
      BY <3>2, <3>3, <3>5, <1>2 DEF ExitOK
    <3>10. QED
      BY <3>6, <3>7, <3>8, <3>9 DEF ExitOK
  <2>4. QED
    BY <2>2, <2>3
<1>11. ASSUME NEW u \in Template, NEW z \in stdout[u], Route(u, z),
              UNCHANGED <<task, sent, taken>>
       PROVE  ExitOK(t)'
  <2>1. UNCHANGED <<proc, zombies>> /\ stdout' = [stdout EXCEPT ![u] = @ \ {z}]
    BY <1>11 DEF Route
  <2>2. ExitOK(u) /\ z \in Exited(u)
    BY DEF ExitsOK, Gone, Exited
  <2>3. Awaits(z.id[1], u, z.id) /\ z.id[1] \in Workers
    BY <2>2, <1>3 DEF ExitOK, Exits, Ids
  <2>4. zombies'[t] \subseteq zombies[t] /\ stdout'[t] \subseteq stdout[t]
    BY <2>1, <1>3
  <2>5. \A v \in Workers \ {z.id[1]} : mail'[v] = mail[v]
    BY <1>11, <1>3, <2>3 DEF Route
  <2>6. CASE u # t
    <3>1. Mine(z.id[1]) # t
      BY <2>3, <2>6 DEF Awaits
    <3>2. \A v \in Workers : At(v) = "receive" /\ Mine(v) = t /\ mail[v] = "none" => Kept(v)
      BY <1>11, <2>5, <3>1 DEF Kept
    <3>3. QED
      BY <2>1, <2>4, <3>2, <1>2, ExitKept DEF ExitOK
  <2>7. CASE u = t
    <3>1. Exited(t)' = Exited(t) \ {z}
      BY <2>1, <2>2, <2>7, <1>3 DEF Exited, ExitOK
    <3>2. ASSUME NEW y \in Exited(t)' PROVE Awaits(y.id[1], t, y.id)'
      <4>1. Awaits(y.id[1], t, y.id) /\ y.id # z.id /\ y.id[1] \in Workers
        BY <3>1, <3>2, <2>2, <2>7, <1>2, <1>3 DEF ExitOK, Exited, Exits, Ids
      <4>2. y.id[1] # z.id[1]
        BY <4>1, <2>3 DEF Awaits, Id
      <4>3. QED
        BY <4>1, <4>2, <2>5, <1>11 DEF Awaits, At, Mine, Id
    <3>3. QED
      BY <3>1, <3>2, <2>1, <2>4, <1>2 DEF ExitOK
  <2>8. QED
    BY <2>6, <2>7
<1>12. ASSUME NEW u \in Template, Drain(u), UNCHANGED <<task, sent, taken>>
       PROVE  ExitOK(t)'
  <2>1. UNCHANGED <<proc, zombies, stdout>>
    BY <1>12 DEF Drain
  <2>2. Exited(u) = {}
    BY <1>12, <1>3 DEF Drain, ExitsOK, ExitOK, Exited, Gone
  <2>3. CASE u = t
    <3>1. Exited(t)' = {}
      BY <2>1, <2>2, <2>3 DEF Exited
    <3>2. QED
      BY <2>1, <3>1, <1>2 DEF ExitOK, Exited
  <2>4. CASE u # t
    <3>1. ASSUME NEW v \in Workers, At(v) = "receive" /\ Mine(v) = t /\ mail[v] = "none"
          PROVE  Kept(v)
      <4>1. \A id \in waiters[u] : Mine(id[1]) = u
        BY DEF TablesOK, TableOK, Gone
      <4>2. ~ \E id \in waiters[u] : id[1] = v
        BY <4>1, <3>1, <2>4
      <4>3. mail'[v] = mail[v]
        BY <1>12, <4>2 DEF Drain
      <4>4. QED
        BY <1>12, <4>3 DEF Kept
    <3>2. QED
      BY <2>1, <3>1, <1>2, ExitKept DEF ExitOK
  <2>5. QED
    BY <2>3, <2>4
<1>13. ASSUME NEW u \in Template, ReapUnheard(u) \/ HangUp(u) \/ Die(u),
              UNCHANGED <<task, sent, taken>>
       PROVE  ExitOK(t)'
  BY <1>13, <1>7 DEF ReapUnheard, HangUp, Die, Killed
<1>14. CASE Next
  BY <1>14, <1>1, <1>4, <1>6, <1>8, <1>9, <1>10, <1>11, <1>12, <1>13
    DEF Next, TemplateSteps, ReaderSteps, Begin, Shutdown, Side, Forks, Fork, Reaps,
        EndOfInput, Routes, Drains, JobEnds, JobReads, ChildReads, Dies, pool, rest,
        pipes
<1>15. QED
  BY <1>6, <1>14 DEF vars, pool, rest, pipes

(***************************************************************************)
(* A coordinator that was killed does not come back.                       *)
(***************************************************************************)
LEMMA StaysGone ==
  [Next]_vars /\ session = "gone" => session' = "gone"
  BY
    DEF Next, vars, Begin, rest, Shutdown, Crash, StopSlot, WorkerSteps, StagingFails,
        FindSlot, Get, SpawnFails, Spawn, Check, Register, Write, Receive, ReceiveDied,
        Drop, Sandboxed, Fallback, Take, TemplateSteps, ReaderSteps, Forks, Reaps,
        EndOfInput, Routes, Drains, JobEnds, JobReads, Dies, Side

(***************************************************************************)
(* Nothing is in the pipes of a template that was not spawned.             *)
(***************************************************************************)
LEMMA NothingBeforeSpawn ==
  TypeOK /\ LocalsOK /\ PoolOK /\ Fresh /\ [Next]_vars => Fresh'
<1> SUFFICES ASSUME TypeOK, LocalsOK, PoolOK, Fresh, [Next]_vars, NEW t \in Template,
                    proc'[t] = "none"
             PROVE  /\ stdin'[t] = << >>
                    /\ running'[t] = {}
                    /\ zombies'[t] = {}
                    /\ stdout'[t] = {}
  BY DEF Fresh
<1> DEFINE Empty == stdin'[t] = << >> /\ running'[t] = {} /\ zombies'[t] = {} /\ stdout'[t] = {}
<1>1. proc[t] = "none"
  BY ProcGrows DEF Grows
<1>2. stdin[t] = << >> /\ running[t] = {} /\ zombies[t] = {} /\ stdout[t] = {}
  BY <1>1 DEF Fresh
<1>3. zombies \in [Template -> SUBSET Exits] /\ stdout \in [Template -> SUBSET Exits]
      /\ running \in [Template -> SUBSET Messages] /\ stdin \in [Template -> Seq(Messages)]
  BY DEF TypeOK, PipesTypeOK
<1>4. CASE UNCHANGED <<stdin, running, zombies, stdout>>
  BY <1>4, <1>2
<1>5. ASSUME NEW u \in Template, zombies' = [zombies EXCEPT ![u] = {}],
             UNCHANGED <<stdin, running, stdout>>
      PROVE  Empty
  BY <1>5, <1>2, <1>3
<1>6. ASSUME NEW s \in Slots, StopSlot(s) PROVE Empty
  <2>1. slot[s] \in 0 .. MaxTemplates
    BY DEF TypeOK, PoolTypeOK
  <2>2. CASE slot[s] = 0
    BY <1>6, <1>4, <2>2 DEF StopSlot, pipes
  <2>3. CASE slot[s] # 0
    <3>1. slot[s] \in Template
      BY <2>1, <2>3 DEF Template
    <3>2. QED
      BY <1>6, <2>3, <3>1, <1>5 DEF StopSlot, Killed
  <2>4. QED
    BY <2>2, <2>3
<1>7. ASSUME NEW w \in Workers, Write(w) PROVE Empty
  <2>1. Mine(w) # t
    BY <1>7, <1>1 DEF Write, LocalsOK, LocalOK, HasTemplate
  <2>2. stdin'[t] = stdin[t]
    BY <1>7, <2>1, <1>3 DEF Write
  <2>3. QED
    BY <1>7, <2>2, <1>2 DEF Write
<1>8. ASSUME NEW w \in Workers, Drop(w) PROVE Empty
  <2>1. Mine(w) \in Template
    BY <1>8 DEF Drop, LocalsOK, LocalOK, HasTemplate
  <2>2. QED
    BY <1>8, <2>1, <1>5 DEF Drop, Killed
<1>9. CASE Crash
  BY <1>9, <1>2 DEF Crash, Unread
<1>10. ASSUME NEW u \in Template, Fork(u) PROVE Empty
  <2>1. u # t
    BY <1>10, <1>1 DEF Fork, Live
  <2>2. QED
    BY <1>10, <2>1, <1>2, <1>3 DEF Fork
<1>11. ASSUME NEW u \in Template, NEW z \in zombies[u], Reap(u, z) PROVE Empty
  <2>1. u # t
    BY <1>11, <1>1 DEF Reap, Live
  <2>2. QED
    BY <1>11, <2>1, <1>2, <1>3 DEF Reap
<1>12. ASSUME NEW u \in Template, HangUp(u) PROVE Empty
  <2>1. u # t
    BY <1>12, <1>1 DEF HangUp, Live
  <2>2. QED
    BY <1>12, <2>1, <1>2, <1>3 DEF HangUp
<1>13. ASSUME NEW u \in Template, NEW c \in running[u], NEW code \in Codes, ChildEnds(u,
              c, code)
       PROVE  Empty
  <2>1. u # t
    BY <1>13, <1>2
  <2>2. QED
    BY <1>13, <2>1, <1>2, <1>3 DEF ChildEnds
<1>14. ASSUME NEW u \in Template, NEW c \in running[u], ChildReads(u, c) PROVE Empty
  <2>1. u # t
    BY <1>14, <1>2
  <2>2. QED
    BY <1>14, <2>1, <1>2, <1>3 DEF ChildReads
<1>15. ASSUME NEW u \in Template, NEW z \in stdout[u], Route(u, z) PROVE Empty
  <2>1. u # t
    BY <1>15, <1>2
  <2>2. QED
    BY <1>15, <2>1, <1>2, <1>3 DEF Route
<1>16. ASSUME NEW u \in Template, ReapUnheard(u) \/ Die(u) PROVE Empty
  BY <1>16, <1>5 DEF ReapUnheard, Die, Killed
<1>17. CASE Next
  BY <1>17, <1>4, <1>6, <1>7, <1>8, <1>9, <1>10, <1>11, <1>12, <1>13, <1>14, <1>15,
     <1>16
    DEF Next, WorkerSteps, TemplateSteps, ReaderSteps, Begin, Shutdown, Side, Forks,
        Reaps, EndOfInput, Routes, Drains, Drain, JobEnds, JobReads, Dies, StagingFails,
        FindSlot, Get, SpawnFails, Spawn, Check, Register, Receive, ReceiveDied,
        Sandboxed, Fallback, Take, pipes
<1>18. QED
  BY <1>4, <1>17 DEF vars, pipes

(***************************************************************************)
(* Every step keeps TablesOK: a table of waiters holds ids of dispatches   *)
(* under way on that template, which have no answer yet.                   *)
(***************************************************************************)
LEMMA TablesStayRight ==
  TypeOK /\ LocalsOK /\ TablesOK /\ ExitsOK /\ [Next]_vars => TablesOK'
<1> SUFFICES ASSUME TypeOK, LocalsOK, TablesOK, ExitsOK, [Next]_vars, session' # "gone",
                    NEW t \in Template
             PROVE  TableOK(t)'
  BY DEF TablesOK, Gone
<1>1. TableOK(t) /\ session # "gone"
  BY StaysGone DEF TablesOK, Gone
<1>2. waiters \in [Template -> SUBSET Ids] /\ stdout \in [Template -> SUBSET Exits]
      /\ mail \in [Workers -> {"none", "ok", "failed", "died"}]
      /\ sent \in [Workers -> 0 .. 2 * MaxJobs]
  BY DEF TypeOK, PipesTypeOK, WorkersTypeOK
<1>3. \A id \in waiters[t] : id[1] \in Workers /\ id = <<id[1], id[2]>>
  BY <1>2 DEF Ids
<1>4. ASSUME waiters'[t] \subseteq waiters[t], \A id \in waiters'[t] : Kept(id[1])
      PROVE  TableOK(t)'
  BY <1>1, <1>3, <1>4 DEF TableOK, Kept, At, Mine, Id
<1>5. CASE UNCHANGED <<task, sent, taken, mail, waiters>>
  BY <1>5, <1>3, <1>4, Quiet
<1>6. ASSUME NEW w \in Workers, Alone(w), waiters'[t] \subseteq waiters[t],
             \A id \in waiters'[t] : id[1] # w
      PROVE  TableOK(t)'
  BY <1>6, <1>3, <1>4 DEF Alone
<1>7. ASSUME NEW w \in Workers, WorkerSteps(w) \/ \E j \in Jobs : Take(w, j),
             UNCHANGED waiters, At(w) \notin {"write", "receive"} \/ mail[w] # "none"
      PROVE TableOK(t)'
  <2>1. Alone(w)
    BY <1>7, WorkerFacts DEF Steady
  <2>2. \A id \in waiters[t] : id[1] # w
    BY <1>1, <1>7 DEF TableOK
  <2>3. QED
    BY <1>6, <1>7, <2>1, <2>2
<1>8. ASSUME NEW w \in Workers, Register(w) PROVE TableOK(t)'
  <2>1. Alone(w)
    BY <1>8, WorkerFacts DEF Steady, WorkerSteps
  <2>2. /\ At(w) = "register" /\ At(w)' = "write" /\ Mine(w)' = Mine(w)
    BY <1>8, GoesFacts DEF Register, SameLocals
  <2>3. /\ sent'[w] = sent[w] + 1 /\ mail'[w] = "none"
    BY <1>8, <1>2 DEF Register
  <2>4. \A id \in waiters[t] : id[1] # w
    BY <1>1, <2>2 DEF TableOK
  <2>5. CASE Mine(w) # t
    <3>1. waiters'[t] = waiters[t]
      BY <1>8, <2>5, <1>2 DEF Register
    <3>2. QED
      BY <1>6, <2>1, <2>4, <3>1
  <2>6. CASE Mine(w) = t
    <3>1. waiters'[t] = waiters[t] \cup {<<w, sent[w] + 1>>}
      BY <1>8, <2>6, <1>2 DEF Register
    <3>2. \A id \in waiters[t] : Kept(id[1])
      BY <2>1, <2>4, <1>3 DEF Alone
    <3>3. \A id \in waiters[t] :
            /\ At(id[1])' \in {"write", "receive"} /\ Mine(id[1])' = t
            /\ id = Id(id[1])' /\ mail'[id[1]] = "none"
      BY <1>1, <3>2 DEF TableOK, Kept, At, Mine, Id
    <3>4. Id(w)' = <<w, sent[w] + 1>>
      BY <2>3 DEF Id
    <3>5. QED
      BY <3>1, <3>3, <3>4, <2>2, <2>3, <2>6 DEF TableOK
  <2>7. QED
    BY <2>5, <2>6
<1>9. ASSUME NEW w \in Workers, Write(w) PROVE TableOK(t)'
  <2>1. Alone(w)
    BY <1>9, WorkerFacts DEF Steady, WorkerSteps
  <2>2. UNCHANGED <<sent, mail, proc>>
    BY <1>9 DEF Write
  <2>3. CASE Readable(Mine(w))
    <3>1. waiters' = waiters /\ At(w)' = "receive" /\ Mine(w)' = Mine(w)
      BY <1>9, <2>3, GoesFacts DEF Write, SameLocals
    <3>2. \A id \in waiters[t] : At(id[1])' \in {"write", "receive"} /\ Mine(id[1])' = t
      <4> TAKE id \in waiters[t]
      <4>1. CASE id[1] = w
        BY <4>1, <3>1, <1>1 DEF TableOK
      <4>2. CASE id[1] # w
        <5>1. Kept(id[1])
          BY <4>2, <2>1, <1>3 DEF Alone
        <5>2. QED
          BY <5>1, <1>1 DEF TableOK, Kept, At, Mine
      <4>3. QED
        BY <4>1, <4>2
    <3>3. QED
      BY <1>1, <2>2, <3>1, <3>2 DEF TableOK, Id
  <2>4. CASE ~Readable(Mine(w))
    <3>1. waiters' = [waiters EXCEPT ![Mine(w)] = @ \ {Id(w)}]
      BY <1>9, <2>4 DEF Write
    <3>2. waiters'[t] \subseteq waiters[t]
      BY <3>1, <1>2
    <3>3. \A id \in waiters'[t] : id[1] # w
      <4> SUFFICES ASSUME NEW id \in waiters'[t], id[1] = w PROVE FALSE
        OBVIOUS
      <4>1. Mine(w) = t /\ id = Id(w)
        BY <3>2, <1>1 DEF TableOK
      <4>2. QED
        BY <4>1, <3>1, <1>2
    <3>4. QED
      BY <1>6, <2>1, <3>2, <3>3
  <2>5. QED
    BY <2>3, <2>4
<1>10. ASSUME NEW w \in Workers, ReceiveDied(w) PROVE TableOK(t)'
  <2>1. Alone(w)
    BY <1>10, WorkerFacts DEF Steady, WorkerSteps
  <2>2. waiters'[t] \subseteq waiters[t]
    BY <1>10, <1>2 DEF ReceiveDied
  <2>3. \A id \in waiters[t] : id[1] # w
    BY <1>10, <1>1 DEF TableOK, ReceiveDied
  <2>4. QED
    BY <1>6, <2>1, <2>2, <2>3
<1>11. ASSUME NEW u \in Template, NEW z \in stdout[u], Route(u, z),
              UNCHANGED <<task, sent, taken>>
       PROVE  TableOK(t)'
  <2>1. CASE z.id \notin waiters[u]
    BY <1>5, <1>11, <2>1 DEF Route
  <2>2. CASE z.id \in waiters[u]
    <3>1. /\ waiters' = [waiters EXCEPT ![u] = @ \ {z.id}]
          /\ mail' = [mail EXCEPT ![z.id[1]] = z.code]
      BY <1>11, <2>2 DEF Route
    <3>2. waiters'[t] \subseteq waiters[t]
      BY <3>1, <1>2
    <3>3. TableOK(u)
      BY <1>1 DEF TablesOK, Gone
    <3>4. Mine(z.id[1]) = u /\ z.id = Id(z.id[1])
      BY <2>2, <3>3 DEF TableOK
    <3>5. \A id \in waiters'[t] : id[1] # z.id[1]
      <4> SUFFICES ASSUME NEW id \in waiters'[t], id[1] = z.id[1] PROVE FALSE
        OBVIOUS
      <4>1. Mine(id[1]) = t /\ id = Id(id[1])
        BY <3>2, <1>1 DEF TableOK
      <4>2. t = u /\ id = z.id
        BY <4>1, <3>4
      <4>3. QED
        BY <4>2, <3>1, <1>2
    <3>6. \A id \in waiters'[t] : mail'[id[1]] = mail[id[1]]
      BY <3>1, <3>2, <3>5, <1>2, <1>3
    <3>7. QED
      BY <1>11, <1>4, <3>2, <3>6 DEF Kept
  <2>3. QED
    BY <2>1, <2>2
<1>12. ASSUME NEW u \in Template, Drain(u), UNCHANGED <<task, sent, taken>>
       PROVE  TableOK(t)'
  <2>1. CASE u = t
    <3>1. waiters'[t] = {}
      BY <1>12, <2>1, <1>2 DEF Drain
    <3>2. QED
      BY <3>1 DEF TableOK
  <2>2. CASE u # t
    <3>1. waiters'[t] = waiters[t]
      BY <1>12, <2>2, <1>2 DEF Drain
    <3>2. ASSUME NEW id \in waiters[t] PROVE Kept(id[1])
      <4>1. \A x \in waiters[u] : Mine(x[1]) = u
        BY <1>1 DEF TablesOK, TableOK, Gone
      <4>2. Mine(id[1]) = t /\ id[1] \in Workers
        BY <1>1, <1>3 DEF TableOK
      <4>3. ~ \E x \in waiters[u] : x[1] = id[1]
        BY <4>1, <4>2, <2>2
      <4>4. mail'[id[1]] = mail[id[1]]
        BY <1>12, <4>2, <4>3 DEF Drain
      <4>5. QED
        BY <1>12, <4>4 DEF Kept
    <3>3. QED
      BY <1>4, <3>1, <3>2
  <2>3. QED
    BY <2>1, <2>2
<1>13. CASE Crash
  BY <1>13 DEF Crash
<1>14. ASSUME NEW s \in Slots, StopSlot(s) PROVE TableOK(t)'
  BY <1>14, <1>5 DEF StopSlot, Killed, pipes
<1>15. ASSUME NEW w \in Workers, WorkerSteps(w) \/ \E j \in Jobs : Take(w, j)
       PROVE  TableOK(t)'
  BY <1>15, <1>7, <1>8, <1>9, <1>10
    DEF WorkerSteps, StagingFails, FindSlot, Get, SpawnFails, Spawn, Check, Receive,
        Codes, Drop, Killed, Sandboxed, Fallback, Take, pipes
<1>16. CASE Next
  BY <1>16, <1>5, <1>11, <1>12, <1>13, <1>14, <1>15
    DEF Next, TemplateSteps, ReaderSteps, Begin, Shutdown, Side, Forks, Fork, Reaps,
        Reap, ReapUnheard, EndOfInput, HangUp, Routes, Drains, JobEnds, ChildEnds,
        JobReads, ChildReads, Dies, Die, Killed, pipes
<1>17. QED
  BY <1>5, <1>16 DEF vars, pipes

(***************************************************************************)
(* Every step keeps MailOK: nothing was sent to a worker that is about to  *)
(* write, unless the template it writes to is dead.                        *)
(***************************************************************************)
LEMMA MailStaysRight ==
  TypeOK /\ LocalsOK /\ PoolOK /\ TablesOK /\ ExitsOK /\ MailOK /\ [Next]_vars
    => MailOK'
<1> SUFFICES ASSUME TypeOK, LocalsOK, PoolOK, TablesOK, ExitsOK, MailOK, [Next]_vars,
                    session' # "gone", NEW v \in Workers, At(v)' = "write"
             PROVE mail'[v] = "none" \/ proc'[Mine(v)'] = "dead"
  BY DEF MailOK, Gone, Mine
<1> DEFINE Good == mail'[v] = "none" \/ proc'[Mine(v)'] = "dead"
<1>1. session # "gone"
  BY StaysGone
<1>2. /\ mail \in [Workers -> {"none", "ok", "failed", "died"}]
      /\ waiters \in [Template -> SUBSET Ids]
      /\ stdout \in [Template -> SUBSET Exits]
  BY DEF TypeOK, PipesTypeOK
<1>3. ASSUME task'[v] = task[v], mail'[v] = mail[v] PROVE Good
  <2>1. At(v) = "write" /\ Mine(v)' = Mine(v)
    BY <1>3 DEF At, Mine
  <2>2. mail[v] = "none" \/ proc[Mine(v)] = "dead"
    BY <2>1, <1>1 DEF MailOK, Gone
  <2>3. Mine(v) \in Template
    BY <2>1 DEF LocalsOK, LocalOK, HasTemplate
  <2>4. QED
    BY <1>3, <2>1, <2>2, <2>3, ProcGrows DEF Grows
<1>4. CASE UNCHANGED <<task, mail>>
  BY <1>4, <1>3
<1>5. ASSUME NEW w \in Workers, WorkerSteps(w) \/ \E j \in Jobs : Take(w, j) PROVE Good
  <2>1. Alone(w)
    BY <1>5, WorkerFacts DEF Steady
  <2>2. CASE w # v
    BY <1>3, <2>1, <2>2 DEF Alone, Kept
  <2>3. CASE Register(v)
    BY <2>3, <1>2 DEF Register
  <2>4. CASE w = v /\ ~Register(v)
    <3>1. At(v)' # "write"
      <4>1. ASSUME task' = [task EXCEPT ![v] = NoTask] PROVE At(v)' # "write"
        BY <4>1, EndsFacts
      <4>2. CASE Get(v)
        <5>1. CASE Goes(v, "spawn")
          BY <5>1, GoesFacts
        <5>2. CASE ~Goes(v, "spawn")
          <6>1. slot[task[v].slot] \in 0 .. MaxTemplates
            BY TaskFacts DEF TypeOK, PoolTypeOK
          <6>2. slot[task[v].slot] \in Template
            BY <4>2, <5>2, <6>1 DEF Get, Template
          <6>3. QED
            BY <4>2, <5>2, <6>2, GetsFacts DEF Get
        <5>3. QED
          BY <5>1, <5>2
      <4>3. ASSUME NEW t \in Template, Spawn(v, t) PROVE At(v)' # "write"
        BY <4>3, GetsFacts DEF Spawn
      <4>4. CASE Check(v)
        BY <4>4, CheckFacts
      <4>5. CASE Write(v)
        BY <4>5, GoesFacts DEF Write
      <4>6. CASE ReceiveDied(v)
        BY <4>6, GoesFacts DEF ReceiveDied
      <4>7. CASE Drop(v)
        BY <4>7, AgainFacts DEF Drop
      <4>8. CASE FindSlot(v)
        BY <4>8, FindFacts
      <4>9. ASSUME NEW j \in Jobs, Take(v, j) PROVE At(v)' # "write"
        BY <4>9, GivenFacts DEF Take
      <4>10. QED
        BY <1>5, <2>4, <4>1, <4>2, <4>3, <4>4, <4>5, <4>6, <4>7, <4>8, <4>9
          DEF WorkerSteps, StagingFails, SpawnFails, Receive, Sandboxed, Fallback, Ends
    <3>2. QED
      BY <3>1
  <2>5. QED
    BY <2>2, <2>3, <2>4
<1>6. ASSUME NEW u \in Template, NEW z \in stdout[u], Route(u, z), UNCHANGED task
      PROVE  Good
  <2>1. At(v) = "write"
    BY <1>6 DEF At
  <2>2. Awaits(z.id[1], u, z.id)
    BY <1>1 DEF ExitsOK, ExitOK, Exited, Gone
  <2>3. z.id[1] # v
    BY <2>1, <2>2 DEF Awaits
  <2>4. mail'[v] = mail[v]
    BY <1>6, <2>3, <1>2 DEF Route
  <2>5. QED
    BY <1>6, <2>4, <1>3
<1>7. ASSUME NEW u \in Template, Drain(u), UNCHANGED task PROVE Good
  <2>1. CASE \E id \in waiters[u] : id[1] = v
    <3>1. Mine(v) = u
      BY <2>1, <1>1 DEF TablesOK, TableOK, Gone
    <3>2. proc'[Mine(v)'] = "dead"
      BY <3>1, <1>7 DEF Drain, Mine
    <3>3. QED
      BY <3>2
  <2>2. CASE ~ \E id \in waiters[u] : id[1] = v
    <3>1. mail'[v] = mail[v]
      BY <1>7, <2>2 DEF Drain
    <3>2. QED
      BY <1>7, <3>1, <1>3
  <2>3. QED
    BY <2>1, <2>2
<1>8. CASE Crash
  BY <1>8 DEF Crash
<1>9. CASE Next
  BY <1>9, <1>4, <1>5, <1>6, <1>7, <1>8
    DEF Next, TemplateSteps, ReaderSteps, Begin, Shutdown, StopSlot, Side, Forks, Fork,
        Reaps, Reap, ReapUnheard, EndOfInput, HangUp, Routes, Drains, JobEnds,
        ChildEnds, JobReads, ChildReads, Dies, Die, Killed, pipes
<1>10. QED
  BY <1>4, <1>9 DEF vars, pipes

(***************************************************************************)
(* A message stays awaited while who waits for it does not move.           *)
(***************************************************************************)
LEMMA OursKept ==
  ASSUME NEW t \in Template, NEW m, Ours(m, t), Kept(m.id[1])
  PROVE  Ours(m, t)'
  BY DEF Ours, Kept, Awaits, At, Mine, Id, Stage

(***************************************************************************)
(* Every step keeps MessagesOK. The one step that adds a message, Write,   *)
(* adds it with an id no message and no exit has: all of these are         *)
(* awaited, and who writes waits for nothing yet.                          *)
(***************************************************************************)
LEMMA MessagesStayAwaited ==
  TypeOK /\ LocalsOK /\ PoolOK /\ TablesOK /\ MailOK /\ ExitsOK /\ Fresh
      /\ MessagesOK /\ [Next]_vars => MessagesOK'
<1> SUFFICES ASSUME TypeOK, LocalsOK, PoolOK, TablesOK, MailOK, ExitsOK, Fresh, MessagesOK,
                    [Next]_vars,
                    session' # "gone", NEW t \in Template, Live(t)' PROVE MessageOK(t)'
  BY DEF MessagesOK, Gone
<1>1. session # "gone" /\ proc[t] # "dead"
  BY StaysGone, ProcGrows DEF Grows, Live
<1>2. /\ zombies \in [Template -> SUBSET Exits]
      /\ stdout \in [Template -> SUBSET Exits]
      /\ waiters \in [Template -> SUBSET Ids]
      /\ running \in [Template -> SUBSET Messages]
      /\ proc \in [Template -> {"none", "live", "dead"}]
      /\ mail \in [Workers -> {"none", "ok", "failed", "died"}]
      /\ stdin \in [Template -> Seq(Messages)]
  BY DEF TypeOK, PipesTypeOK
<1>3. Live(t) => MessageOK(t)
  BY <1>1 DEF MessagesOK, Gone
<1>4. stdin[t] \in Seq(Messages)
  BY <1>2
<1>5. \A m \in Messages : m.id[1] \in Workers
  BY DEF Messages, Ids
<1>6. running[t] \subseteq Messages /\ \A i \in DOMAIN stdin[t] : stdin[t][i] \in Messages
  BY <1>2, <1>4, ElementOfSeq
<1>7. ASSUME \A v \in Workers : At(v) = "receive" /\ Mine(v) = t /\ mail[v] = "none" => Kept(v),
             zombies'[t] \subseteq zombies[t], stdout'[t] \subseteq stdout[t],
             running'[t] = running[t], stdin'[t] = stdin[t]
      PROVE  MessageOK(t)'
  <2>1. CASE Live(t)
    BY <2>1, <1>7, <1>3, MessageKept
  <2>2. CASE ~Live(t)
    <3>1. proc[t] = "none"
      BY <2>2, <1>1, <1>2 DEF Live
    <3>2. stdin'[t] = << >> /\ running'[t] = {} /\ Exited(t)' = {}
      BY <3>1, <1>7 DEF Fresh, Exited
    <3>3. QED
      BY <3>2 DEF MessageOK
  <2>3. QED
    BY <2>1, <2>2
<1>8. CASE UNCHANGED <<task, sent, taken, mail, running, stdin, zombies, stdout>>
  BY <1>7, <1>8, Quiet
<1>9. ASSUME NEW u \in Template, zombies' = [zombies EXCEPT ![u] = {}],
             UNCHANGED <<task, sent, taken, mail, running, stdin, stdout>>
      PROVE  MessageOK(t)'
  <2>1. zombies'[t] \subseteq zombies[t]
    BY <1>9, <1>2
  <2>2. QED
    BY <1>7, <1>9, <2>1, Quiet
<1>10. ASSUME NEW w \in Workers, WorkerSteps(w) \/ \E j \in Jobs : Take(w, j),
              UNCHANGED stdin
       PROVE  MessageOK(t)'
  <2>1. Steady(w)
    BY <1>10, WorkerFacts
  <2>2. \A v \in Workers : At(v) = "receive" /\ Mine(v) = t /\ mail[v] = "none" => Kept(v)
    BY <2>1 DEF Steady, Alone
  <2>3. /\ zombies'[t] \subseteq zombies[t]
        /\ stdout'[t] \subseteq stdout[t]
        /\ running'[t] = running[t]
    BY <2>1 DEF Steady
  <2>4. QED
    BY <2>2, <2>3, <1>7, <1>10
<1>11. ASSUME NEW w \in Workers, Write(w) PROVE MessageOK(t)'
  <2>1. CASE ~(Readable(Mine(w)) /\ Mine(w) = t)
    <3>1. stdin'[t] = stdin[t]
      BY <1>11, <2>1, <1>2 DEF Write
    <3>2. Alone(w) /\ At(w) = "write"
      BY <1>11, WorkerFacts DEF Steady, WorkerSteps, Write
    <3>3. \A v \in Workers : At(v) = "receive" /\ Mine(v) = t /\ mail[v] = "none" => Kept(v)
      BY <3>2 DEF Alone
    <3>4. QED
      BY <1>7, <1>11, <3>1, <3>3 DEF Write
  <2>2. CASE Readable(Mine(w)) /\ Mine(w) = t
    <3> DEFINE m == [id |-> Id(w), job |-> Job(w), stage |-> Stage(w)]
               q == stdin[t]
    <3>1. /\ stdin'[t] = Append(q, m)
          /\ UNCHANGED <<running, zombies, stdout, mail, sent, taken, proc>>
      BY <1>11, <2>2, <1>2 DEF Write
    <3>2. At(w) = "write" /\ At(w)' = "receive" /\ Mine(w)' = t /\ Alone(w)
      BY <1>11, <2>2, GoesFacts, WorkerFacts DEF Write, SameLocals, Steady, WorkerSteps
    <3>3. Live(t) /\ MessageOK(t)
      BY <3>1, <1>3 DEF Live
    <3>4. mail[w] = "none"
      BY <3>2, <2>2, <1>1 DEF MailOK, Gone
    <3>5. m.id = Id(w) /\ m.id[1] = w /\ m.stage = Stage(w)
      BY DEF Id
    <3>6. ASSUME NEW n, n = m PROVE Ours(n, t)'
      <4>1. n.id = Id(w) /\ n.id[1] = w /\ n.stage = Stage(w)
        BY <3>5, <3>6
      <4>2. Id(w)' = Id(w) /\ Stage(w)' = Stage(w)
        BY <3>1 DEF Id, Stage
      <4>3. QED
        BY <3>1, <3>2, <3>4, <4>1, <4>2 DEF Ours, Awaits
    <3>7. ASSUME NEW n \in Messages, Ours(n, t) PROVE Ours(n, t)' /\ n.id # m.id
      <4>1. n.id[1] # w
        BY <3>2, <3>7 DEF Ours, Awaits
      <4>2. Kept(n.id[1])
        BY <4>1, <1>5, <3>2 DEF Alone
      <4>3. QED
        BY <4>1, <4>2, <3>5, <3>7, OursKept
    <3>8. \A z \in Exited(t) : z.id # m.id
      <4>1. \A z \in Exited(t) : Awaits(z.id[1], t, z.id)
        BY <1>1 DEF ExitsOK, ExitOK, Gone
      <4>2. QED
        BY <4>1, <3>2, <3>5 DEF Awaits
    <3>9. Len(q) \in Nat /\ DOMAIN q = 1 .. Len(q) /\ Len(Append(q, m)) = Len(q) + 1
      BY <1>4, LenProperties, AppendProperties
    <3>10. \A i \in DOMAIN Append(q, m) : \/ i \in DOMAIN q /\ Append(q, m)[i] = q[i]
                                          \/ i = Len(q) + 1 /\ Append(q, m)[i] = m
      BY <3>9, <1>4, AppendProperties
    <3>11. \A i \in DOMAIN q : Ours(q[i], t) /\ q[i] \in Messages
      BY <3>3, <1>6 DEF MessageOK
    <3>12. \A i \in DOMAIN stdin'[t] : Ours(stdin[t][i], t)'
      <4>1. ASSUME NEW i \in DOMAIN stdin'[t], NEW n, n = stdin'[t][i] PROVE Ours(n, t)'
        <5>1. CASE n = m
          BY <5>1, <3>6
        <5>2. CASE n # m
          <6>1. i \in DOMAIN q /\ n = q[i]
            BY <4>1, <5>2, <3>1, <3>10
          <6>2. QED
            BY <6>1, <3>7, <3>11
        <5>3. QED
          BY <5>1, <5>2
      <4>2. QED
        BY <4>1
    <3>13. \A i, l \in DOMAIN stdin'[t] : stdin'[t][i].id = stdin'[t][l].id => i = l
      BY <3>1, <3>3, <3>7, <3>10, <3>11 DEF MessageOK
    <3>14. \A n \in running'[t] : Ours(n, t)' /\ n.id # m.id
      BY <3>1, <3>3, <3>7, <1>6 DEF MessageOK
    <3>15. \A n \in running'[t], i \in DOMAIN stdin'[t] : n.id # stdin'[t][i].id
      BY <3>1, <3>3, <3>10, <3>14 DEF MessageOK
    <3>16. Exited(t)' = Exited(t)
      BY <3>1 DEF Exited
    <3>17. \A z \in Exited(t)' : /\ \A n \in running'[t] : n.id # z.id
                                 /\ \A i \in DOMAIN stdin'[t] : z.id # stdin'[t][i].id
      BY <3>1, <3>3, <3>8, <3>10, <3>16 DEF MessageOK
    <3>18. QED
      BY <3>1, <3>3, <3>12, <3>13, <3>14, <3>15, <3>17 DEF MessageOK
  <2>3. QED
    BY <2>1, <2>2
<1>12. ASSUME NEW s \in Slots, StopSlot(s) PROVE MessageOK(t)'
  <2>1. slot[s] \in 0 .. MaxTemplates
    BY DEF TypeOK, PoolTypeOK
  <2>2. CASE slot[s] = 0
    BY <1>12, <1>8, <2>2 DEF StopSlot, pipes
  <2>3. CASE slot[s] # 0
    <3>1. slot[s] \in Template
      BY <2>1, <2>3 DEF Template
    <3>2. QED
      BY <1>12, <2>3, <3>1, <1>9 DEF StopSlot, Killed
  <2>4. QED
    BY <2>2, <2>3
<1>13. ASSUME UNCHANGED <<task, sent, taken, mail>>,
             running'[t] = running[t], stdin'[t] = stdin[t], zombies'[t] = zombies[t], stdout'[t] = stdout[t]
      PROVE MessageOK(t)'
  BY <1>7, <1>13, Quiet
<1>14. ASSUME UNCHANGED <<task, sent, taken, mail>>, NEW m, Ours(m, t) PROVE Ours(m, t)'
  BY <1>14 DEF Ours, Awaits, At, Mine, Id, Stage
<1>15. ASSUME stdin[t] # << >>
      PROVE  /\ \A i \in DOMAIN Tail(stdin[t]) : i + 1 \in DOMAIN stdin[t] /\ Tail(stdin[t])[i] = stdin[t][i + 1]
             /\ \A i \in DOMAIN Tail(stdin[t]) : i \in Nat /\ i + 1 # 1
             /\ 1 \in DOMAIN stdin[t] /\ Head(stdin[t]) = stdin[t][1]
  BY <1>15, <1>4, HeadTailProperties, LenProperties, EmptySeq
<1>16. ASSUME NEW u \in Template, Fork(u), UNCHANGED <<task, sent, taken>>
       PROVE  MessageOK(t)'
  <2>1. CASE u # t
    BY <1>16, <2>1, <1>13, <1>2 DEF Fork
  <2>2. CASE u = t
    <3>1. /\ Live(t) /\ stdin[t] # << >> /\ stdin'[t] = Tail(stdin[t])
          /\ running'[t] = running[t] \cup {Head(stdin[t])}
          /\ UNCHANGED <<zombies, stdout, mail>>
      BY <1>16, <2>2, <1>2 DEF Fork
    <3>2. MessageOK(t)
      BY <3>1, <1>3
    <3>3. Exited(t)' = Exited(t)
      BY <3>1 DEF Exited
    <3>4. \A m \in running'[t] : Ours(m, t)'
      BY <3>1, <3>2, <1>15, <1>14, <1>16 DEF MessageOK
    <3>5. \A i \in DOMAIN stdin'[t] : Ours(stdin[t][i], t)'
      BY <3>1, <3>2, <1>15, <1>14, <1>16 DEF MessageOK
    <3>6. \A m, n \in running'[t] : m.id = n.id => m = n
      BY <3>1, <3>2, <1>15 DEF MessageOK
    <3>7. \A i, l \in DOMAIN stdin'[t] : stdin'[t][i].id = stdin'[t][l].id => i = l
      BY <3>1, <3>2, <1>15 DEF MessageOK
    <3>8. \A m \in running'[t], i \in DOMAIN stdin'[t] : m.id # stdin'[t][i].id
      BY <3>1, <3>2, <1>15 DEF MessageOK
    <3>9. \A z \in Exited(t)' : /\ \A m \in running'[t] : m.id # z.id
                                /\ \A i \in DOMAIN stdin'[t] : z.id # stdin'[t][i].id
      BY <3>1, <3>2, <3>3, <1>15 DEF MessageOK
    <3>10. QED
      BY <3>4, <3>5, <3>6, <3>7, <3>8, <3>9 DEF MessageOK
  <2>3. QED
    BY <2>1, <2>2
<1>17. ASSUME NEW u \in Template, NEW c \in running[u], ChildReads(u, c),
              UNCHANGED <<task, sent, taken>>
       PROVE  MessageOK(t)'
  <2>1. CASE u # t
    BY <1>17, <2>1, <1>13, <1>2 DEF ChildReads
  <2>2. CASE u = t
    <3>1. /\ Live(t) /\ stdin[t] # << >> /\ stdin'[t] = Tail(stdin[t])
          /\ UNCHANGED <<running, zombies, stdout, mail>>
      BY <1>17, <2>2, <1>2 DEF ChildReads, Live
    <3>2. MessageOK(t)
      BY <3>1, <1>3
    <3>3. Exited(t)' = Exited(t)
      BY <3>1 DEF Exited
    <3>4. \A m \in running'[t] : Ours(m, t)'
      BY <3>1, <3>2, <1>14, <1>17 DEF MessageOK
    <3>5. \A i \in DOMAIN stdin'[t] : Ours(stdin[t][i], t)'
      BY <3>1, <3>2, <1>15, <1>14, <1>17 DEF MessageOK
    <3>6. \A i, l \in DOMAIN stdin'[t] : stdin'[t][i].id = stdin'[t][l].id => i = l
      BY <3>1, <3>2, <1>15 DEF MessageOK
    <3>7. QED
      BY <3>1, <3>2, <3>3, <3>4, <3>5, <3>6, <1>15 DEF MessageOK
  <2>3. QED
    BY <2>1, <2>2
<1>18. ASSUME NEW u \in Template, NEW c \in running[u], NEW code \in Codes, ChildEnds(u,
              c, code), UNCHANGED <<task, sent, taken>>
       PROVE  MessageOK(t)'
  <2>1. CASE u # t
    BY <1>18, <2>1, <1>13, <1>2 DEF ChildEnds
  <2>2. CASE u = t
    <3> DEFINE z == [id |-> c.id, code |-> code]
    <3>1. /\ running'[t] = running[t] \ {c} /\ UNCHANGED <<stdin, stdout, mail, proc>>
      BY <1>18, <2>2, <1>2 DEF ChildEnds
    <3>2. Live(t) /\ MessageOK(t)
      BY <3>1, <1>3 DEF Live
    <3>3. zombies'[t] = zombies[t] \cup {z}
      BY <1>18, <2>2, <3>2, <1>2 DEF ChildEnds
    <3>4. Exited(t)' = Exited(t) \cup {z}
      BY <3>1, <3>3 DEF Exited
    <3>5. /\ \A m \in running'[t] : m.id # z.id
          /\ \A i \in DOMAIN stdin[t] : z.id # stdin[t][i].id
      BY <2>2, <3>1, <3>2 DEF MessageOK
    <3>6. \A m \in running'[t] : Ours(m, t)'
      BY <3>1, <3>2, <1>14, <1>18 DEF MessageOK
    <3>7. \A i \in DOMAIN stdin'[t] : Ours(stdin[t][i], t)'
      BY <3>1, <3>2, <1>14, <1>18 DEF MessageOK
    <3>8. \A y \in Exited(t)' : /\ \A m \in running'[t] : m.id # y.id
                                /\ \A i \in DOMAIN stdin'[t] : y.id # stdin'[t][i].id
      BY <3>1, <3>2, <3>4, <3>5 DEF MessageOK
    <3>9. QED
      BY <3>1, <3>2, <3>6, <3>7, <3>8 DEF MessageOK
  <2>3. QED
    BY <2>1, <2>2
<1>19. ASSUME NEW u \in Template, NEW z \in zombies[u], Reap(u, z),
              UNCHANGED <<task, sent, taken>>
       PROVE  MessageOK(t)'
  <2>1. CASE u # t
    BY <1>19, <2>1, <1>13, <1>2 DEF Reap
  <2>2. CASE u = t
    <3>1. /\ zombies'[t] = zombies[t] \ {z}
          /\ stdout'[t] = stdout[t] \cup {z}
          /\ UNCHANGED <<running, stdin, mail>>
          /\ Live(t)
      BY <1>19, <2>2, <1>2 DEF Reap
    <3>2. Exited(t)' = Exited(t)
      BY <3>1, <2>2 DEF Exited
    <3>3. MessageOK(t)
      BY <3>1, <1>3
    <3>4. \A m \in running'[t] : Ours(m, t)'
      BY <3>1, <3>3, <1>14, <1>19 DEF MessageOK
    <3>5. \A i \in DOMAIN stdin'[t] : Ours(stdin[t][i], t)'
      BY <3>1, <3>3, <1>14, <1>19 DEF MessageOK
    <3>6. QED
      BY <3>1, <3>2, <3>3, <3>4, <3>5 DEF MessageOK
  <2>3. QED
    BY <2>1, <2>2
<1>20. ASSUME NEW u \in Template, NEW z \in stdout[u], Route(u, z),
              UNCHANGED <<task, sent, taken>>
       PROVE  MessageOK(t)'
  <2>1. /\ UNCHANGED <<proc, zombies, running, stdin>>
        /\ stdout' = [stdout EXCEPT ![u] = @ \ {z}]
    BY <1>20 DEF Route
  <2>2. Live(t) /\ MessageOK(t)
    BY <2>1, <1>3 DEF Live
  <2>3. Awaits(z.id[1], u, z.id) /\ z.id[1] \in Workers
    BY <1>1, <1>2 DEF ExitsOK, ExitOK, Exited, Gone, Exits, Ids
  <2>4. \A v \in Workers \ {z.id[1]} : Kept(v)
    BY <1>20, <1>2, <2>3 DEF Route, Kept
  <2>5. ASSUME NEW m \in Messages, Ours(m, t), t = u => m.id # z.id PROVE Ours(m, t)'
    <3>1. m.id[1] # z.id[1]
      BY <2>3, <2>5 DEF Ours, Awaits, Id
    <3>2. QED
      BY <2>4, <2>5, <3>1, <1>5, OursKept
  <2>6. Exited(t)' \subseteq Exited(t)
    BY <2>1, <1>2 DEF Exited
  <2>7. t = u => z \in Exited(t)
    BY DEF Exited
  <2>8. \A m \in running'[t] : Ours(m, t)'
    BY <2>1, <2>2, <2>5, <2>7, <1>6 DEF MessageOK
  <2>9. \A i \in DOMAIN stdin'[t] : Ours(stdin[t][i], t)'
    BY <2>1, <2>2, <2>5, <2>7, <1>6 DEF MessageOK
  <2>10. QED
    BY <2>1, <2>2, <2>6, <2>8, <2>9 DEF MessageOK
<1>21. ASSUME NEW u \in Template, Drain(u), UNCHANGED <<task, sent, taken>>
       PROVE  MessageOK(t)'
  <2>1. UNCHANGED <<proc, zombies, stdout, running, stdin>> /\ proc[u] = "dead"
    BY <1>21 DEF Drain
  <2>2. u # t
    BY <2>1, <1>1
  <2>3. ASSUME NEW v \in Workers, At(v) = "receive" /\ Mine(v) = t /\ mail[v] = "none"
        PROVE  Kept(v)
      <4>1. \A id \in waiters[u] : Mine(id[1]) = u
        BY <1>1 DEF TablesOK, TableOK, Gone
      <4>2. ~ \E id \in waiters[u] : id[1] = v
        BY <4>1, <2>3, <2>2
      <4>3. mail'[v] = mail[v]
        BY <1>21, <4>2 DEF Drain
      <4>4. QED
        BY <1>21, <4>3 DEF Kept
  <2>4. QED
    BY <1>7, <2>1, <2>3
<1>22. ASSUME NEW u \in Template, ReapUnheard(u) \/ Die(u),
              UNCHANGED <<task, sent, taken>>
       PROVE  MessageOK(t)'
  BY <1>22, <1>9 DEF ReapUnheard, Die, Killed
<1>23. ASSUME NEW u \in Template, HangUp(u), UNCHANGED <<task, sent, taken>>
       PROVE  MessageOK(t)'
  <2>1. u # t
    BY <1>23, <1>2 DEF HangUp, Live
  <2>2. QED
    BY <1>23, <2>1, <1>13, <1>2 DEF HangUp
<1>24. CASE Crash
  BY <1>24 DEF Crash
<1>25. ASSUME NEW w \in Workers, WorkerSteps(w) \/ \E j \in Jobs : Take(w, j)
       PROVE  MessageOK(t)'
  BY <1>25, <1>10, <1>11
    DEF WorkerSteps, StagingFails, FindSlot, Get, SpawnFails, Spawn, Check, Register,
        Receive, ReceiveDied, Drop, Killed, Sandboxed, Fallback, Take, pipes
<1>26. CASE Next
  BY <1>26, <1>8, <1>12, <1>16, <1>17, <1>18, <1>19, <1>20, <1>21, <1>22, <1>23, <1>24,
     <1>25
    DEF Next, TemplateSteps, ReaderSteps, Begin, Shutdown, Side, Forks, Reaps,
        EndOfInput, Routes, Drains, JobEnds, JobReads, Dies, pipes
<1>27. QED
  BY <1>8, <1>26 DEF vars, pipes

(***************************************************************************)
(* Every step keeps StagesOK: a directory goes when its own job has ended. *)
(***************************************************************************)
LEMMA StagesStay ==
  TypeOK /\ LocalsOK /\ StagesOK /\ [Next]_vars => StagesOK'
<1> SUFFICES ASSUME TypeOK, LocalsOK, StagesOK, [Next]_vars, NEW v \in Workers,
                    AtPool(v)' \/ HasTemplate(v)'
             PROVE  Stage(v)' \in stages'
  BY DEF StagesOK
<1> DEFINE Good == Stage(v)' \in stages'
<1>1. ASSUME task'[v] = task[v], taken'[v] = taken[v], stages \subseteq stages'
      PROVE  Good
  <2>1. AtPool(v) \/ HasTemplate(v)
    BY <1>1 DEF AtPool, HasTemplate, At
  <2>2. QED
    BY <1>1, <2>1 DEF StagesOK, Stage
<1>2. ASSUME NEW w \in Workers, Others(w), UNCHANGED <<taken, stages>>,
             AtPool(w) \/ HasTemplate(w)
      PROVE  Good
  <2>1. CASE v = w
    BY <1>2, <2>1 DEF StagesOK, Stage
  <2>2. CASE v # w
    BY <1>2, <2>2, <1>1 DEF Others
  <2>3. QED
    BY <2>1, <2>2
<1>3. ASSUME NEW w \in Workers, NEW how, Ends(w, how), UNCHANGED taken PROVE Good
  <2>1. At(w)' = "idle" /\ Others(w)
    BY <1>3, EndsFacts DEF Ends
  <2>2. v # w
    BY <2>1 DEF AtPool, HasTemplate
  <2>3. stages \ {Stage(w)} \subseteq stages' /\ stages' \subseteq stages
    BY <1>3 DEF Ends
  <2>4. AtPool(v) \/ HasTemplate(v)
    BY <2>1, <2>2 DEF Others, AtPool, HasTemplate, At
  <2>5. Stage(v) # Stage(w)
    BY <2>2 DEF Stage
  <2>6. QED
    BY <1>3, <2>3, <2>4, <2>5 DEF StagesOK, Stage
<1>4. CASE UNCHANGED <<task, taken, stages>>
  BY <1>4, <1>1
<1>5. CASE Crash
  BY <1>5, CrashFacts DEF AtPool, HasTemplate
<1>6. ASSUME NEW w \in Workers, FindSlot(w) PROVE Good
  BY <1>6, <1>2, FindFacts DEF FindSlot, AtPool
<1>7. ASSUME NEW w \in Workers, Get(w) PROVE Good
  <2>1. CASE Goes(w, "spawn")
    BY <1>7, <2>1, <1>2, GoesFacts DEF Get, AtPool
  <2>2. CASE ~Goes(w, "spawn")
    <3>1. slot[task[w].slot] \in 0 .. MaxTemplates
      BY TaskFacts DEF TypeOK, PoolTypeOK
    <3>2. slot[task[w].slot] \in Template
      BY <1>7, <2>2, <3>1 DEF Get, Template
    <3>3. QED
      BY <1>7, <2>2, <3>2, <1>2, GetsFacts DEF Get, AtPool
  <2>3. QED
    BY <2>1, <2>2
<1>8. ASSUME NEW w \in Workers, NEW t \in Template, Spawn(w, t) PROVE Good
  BY <1>8, <1>2, GetsFacts DEF Spawn, AtPool
<1>9. ASSUME NEW w \in Workers, Check(w) PROVE Good
  BY <1>9, <1>2, CheckFacts DEF Check, HasTemplate
<1>10. ASSUME NEW w \in Workers, Register(w) PROVE Good
  BY <1>10, <1>2, GoesFacts DEF Register, HasTemplate
<1>11. ASSUME NEW w \in Workers, Write(w) PROVE Good
  BY <1>11, <1>2, GoesFacts DEF Write, HasTemplate
<1>12. ASSUME NEW w \in Workers, ReceiveDied(w) PROVE Good
  BY <1>12, <1>2, GoesFacts DEF ReceiveDied, HasTemplate
<1>13. ASSUME NEW w \in Workers, Drop(w) PROVE Good
  <2>1. At(w) = "drop" /\ UNCHANGED <<taken, stages>> /\ Others(w)
    BY <1>13, AgainFacts DEF Drop
  <2>2. QED
    BY <2>1, <1>2 DEF HasTemplate
<1>14. ASSUME NEW w \in Workers, NEW j \in Jobs, Take(w, j) PROVE Good
  <2>1. taken' = [taken EXCEPT ![w] = @ + 1]
    BY <1>14 DEF Take
  <2>2. taken'[w] = taken[w] + 1 /\ \A x \in Workers \ {w} : taken'[x] = taken[x]
    BY <2>1 DEF TypeOK, WorkersTypeOK
  <2>3. /\ \/ At(w)' = "find" /\ stages' = Staged(w)
           \/ At(w)' = "fallback" /\ stages \subseteq stages'
        /\ Others(w)
    BY <1>14, GivenFacts DEF Take
  <2>4. CASE v = w
    BY <2>2, <2>3, <2>4 DEF AtPool, HasTemplate, Staged, Stage
  <2>5. CASE v # w
    BY <2>2, <2>3, <2>5, <1>1 DEF Others, Staged
  <2>6. QED
    BY <2>4, <2>5
<1>15. ASSUME NEW w \in Workers, Sandboxed(w) PROVE Good
  <2>1. At(w)' = "idle" /\ Others(w)
    BY <1>15, EndsFacts DEF Sandboxed
  <2>2. v # w
    BY <2>1 DEF AtPool, HasTemplate
  <2>3. QED
    BY <1>15, <2>1, <2>2, <1>1 DEF Sandboxed, Others
<1>16. CASE Next
  BY <1>16, <1>3, <1>4, <1>5, <1>6, <1>7, <1>8, <1>9, <1>10, <1>11, <1>12, <1>13, <1>14,
     <1>15
    DEF Next, WorkerSteps, TemplateSteps, ReaderSteps, Begin, Shutdown, StopSlot, Side,
        Forks, Reaps, EndOfInput, Routes, Drains, JobEnds, JobReads, Dies, StagingFails,
        SpawnFails, Receive, Fallback
<1>17. QED
  BY <1>4, <1>16 DEF vars

(***************************************************************************)
(* Every step keeps TriedOK: a second attempt gets a template that lives,  *)
(* or a new one, and the first is dead by then.                            *)
(***************************************************************************)
LEMMA TriedGrows ==
  TypeOK /\ LocalsOK /\ PoolOK /\ TriedOK /\ [Next]_vars => TriedOK'
<1> SUFFICES ASSUME TypeOK, LocalsOK, PoolOK, TriedOK, [Next]_vars PROVE TriedOK'
  OBVIOUS
<1>1. Grows
  BY ProcGrows
<1>2. TriedOK <=> \A w \in Workers : TriedBy(w)
  BY DEF TriedOK, TriedBy
<1>3. ASSUME \A w \in Workers : TriedBy(w)' PROVE TriedOK'
  BY <1>3 DEF TriedOK, TriedBy
<1>4. ASSUME NEW w \in Workers, task'[w] = task[w] PROVE TriedBy(w)'
  BY <1>1, <1>2, <1>4 DEF TriedBy, AtPool, At, Mine, Grows
<1>5. ASSUME NEW w \in Workers, Others(w), TriedBy(w)' PROVE TriedOK'
  BY <1>3, <1>4, <1>5 DEF Others
<1>6. ASSUME NEW w \in Workers, Others(w), At(w)' \notin {"find", "get", "spawn",
             "check", "register", "write", "receive", "drop"}
      PROVE  TriedOK'
  <2>1. TriedBy(w)'
    BY <1>6 DEF TriedBy, AtPool
  <2>2. QED
    BY <1>5, <1>6, <2>1
<1>7. ASSUME NEW w \in Workers, task' = [task EXCEPT ![w] = NoTask] PROVE TriedOK'
  BY <1>7, <1>6, EndsFacts
<1>8. CASE UNCHANGED task
  BY <1>8, <1>3, <1>4
<1>9. CASE Crash
  <2>1. \A w \in Workers : At(w)' = "gone"
    BY <1>9, CrashFacts
  <2>2. QED
    BY <2>1, <1>3 DEF TriedBy, AtPool
<1>10. ASSUME NEW w \in Workers, FindSlot(w) PROVE TriedOK'
  <2>1. TriedBy(w)'
    BY <1>10, <1>1, <1>2, FindFacts DEF FindSlot, TriedBy, AtPool, Grows
  <2>2. QED
    BY <1>10, <1>5, <2>1, FindFacts
<1>11. ASSUME NEW w \in Workers, NEW t \in Template, At(w) \in {"get", "spawn"},
             task' = [task EXCEPT ![w].at = "check", ![w].template = t], proc[t] # "dead" PROVE TriedOK'
  <2>1. /\ At(w)' = "check" /\ Mine(w)' = t /\ Others(w)
        /\ task'[w].again = task[w].again /\ task'[w].tried = task[w].tried
    BY <1>11, GetsFacts
  <2>2. IF task[w].again
        THEN \E u \in Template : task[w].tried = {u} /\ proc[u] = "dead"
        ELSE task[w].tried = {}
    BY <1>11, <1>2 DEF TriedBy, AtPool
  <2>3. IF task[w].again
        THEN \E u \in Template : task[w].tried = {u} /\ proc'[u] = "dead"
        ELSE task[w].tried = {}
    BY <2>2, <1>1 DEF Grows
  <2>4. t \notin task[w].tried
    BY <2>2, <1>11
  <2>5. TriedBy(w)'
    BY <2>1, <2>3, <2>4 DEF TriedBy, AtPool
  <2>6. QED
    BY <1>5, <2>1, <2>5
<1>12. ASSUME NEW w \in Workers, Get(w) PROVE TriedOK'
  <2>1. CASE Goes(w, "spawn")
    <3>1. TriedBy(w)'
      BY <1>12, <2>1, <1>1, <1>2, GoesFacts DEF Get, TriedBy, AtPool, Grows, SameLocals
    <3>2. QED
      BY <2>1, <1>5, <3>1, GoesFacts
  <2>2. CASE ~Goes(w, "spawn")
    <3>1. slot[task[w].slot] \in 0 .. MaxTemplates
      BY TaskFacts DEF TypeOK, PoolTypeOK
    <3>2. slot[task[w].slot] \in Template
      BY <1>12, <2>2, <3>1 DEF Get, Template
    <3>3. QED
      BY <1>12, <2>2, <3>2, <1>11 DEF Get, Live
  <2>3. QED
    BY <2>1, <2>2
<1>13. ASSUME NEW w \in Workers, NEW t \in Template, Spawn(w, t) PROVE TriedOK'
  BY <1>13, <1>11 DEF Spawn
<1>14. ASSUME NEW w \in Workers, Check(w) PROVE TriedOK'
  <2>1. /\ At(w)' \in {"register", "drop"}
        /\ Mine(w)' = Mine(w)
        /\ Others(w)
        /\ At(w) = "check"
        /\ task'[w].again = task[w].again /\ task'[w].tried = task[w].tried \cup {Mine(w)}
    BY <1>14, CheckFacts DEF Check
  <2>2. /\ IF task[w].again
           THEN \E u \in Template : task[w].tried = {u}
           ELSE task[w].tried = {}
        /\ Mine(w) \notin task[w].tried
    BY <2>1, <1>2 DEF TriedBy
  <2>3. IF task[w].again
        THEN \E u \in Template : u # Mine(w) /\ task'[w].tried = {u, Mine(w)}
        ELSE task'[w].tried = {Mine(w)}
    BY <2>1, <2>2
  <2>4. TriedBy(w)'
    BY <2>1, <2>3 DEF TriedBy, AtPool
  <2>5. QED
    BY <1>5, <2>1, <2>4
<1>15. ASSUME NEW w \in Workers, NEW there \in {"write", "receive", "drop"},
              At(w) \in {"register", "write", "receive"}, Goes(w, there)
       PROVE  TriedOK'
  <2>1. At(w)' = there /\ SameLocals(w) /\ Others(w)
    BY <1>15, GoesFacts
  <2>2. TriedBy(w)'
    BY <1>15, <2>1, <1>2 DEF TriedBy, AtPool, SameLocals
  <2>3. QED
    BY <1>5, <2>1, <2>2
<1>16. ASSUME NEW w \in Workers, Drop(w) PROVE TriedOK'
  <2>1. CASE task[w].again
    BY <1>16, <2>1, <1>6, AgainFacts DEF Drop
  <2>2. CASE ~task[w].again
    <3>1. /\ At(w)' = "find"
          /\ task'[w].again = TRUE
          /\ task'[w].tried = task[w].tried
          /\ Others(w)
          /\ At(w) = "drop"
      BY <1>16, <2>2, AgainFacts DEF Drop
    <3>2. task[w].tried = {Mine(w)} /\ Mine(w) \in Template
      BY <2>2, <3>1, <1>2 DEF TriedBy, LocalsOK, LocalOK, HasTemplate
    <3>3. proc'[Mine(w)] = "dead"
      BY <1>16, <3>2 DEF Drop, Killed, TypeOK, PipesTypeOK
    <3>4. TriedBy(w)'
      BY <3>1, <3>2, <3>3 DEF TriedBy, AtPool
    <3>5. QED
      BY <1>5, <3>1, <3>4
  <2>3. QED
    BY <2>1, <2>2
<1>17. ASSUME NEW w \in Workers, NEW j \in Jobs, Take(w, j) PROVE TriedOK'
  <2>1. /\ At(w)' \in {"find", "fallback"}
        /\ task'[w].again = FALSE
        /\ task'[w].tried = {}
        /\ Others(w)
    BY <1>17, GivenFacts DEF Take
  <2>2. TriedBy(w)'
    BY <2>1 DEF TriedBy, AtPool
  <2>3. QED
    BY <1>5, <2>1, <2>2
<1>18. CASE Next
  BY <1>18, <1>8, <1>9, <1>10, <1>12, <1>13, <1>14, <1>15, <1>16, <1>17, <1>7
    DEF Next, WorkerSteps, TemplateSteps, ReaderSteps, Begin, Shutdown, StopSlot, Side,
        Forks, Reaps, EndOfInput, Routes, Drains, JobEnds, JobReads, Dies, StagingFails,
        SpawnFails, Register, Write, Receive, ReceiveDied, Sandboxed, Fallback, Ends
<1>19. QED
  BY <1>8, <1>18 DEF vars

(***************************************************************************)
(* Every step keeps GoneOK.                                                *)
(***************************************************************************)
LEMMA GoneIsFinal ==
  TypeOK /\ GoneOK /\ [Next]_vars => GoneOK'
<1> SUFFICES ASSUME TypeOK, GoneOK, [Next]_vars, session' = "gone", NEW w \in Workers
             PROVE  At(w)' = "gone"
  BY DEF GoneOK, Gone
<1>1. CASE Crash
  BY <1>1, CrashFacts
<1>2. CASE session = "gone"
  <2>1. \A v \in Workers : At(v) = "gone"
    BY <1>2 DEF GoneOK, Gone
  <2>2. UNCHANGED task
    BY <1>2, <2>1
      DEF Next, vars, Begin, Shutdown, Crash, StopSlot, WorkerSteps, StagingFails,
          FindSlot, Get, SpawnFails, Spawn, Check, Register, Write, Receive,
          ReceiveDied, Drop, Sandboxed, Fallback, Take, TemplateSteps, ReaderSteps,
          Forks, Reaps, EndOfInput, Routes, Drains, JobEnds, JobReads, Dies, Side
  <2>3. QED
    BY <2>1, <2>2 DEF At
<1>3. session = "gone" \/ Crash
  BY
    DEF Next, vars, Begin, rest, Shutdown, Crash, StopSlot, WorkerSteps, StagingFails,
        FindSlot, Get, SpawnFails, Spawn, Check, Register, Write, Receive, ReceiveDied,
        Drop, Sandboxed, Fallback, Take, TemplateSteps, ReaderSteps, Forks, Reaps,
        EndOfInput, Routes, Drains, JobEnds, JobReads, Dies, Side
<1>4. QED
  BY <1>1, <1>2, <1>3

(***************************************************************************)
(* The invariant holds before the session begins.                          *)
(***************************************************************************)
LEMMA InitInv ==
  Init => SessionInv
<1> SUFFICES ASSUME Init PROVE SessionInv
  OBVIOUS
<1>1. \A w \in Workers : task[w] = NoTask /\ taken[w] = 0 /\ sent[w] = 0 /\ At(w) = "idle" /\ Mine(w) = 0
  BY NoTaskFacts DEF Init, At, Mine
<1>2. TypeOK
  <2>1. PipesTypeOK
    BY DEF Init, NoTemplates, PipesTypeOK, Template
  <2>2. PoolTypeOK
    BY DEF Init, PoolTypeOK
  <2>3. WorkersTypeOK
    BY NoTaskFacts DEF Init, WorkersTypeOK
  <2>4. QED
    BY <2>1, <2>2, <2>3 DEF TypeOK
<1>3. LocalsOK
  BY <1>1 DEF LocalsOK, LocalOK, AtPool, HasTemplate, Attempts
<1>4. PoolOK
  BY <1>1 DEF Init, NoTemplates, PoolOK, SpawnersOK, KnownOK, SlotsOK, HomesOK, Live
<1>5. TablesOK
  BY DEF Init, NoTemplates, TablesOK, TableOK
<1>6. MailOK
  BY <1>1 DEF MailOK
<1>7. ExitsOK
  BY DEF Init, NoTemplates, ExitsOK, ExitOK, Exited
<1>8. Fresh
  BY DEF Init, NoTemplates, Fresh
<1>9. MessagesOK
  BY DEF Init, NoTemplates, MessagesOK, Live
<1>10. StagesOK
  BY <1>1 DEF StagesOK, AtPool, HasTemplate
<1>11. TriedOK
  BY <1>1 DEF TriedOK, TriedBy, AtPool
<1>12. GoneOK
  BY DEF Init, GoneOK, Gone
<1>13. QED
  BY <1>2, <1>3, <1>4, <1>5, <1>6, <1>7, <1>8, <1>9, <1>10, <1>11, <1>12 DEF SessionInv

(***************************************************************************)
(* Every step keeps the invariant.                                         *)
(***************************************************************************)
LEMMA NextInv ==
  SessionInv /\ [Next]_vars => SessionInv'
<1>1. SessionInv /\ [Next]_vars => TypeOK'
  BY TaskTyped, CountersTyped, PoolTyped, PipesTyped
    DEF SessionInv, TypeOK, WorkersTypeOK
<1>2. SessionInv /\ [Next]_vars => LocalsOK' /\ PoolOK'
  BY LocalsHold, SlotsStayKnown, SpawnersKeepLocks, TemplatesStayHome
    DEF SessionInv, PoolOK
<1>3. SessionInv /\ [Next]_vars => TablesOK' /\ MailOK'
  BY TablesStayRight, MailStaysRight DEF SessionInv
<1>4. SessionInv /\ [Next]_vars => ExitsOK' /\ Fresh' /\ MessagesOK'
  BY ExitsStayAwaited, NothingBeforeSpawn, MessagesStayAwaited DEF SessionInv
<1>5. SessionInv /\ [Next]_vars => StagesOK' /\ TriedOK' /\ GoneOK'
  BY StagesStay, TriedGrows, GoneIsFinal DEF SessionInv
<1>6. QED
  BY <1>1, <1>2, <1>3, <1>4, <1>5 DEF SessionInv

(***************************************************************************)
(* The invariant holds in every state of every session.                    *)
(***************************************************************************)
THEOREM InvariantHolds == Spec => []SessionInv
  BY InitInv, NextInv, PTL DEF Spec

(***************************************************************************)
(* Type correctness (TypeOK), for any number of workers, jobs, templates   *)
(* and shutdowns.                                                          *)
(***************************************************************************)
THEOREM TypeCorrect == Spec => []TypeOK
<1>1. SessionInv => TypeOK
  BY DEF SessionInv
<1>2. QED
  BY <1>1, InvariantHolds, PTL

(***************************************************************************)
(* No template that lives is lost (NoTemplateLost): neither a dispatcher   *)
(* that finds out late that its template is dead, nor a shutdown, takes or *)
(* forgets one that was spawned meanwhile (get_or_spawn, drop_template,    *)
(* shutdown).                                                              *)
(***************************************************************************)
THEOREM TemplatesAreKept == Spec => []NoTemplateLost
<1>1. SessionInv => NoTemplateLost
  <2> SUFFICES ASSUME SessionInv, NEW t \in Template, session = "running", Live(t)
               PROVE  /\ Cardinality({ s \in Slots : slot[s] = t }) = 1
                      /\ \A s \in Slots : slot[s] = t => Reachable(s) \/ s[2] < shutdowns
    BY DEF NoTemplateLost
  <2>1. PICK s \in Slots : slot[s] = t
    BY DEF SessionInv, PoolOK, HomesOK
  <2>2. t # 0
    BY DEF Template
  <2>3. { r \in Slots : slot[r] = t } = {s}
    BY <2>1, <2>2 DEF SessionInv, PoolOK, SlotsOK
  <2>4. Cardinality({s}) = 1
    BY FS_Singleton
  <2>5. \A r \in Slots : slot[r] = t => Reachable(r) \/ r[2] < shutdowns
    BY <2>2 DEF SessionInv, PoolOK, KnownOK, Known, Reachable
  <2>6. QED
    BY <2>3, <2>4, <2>5
<1>2. QED
  BY <1>1, InvariantHolds, PTL

(***************************************************************************)
(* A template runs a job in the directory it was staged in, and runs it    *)
(* there alone (StageIsKept): a second attempt finds the directory, and no *)
(* child of a template that lives is in it (run_via_template, finish).     *)
(***************************************************************************)
THEOREM StagesAreKept == Spec => []StageIsKept
<1>1. SessionInv => StageIsKept
  <2> SUFFICES ASSUME SessionInv, session = "running", NEW t \in Template,
                      NEW c \in running[t], Live(t)
               PROVE  /\ c.stage \in stages
                      /\ \A u \in Template : \A d \in running[u] : Live(u) /\ d.stage = c.stage => d = c
    BY DEF StageIsKept
  <2>1. MessageOK(t)
    BY DEF SessionInv, MessagesOK, Gone
  <2>2. Ours(c, t)
    BY <2>1 DEF MessageOK
  <2>3. c \in Messages
    BY DEF SessionInv, TypeOK, PipesTypeOK
  <2>4. c.id[1] \in Workers
    BY <2>3 DEF Messages, Ids
  <2>5. c.stage \in stages
    BY <2>2, <2>4 DEF SessionInv, StagesOK, HasTemplate, Ours, Awaits
  <2>6. ASSUME NEW u \in Template, NEW d \in running[u], Live(u), d.stage = c.stage
        PROVE  d = c
    <3>1. MessageOK(u)
      BY <2>6 DEF SessionInv, MessagesOK, Gone
    <3>2. Ours(d, u)
      BY <3>1 DEF MessageOK
    <3>3. d.id[1] = c.id[1]
      BY <2>2, <2>6, <3>2 DEF Ours, Stage
    <3>4. u = t /\ d.id = c.id
      BY <2>2, <3>2, <3>3 DEF Ours, Awaits
    <3>5. QED
      BY <2>1, <3>4 DEF MessageOK
  <2>7. QED
    BY <2>5, <2>6
<1>2. QED
  BY <1>1, InvariantHolds, PTL

(***************************************************************************)
(* No dispatcher gives a template up while the exit it waits for is        *)
(* written and not read, and a job is given up for two templates, not one  *)
(* (NoAnswerLost: reader_loop, run_via_template).                          *)
(***************************************************************************)
THEOREM AnswersAreHeard == Spec => []NoAnswerLost
<1>1. SessionInv => NoAnswerLost
  <2> SUFFICES ASSUME SessionInv, NEW w \in Workers, At(w) = "drop"
               PROVE  /\ \A z \in stdout[Mine(w)] : z.id # Id(w)
                      /\ task[w].again => Cardinality(task[w].tried) = 2
    BY DEF NoAnswerLost
  <2>1. Mine(w) \in Template
    BY DEF SessionInv, LocalsOK, LocalOK, HasTemplate
  <2>2. ~Gone
    BY DEF SessionInv, GoneOK
  <2>3. ASSUME NEW z \in stdout[Mine(w)] PROVE z.id # Id(w)
    <3>1. Awaits(z.id[1], Mine(w), z.id)
      BY <2>1, <2>2, <2>3 DEF SessionInv, ExitsOK, ExitOK, Exited
    <3>2. QED
      BY <3>1 DEF Awaits, Id
  <2>4. ASSUME task[w].again PROVE Cardinality(task[w].tried) = 2
    <3>1. PICK t \in Template : t # Mine(w) /\ task[w].tried = {t, Mine(w)}
      BY <2>4 DEF SessionInv, TriedOK, TriedBy
    <3>2. IsFiniteSet({t}) /\ Cardinality({t}) = 1
      BY FS_Singleton
    <3>3. \A x : x \notin {t} => Cardinality({t} \cup {x}) = 2
      <4> TAKE x
      <4>1. Cardinality({t} \cup {x}) = IF x \in {t}
                                        THEN Cardinality({t})
                                        ELSE Cardinality({t}) + 1
        BY <3>2, FS_AddElement
      <4>2. QED
        BY <3>2, <4>1
    <3>4. {t} \cup {Mine(w)} = task[w].tried
      BY <3>1
    <3>5. Mine(w) \notin {t}
      BY <3>1
    <3>6. QED
      BY <3>3, <3>4, <3>5
  <2>5. QED
    BY <2>3, <2>4
<1>2. QED
  BY <1>1, InvariantHolds, PTL

-----------------------------------------------------------------------------
(***************************************************************************)
(* With the forkserver off, all jobs take the fallback: no template is     *)
(* ever spawned.                                                           *)
(***************************************************************************)
NoneSpawned ==
  ~setting.forkserver =>
    /\ \A w \in Workers : At(w) \in {"idle", "fallback", "gone"}
    /\ \A t \in Template : proc[t] = "none"

LEMMA NoneSpawnedStep ==
  SessionInv /\ NoneSpawned /\ [Next]_vars => NoneSpawned'
<1> SUFFICES ASSUME SessionInv, NoneSpawned, [Next]_vars, ~setting'.forkserver
             PROVE  /\ \A w \in Workers : At(w)' \in {"idle", "fallback", "gone"}
                    /\ \A t \in Template : proc'[t] = "none"
  BY DEF NoneSpawned
<1>1. setting' = setting
  BY
    DEF Next, vars, Begin, rest, Shutdown, Crash, StopSlot, WorkerSteps, StagingFails,
        FindSlot, Get, SpawnFails, Spawn, Check, Register, Write, Receive, ReceiveDied,
        Drop, Sandboxed, Fallback, Take, TemplateSteps, ReaderSteps, Forks, Reaps,
        EndOfInput, Routes, Drains, JobEnds, JobReads, Dies, Side
<1>2. /\ \A w \in Workers : At(w) \in {"idle", "fallback", "gone"}
      /\ \A t \in Template : proc[t] = "none" /\ ~Live(t)
      /\ ~Enabled
  BY <1>1 DEF NoneSpawned, Live, Enabled, Command
<1>3. \A s \in Slots : slot[s] = 0
  BY <1>2 DEF SessionInv, PoolOK, SlotsOK, TypeOK, PoolTypeOK, Template
<1>4. task \in [Workers -> Tasks] /\ NoTask \in Tasks /\ NoTask.at = "idle"
  BY NoTaskFacts DEF SessionInv, TypeOK, WorkersTypeOK
<1>5. proc' = proc
  BY <1>2, <1>3
    DEF Next, vars, pipes, Begin, Shutdown, Crash, StopSlot, WorkerSteps, StagingFails,
        FindSlot, Get, SpawnFails, Spawn, Check, Register, Write, Receive, ReceiveDied,
        Drop, Sandboxed, Fallback, Take, TemplateSteps, ReaderSteps, Forks, Reaps,
        EndOfInput, Routes, Drains, JobEnds, JobReads, Dies, Side, Unread, Fork, Reap,
        ReapUnheard, HangUp, Die, Route, Drain, ChildEnds, ChildReads
<1>6. ASSUME NEW w \in Workers, NEW j \in Jobs, Take(w, j), NEW v \in Workers
      PROVE  At(v)' \in {"idle", "fallback", "gone"}
  <2>1. task' = [task EXCEPT ![w] = [NoTask EXCEPT !.at = "fallback", !.job = j]]
    BY <1>2, <1>6 DEF Take, Given
  <2>2. [NoTask EXCEPT !.at = "fallback", !.job = j].at = "fallback"
    BY <1>4 DEF Tasks
  <2>3. QED
    BY <1>2, <1>4, <2>1, <2>2 DEF At
<1>7. ASSUME NEW w \in Workers, WorkerSteps(w), NEW v \in Workers
      PROVE  At(v)' \in {"idle", "fallback", "gone"}
  <2>1. task' = [task EXCEPT ![w] = NoTask]
    BY <1>2, <1>7
      DEF WorkerSteps, StagingFails, FindSlot, Get, SpawnFails, Spawn, Check, Register,
          Write, Receive, ReceiveDied, Drop, Sandboxed, Fallback, Ends
  <2>2. QED
    BY <1>2, <1>4, <2>1 DEF At
<1>8. ASSUME Crash, NEW v \in Workers PROVE At(v)' \in {"idle", "fallback", "gone"}
  BY <1>8, CrashFacts DEF SessionInv
<1>9. ASSUME task' = task, NEW v \in Workers PROVE At(v)' \in {"idle", "fallback", "gone"}
  BY <1>2, <1>9 DEF At
<1>10. QED
  BY <1>5, <1>2, <1>6, <1>7, <1>8, <1>9
    DEF Next, vars, Begin, Shutdown, StopSlot, TemplateSteps, ReaderSteps, Forks, Reaps,
        EndOfInput, Routes, Drains, JobEnds, JobReads, Dies, Side

(***************************************************************************)
(* Where run.py:817 is right: with the forkserver off there are no         *)
(* templates, so that none runs a job for which a sandbox is wanted and    *)
(* available. The run that refutes EnforcedWhenWanted has the forkserver   *)
(* on: a session starts templates whatever run.py passes on.               *)
(***************************************************************************)
EnforcedWithoutForkserver ==
  ~setting.forkserver => EnforcedWhenWanted /\ \A t \in Template : proc[t] = "none"

THEOREM EnforcedWithout == Spec => []EnforcedWithoutForkserver
<1>1. Init => NoneSpawned
  <2>1. Init => \A w \in Workers : At(w) = "idle"
    BY NoTaskFacts DEF Init, At
  <2>2. QED
    BY <2>1 DEF Init, NoTemplates, NoneSpawned
<1>2. SessionInv /\ NoneSpawned => EnforcedWithoutForkserver
  BY DEF SessionInv, Fresh, NoneSpawned, EnforcedWithoutForkserver, EnforcedWhenWanted
<1>3. QED
  BY <1>1, <1>2, InvariantHolds, NoneSpawnedStep, PTL DEF Spec
=============================================================================
