--------------------------- MODULE SchedulerProofs --------------------------
(***************************************************************************)
(* The safety of the scheduler, for every graph, every number of workers   *)
(* and every expansion.                                                    *)
(*                                                                         *)
(* IInv is the inductive invariant.  To the invariants of Scheduler it     *)
(* adds that the job graph is sound (acyclic, every parent present and     *)
(* with an entry) and that a finished job with an entry has it on record:  *)
(* without them a merged job could wait for a parent nobody will run, and  *)
(* a woken job could miss the hash its key is derived from.                *)
(***************************************************************************)
EXTENDS Scheduler, GraphLemmas

EntriesKept == \A j \in With("Done") : jobs[j].kind = "Argv" => j \in completed

IInv ==
  /\ TypeOK
  /\ Sound(jobs)
  /\ CountersAgree
  /\ OneWorkerEach
  /\ QueueAgrees
  /\ EdgesAgree
  /\ ParentsFirst
  /\ FailureReaches
  /\ EntriesKept
  /\ ReportAgrees

-----------------------------------------------------------------------------
(***************************************************************************)
(* Counting edges: taking a subset away from a finite set subtracts, and   *)
(* the count is zero exactly when nothing is left.                         *)
(***************************************************************************)
LEMMA MinusFacts ==
  ASSUME NEW A, IsFiniteSet(A), NEW B \in SUBSET A
  PROVE  /\ Cardinality(A) \in Nat
         /\ Minus(Cardinality(A), Cardinality(B)) = Cardinality(A \ B)
         /\ Cardinality(A \ B) = 0 <=> A \ B = {}
<1>1. IsFiniteSet(B) /\ IsFiniteSet(A \ B)
  BY FS_Subset
<1>2. Cardinality(A) \in Nat /\ Cardinality(B) \in Nat /\ Cardinality(A \ B) \in Nat
  BY <1>1, FS_CardinalityType
<1>3. Cardinality(A) = Cardinality(A \ B) + Cardinality(B)
  <2>1. (A \ B) \cup B = A /\ (A \ B) \cap B = {}
    OBVIOUS
  <2>2. Cardinality((A \ B) \cup B) =
          Cardinality(A \ B) + Cardinality(B) - Cardinality((A \ B) \cap B)
    BY <1>1, FS_Union
  <2>3. QED
    BY <1>2, <2>1, <2>2, FS_EmptySet
<1>4. Minus(Cardinality(A), Cardinality(B)) = Cardinality(A \ B)
  BY <1>2, <1>3 DEF Minus
<1>5. QED
  BY <1>1, <1>2, <1>4, FS_EmptySet

(***************************************************************************)
(* The edges of any job are finitely many.                                 *)
(***************************************************************************)
LEMMA EdgeSetsFinite ==
  ASSUME NEW E \in SUBSET Names
  PROVE  IsFiniteSet(E)
  BY NamesAssumption, FS_Subset

(***************************************************************************)
(* The jobs of one status are finitely many, and the five statuses share   *)
(* no job.                                                                 *)
(***************************************************************************)
LEMMA StatusSets ==
  ASSUME TypeOK, IsFiniteSet(DOMAIN jobs)
  PROVE  /\ \A S \in SUBSET DOMAIN jobs : IsFiniteSet(S)
         /\ \A s, t \in Statuses : s # t => With(s) \cap With(t) = {}
         /\ DOMAIN jobs = With("Pending") \cup With("Ready") \cup With("Running")
                            \cup With("Done") \cup With("Failed")
<1>1. \A S \in SUBSET DOMAIN jobs : IsFiniteSet(S)
  BY FS_Subset
<1>2. \A s, t \in Statuses : s # t => With(s) \cap With(t) = {}
  BY DEF With
<1>3. DOMAIN jobs = With("Pending") \cup With("Ready") \cup With("Running")
                            \cup With("Done") \cup With("Failed")
  BY DEF TypeOK, With, Statuses
<1>4. QED
  BY <1>1, <1>2, <1>3

(***************************************************************************)
(* What the end of a dispatch does to the workers.                         *)
(***************************************************************************)
LEMMA ReturnFacts ==
  ASSUME IInv, NEW w \in Workers, Return(w)
  PROVE  /\ job[w] \in With("Running")
         /\ Dispatching' = Dispatching \ {w}
         /\ running' \in Nat /\ running' = Cardinality(Dispatching')
         /\ abort' \in BOOLEAN
         /\ pc' \in [Workers -> {"check", "waiting", "dispatch", "gone"}]
         /\ job' \in [Workers -> DOMAIN jobs \cup {None}]
         /\ \A v \in Dispatching' : job'[v] = job[v] /\ job[v] # job[w]
         /\ \A v \in Workers : pc'[v] # "waiting"
<1>1. w \in Dispatching /\ job[w] \in With("Running")
  BY DEF IInv, OneWorkerEach, Dispatching, Return
<1>2. /\ pc' = [ v \in Workers |-> IF v = w \/ pc[v] = "waiting" THEN "check" ELSE pc[v] ]
      /\ job' = [job EXCEPT ![w] = None]
      /\ running' = running - 1
      /\ abort' = abort
  BY DEF Return, NotifyAll
<1>3. /\ pc \in [Workers -> {"check", "waiting", "dispatch", "gone"}]
      /\ job \in [Workers -> DOMAIN jobs \cup {None}]
      /\ abort \in BOOLEAN
  BY DEF IInv, TypeOK
<1>4. Dispatching' = Dispatching \ {w}
  BY <1>2, <1>3 DEF Dispatching
<1>5. IsFiniteSet(Dispatching)
  BY WorkersAssumption, FS_Subset DEF Dispatching
<1>6. IsFiniteSet(Dispatching \ {w}) /\ Cardinality(Dispatching \ {w}) = running - 1
  BY <1>1, <1>5, FS_RemoveElement DEF IInv, CountersAgree
<1>7. Cardinality(Dispatching \ {w}) \in Nat
  BY <1>6, FS_CardinalityType
<1>8. \A v \in Dispatching' : job'[v] = job[v] /\ job[v] # job[w]
  BY <1>1, <1>2, <1>3, <1>4 DEF IInv, OneWorkerEach, Dispatching
<1>9. /\ pc' \in [Workers -> {"check", "waiting", "dispatch", "gone"}]
      /\ job' \in [Workers -> DOMAIN jobs \cup {None}]
      /\ abort' \in BOOLEAN
      /\ \A v \in Workers : pc'[v] # "waiting"
  BY <1>2, <1>3
<1>10. running' \in Nat /\ running' = Cardinality(Dispatching')
  BY <1>2, <1>4, <1>6, <1>7
<1>11. QED
  BY <1>1, <1>4, <1>8, <1>9, <1>10

(***************************************************************************)
(* A finished dispatch leaves every other running job with its worker.     *)
(***************************************************************************)
LEMMA WorkersAfterReturn ==
  ASSUME IInv, NEW w \in Workers, Return(w),
         With("Running")' = With("Running") \ {job[w]}
  PROVE  OneWorkerEach'
<1>1. /\ Dispatching' = Dispatching \ {w}
      /\ \A v \in Dispatching' : job'[v] = job[v] /\ job[v] # job[w]
  BY ReturnFacts
<1>2. \A v \in Dispatching' : job'[v] \in With("Running")'
  BY <1>1 DEF IInv, OneWorkerEach
<1>3. \A j \in With("Running")' : \E v \in Dispatching' : job'[v] = j
  BY <1>1 DEF IInv, OneWorkerEach
<1>4. \A u, v \in Dispatching' : job'[u] = job'[v] => u = v
  BY <1>1 DEF IInv, OneWorkerEach
<1>5. QED
  BY <1>2, <1>3, <1>4 DEF OneWorkerEach

(***************************************************************************)
(* Counting the jobs that come to an end in a step.                        *)
(***************************************************************************)
LEMMA TerminalAfter ==
  ASSUME IInv, NEW F, IsFiniteSet(F),
         F \cap (With("Done") \cup With("Failed")) = {},
         With("Done")' \cup With("Failed")' = (With("Done") \cup With("Failed")) \cup F,
         terminal' = terminal + Cardinality(F)
  PROVE  /\ terminal' \in Nat
         /\ terminal' = Cardinality(With("Done")' \cup With("Failed")')
<1> DEFINE O == With("Done") \cup With("Failed")
<1>1. IsFiniteSet(O)
  BY StatusSets, FS_Subset DEF IInv, Sound, With
<1>2. Cardinality(O \cup F) = Cardinality(O) + Cardinality(F) - Cardinality(O \cap F)
  BY <1>1, FS_Union
<1>3. Cardinality(O \cap F) = 0
  <2>1. O \cap F = {}
    OBVIOUS
  <2>2. QED
    BY <2>1, FS_EmptySet
<1>4. Cardinality(O) \in Nat /\ Cardinality(F) \in Nat
  BY <1>1, FS_CardinalityType
<1>5. terminal = Cardinality(O)
  BY DEF IInv, CountersAgree
<1>6. With("Done")' \cup With("Failed")' = O \cup F
  OBVIOUS
<1>7. Cardinality(O \cup F) = terminal' /\ terminal' \in Nat
  <2> HIDE DEF O
  <2>1. QED
    BY <1>2, <1>3, <1>4, <1>5
<1>8. QED
  BY <1>6, <1>7

-----------------------------------------------------------------------------
(***************************************************************************)
(* A worker that takes the head of the queue keeps the invariant.          *)
(***************************************************************************)
LEMMA TakeKeeps ==
  ASSUME IInv, NEW w \in Workers, Take(w)
  PROVE  IInv'
<1> DEFINE h == Head(ready)
<1>1. /\ ready' = Tail(ready) /\ status' = [status EXCEPT ![h] = "Running"]
      /\ running' = running + 1 /\ pc[w] = "check"
      /\ pc' = [pc EXCEPT ![w] = "dispatch"] /\ job' = [job EXCEPT ![w] = h]
      /\ UNCHANGED <<jobs, remaining, completed, report, total, terminal, abort>>
  BY DEF Take
<1>2. /\ ready \in Seq(DOMAIN jobs) /\ ready # << >> /\ Distinct(ready)
      /\ ToSet(ready) = With("Ready")
  BY DEF IInv, TypeOK, QueueAgrees, Distinct, Take, MayTake
<1>3. /\ h \in DOMAIN jobs /\ h \in With("Ready")
      /\ Tail(ready) \in Seq(DOMAIN jobs)
      /\ ToSet(Tail(ready)) = With("Ready") \ {h}
      /\ Distinct(Tail(ready))
  BY <1>2, TailFacts
<1> HIDE DEF h
<1>4. /\ status \in [DOMAIN jobs -> Statuses]
      /\ pc \in [Workers -> {"check", "waiting", "dispatch", "gone"}]
      /\ job \in [Workers -> DOMAIN jobs \cup {None}]
  BY DEF IInv, TypeOK
<1>5. status' \in [DOMAIN jobs -> Statuses]
  BY <1>1, <1>3, <1>4 DEF Statuses
<1>6. /\ With("Pending")' = With("Pending") /\ With("Done")' = With("Done")
      /\ With("Failed")' = With("Failed")
      /\ With("Ready")' = With("Ready") \ {h}
      /\ With("Running")' = With("Running") \cup {h}
      /\ h \notin With("Running")
  BY <1>1, <1>3, <1>4 DEF With
<1>7. Dispatching' = Dispatching \cup {w} /\ w \notin Dispatching
  BY <1>1, <1>4 DEF Dispatching
<1>8. TypeOK'
  <2>1. running' \in Nat
    BY <1>1 DEF IInv, TypeOK
  <2>2. /\ pc' \in [Workers -> {"check", "waiting", "dispatch", "gone"}]
        /\ job' \in [Workers -> DOMAIN jobs \cup {None}]
    BY <1>1, <1>3, <1>4
  <2>3. QED
    BY <1>1, <1>3, <1>5, <2>1, <2>2 DEF IInv, TypeOK
<1>9. Sound(jobs)'
  BY <1>1 DEF IInv, Sound, Acyclic, ParentIds
<1>10. CountersAgree'
  <2>1. IsFiniteSet(Dispatching)
    BY WorkersAssumption, FS_Subset DEF Dispatching
  <2>2. running' = Cardinality(Dispatching')
    BY <1>1, <1>7, <2>1, FS_AddElement DEF IInv, CountersAgree
  <2>3. QED
    BY <1>1, <1>6, <2>2 DEF IInv, CountersAgree
<1>11. OneWorkerEach'
  <2>1. job'[w] = h /\ \A v \in Dispatching : job'[v] = job[v] /\ job[v] # h
    BY <1>1, <1>4, <1>6, <1>7 DEF IInv, OneWorkerEach, Dispatching
  <2>2. QED
    BY <1>6, <1>7, <2>1 DEF IInv, OneWorkerEach
<1>12. QueueAgrees'
  BY <1>1, <1>3, <1>6 DEF QueueAgrees, Distinct
<1>13. EdgesAgree'
  <2> SUFFICES ASSUME NEW j \in With("Pending")
               PROVE  /\ remaining[j] = Cardinality({ n \in Names :
                           jobs[j].inputs[n] # Leaf /\ status'[jobs[j].inputs[n]] # "Done" })
                      /\ remaining[j] > 0
    BY <1>1, <1>6 DEF EdgesAgree
  <2>1. \A n \in Names : jobs[j].inputs[n] # Leaf => jobs[j].inputs[n] \in DOMAIN jobs
    BY DEF IInv, Sound, ParentIds, With
  <2>2. { n \in Names : jobs[j].inputs[n] # Leaf /\ status'[jobs[j].inputs[n]] # "Done" }
        = { n \in Names : jobs[j].inputs[n] # Leaf /\ status[jobs[j].inputs[n]] # "Done" }
    BY <1>6, <2>1, <1>1 DEF With
  <2>3. QED
    BY <2>2 DEF IInv, EdgesAgree
<1>14. ParentsFirst'
  BY <1>1, <1>3, <1>6 DEF IInv, ParentsFirst
<1>15. FailureReaches'
  <2> SUFFICES ASSUME NEW j \in DOMAIN jobs, ParentIds(jobs[j]) \cap With("Failed") # {}
               PROVE  j \in With("Failed")'
    BY <1>1, <1>6 DEF FailureReaches, With
  <2>1. QED
    BY <1>6 DEF IInv, FailureReaches, With
<1>16. EntriesKept' /\ ReportAgrees'
  BY <1>1, <1>6 DEF IInv, EntriesKept, ReportAgrees
<1>17. QED
  BY <1>8, <1>9, <1>10, <1>11, <1>12, <1>13, <1>14, <1>15, <1>16 DEF IInv

-----------------------------------------------------------------------------
(***************************************************************************)
(* The jobs a failure takes down are the failing one and pending ones; a   *)
(* job in the ready queue has all its parents done, so none is among them. *)
(***************************************************************************)
LEMMA DoomedFacts ==
  ASSUME IInv, NEW id \in With("Running")
  PROVE  LET doomed == Cascade(jobs, {id}, NotYetRun)
         IN  /\ doomed \subseteq {id} \cup With("Pending")
             /\ id \in doomed
             /\ \A c \in With("Pending") : ParentIds(jobs[c]) \cap doomed # {} => c \in doomed
             /\ \A c \in doomed \ {id} : ParentIds(jobs[c]) \cap doomed # {}
<1> DEFINE doomed == Cascade(jobs, {id}, NotYetRun)
<1>1. {id} \in SUBSET DOMAIN jobs /\ NotYetRun \in SUBSET DOMAIN jobs
  BY DEF With, NotYetRun
<1>2. /\ doomed \in SUBSET DOMAIN jobs
      /\ {id} \subseteq doomed
      /\ doomed \subseteq {id} \cup NotYetRun
      /\ \A c \in NotYetRun : ParentIds(jobs[c]) \cap doomed # {} => c \in doomed
      /\ \A c \in doomed \ {id} : ParentIds(jobs[c]) \cap doomed # {}
  BY <1>1, CascadeFacts
<1> HIDE DEF doomed
<1>3. doomed \cap With("Done") = {}
  BY <1>2 DEF NotYetRun, With
<1>4. ASSUME NEW c \in doomed, c \in With("Ready")
      PROVE  FALSE
  <2>1. c # id
    BY <1>4 DEF With
  <2>2. ParentIds(jobs[c]) \subseteq With("Done")
    BY <1>4 DEF IInv, ParentsFirst
  <2>3. QED
    BY <1>2, <1>3, <2>1, <2>2
<1>5. /\ doomed \subseteq {id} \cup With("Pending")
      /\ id \in doomed
      /\ \A c \in With("Pending") : ParentIds(jobs[c]) \cap doomed # {} => c \in doomed
      /\ \A c \in doomed \ {id} : ParentIds(jobs[c]) \cap doomed # {}
  BY <1>2, <1>4 DEF NotYetRun
<1>6. QED
  BY <1>5 DEF doomed

(***************************************************************************)
(* A failed dispatch, or a graph job whose new jobs do not validate, keeps *)
(* the invariant.                                                          *)
(***************************************************************************)
LEMMA FailKeeps ==
  ASSUME IInv, NEW w \in Workers, Return(w), FailJob(job[w])
  PROVE  IInv'
<1> DEFINE id     == job[w]
           doomed == Cascade(jobs, {id}, NotYetRun)
<1>1. /\ status' = [ j \in DOMAIN jobs |-> IF j \in doomed THEN "Failed" ELSE status[j] ]
      /\ report' = [report EXCEPT !.failed = @ \cup doomed]
      /\ terminal' = terminal + Cardinality(doomed)
      /\ ready' = Retain(ready, doomed)
      /\ UNCHANGED <<jobs, remaining, completed, total>>
  BY DEF FailJob
<1>2. /\ id \in With("Running")
      /\ Dispatching' = Dispatching \ {w}
      /\ running' \in Nat /\ running' = Cardinality(Dispatching')
      /\ abort' \in BOOLEAN
      /\ pc' \in [Workers -> {"check", "waiting", "dispatch", "gone"}]
      /\ job' \in [Workers -> DOMAIN jobs \cup {None}]
  BY ReturnFacts
<1>3. /\ doomed \subseteq {id} \cup With("Pending")
      /\ id \in doomed
      /\ \A c \in With("Pending") : ParentIds(jobs[c]) \cap doomed # {} => c \in doomed
  <2> HIDE DEF id
  <2>1. QED
    BY <1>2, DoomedFacts
<1> HIDE DEF id, doomed
<1>4. status \in [DOMAIN jobs -> Statuses]
  BY DEF IInv, TypeOK
<1>5. /\ doomed \subseteq DOMAIN jobs
      /\ doomed \cap (With("Ready") \cup With("Done") \cup With("Failed")) = {}
  BY <1>2, <1>3 DEF With
<1>6. ready' = ready
  BY <1>1, <1>5 DEF Retain, IInv, QueueAgrees
<1>7. status' \in [DOMAIN jobs -> Statuses]
  BY <1>1, <1>4 DEF Statuses
<1>8. /\ With("Failed")' = With("Failed") \cup doomed
      /\ With("Pending")' = With("Pending") \ doomed
      /\ With("Running")' = With("Running") \ {id}
      /\ With("Ready")' = With("Ready") /\ With("Done")' = With("Done")
  BY <1>1, <1>2, <1>3, <1>4, <1>5 DEF With
<1>9. terminal' \in Nat /\ terminal' = Cardinality(With("Done")' \cup With("Failed")')
  <2>1. IsFiniteSet(doomed)
    BY <1>5, FS_Subset DEF IInv, Sound
  <2>2. QED
    BY <1>1, <1>5, <1>8, <2>1, TerminalAfter
<1>10. TypeOK'
  <2>1. report' \in [ hits   : SUBSET DOMAIN jobs,
                      built  : SUBSET DOMAIN jobs,
                      failed : SUBSET DOMAIN jobs ]
    BY <1>1, <1>5 DEF IInv, TypeOK
  <2>2. QED
    BY <1>1, <1>2, <1>6, <1>7, <1>9, <2>1 DEF IInv, TypeOK
<1>11. Sound(jobs)'
  BY <1>1 DEF IInv, Sound, Acyclic, ParentIds
<1>12. CountersAgree'
  BY <1>1, <1>2, <1>9 DEF IInv, CountersAgree
<1>13. OneWorkerEach'
  BY <1>8, WorkersAfterReturn DEF id
<1>14. QueueAgrees'
  BY <1>6, <1>8 DEF IInv, QueueAgrees
<1>15. EdgesAgree'
  <2> SUFFICES ASSUME NEW j \in With("Pending")
               PROVE  /\ remaining[j] = Cardinality({ n \in Names :
                           jobs[j].inputs[n] # Leaf /\ status'[jobs[j].inputs[n]] # "Done" })
                      /\ remaining[j] > 0
    BY <1>1, <1>8 DEF EdgesAgree
  <2>1. \A n \in Names : jobs[j].inputs[n] # Leaf => jobs[j].inputs[n] \in DOMAIN jobs
    BY DEF IInv, Sound, ParentIds, With
  <2>2. { n \in Names : jobs[j].inputs[n] # Leaf /\ status'[jobs[j].inputs[n]] # "Done" }
        = { n \in Names : jobs[j].inputs[n] # Leaf /\ status[jobs[j].inputs[n]] # "Done" }
    BY <1>8, <2>1, <1>1 DEF With
  <2>3. QED
    BY <2>2 DEF IInv, EdgesAgree
<1>16. ParentsFirst'
  BY <1>1, <1>8 DEF IInv, ParentsFirst
<1>17. FailureReaches'
  <2> SUFFICES ASSUME NEW j \in DOMAIN jobs, NEW p \in ParentIds(jobs[j]),
                      p \in With("Failed")'
               PROVE  j \in With("Failed")'
    BY <1>1 DEF FailureReaches, With
  <2>1. CASE p \in With("Failed")
    BY <1>8, <2>1 DEF IInv, FailureReaches, With
  <2>2. CASE p \in doomed
    <3>1. j \notin With("Ready") \cup With("Running") \cup With("Done")
      BY <1>5, <2>2 DEF IInv, ParentsFirst
    <3>2. j \in With("Pending") \cup With("Failed")
      BY <1>4, <3>1 DEF With, Statuses
    <3>3. QED
      BY <1>3, <1>8, <2>2, <3>2
  <2>3. QED
    BY <1>8, <2>1, <2>2
<1>18. EntriesKept' /\ ReportAgrees'
  <2>1. EntriesKept'
    BY <1>1, <1>8 DEF IInv, EntriesKept
  <2>2. /\ report'.hits = report.hits /\ report'.built = report.built
        /\ report'.failed = report.failed \cup doomed
    BY <1>1 DEF IInv, TypeOK
  <2>3. QED
    BY <1>8, <2>1, <2>2 DEF IInv, ReportAgrees
<1>19. QED
  BY <1>10, <1>11, <1>12, <1>13, <1>14, <1>15, <1>16, <1>17, <1>18 DEF IInv

-----------------------------------------------------------------------------
(***************************************************************************)
(* Waking jobs that are in no queue yet keeps the queue free of repeats.   *)
(***************************************************************************)
LEMMA EnqueueFacts ==
  ASSUME IInv, NEW S, DOMAIN jobs \subseteq S,
         NEW woken \in SUBSET S, IsFiniteSet(woken), woken \cap With("Ready") = {},
         Enqueue(woken)
  PROVE  /\ ready' \in Seq(S)
         /\ ToSet(ready') = With("Ready") \cup woken
         /\ Distinct(ready')
<1>1. PICK order \in SetToSeqs(woken) : ready' = ready \o order
  BY DEF Enqueue
<1>2. order \in Seq(woken) /\ ToSet(order) = woken /\ Distinct(order)
  BY EnumerationFacts
<1>3. /\ ready \in Seq(DOMAIN jobs) /\ Distinct(ready)
      /\ ToSet(ready) = With("Ready")
  BY DEF IInv, TypeOK, QueueAgrees, Distinct
<1>4. ready \in Seq(S) /\ order \in Seq(S)
  BY <1>2, <1>3, SeqDef
<1>5. QED
  BY <1>1, <1>2, <1>3, <1>4, ConcatFacts

(***************************************************************************)
(* Hit, Built and InProcessDone keep the invariant.                        *)
(***************************************************************************)
Unmet(j) == { n \in Names : jobs[j].inputs[n] # Leaf /\ status[jobs[j].inputs[n]] # "Done" }

(***************************************************************************)
(* complete_success, after a hit, a build or an in-process job, keeps the  *)
(* invariant.                                                              *)
(***************************************************************************)
LEMMA SucceedKeeps ==
  ASSUME IInv, NEW w \in Workers, NEW how \in {"hits", "built"}, Succeed(w, how)
  PROVE  IInv'
<1> DEFINE id    == job[w]
           rem   == RemainingAfter(jobs, remaining, id)
           woken == WokenBy(jobs, remaining, id, With("Pending"))
<1>1. /\ Return(w)
      /\ report' = IF how = "hits" THEN [report EXCEPT !.hits  = @ \cup {id}]
                                   ELSE [report EXCEPT !.built = @ \cup {id}]
      /\ completed' = IF jobs[id].kind = "Argv" THEN completed \cup {id} ELSE completed
      /\ remaining' = rem
      /\ status' = [ j \in DOMAIN jobs |->
                       CASE j = id        -> "Done"
                         [] j \in woken   -> "Ready"
                         [] OTHER         -> status[j] ]
      /\ Enqueue(woken)
      /\ terminal' = terminal + 1
      /\ UNCHANGED <<jobs, total>>
  BY DEF Succeed
<1>2. /\ id \in With("Running")
      /\ Dispatching' = Dispatching \ {w}
      /\ running' \in Nat /\ running' = Cardinality(Dispatching')
      /\ abort' \in BOOLEAN
      /\ pc' \in [Workers -> {"check", "waiting", "dispatch", "gone"}]
      /\ job' \in [Workers -> DOMAIN jobs \cup {None}]
  BY <1>1, ReturnFacts
<1>3. /\ woken \subseteq With("Pending")
      /\ \A c \in woken : rem[c] = 0
      /\ \A c \in With("Pending") \ woken : Edges(jobs[c], id) = {} \/ rem[c] # 0
  BY DEF WokenBy
<1>4. \A c \in DOMAIN jobs : rem[c] = Minus(remaining[c], Cardinality(Edges(jobs[c], id)))
  BY DEF RemainingAfter
<1>5. DOMAIN rem = DOMAIN jobs /\ rem \in [DOMAIN jobs -> Nat]
  <2>1. \A c \in DOMAIN jobs : Cardinality(Edges(jobs[c], id)) \in Nat
    BY EdgeSetsFinite, FS_CardinalityType DEF Edges
  <2>2. remaining \in [DOMAIN jobs -> Nat]
    BY DEF IInv, TypeOK
  <2>3. QED
    BY <2>1, <2>2 DEF RemainingAfter, Minus
<1> HIDE DEF rem, woken
<1>6. status \in [DOMAIN jobs -> Statuses] /\ IsFiniteSet(DOMAIN jobs)
  BY DEF IInv, TypeOK, Sound
<1>7. status' \in [DOMAIN jobs -> Statuses]
  BY <1>1, <1>6 DEF Statuses
<1>8. /\ With("Done")' = With("Done") \cup {id}
      /\ With("Failed")' = With("Failed")
      /\ With("Ready")' = With("Ready") \cup woken
      /\ With("Pending")' = With("Pending") \ woken
      /\ With("Running")' = With("Running") \ {id}
      /\ id \notin With("Done") \cup With("Failed") \cup With("Pending") \cup With("Ready")
  BY <1>1, <1>2, <1>3, <1>6 DEF With
<1>9. /\ ready' \in Seq(DOMAIN jobs)
      /\ ToSet(ready') = With("Ready") \cup woken
      /\ Distinct(ready')
  <2>1. woken \in SUBSET DOMAIN jobs /\ woken \cap With("Ready") = {}
    BY <1>3 DEF With
  <2>2. QED
    BY <1>1, <1>6, <2>1, FS_Subset, EnqueueFacts
<1> HIDE DEF id
<1>10. terminal' \in Nat /\ terminal' = Cardinality(With("Done")' \cup With("Failed")')
  <2>1. IsFiniteSet({id}) /\ Cardinality({id}) = 1
    BY FS_Singleton
  <2>2. {id} \cap (With("Done") \cup With("Failed")) = {}
    BY <1>8
  <2>3. With("Done")' \cup With("Failed")' = (With("Done") \cup With("Failed")) \cup {id}
    BY <1>8
  <2>4. terminal' = terminal + Cardinality({id})
    BY <1>1, <2>1
  <2>5. QED
    BY <2>1, <2>2, <2>3, <2>4, TerminalAfter
(***************************************************************************)
(* Every edge from the finished job was unmet before, none is after.       *)
(***************************************************************************)
<1>11. ASSUME NEW c \in DOMAIN jobs
       PROVE  /\ Edges(jobs[c], id) \subseteq Unmet(c)
              /\ Unmet(c)' = Unmet(c) \ Edges(jobs[c], id)
              /\ IsFiniteSet(Unmet(c))
  <2>1. \A n \in Names : jobs[c].inputs[n] # Leaf => jobs[c].inputs[n] \in DOMAIN jobs
    BY DEF IInv, Sound, ParentIds
  <2>2. id \in DOMAIN jobs /\ id # Leaf
    BY <1>2, LeafAssumption DEF With, IInv, TypeOK
  <2>3. Edges(jobs[c], id) \subseteq Unmet(c)
    BY <1>8, <2>2 DEF Edges, Unmet, With
  <2>4. \A p \in DOMAIN jobs : status'[p] # "Done" <=> status[p] # "Done" /\ p # id
    BY <1>1, <1>8, <2>2 DEF With
  <2>5. Unmet(c)' = Unmet(c) \ Edges(jobs[c], id)
    BY <1>1, <2>1, <2>4 DEF Edges, Unmet
  <2>6. QED
    BY <2>3, <2>5, EdgeSetsFinite DEF Unmet
<1>12. ASSUME NEW c \in With("Pending")
       PROVE  /\ rem[c] = Cardinality(Unmet(c)')
              /\ rem[c] = 0 <=> Unmet(c)' = {}
              /\ c \notin woken => rem[c] > 0
  <2>1. c \in DOMAIN jobs
    BY DEF With
  <2>2. remaining[c] = Cardinality(Unmet(c)) /\ remaining[c] > 0
    BY DEF IInv, EdgesAgree, Unmet
  <2>3. /\ Edges(jobs[c], id) \subseteq Unmet(c)
        /\ Unmet(c)' = Unmet(c) \ Edges(jobs[c], id)
        /\ IsFiniteSet(Unmet(c))
    BY <1>11, <2>1
  <2>4. /\ Minus(remaining[c], Cardinality(Edges(jobs[c], id))) = Cardinality(Unmet(c)')
        /\ Cardinality(Unmet(c)') = 0 <=> Unmet(c)' = {}
    BY <2>2, <2>3, MinusFacts
  <2>5. rem[c] = Cardinality(Unmet(c)') /\ rem[c] \in Nat
    BY <1>4, <1>5, <2>1, <2>4
  <2>6. ASSUME c \notin woken PROVE rem[c] > 0
    <3>1. CASE Edges(jobs[c], id) = {}
      <4>1. Unmet(c)' = Unmet(c)
        BY <2>3, <3>1
      <4>2. QED
        BY <2>2, <2>5, <4>1
    <3>2. CASE rem[c] # 0
      BY <2>5, <3>2
    <3>3. QED
      BY <1>3, <2>6, <3>1, <3>2
  <2>7. QED
    BY <2>4, <2>5, <2>6
<1>13. TypeOK'
  <2>1. report' \in [ hits   : SUBSET DOMAIN jobs,
                      built  : SUBSET DOMAIN jobs,
                      failed : SUBSET DOMAIN jobs ]
    BY <1>1, <1>2 DEF IInv, TypeOK, With
  <2>2. completed' \subseteq DOMAIN jobs
    BY <1>1, <1>2 DEF IInv, TypeOK, With
  <2>3. QED
    BY <1>1, <1>2, <1>5, <1>7, <1>9, <1>10, <2>1, <2>2 DEF IInv, TypeOK
<1>14. Sound(jobs)'
  BY <1>1 DEF IInv, Sound, Acyclic, ParentIds
<1>15. CountersAgree'
  BY <1>1, <1>2, <1>10 DEF IInv, CountersAgree
<1>16. OneWorkerEach'
  BY <1>1, <1>8, WorkersAfterReturn DEF id
<1>17. QueueAgrees'
  BY <1>8, <1>9 DEF QueueAgrees, Distinct
<1>18. EdgesAgree'
  <2>1. \A c \in With("Pending")' : remaining'[c] = Cardinality(Unmet(c)') /\ remaining'[c] > 0
    BY <1>1, <1>8, <1>12
  <2>2. QED
    BY <2>1 DEF EdgesAgree, Unmet
<1>19. EntriesKept'
  BY <1>1, <1>8 DEF IInv, EntriesKept
<1>20. ParentsFirst'
  <2> SUFFICES ASSUME NEW j \in (With("Ready") \cup With("Running") \cup With("Done"))',
                      NEW p \in ParentIds(jobs[j])
               PROVE  p \in With("Done")' /\ p \in completed'
    BY <1>1 DEF ParentsFirst
  <2>1. j \in DOMAIN jobs /\ p \in DOMAIN jobs /\ jobs[p].kind = "Argv"
    BY <1>1 DEF IInv, Sound, With
  <2>2. p \in With("Done")'
    <3>1. CASE j \in woken
      <4>1. Unmet(j)' = {}
        BY <1>3, <1>12, <3>1
      <4>2. status'[p] = "Done"
        BY <1>1, <4>1 DEF Unmet, ParentIds
      <4>3. QED
        BY <1>1, <2>1, <4>2 DEF With
    <3>2. CASE j \in With("Ready") \cup With("Running") \cup With("Done")
      BY <1>8, <3>2 DEF IInv, ParentsFirst
    <3>3. QED
      BY <1>2, <1>8, <3>1, <3>2
  <2>3. p \in completed'
    BY <1>1, <1>19, <2>1, <2>2 DEF EntriesKept
  <2>4. QED
    BY <2>2, <2>3
<1>21. FailureReaches'
  <2> SUFFICES ASSUME NEW j \in DOMAIN jobs, NEW p \in ParentIds(jobs[j]),
                      p \in With("Failed")'
               PROVE  j \in With("Failed")'
    BY <1>1 DEF FailureReaches, With
  <2>1. QED
    BY <1>8 DEF IInv, FailureReaches, With
<1>22. ReportAgrees'
  <2>1. report \in [ hits   : SUBSET DOMAIN jobs,
                     built  : SUBSET DOMAIN jobs,
                     failed : SUBSET DOMAIN jobs ]
    BY DEF IInv, TypeOK
  <2>2. /\ report'.failed = report.failed
        /\ \/ report'.hits = report.hits \cup {id} /\ report'.built = report.built
           \/ report'.hits = report.hits /\ report'.built = report.built \cup {id}
    BY <1>1, <2>1
  <2>3. QED
    BY <1>8, <2>2 DEF IInv, ReportAgrees
<1>23. QED
  BY <1>13, <1>14, <1>15, <1>16, <1>17, <1>18, <1>19, <1>20, <1>21, <1>22 DEF IInv

-----------------------------------------------------------------------------
(***************************************************************************)
(* A merged list takes down those of its jobs that are below a failure,    *)
(* and no job of the graph.                                                *)
(***************************************************************************)
LEMMA BornFailedFacts ==
  ASSUME IInv, NEW new \in Seq(JobDef), Valid(new, jobs)
  PROVE  LET defs == DefsOf(new)
         IN  /\ BornFailed(new) \in SUBSET IdsOf(new)
             /\ \A c \in IdsOf(new) :
                  ParentIds(defs[c]) \cap (With("Failed") \cup BornFailed(new)) # {}
                    <=> c \in BornFailed(new)
<1> DEFINE defs == DefsOf(new)
           hit  == { j \in DOMAIN defs : ParentIds(defs[j]) \cap With("Failed") # {} }
           C    == Cascade(defs, hit, DOMAIN defs)
<1>1. DOMAIN defs = IdsOf(new)
  BY DefsOfFacts
<1>2. C = BornFailed(new)
  BY DEF BornFailed
<1>3. /\ C \in SUBSET DOMAIN defs
      /\ hit \subseteq C
      /\ \A c \in DOMAIN defs : ParentIds(defs[c]) \cap C # {} => c \in C
      /\ \A c \in C \ hit : ParentIds(defs[c]) \cap C # {}
  <2>1. hit \in SUBSET DOMAIN defs /\ DOMAIN defs \in SUBSET DOMAIN defs
    OBVIOUS
  <2> HIDE DEF defs, hit
  <2>2. QED
    BY <2>1, CascadeFacts
<1> HIDE DEF C
<1>4. /\ C \in SUBSET IdsOf(new)
      /\ \A c \in IdsOf(new) :
           ParentIds(defs[c]) \cap (With("Failed") \cup C) # {} <=> c \in C
  BY <1>1, <1>3
<1>5. QED
  BY <1>2, <1>4

(***************************************************************************)
(* Merging: the graph afterwards, and which of its jobs have which status. *)
(* Nobody waits for the graph job itself, for it has no entry, so its end  *)
(* wakes nothing.                                                          *)
(***************************************************************************)
LEMMA MergeFacts ==
  ASSUME IInv, NEW w \in Workers, NEW new \in Expansions, Merge(w, new)
  PROVE  /\ Return(w)
         /\ Sound(jobs') /\ jobs' = Extend(jobs, DefsOf(new))
         /\ DOMAIN jobs' = DOMAIN jobs \cup IdsOf(new)
         /\ IdsOf(new) \cap DOMAIN jobs = {}
         /\ Len(new) = Cardinality(IdsOf(new)) /\ IsFiniteSet(IdsOf(new))
         /\ \A j \in DOMAIN jobs : jobs'[j] = jobs[j]
         /\ \A j \in IdsOf(new) : jobs'[j] = DefsOf(new)[j]
         /\ \A j \in DOMAIN jobs' : Edges(jobs'[j], job[w]) = {}
<1>1. /\ Return(w) /\ jobs[job[w]].kind = "Graph" /\ Valid(new, jobs)
      /\ jobs' = Extend(jobs, DefsOf(new))
  BY DEF Merge
<1>2. new \in Seq(JobDef)
  BY ListsAssumption
<1>3. /\ Sound(Extend(jobs, DefsOf(new)))
      /\ IdsOf(new) \cap DOMAIN jobs = {}
      /\ Len(new) = Cardinality(IdsOf(new))
  BY <1>1, <1>2, MergeSound DEF IInv
<1>4. IsFiniteSet(IdsOf(new)) /\ DOMAIN DefsOf(new) = IdsOf(new)
  BY <1>2, DefsOfFacts
<1>5. /\ DOMAIN Extend(jobs, DefsOf(new)) = DOMAIN jobs \cup IdsOf(new)
      /\ \A j \in DOMAIN jobs : Extend(jobs, DefsOf(new))[j] = jobs[j]
      /\ \A j \in IdsOf(new) \ DOMAIN jobs :
           Extend(jobs, DefsOf(new))[j] = DefsOf(new)[j]
  <2> DEFINE defs == DefsOf(new)
  <2>1. DOMAIN defs = IdsOf(new)
    BY <1>4
  <2> HIDE DEF defs
  <2>2. /\ DOMAIN Extend(jobs, defs) = DOMAIN jobs \cup DOMAIN defs
        /\ \A j \in DOMAIN jobs : Extend(jobs, defs)[j] = jobs[j]
        /\ \A j \in DOMAIN defs \ DOMAIN jobs : Extend(jobs, defs)[j] = defs[j]
    BY ExtendFacts
  <2>3. QED
    BY <2>1, <2>2 DEF defs
<1>6. job[w] \in DOMAIN jobs
  BY <1>1, ReturnFacts DEF With
<1>7. ASSUME NEW j \in DOMAIN jobs', NEW n \in Edges(jobs'[j], job[w])
      PROVE  FALSE
  <2>1. job[w] \in ParentIds(jobs'[j])
    BY <1>6, <1>7, LeafAssumption DEF Edges, ParentIds, IInv, TypeOK
  <2>2. jobs'[job[w]].kind = "Argv"
    BY <1>1, <1>3, <2>1 DEF Sound
  <2>3. QED
    BY <1>1, <1>5, <1>6, <2>2
<1>8. Sound(jobs')
  BY <1>1, <1>3
<1>9. /\ DOMAIN jobs' = DOMAIN jobs \cup IdsOf(new)
      /\ \A j \in DOMAIN jobs : jobs'[j] = jobs[j]
      /\ \A j \in IdsOf(new) : jobs'[j] = DefsOf(new)[j]
  BY <1>1, <1>3, <1>5
<1>10. QED
  BY <1>1, <1>3, <1>4, <1>7, <1>8, <1>9

(***************************************************************************)
(* The counts of the merged graph: those of the old jobs stand, a new job  *)
(* counts its edges to parents that are neither done nor failed.           *)
(***************************************************************************)
LEMMA MergeCounts ==
  ASSUME IInv, NEW w \in Workers, NEW new \in Expansions, Merge(w, new)
  PROVE  /\ remaining' \in [DOMAIN jobs' -> Nat]
         /\ \A j \in DOMAIN jobs : remaining'[j] = remaining[j]
         /\ \A j \in IdsOf(new) :
              /\ remaining'[j] = Cardinality(OpenEdges(DefsOf(new)[j]))
              /\ remaining'[j] = 0 <=> OpenEdges(DefsOf(new)[j]) = {}
              /\ remaining'[j] = RemainingAfterInsert(new)[j]
<1> DEFINE rem   == RemainingAfterInsert(new)
           fresh == [ j \in IdsOf(new) |-> Cardinality(OpenEdges(DefsOf(new)[j])) ]
<1>1. /\ jobs' = Extend(jobs, DefsOf(new))
      /\ DOMAIN jobs' = DOMAIN jobs \cup IdsOf(new)
      /\ IdsOf(new) \cap DOMAIN jobs = {}
      /\ \A j \in DOMAIN jobs' : Edges(jobs'[j], job[w]) = {}
  BY MergeFacts
<1>2. remaining' = RemainingAfter(jobs', rem, job[w])
  BY <1>1 DEF Merge
<1>3. remaining \in [DOMAIN jobs -> Nat]
  BY DEF IInv, TypeOK
<1>4. \A j \in IdsOf(new) : /\ Cardinality(OpenEdges(DefsOf(new)[j])) \in Nat
                            /\ Cardinality(OpenEdges(DefsOf(new)[j])) = 0
                                 <=> OpenEdges(DefsOf(new)[j]) = {}
  BY EdgeSetsFinite, FS_CardinalityType, FS_EmptySet DEF OpenEdges
<1>5. /\ \A j \in DOMAIN jobs : rem[j] = remaining[j]
      /\ \A j \in IdsOf(new) : rem[j] = Cardinality(OpenEdges(DefsOf(new)[j]))
  <2>1. rem = Extend(remaining, fresh)
    BY DEF RemainingAfterInsert
  <2>2. DOMAIN remaining = DOMAIN jobs /\ DOMAIN fresh = IdsOf(new)
    BY <1>3
  <2>3. \A j \in IdsOf(new) : fresh[j] = Cardinality(OpenEdges(DefsOf(new)[j]))
    OBVIOUS
  <2> HIDE DEF rem, fresh
  <2>4. /\ \A j \in DOMAIN remaining : Extend(remaining, fresh)[j] = remaining[j]
        /\ \A j \in DOMAIN fresh \ DOMAIN remaining : Extend(remaining, fresh)[j] = fresh[j]
    BY ExtendFacts
  <2>5. QED
    BY <1>1, <2>1, <2>2, <2>3, <2>4
<1> HIDE DEF rem
<1>6. \A j \in DOMAIN jobs' : rem[j] \in Nat
  BY <1>1, <1>3, <1>4, <1>5
<1>7. \A j \in DOMAIN jobs' : remaining'[j] = rem[j]
  <2> TAKE j \in DOMAIN jobs'
  <2>1. Cardinality(Edges(jobs'[j], job[w])) = 0
    BY <1>1, FS_EmptySet
  <2>2. remaining'[j] = Minus(rem[j], Cardinality(Edges(jobs'[j], job[w])))
    BY <1>2 DEF RemainingAfter
  <2>3. QED
    BY <1>6, <2>1, <2>2 DEF Minus
<1>8. remaining' \in [DOMAIN jobs' -> Nat]
  <2>1. remaining' = [ j \in DOMAIN jobs' |-> remaining'[j] ]
    BY <1>2 DEF RemainingAfter
  <2>2. QED
    BY <1>6, <1>7, <2>1
<1>9. \A j \in IdsOf(new) : remaining'[j] = RemainingAfterInsert(new)[j]
  BY <1>1, <1>7 DEF rem
<1>10. \A j \in DOMAIN jobs : remaining'[j] = remaining[j]
  BY <1>1, <1>5, <1>7
<1>11. \A j \in IdsOf(new) : remaining'[j] = Cardinality(OpenEdges(DefsOf(new)[j]))
  BY <1>1, <1>5, <1>7
<1>12. QED
  BY <1>4, <1>8, <1>9, <1>10, <1>11

(***************************************************************************)
(* Who has which status after a merge, and what else it writes.            *)
(***************************************************************************)
LEMMA MergeStatus ==
  ASSUME IInv, NEW w \in Workers, NEW new \in Expansions, Merge(w, new)
  PROVE  /\ job[w] \in DOMAIN jobs /\ job[w] \notin IdsOf(new)
         /\ status' \in [DOMAIN jobs' -> Statuses]
         /\ \A j \in DOMAIN jobs \ {job[w]} : status'[j] = status[j]
         /\ status[job[w]] = "Running" /\ status'[job[w]] = "Done"
         /\ \A j \in BornFailed(new) : status'[j] = "Failed"
         /\ \A j \in ReadyAtInsert(new) : status'[j] = "Ready"
         /\ \A j \in IdsOf(new) \ (BornFailed(new) \cup ReadyAtInsert(new)) :
              status'[j] = "Pending"
         /\ BornFailed(new) \in SUBSET IdsOf(new)
         /\ ReadyAtInsert(new) \in SUBSET (IdsOf(new) \ BornFailed(new))
         /\ Enqueue(ReadyAtInsert(new))
         /\ report' = [report EXCEPT !.built = @ \cup {job[w]},
                                     !.failed = @ \cup BornFailed(new)]
         /\ total' = total + Len(new)
         /\ terminal' = terminal + Cardinality(BornFailed(new)) + 1
         /\ UNCHANGED completed
<1> DEFINE id    == job[w]
           defs  == DefsOf(new)
           ids   == IdsOf(new)
           born  == BornFailed(new)
           start == ReadyAtInsert(new)
<1>1. /\ Return(w)
      /\ Sound(jobs')
      /\ DOMAIN jobs' = DOMAIN jobs \cup ids
      /\ ids \cap DOMAIN jobs = {}
      /\ Len(new) = Cardinality(ids) /\ IsFiniteSet(ids)
      /\ \A j \in DOMAIN jobs : jobs'[j] = jobs[j]
      /\ \A j \in ids : jobs'[j] = defs[j]
      /\ \A j \in DOMAIN jobs' : Edges(jobs'[j], id) = {}
  BY MergeFacts
<1>2. /\ remaining' \in [DOMAIN jobs' -> Nat]
      /\ \A j \in DOMAIN jobs : remaining'[j] = remaining[j]
      /\ \A j \in ids : /\ remaining'[j] = Cardinality(OpenEdges(defs[j]))
                        /\ remaining'[j] = 0 <=> OpenEdges(defs[j]) = {}
                        /\ remaining'[j] = RemainingAfterInsert(new)[j]
  BY MergeCounts
<1>3. /\ born \in SUBSET ids
      /\ \A c \in ids : ParentIds(defs[c]) \cap (With("Failed") \cup born) # {}
                          => c \in born
  <2>1. new \in Seq(JobDef) /\ Valid(new, jobs)
    BY ListsAssumption DEF Merge
  <2>2. QED
    BY <2>1, BornFailedFacts
<1>4. /\ start \in SUBSET (ids \ born)
      /\ \A j \in ids \ born : j \in start <=> OpenEdges(defs[j]) = {}
  BY <1>2 DEF ReadyAtInsert
<1>5. /\ id \in With("Running")
      /\ Dispatching' = Dispatching \ {w}
      /\ running' \in Nat /\ running' = Cardinality(Dispatching')
      /\ abort' \in BOOLEAN
      /\ pc' \in [Workers -> {"check", "waiting", "dispatch", "gone"}]
      /\ job' \in [Workers -> DOMAIN jobs \cup {None}]
  BY <1>1, ReturnFacts
<1>6. /\ status' = [ j \in DOMAIN jobs' |->
                       CASE j = id               -> "Done"
                         [] j \in born           -> "Failed"
                         [] j \in start          -> "Ready"
                         [] j \in DOMAIN jobs \ (start \cup {id}) -> status[j]
                         [] OTHER                -> "Pending" ]
      /\ Enqueue(start)
      /\ report' = [report EXCEPT !.built = @ \cup {id}, !.failed = @ \cup born]
      /\ total' = total + Len(new)
      /\ terminal' = terminal + Cardinality(born) + 1
      /\ UNCHANGED completed
  <2> DEFINE js      == Extend(jobs, DefsOf(new))
             rem     == RemainingAfterInsert(new)
             pending == { j \in DOMAIN js \ born : j \in DOMAIN jobs => status[j] = "Pending" }
             woken   == start \cup WokenBy(js, rem, id, pending)
  <2>1. js = jobs'
    BY MergeFacts
  <2>2. WokenBy(js, rem, id, pending) = {}
    BY <1>1, <2>1 DEF WokenBy
  <2>3. woken = start
    BY <2>2
  <2>4. /\ jobs' = js
        /\ status' = [ j \in DOMAIN js |->
                         CASE j = id               -> "Done"
                           [] j \in born           -> "Failed"
                           [] j \in woken          -> "Ready"
                           [] j \in DOMAIN jobs \ (woken \cup {id}) -> status[j]
                           [] OTHER                -> "Pending" ]
        /\ Enqueue(woken)
        /\ report' = [report EXCEPT !.built = @ \cup {id}, !.failed = @ \cup born]
        /\ total' = total + Len(new)
        /\ terminal' = terminal + Cardinality(born) + 1
        /\ UNCHANGED completed
    BY DEF Merge
  <2> HIDE DEF woken, js, born, start
  <2>5. QED
    BY <2>1, <2>3, <2>4
<1>7. status \in [DOMAIN jobs -> Statuses] /\ IsFiniteSet(DOMAIN jobs)
  BY DEF IInv, TypeOK, Sound
<1> HIDE DEF id, defs, ids, born, start
<1>8. status' \in [DOMAIN jobs' -> Statuses]
  <2>1. \A j \in DOMAIN jobs' : status'[j] \in Statuses
    BY <1>6, <1>7 DEF Statuses
  <2>2. status' = [ j \in DOMAIN jobs' |-> status'[j] ]
    BY <1>6
  <2>3. QED
    BY <2>1, <2>2
<1>9. id \in DOMAIN jobs /\ status[id] = "Running" /\ id \notin ids
  BY <1>1, <1>5 DEF With
<1>10. /\ \A j \in DOMAIN jobs \ {id} : status'[j] = status[j]
       /\ status'[id] = "Done"
       /\ \A j \in born : status'[j] = "Failed"
       /\ \A j \in start : status'[j] = "Ready"
       /\ \A j \in ids \ (born \cup start) : status'[j] = "Pending"
  BY <1>1, <1>3, <1>4, <1>6, <1>9
<1>11. QED
  BY <1>3, <1>4, <1>6, <1>8, <1>9, <1>10 DEF id, ids, born, start

(***************************************************************************)
(* GraphExpanded with a valid list keeps the invariant.                    *)
(***************************************************************************)
LEMMA MergeKeeps ==
  ASSUME IInv, NEW w \in Workers, NEW new \in Expansions, Merge(w, new)
  PROVE  IInv'
<1> DEFINE id    == job[w]
           defs  == DefsOf(new)
           ids   == IdsOf(new)
           born  == BornFailed(new)
           start == ReadyAtInsert(new)
<1>1. /\ Return(w)
      /\ Sound(jobs')
      /\ DOMAIN jobs' = DOMAIN jobs \cup ids
      /\ ids \cap DOMAIN jobs = {}
      /\ Len(new) = Cardinality(ids) /\ IsFiniteSet(ids)
      /\ \A j \in DOMAIN jobs : jobs'[j] = jobs[j]
      /\ \A j \in ids : jobs'[j] = defs[j]
      /\ \A j \in DOMAIN jobs' : Edges(jobs'[j], id) = {}
  BY MergeFacts
<1>2. /\ remaining' \in [DOMAIN jobs' -> Nat]
      /\ \A j \in DOMAIN jobs : remaining'[j] = remaining[j]
      /\ \A j \in ids : /\ remaining'[j] = Cardinality(OpenEdges(defs[j]))
                        /\ remaining'[j] = 0 <=> OpenEdges(defs[j]) = {}
                        /\ remaining'[j] = RemainingAfterInsert(new)[j]
  BY MergeCounts
<1>3. /\ born \in SUBSET ids
      /\ \A c \in ids : ParentIds(defs[c]) \cap (With("Failed") \cup born) # {}
                          => c \in born
  <2>1. new \in Seq(JobDef) /\ Valid(new, jobs)
    BY ListsAssumption DEF Merge
  <2>2. QED
    BY <2>1, BornFailedFacts
<1>4. /\ start \in SUBSET (ids \ born)
      /\ \A j \in ids \ born : j \in start <=> OpenEdges(defs[j]) = {}
  BY <1>2 DEF ReadyAtInsert
<1>5. /\ id \in With("Running")
      /\ Dispatching' = Dispatching \ {w}
      /\ running' \in Nat /\ running' = Cardinality(Dispatching')
      /\ abort' \in BOOLEAN
      /\ pc' \in [Workers -> {"check", "waiting", "dispatch", "gone"}]
      /\ job' \in [Workers -> DOMAIN jobs \cup {None}]
  BY <1>1, ReturnFacts
<1>6. /\ Enqueue(start)
      /\ report' = [report EXCEPT !.built = @ \cup {id}, !.failed = @ \cup born]
      /\ total' = total + Len(new)
      /\ terminal' = terminal + Cardinality(born) + 1
      /\ UNCHANGED completed
  BY MergeStatus
<1>7. status \in [DOMAIN jobs -> Statuses] /\ IsFiniteSet(DOMAIN jobs)
  BY DEF IInv, TypeOK, Sound
<1>8. status' \in [DOMAIN jobs' -> Statuses]
  BY MergeStatus
<1>9. id \in DOMAIN jobs /\ status[id] = "Running" /\ id \notin ids
  BY MergeStatus
<1>10. /\ \A j \in DOMAIN jobs \ {id} : status'[j] = status[j]
       /\ status'[id] = "Done"
       /\ \A j \in born : status'[j] = "Failed"
       /\ \A j \in start : status'[j] = "Ready"
       /\ \A j \in ids \ (born \cup start) : status'[j] = "Pending"
  BY MergeStatus
<1> HIDE DEF id, defs, ids, born, start
<1>11. /\ With("Done")' = With("Done") \cup {id}
       /\ With("Failed")' = With("Failed") \cup born
       /\ With("Ready")' = With("Ready") \cup start
       /\ With("Pending")' = With("Pending") \cup (ids \ (born \cup start))
       /\ With("Running")' = With("Running") \ {id}
       /\ id \notin With("Done") \cup With("Failed") \cup With("Pending") \cup With("Ready")
  BY <1>1, <1>3, <1>4, <1>9, <1>10 DEF With
<1>12. /\ ready' \in Seq(DOMAIN jobs')
       /\ ToSet(ready') = With("Ready") \cup start
       /\ Distinct(ready')
  <2>1. /\ DOMAIN jobs \subseteq DOMAIN jobs'
        /\ start \in SUBSET DOMAIN jobs'
        /\ start \cap With("Ready") = {}
    BY <1>1, <1>4 DEF With
  <2>2. IsFiniteSet(start)
    BY <1>1, <1>4, FS_Subset
  <2>3. QED
    BY <1>6, <2>1, <2>2, EnqueueFacts
<1>13. terminal' \in Nat /\ terminal' = Cardinality(With("Done")' \cup With("Failed")')
  <2>1. IsFiniteSet(born) /\ id \notin born
    BY <1>1, <1>3, <1>9, FS_Subset
  <2>2. IsFiniteSet(born \cup {id}) /\ Cardinality(born \cup {id}) = Cardinality(born) + 1
    BY <2>1, FS_AddElement
  <2>3. Cardinality(born) \in Nat /\ terminal \in Nat
    BY <2>1, FS_CardinalityType DEF IInv, TypeOK
  <2>4. terminal' = terminal + Cardinality(born \cup {id})
    BY <1>6, <2>2, <2>3
  <2>5. (born \cup {id}) \cap (With("Done") \cup With("Failed")) = {}
    BY <1>1, <1>3, <1>11 DEF With
  <2>6. With("Done")' \cup With("Failed")' =
          (With("Done") \cup With("Failed")) \cup (born \cup {id})
    BY <1>11
  <2>7. QED
    BY <2>2, <2>4, <2>5, <2>6, TerminalAfter
<1>14. total' \in Nat /\ total' = Cardinality(DOMAIN jobs')
  <2>1. /\ Cardinality(DOMAIN jobs) \in Nat /\ Cardinality(ids) \in Nat
    BY <1>1, <1>7, FS_CardinalityType
  <2>2. Cardinality(DOMAIN jobs \cup ids) = Cardinality(DOMAIN jobs) + Cardinality(ids)
                                              - Cardinality(DOMAIN jobs \cap ids)
    BY <1>1, <1>7, FS_Union
  <2>3. Cardinality(DOMAIN jobs \cap ids) = 0
    <3>1. DOMAIN jobs \cap ids = {}
      BY <1>1
    <3>2. QED
      BY <3>1, FS_EmptySet
  <2>4. total = Cardinality(DOMAIN jobs)
    BY DEF IInv, CountersAgree
  <2>5. QED
    BY <1>1, <1>6, <2>1, <2>2, <2>3, <2>4
<1>15. TypeOK'
  <2>1. report' \in [ hits   : SUBSET DOMAIN jobs',
                      built  : SUBSET DOMAIN jobs',
                      failed : SUBSET DOMAIN jobs' ]
    BY <1>1, <1>3, <1>6, <1>9 DEF IInv, TypeOK
  <2>2. completed' \subseteq DOMAIN jobs'
    BY <1>1, <1>6 DEF IInv, TypeOK
  <2>3. job' \in [Workers -> DOMAIN jobs' \cup {None}]
    BY <1>1, <1>5
  <2>4. DOMAIN jobs' \subseteq Ids /\ jobs' \in [DOMAIN jobs' -> JobDef]
    BY <1>1 DEF Sound
  <2>5. QED
    BY <1>2, <1>5, <1>8, <1>12, <1>13, <1>14, <2>1, <2>2, <2>3, <2>4 DEF TypeOK
<1>16. CountersAgree'
  BY <1>5, <1>13, <1>14 DEF CountersAgree
<1>17. OneWorkerEach'
  BY <1>1, <1>11, WorkersAfterReturn DEF id
<1>18. QueueAgrees'
  BY <1>11, <1>12 DEF QueueAgrees, Distinct
<1>19. EntriesKept'
  <2> SUFFICES ASSUME NEW j \in With("Done")', jobs'[j].kind = "Argv"
               PROVE  j \in completed
    BY <1>6 DEF EntriesKept
  <2>1. jobs'[id].kind = "Graph"
    BY <1>1, <1>9 DEF Merge, id
  <2>2. QED
    BY <1>1, <1>11, <2>1 DEF IInv, EntriesKept, With
<1>20. ASSUME NEW j \in ids \ born, NEW n \in Names, jobs'[j].inputs[n] # Leaf
       PROVE  LET p == jobs'[j].inputs[n]
              IN  /\ p \in DOMAIN jobs' /\ p \in ParentIds(jobs'[j])
                  /\ Settled(p) <=> status'[p] = "Done"
  <2> DEFINE p == jobs'[j].inputs[n]
  <2>1. p \in ParentIds(jobs'[j])
    BY <1>20 DEF ParentIds
  <2>2. j \in DOMAIN jobs'
    BY <1>1
  <2>3. p \in DOMAIN jobs'
    BY <1>1, <2>1, <2>2 DEF Sound
  <2>4. p # id
    BY <1>1, <2>2 DEF Edges
  <2>5. p \notin With("Failed") \cup born
    BY <1>1, <1>3, <2>1
  <2> HIDE DEF p
  <2>6. ASSUME p \in DOMAIN jobs PROVE Settled(p) <=> status'[p] = "Done"
    <3>1. status'[p] = status[p] /\ status[p] # "Failed"
      BY <1>10, <2>4, <2>5, <2>6 DEF With
    <3>2. QED
      BY <2>6, <3>1 DEF Settled
  <2>7. ASSUME p \in ids PROVE Settled(p) <=> status'[p] = "Done"
    <3>1. status'[p] # "Done"
      BY <1>10, <2>5, <2>7
    <3>2. p \notin DOMAIN jobs
      BY <1>1, <2>7
    <3>3. QED
      BY <3>1, <3>2 DEF Settled
  <2>8. Settled(p) <=> status'[p] = "Done"
    BY <1>1, <2>3, <2>6, <2>7
  <2>9. QED
    BY <2>1, <2>3, <2>8 DEF p
<1>21. ASSUME NEW j \in ids \ born
       PROVE  Unmet(j)' = OpenEdges(defs[j])
  <2>1. jobs'[j] = defs[j]
    BY <1>1
  <2>2. QED
    BY <1>20, <2>1 DEF Unmet, OpenEdges
<1>22. EdgesAgree'
  <2> SUFFICES ASSUME NEW j \in With("Pending")'
               PROVE  remaining'[j] = Cardinality(Unmet(j)') /\ remaining'[j] > 0
    BY DEF EdgesAgree, Unmet
  <2>1. CASE j \in With("Pending")
    <3>1. j \in DOMAIN jobs /\ jobs'[j] = jobs[j] /\ remaining'[j] = remaining[j]
      BY <1>1, <1>2, <2>1 DEF With
    <3>2. \A n \in Names : jobs[j].inputs[n] # Leaf =>
            jobs[j].inputs[n] \in DOMAIN jobs /\ jobs[j].inputs[n] # id
      BY <1>1, <3>1 DEF IInv, Sound, ParentIds, Edges
    <3>3. Unmet(j)' = Unmet(j)
      BY <1>10, <3>1, <3>2 DEF Unmet
    <3>4. remaining[j] = Cardinality(Unmet(j)) /\ remaining[j] > 0
      BY <2>1 DEF IInv, EdgesAgree, Unmet
    <3>5. QED
      BY <3>1, <3>3, <3>4
  <2>2. CASE j \in ids \ (born \cup start)
    <3>1. Unmet(j)' = OpenEdges(defs[j])
      BY <1>21, <2>2
    <3>2. /\ remaining'[j] = Cardinality(OpenEdges(defs[j])) /\ remaining'[j] # 0
          /\ remaining'[j] \in Nat
      BY <1>1, <1>2, <1>4, <2>2
    <3>3. QED
      BY <3>1, <3>2
  <2>3. QED
    BY <1>11, <2>1, <2>2
<1>23. ParentsFirst'
  <2> SUFFICES ASSUME NEW j \in (With("Ready") \cup With("Running") \cup With("Done"))',
                      NEW p \in ParentIds(jobs'[j])
               PROVE  p \in With("Done")' /\ p \in completed'
    BY DEF ParentsFirst
  <2>1. j \in DOMAIN jobs' /\ p \in DOMAIN jobs' /\ jobs'[p].kind = "Argv"
    BY <1>1 DEF Sound, With
  <2>2. p \in With("Done")'
    <3>1. CASE j \in start
      <4>1. PICK n \in Names : p = jobs'[j].inputs[n] /\ p # Leaf
        BY DEF ParentIds
      <4>2. j \in ids \ born /\ OpenEdges(defs[j]) = {} /\ jobs'[j] = defs[j]
        BY <1>1, <1>4, <3>1
      <4>3. Settled(p)
        BY <4>1, <4>2 DEF OpenEdges
      <4>4. status'[p] = "Done"
        BY <1>20, <4>1, <4>2, <4>3
      <4>5. QED
        BY <2>1, <4>4 DEF With
    <3>2. CASE j \in With("Ready") \cup With("Running") \cup With("Done")
      <4>1. jobs'[j] = jobs[j]
        BY <1>1, <3>2 DEF With
      <4>2. p \in With("Done")
        BY <3>2, <4>1 DEF IInv, ParentsFirst
      <4>3. QED
        BY <1>11, <4>2
    <3>3. QED
      BY <1>5, <1>11, <3>1, <3>2
  <2>3. p \in completed'
    BY <1>19, <2>1, <2>2 DEF EntriesKept
  <2>4. QED
    BY <2>2, <2>3
<1>24. FailureReaches'
  <2> SUFFICES ASSUME NEW j \in DOMAIN jobs', NEW p \in ParentIds(jobs'[j]),
                      p \in With("Failed")'
               PROVE  j \in With("Failed")'
    BY DEF FailureReaches, With
  <2>1. CASE j \in DOMAIN jobs
    <3>1. jobs'[j] = jobs[j] /\ p \in DOMAIN jobs
      BY <1>1, <2>1 DEF IInv, Sound
    <3>2. p \in With("Failed")
      BY <1>1, <1>3, <1>11, <3>1
    <3>3. j \in With("Failed")
      BY <2>1, <3>1, <3>2 DEF IInv, FailureReaches, With
    <3>4. QED
      BY <1>11, <3>3
  <2>2. CASE j \in ids
    BY <1>1, <1>3, <1>11, <2>2
  <2>3. QED
    BY <1>1, <2>1, <2>2
<1>25. ReportAgrees'
  <2>1. /\ report'.failed = report.failed \cup born
        /\ report'.hits = report.hits
        /\ report'.built = report.built \cup {id}
    BY <1>6 DEF IInv, TypeOK
  <2>2. QED
    BY <1>11, <2>1 DEF IInv, ReportAgrees
<1>26. QED
  BY <1>1, <1>15, <1>16, <1>17, <1>18, <1>19, <1>22, <1>23, <1>24, <1>25 DEF IInv

-----------------------------------------------------------------------------
(***************************************************************************)
(* A run starts in the invariant.                                          *)
(***************************************************************************)
LEMMA InitHolds ==
  ASSUME Init
  PROVE  IInv
<1>1. PICK new \in Submissions :
        /\ Valid(new, << >>)
        /\ jobs = DefsOf(new)
        /\ remaining = [ j \in IdsOf(new) |->
             Cardinality({ n \in Names : DefsOf(new)[j].inputs[n] # Leaf }) ]
        /\ status = [ j \in IdsOf(new) |-> IF remaining[j] = 0 THEN "Ready" ELSE "Pending" ]
        /\ ready \in SetToSeqs({ j \in IdsOf(new) : remaining[j] = 0 })
        /\ total = Len(new)
  BY DEF Init
<1>2. /\ completed = {} /\ report = [hits |-> {}, built |-> {}, failed |-> {}]
      /\ running = 0 /\ terminal = 0 /\ abort = FALSE
      /\ pc = [ w \in Workers |-> "check" ] /\ job = [ w \in Workers |-> None ]
  BY DEF Init
<1>3. new \in Seq(JobDef)
  BY ListsAssumption
<1>4. Sound(<< >>)
  <2>1. DOMAIN << >> = {}
    OBVIOUS
  <2>2. << >> \in [DOMAIN << >> -> JobDef]
    BY <2>1
  <2>3. QED
    BY <2>1, <2>2, FS_EmptySet DEF Sound, Acyclic
<1>5. /\ DOMAIN DefsOf(new) = IdsOf(new) /\ IdsOf(new) \subseteq Ids
      /\ IsFiniteSet(IdsOf(new))
      /\ DefsOf(new) \in [IdsOf(new) -> JobDef]
  BY <1>3, DefsOfFacts
<1>6. Sound(jobs) /\ Len(new) = Cardinality(IdsOf(new))
  <2>1. Sound(Extend(<< >>, DefsOf(new))) /\ Len(new) = Cardinality(IdsOf(new))
    BY <1>1, <1>3, <1>4, MergeSound
  <2>2. Extend(<< >>, DefsOf(new)) = DefsOf(new)
    BY <1>5 DEF Extend
  <2>3. QED
    BY <1>1, <2>1, <2>2
<1>7. /\ DOMAIN jobs = IdsOf(new) /\ jobs \in [DOMAIN jobs -> JobDef]
      /\ \A j \in DOMAIN jobs :
           /\ remaining[j] = Cardinality({ n \in Names : jobs[j].inputs[n] # Leaf })
           /\ remaining[j] \in Nat
           /\ remaining[j] = 0 <=> { n \in Names : jobs[j].inputs[n] # Leaf } = {}
  BY <1>1, <1>5, EdgeSetsFinite, FS_CardinalityType, FS_EmptySet
<1>8. status \in [DOMAIN jobs -> Statuses] /\ remaining \in [DOMAIN jobs -> Nat]
  BY <1>1, <1>7 DEF Statuses
<1>9. /\ With("Ready") = { j \in DOMAIN jobs : remaining[j] = 0 }
      /\ With("Pending") = { j \in DOMAIN jobs : remaining[j] # 0 }
      /\ With("Running") = {} /\ With("Done") = {} /\ With("Failed") = {}
  BY <1>1, <1>7 DEF With
<1>10. /\ ready \in Seq(DOMAIN jobs)
       /\ ToSet(ready) = With("Ready") /\ Distinct(ready)
  <2>1. With("Ready") \in SUBSET DOMAIN jobs
    BY DEF With
  <2>2. IsFiniteSet(With("Ready"))
    BY <1>5, <1>7, <2>1, FS_Subset
  <2>3. ready \in SetToSeqs(With("Ready"))
    BY <1>1, <1>7, <1>9
  <2>4. ready \in Seq(With("Ready")) /\ ToSet(ready) = With("Ready") /\ Distinct(ready)
    BY <2>2, <2>3, EnumerationFacts
  <2>5. QED
    BY <2>1, <2>4, SeqDef
<1>11. Dispatching = {}
  BY <1>2 DEF Dispatching
<1>12. TypeOK
  <2>1. total \in Nat
    BY <1>1, <1>3, LenProperties
  <2>2. /\ report \in [ hits   : SUBSET DOMAIN jobs,
                        built  : SUBSET DOMAIN jobs,
                        failed : SUBSET DOMAIN jobs ]
        /\ completed \subseteq DOMAIN jobs
    BY <1>2
  <2>3. /\ pc \in [Workers -> {"check", "waiting", "dispatch", "gone"}]
        /\ job \in [Workers -> DOMAIN jobs \cup {None}]
    BY <1>2
  <2>4. running \in Nat /\ terminal \in Nat /\ abort \in BOOLEAN
    BY <1>2
  <2>5. QED
    BY <1>5, <1>7, <1>8, <1>10, <2>1, <2>2, <2>3, <2>4 DEF TypeOK
<1>13. CountersAgree
  <2>1. terminal = Cardinality(With("Done") \cup With("Failed"))
    <3>1. With("Done") \cup With("Failed") = {}
      BY <1>9
    <3>2. QED
      BY <1>2, <3>1, FS_EmptySet
  <2>2. running = Cardinality(Dispatching)
    BY <1>2, <1>11, FS_EmptySet
  <2>3. QED
    BY <1>1, <1>6, <1>7, <2>1, <2>2 DEF CountersAgree
<1>14. OneWorkerEach
  BY <1>9, <1>11 DEF OneWorkerEach
<1>15. QueueAgrees
  BY <1>10 DEF QueueAgrees, Distinct
<1>16. EdgesAgree
  <2> SUFFICES ASSUME NEW j \in With("Pending")
               PROVE  remaining[j] = Cardinality(Unmet(j)) /\ remaining[j] > 0
    BY DEF EdgesAgree, Unmet
  <2>1. j \in DOMAIN jobs /\ remaining[j] # 0
    BY <1>9
  <2>2. \A n \in Names : jobs[j].inputs[n] # Leaf => status[jobs[j].inputs[n]] # "Done"
    BY <1>6, <1>9, <2>1 DEF Sound, ParentIds, With
  <2>3. Unmet(j) = { n \in Names : jobs[j].inputs[n] # Leaf }
    BY <2>2 DEF Unmet
  <2>4. QED
    BY <1>7, <2>1, <2>3
<1>17. ParentsFirst
  <2> SUFFICES ASSUME NEW j \in With("Ready") PROVE ParentIds(jobs[j]) = {}
    BY <1>9 DEF ParentsFirst
  <2>1. { n \in Names : jobs[j].inputs[n] # Leaf } = {}
    BY <1>7, <1>9
  <2>2. QED
    BY <2>1 DEF ParentIds
<1>18. FailureReaches /\ EntriesKept /\ ReportAgrees
  BY <1>2, <1>9 DEF FailureReaches, EntriesKept, ReportAgrees
<1>19. QED
  BY <1>6, <1>12, <1>13, <1>14, <1>15, <1>16, <1>17, <1>18 DEF IInv

(***************************************************************************)
(* Steps that only move a worker that has no job, or raise the abort flag. *)
(***************************************************************************)
LEMMA IdleKeeps ==
  ASSUME IInv, UNCHANGED <<graphVars, running, job>>, abort' \in BOOLEAN,
         pc' \in [Workers -> {"check", "waiting", "dispatch", "gone"}],
         Dispatching' = Dispatching
  PROVE  IInv'
<1>1. UNCHANGED <<jobs, status, remaining, ready, completed, report, total, terminal,
                  running, job>>
  BY DEF graphVars
<1>2. \A s : With(s)' = With(s)
  BY <1>1 DEF With
<1>3. TypeOK'
  BY <1>1 DEF IInv, TypeOK
<1>4. Sound(jobs)'
  BY <1>1 DEF IInv, Sound, Acyclic, ParentIds
<1>5. CountersAgree' /\ OneWorkerEach' /\ QueueAgrees'
  BY <1>1, <1>2 DEF IInv, CountersAgree, OneWorkerEach, QueueAgrees
<1>6. EdgesAgree' /\ ParentsFirst'
  BY <1>1, <1>2 DEF IInv, EdgesAgree, ParentsFirst
<1>7. FailureReaches' /\ EntriesKept' /\ ReportAgrees'
  BY <1>1, <1>2 DEF IInv, FailureReaches, EntriesKept, ReportAgrees
<1>8. QED
  BY <1>3, <1>4, <1>5, <1>6, <1>7 DEF IInv

(***************************************************************************)
(* A worker that leaves, falls asleep or wakes, and the user's abort,      *)
(* leave the graph and the queue as they are.                              *)
(***************************************************************************)
LEMMA WorkerIdles ==
  ASSUME IInv, NEW w \in Workers, Leave(w) \/ Wait(w) \/ SpuriousWake(w) \/ Abort
  PROVE  /\ UNCHANGED <<graphVars, running, job>>
         /\ abort' \in BOOLEAN
         /\ pc' \in [Workers -> {"check", "waiting", "dispatch", "gone"}]
         /\ Dispatching' = Dispatching
<1>1. /\ pc \in [Workers -> {"check", "waiting", "dispatch", "gone"}]
      /\ abort \in BOOLEAN
  BY DEF IInv, TypeOK
<1>2. /\ UNCHANGED <<graphVars, running, job>>
      /\ abort' \in BOOLEAN
      /\ pc' \in [Workers -> {"check", "waiting", "dispatch", "gone"}]
  BY <1>1 DEF Leave, Wait, SpuriousWake, Abort
<1>3. \A v \in Workers : pc'[v] = "dispatch" <=> pc[v] = "dispatch"
  BY <1>1 DEF Leave, Wait, SpuriousWake, Abort
<1>4. QED
  BY <1>2, <1>3 DEF Dispatching

-----------------------------------------------------------------------------
(***************************************************************************)
(* The cases of a step, each by the lemma of its action.                   *)
(***************************************************************************)
LEMMA NextKeeps ==
  ASSUME IInv, [Next]_vars
  PROVE  IInv'
<1>1. ASSUME NEW w \in Workers, Leave(w) \/ Wait(w) \/ SpuriousWake(w) PROVE IInv'
  BY <1>1, WorkerIdles, IdleKeeps
<1>2. ASSUME NEW w \in Workers, Take(w) PROVE IInv'
  BY <1>2, TakeKeeps
<1>3. ASSUME NEW w \in Workers, NEW how \in {"hits", "built"}, Succeed(w, how) PROVE IInv'
  BY <1>3, SucceedKeeps
<1>4. ASSUME NEW w \in Workers, Fail(w) PROVE IInv'
  BY <1>4, FailKeeps DEF Fail
<1>5. ASSUME NEW w \in Workers, NEW new \in Expansions, Merge(w, new) PROVE IInv'
  BY <1>5, MergeKeeps
<1>6. ASSUME NEW w \in Workers, NEW new \in Expansions, MergeInvalid(w, new) PROVE IInv'
  BY <1>6, FailKeeps DEF MergeInvalid
<1>7. CASE Abort
  <2>1. PICK w \in Workers : TRUE
    BY WorkersAssumption
  <2>2. QED
    BY <1>7, <2>1, WorkerIdles, IdleKeeps
<1>8. CASE UNCHANGED vars
  <2>1. UNCHANGED <<graphVars, running, job>> /\ abort' = abort /\ pc' = pc
    BY <1>8 DEF vars, graphVars
  <2>2. QED
    BY <2>1, IdleKeeps DEF IInv, TypeOK, Dispatching
<1>9. QED
  BY <1>1, <1>2, <1>3, <1>4, <1>5, <1>6, <1>7, <1>8 DEF Next, Examine, Finish

(***************************************************************************)
(* IInv holds throughout every run.                                        *)
(***************************************************************************)
THEOREM InvariantHolds == Spec => []IInv
<1>1. Init => IInv
  BY InitHolds
<1>2. IInv /\ [Next]_vars => IInv'
  BY NextKeeps
<1>3. QED
  BY <1>1, <1>2, PTL DEF Spec

(***************************************************************************)
(* Every variable keeps its type.                                          *)
(***************************************************************************)
THEOREM TypeCorrect == Spec => []TypeOK
<1>1. IInv => TypeOK
  BY DEF IInv
<1>2. QED
  BY <1>1, InvariantHolds, PTL

(***************************************************************************)
(* No job is ready, running or done before all its parents are done and on *)
(* record (worker_loop, derive_key).                                       *)
(***************************************************************************)
THEOREM NoEarlyStart == Spec => []ParentsFirst
<1>1. IInv => ParentsFirst
  BY DEF IInv
<1>2. QED
  BY <1>1, InvariantHolds, PTL

(***************************************************************************)
(* A failure has reached everything below it before the lock is released   *)
(* (fail_job, insert_job).                                                 *)
(***************************************************************************)
THEOREM FailureSpreads == Spec => []FailureReaches
<1>1. IInv => FailureReaches
  BY DEF IInv
<1>2. QED
  BY <1>1, InvariantHolds, PTL

(***************************************************************************)
(* The hand-kept counters, the queue, the edge counts, the assignment of   *)
(* jobs to workers and the report all agree with the jobs' statuses.       *)
(***************************************************************************)
THEOREM BookkeepingCorrect ==
  Spec => []BooksAgree
<1>1. IInv => BooksAgree
  BY DEF IInv, BooksAgree
<1>2. QED
  BY <1>1, InvariantHolds, PTL

-----------------------------------------------------------------------------
(***************************************************************************)
(* With nothing running and nothing ready, the pending jobs would each     *)
(* have a pending parent: a cycle, which validation has excluded.          *)
(***************************************************************************)
LEMMA InvariantExcludesStall == IInv => NoStall
<1> SUFFICES ASSUME IInv, running = 0, ready = << >> PROVE terminal = total
  BY DEF NoStall
<1>1. Dispatching = {}
  <2>1. IsFiniteSet(Dispatching)
    BY WorkersAssumption, FS_Subset DEF Dispatching
  <2>2. QED
    BY <2>1, FS_EmptySet DEF IInv, CountersAgree
<1>2. With("Running") = {}
  BY <1>1 DEF IInv, OneWorkerEach
<1>3. With("Ready") = {}
  BY DEF IInv, QueueAgrees, ToSet
<1>4. ASSUME NEW j \in With("Pending")
      PROVE  ParentIds(jobs[j]) \cap With("Pending") # {}
  <2>1. IsFiniteSet(Unmet(j))
    BY EdgeSetsFinite DEF Unmet
  <2>2. Cardinality(Unmet(j)) > 0
    BY DEF IInv, EdgesAgree, Unmet
  <2>3. Unmet(j) # {}
    BY <2>1, <2>2, FS_EmptySet
  <2>4. PICK n \in Names : jobs[j].inputs[n] # Leaf /\ status[jobs[j].inputs[n]] # "Done"
    BY <2>3 DEF Unmet
  <2> DEFINE p == jobs[j].inputs[n]
  <2>5. p \in ParentIds(jobs[j])
    BY <2>4 DEF ParentIds
  <2>6. j \in DOMAIN jobs /\ status[j] = "Pending"
    BY DEF With
  <2>7. p \in DOMAIN jobs
    BY <2>5, <2>6 DEF IInv, Sound
  <2>8. status[p] # "Failed"
    BY <2>5, <2>6, <2>7 DEF IInv, FailureReaches, With
  <2>9. status[p] = "Pending"
    BY <1>2, <1>3, <2>4, <2>7, <2>8 DEF IInv, TypeOK, With, Statuses
  <2>10. p \in With("Pending")
    BY <2>7, <2>9 DEF With
  <2>11. QED
    BY <2>5, <2>10
<1>5. With("Pending") = {}
  <2>1. With("Pending") \in SUBSET DOMAIN jobs
    BY DEF With
  <2>2. QED
    BY <1>4, <2>1 DEF IInv, Sound, Acyclic
<1>6. DOMAIN jobs = With("Done") \cup With("Failed")
  BY <1>2, <1>3, <1>5, StatusSets DEF IInv, Sound
<1>7. QED
  BY <1>6 DEF IInv, CountersAgree

(***************************************************************************)
(* The workers never all wait for each other: if no job is running or      *)
(* ready, every job has come to an end and the termination test holds.     *)
(***************************************************************************)
THEOREM NeverStalls == Spec => []NoStall
  BY InvariantHolds, InvariantExcludesStall, PTL

(***************************************************************************)
(* A worker goes to sleep only after finding nothing to take, with the     *)
(* lock held; every later step that could give it something wakes it.      *)
(***************************************************************************)
THEOREM NoWakeupLost == Spec => []NoLostWakeup
<1> DEFINE J == IInv /\ NoLostWakeup
<1>1. Init => J
  <2> SUFFICES ASSUME Init PROVE \A w \in Workers : pc[w] # "waiting"
    BY InitHolds DEF NoLostWakeup
  <2>1. QED
    BY DEF Init
<1>2. J /\ [Next]_vars => J'
  <2> SUFFICES ASSUME IInv, NoLostWakeup, [Next]_vars, NEW v \in Workers, pc'[v] = "waiting"
               PROVE  running' > 0 /\ ~MayTake'
    BY NextKeeps DEF NoLostWakeup
  <2>1. pc \in [Workers -> {"check", "waiting", "dispatch", "gone"}] /\ running \in Nat
    BY DEF IInv, TypeOK
  <2>2. ASSUME NEW w \in Workers, Leave(w) \/ SpuriousWake(w)
        PROVE  running' > 0 /\ ~MayTake'
    <3>1. UNCHANGED <<ready, running, abort>> /\ pc[v] = "waiting"
      BY <2>1, <2>2 DEF Leave, SpuriousWake, graphVars
    <3>2. QED
      BY <3>1 DEF NoLostWakeup, MayTake
  <2>3. ASSUME NEW w \in Workers, Wait(w)
        PROVE  running' > 0 /\ ~MayTake'
    <3>1. UNCHANGED <<ready, running, abort>> /\ ~MayTake
      BY <2>3 DEF Wait, graphVars
    <3>2. running # 0
      <4>1. SUFFICES ASSUME running = 0 PROVE FALSE
        OBVIOUS
      <4>2. ~abort /\ ready = << >>
        BY <2>3, <4>1 DEF Wait, MayTake
      <4>3. terminal = total /\ total \in Nat
        BY <4>1, <4>2, InvariantExcludesStall DEF NoStall, IInv, TypeOK
      <4>4. AllOver
        BY <4>1, <4>3 DEF AllOver
      <4>5. QED
        BY <2>3, <4>4 DEF Wait
    <3>3. QED
      BY <2>1, <3>1, <3>2 DEF MayTake
  <2>4. ASSUME NEW w \in Workers, Take(w)
        PROVE  running' > 0 /\ ~MayTake'
    BY <2>1, <2>4 DEF Take, NoLostWakeup
  <2>5. ASSUME NEW w \in Workers, Finish(w)
        PROVE  running' > 0 /\ ~MayTake'
    <3>1. Return(w)
      BY <2>5 DEF Finish, Succeed, Fail, Merge, MergeInvalid
    <3>2. QED
      BY <3>1, ReturnFacts
  <2>6. CASE Abort
    <3>1. running' = running /\ pc' = pc /\ abort' = TRUE
      BY <2>6 DEF Abort
    <3>2. QED
      BY <3>1 DEF NoLostWakeup, MayTake
  <2>7. CASE UNCHANGED vars
    BY <2>7 DEF vars, NoLostWakeup, MayTake
  <2>8. QED
    BY <2>2, <2>3, <2>4, <2>5, <2>6, <2>7 DEF Next, Examine
<1>3. QED
  BY <1>1, <1>2, PTL DEF Spec

-----------------------------------------------------------------------------
(***************************************************************************)
(* What one step does to the statuses, in the vocabulary of the action     *)
(* properties and of the refinement: it leaves them alone, starts a ready  *)
(* job, finishes a running one, fails a running one with what is pending   *)
(* below it, or finishes a graph job and adds new ones.                    *)
(***************************************************************************)
Same == UNCHANGED <<jobs, status>>

Starts(h) ==
  /\ ~abort /\ h \in With("Ready") /\ jobs' = jobs
  /\ status' = [status EXCEPT ![h] = "Running"]

Finishes(w, woken) ==
  /\ w \in Dispatching /\ pc'[w] = "check" /\ job[w] \in With("Running") /\ jobs' = jobs
  /\ woken \subseteq With("Pending")
  /\ status' = [ j \in DOMAIN jobs |-> CASE j = job[w]   -> "Done"
                                         [] j \in woken -> "Ready"
                                         [] OTHER       -> status[j] ]

Falls(w) ==
  /\ w \in Dispatching /\ pc'[w] = "check" /\ job[w] \in With("Running") /\ jobs' = jobs
  /\ LET doomed == Cascade(jobs, {job[w]}, NotYetRun)
     IN  status' = [ j \in DOMAIN jobs |-> IF j \in doomed THEN "Failed" ELSE status[j] ]

Grows(w, new) ==
  /\ w \in Dispatching /\ pc'[w] = "check" /\ job[w] \in With("Running")
  /\ jobs[job[w]].kind = "Graph" /\ Merge(w, new)

(***************************************************************************)
(* What any step of the pool does to the statuses: nothing, start a job,   *)
(* finish one and wake its children, fail one with all below it, or merge  *)
(* a list.                                                                 *)
(***************************************************************************)
LEMMA StepKinds ==
  ASSUME IInv, [Next]_vars
  PROVE  \/ Same
         \/ \E h \in DOMAIN jobs : Starts(h)
         \/ \E w \in Workers, woken \in SUBSET DOMAIN jobs : Finishes(w, woken)
         \/ \E w \in Workers : Falls(w)
         \/ \E w \in Workers, new \in Expansions : Grows(w, new)
<1>1. ASSUME NEW w \in Workers, Take(w) PROVE Starts(Head(ready)) /\ Head(ready) \in DOMAIN jobs
  <2>1. /\ ready \in Seq(DOMAIN jobs) /\ ready # << >> /\ Distinct(ready)
        /\ ToSet(ready) = With("Ready")
    BY <1>1 DEF IInv, TypeOK, QueueAgrees, Distinct, Take, MayTake
  <2>2. Head(ready) \in With("Ready")
    BY <2>1, TailFacts
  <2>3. QED
    BY <1>1, <2>2 DEF Starts, Take, MayTake, With
<1>2. ASSUME NEW w \in Workers, Return(w)
      PROVE  w \in Dispatching /\ pc'[w] = "check" /\ job[w] \in With("Running")
  <2>1. w \in Dispatching /\ pc'[w] = "check"
    BY <1>2 DEF Return, NotifyAll, Dispatching
  <2>2. QED
    BY <1>2, <2>1, ReturnFacts
<1>3. ASSUME NEW w \in Workers, NEW how \in {"hits", "built"}, Succeed(w, how)
      PROVE  \E woken \in SUBSET DOMAIN jobs : Finishes(w, woken)
  <2> DEFINE woken == WokenBy(jobs, remaining, job[w], With("Pending"))
  <2>1. woken \subseteq With("Pending") /\ With("Pending") \subseteq DOMAIN jobs
    BY DEF WokenBy, With
  <2>2. /\ Return(w) /\ jobs' = jobs
        /\ status' = [ j \in DOMAIN jobs |-> CASE j = job[w]   -> "Done"
                                               [] j \in woken -> "Ready"
                                               [] OTHER       -> status[j] ]
    BY <1>3 DEF Succeed
  <2> HIDE DEF woken
  <2>3. Finishes(w, woken)
    BY <1>2, <2>1, <2>2 DEF Finishes
  <2>4. QED
    BY <2>1, <2>3
<1>4. ASSUME NEW w \in Workers, Return(w), FailJob(job[w]) PROVE Falls(w)
  BY <1>2, <1>4 DEF FailJob, Falls
<1>5. ASSUME NEW w \in Workers, NEW new \in Expansions, Merge(w, new) PROVE Grows(w, new)
  BY <1>2, <1>5 DEF Merge, Grows
<1>6. ASSUME NEW w \in Workers, Leave(w) \/ Wait(w) \/ SpuriousWake(w) PROVE Same
  BY <1>6 DEF Leave, Wait, SpuriousWake, graphVars, Same
<1>7. Abort \/ UNCHANGED vars => Same
  BY DEF Abort, vars, graphVars, Same
<1>8. QED
  BY <1>1, <1>3, <1>4, <1>5, <1>6, <1>7
  DEF Next, Examine, Finish, Fail, MergeInvalid

(***************************************************************************)
(* What is done or failed stays so, and only its own worker ends a job.    *)
(***************************************************************************)
FinalStep ==
  \A j \in DOMAIN jobs :
    /\ status[j] \in {"Done", "Failed"} => status'[j] = status[j]
    /\ status[j] = "Running" /\ status'[j] # "Running" =>
         \E w \in Dispatching : job[w] = j /\ pc'[w] # "dispatch"

(***************************************************************************)
(* What is done or failed stays so, and only its own worker ends a running *)
(* job (complete_success, fail_job).                                       *)
(***************************************************************************)
THEOREM OutcomesAreFinal == Spec => OutcomesFinal
<1>1. IInv /\ [Next]_vars => [FinalStep]_vars
  <2> SUFFICES ASSUME IInv, [Next]_vars PROVE FinalStep
    OBVIOUS
  <2>1. status \in [DOMAIN jobs -> Statuses]
    BY DEF IInv, TypeOK
  <2>2. CASE Same
    BY <2>2 DEF Same, FinalStep
  <2>3. ASSUME NEW h \in DOMAIN jobs, Starts(h) PROVE FinalStep
    BY <2>1, <2>3 DEF Starts, FinalStep, With
  <2>4. ASSUME NEW w \in Workers, NEW woken \in SUBSET DOMAIN jobs, Finishes(w, woken)
        PROVE  FinalStep
    BY <2>4 DEF Finishes, FinalStep, With
  <2>5. ASSUME NEW w \in Workers, Falls(w) PROVE FinalStep
    <3> DEFINE doomed == Cascade(jobs, {job[w]}, NotYetRun)
    <3>1. doomed \subseteq {job[w]} \cup With("Pending")
      <4> DEFINE id == job[w]
      <4>1. id \in With("Running")
        BY <2>5 DEF Falls
      <4> HIDE DEF id
      <4>2. Cascade(jobs, {id}, NotYetRun) \subseteq {id} \cup With("Pending")
        BY <4>1, DoomedFacts
      <4>3. QED
        BY <4>2 DEF id
    <3>2. /\ w \in Dispatching /\ pc'[w] = "check" /\ job[w] \in With("Running")
          /\ \A j \in DOMAIN jobs : status'[j] = IF j \in doomed THEN "Failed" ELSE status[j]
      BY <2>5 DEF Falls
    <3> HIDE DEF doomed
    <3>3. QED
      BY <3>1, <3>2 DEF FinalStep, With
  <2>6. ASSUME NEW w \in Workers, NEW new \in Expansions, Grows(w, new) PROVE FinalStep
    <3>1. \A j \in DOMAIN jobs \ {job[w]} : status'[j] = status[j]
      BY <2>6, MergeStatus DEF Grows
    <3>2. QED
      BY <2>6, <3>1 DEF Grows, FinalStep, With
  <2>7. QED
    BY <2>2, <2>3, <2>4, <2>5, <2>6, StepKinds
<1>2. QED
  BY <1>1, InvariantHolds, PTL DEF Spec, OutcomesFinal, FinalStep

(***************************************************************************)
(* With the abort flag up no job starts.                                   *)
(***************************************************************************)
NoStartStep ==
  abort => \A j \in DOMAIN jobs' : status'[j] = "Running" =>
             j \in DOMAIN jobs /\ status[j] = "Running"

(***************************************************************************)
(* With the abort flag up worker_loop starts no job.                       *)
(***************************************************************************)
THEOREM AbortIsHeeded == Spec => AbortStopsDispatch
<1>1. IInv /\ [Next]_vars => [NoStartStep]_vars
  <2> SUFFICES ASSUME IInv, [Next]_vars, abort PROVE NoStartStep
    BY DEF NoStartStep
  <2>1. CASE Same
    BY <2>1 DEF Same, NoStartStep
  <2>2. ASSUME NEW h \in DOMAIN jobs, Starts(h) PROVE NoStartStep
    BY <2>2 DEF Starts
  <2>3. ASSUME NEW w \in Workers, NEW woken \in SUBSET DOMAIN jobs, Finishes(w, woken)
        PROVE  NoStartStep
    BY <2>3 DEF Finishes, NoStartStep
  <2>4. ASSUME NEW w \in Workers, Falls(w) PROVE NoStartStep
    BY <2>4 DEF Falls, NoStartStep
  <2>5. ASSUME NEW w \in Workers, NEW new \in Expansions, Grows(w, new) PROVE NoStartStep
    <3>1. /\ DOMAIN jobs' = DOMAIN jobs \cup IdsOf(new)
          /\ IdsOf(new) \cap DOMAIN jobs = {}
      BY <2>5, MergeFacts DEF Grows
    <3>2. /\ \A j \in DOMAIN jobs \ {job[w]} : status'[j] = status[j]
          /\ status'[job[w]] = "Done"
          /\ \A j \in IdsOf(new) : status'[j] \in {"Failed", "Ready", "Pending"}
      BY <2>5, MergeStatus DEF Grows
    <3>3. QED
      BY <3>1, <3>2 DEF NoStartStep
  <2>6. QED
    BY <2>1, <2>2, <2>3, <2>4, <2>5, StepKinds
<1>2. QED
  BY <1>1, InvariantHolds, PTL DEF Spec, AbortStopsDispatch, NoStartStep

(***************************************************************************)
(* A job fails without having run only below a failed parent.              *)
(***************************************************************************)
CauseStep ==
  \A j \in DOMAIN jobs' \ With("Running") :
    (j \in DOMAIN jobs => status[j] # "Failed") /\ status'[j] = "Failed"
      => \E p \in ParentIds(jobs'[j]) : status'[p] = "Failed"

(***************************************************************************)
(* A job fails without having run only below a failed parent (fail_job's   *)
(* cascade, insert_job).                                                   *)
(***************************************************************************)
THEOREM FailuresHaveCause == Spec => FailsForCause
<1>1. IInv /\ [Next]_vars => [CauseStep]_vars
  <2> SUFFICES ASSUME IInv, [Next]_vars PROVE CauseStep
    OBVIOUS
  <2>1. CASE Same
    BY <2>1 DEF Same, CauseStep
  <2>2. ASSUME NEW h \in DOMAIN jobs, Starts(h) PROVE CauseStep
    BY <2>2 DEF Starts, CauseStep, IInv, TypeOK
  <2>3. ASSUME NEW w \in Workers, NEW woken \in SUBSET DOMAIN jobs, Finishes(w, woken)
        PROVE  CauseStep
    BY <2>3 DEF Finishes, CauseStep
  <2>4. ASSUME NEW w \in Workers, Falls(w) PROVE CauseStep
    <3> DEFINE id == job[w]
               doomed == Cascade(jobs, {id}, NotYetRun)
    <3>1. /\ id \in With("Running") /\ jobs' = jobs
          /\ \A j \in DOMAIN jobs : status'[j] = IF j \in doomed THEN "Failed" ELSE status[j]
      BY <2>4 DEF Falls
    <3>2. /\ doomed \subseteq {id} \cup With("Pending")
          /\ \A c \in doomed \ {id} : ParentIds(jobs[c]) \cap doomed # {}
      <4> HIDE DEF id
      <4>1. QED
        BY <3>1, DoomedFacts
    <3> HIDE DEF id, doomed
    <3>3. doomed \subseteq DOMAIN jobs
      BY <3>1, <3>2 DEF With
    <3>4. ASSUME NEW j \in DOMAIN jobs \ With("Running"), status[j] # "Failed",
                 status'[j] = "Failed"
          PROVE  \E p \in ParentIds(jobs[j]) : status'[p] = "Failed"
      <4>1. j \in doomed \ {id}
        BY <3>1, <3>4
      <4>2. PICK p \in ParentIds(jobs[j]) : p \in doomed
        BY <3>2, <4>1
      <4>3. QED
        BY <3>1, <3>3, <4>2
    <3>5. QED
      BY <3>1, <3>4 DEF CauseStep
  <2>5. ASSUME NEW w \in Workers, NEW new \in Expansions, Grows(w, new) PROVE CauseStep
    <3> DEFINE id == job[w]  ids == IdsOf(new)  defs == DefsOf(new)  born == BornFailed(new)
    <3>1. /\ DOMAIN jobs' = DOMAIN jobs \cup ids
          /\ ids \cap DOMAIN jobs = {}
          /\ \A j \in ids : jobs'[j] = defs[j]
      BY <2>5, MergeFacts DEF Grows
    <3>2. /\ \A j \in DOMAIN jobs \ {id} : status'[j] = status[j]
          /\ status[id] = "Running" /\ status'[id] = "Done"
          /\ \A j \in born : status'[j] = "Failed"
          /\ \A j \in ids \ born : status'[j] # "Failed"
      BY <2>5, MergeStatus DEF Grows
    <3>3. \A c \in born : c \in ids /\ ParentIds(defs[c]) \cap (With("Failed") \cup born) # {}
      <4>1. new \in Seq(JobDef) /\ Valid(new, jobs)
        BY <2>5, ListsAssumption DEF Grows, Merge
      <4>2. QED
        BY <4>1, BornFailedFacts
    <3> HIDE DEF id, ids, defs, born
    <3>4. ASSUME NEW j \in DOMAIN jobs', (j \in DOMAIN jobs => status[j] # "Failed"),
                 status'[j] = "Failed"
          PROVE  \E p \in ParentIds(jobs'[j]) : status'[p] = "Failed"
      <4>1. j \in born
        BY <3>1, <3>2, <3>4
      <4>2. PICK p \in ParentIds(jobs'[j]) : p \in With("Failed") \cup born
        BY <3>1, <3>3, <4>1
      <4>3. status'[p] = "Failed"
        BY <3>2, <4>2 DEF With
      <4>4. QED
        BY <4>3
    <3>5. QED
      BY <3>4 DEF CauseStep
  <2>6. QED
    BY <2>1, <2>2, <2>3, <2>4, <2>5, StepKinds
<1>2. QED
  BY <1>1, InvariantHolds, PTL DEF Spec, FailsForCause, CauseStep

-----------------------------------------------------------------------------
(***************************************************************************)
(* The refinement: every step of the scheduler is a step of the promise,   *)
(* or changes no job's phase.                                              *)
(***************************************************************************)
Phases == [ j \in DOMAIN jobs |-> PhaseOf(status[j]) ]

(***************************************************************************)
(* The phases of the promise are the statuses of the scheduler, Pending    *)
(* and Ready taken together.                                               *)
(***************************************************************************)
LEMMA PhaseFacts ==
  ASSUME TypeOK
  PROVE  /\ Promise!In("waiting") = NotYetRun
         /\ Promise!In("running") = With("Running")
         /\ Promise!In("ok") = With("Done")
         /\ Promise!In("failed") = With("Failed")
<1>1. \A j \in DOMAIN jobs : Phases[j] = PhaseOf(status[j])
  BY DEF Phases
<1>2. \A j \in DOMAIN jobs :
        /\ Phases[j] = "waiting" <=> status[j] \in {"Pending", "Ready"}
        /\ Phases[j] = "running" <=> status[j] = "Running"
        /\ Phases[j] = "ok" <=> status[j] = "Done"
        /\ Phases[j] = "failed" <=> status[j] = "Failed"
  BY <1>1 DEF TypeOK, Statuses, PhaseOf
<1>3. QED
  BY <1>2 DEF Promise!In, With, NotYetRun, Phases

(***************************************************************************)
(* The promise speaks of graphs in the same terms as the scheduler.        *)
(***************************************************************************)
LEMMA SameTerms ==
  ASSUME NEW new, NEW f, NEW g, NEW d, NEW seeds, NEW mayFall
  PROVE  /\ Promise!IdsOf(new) = IdsOf(new)
         /\ Promise!DefsOf(new) = DefsOf(new)
         /\ Promise!Extend(f, g) = Extend(f, g)
         /\ Promise!ParentIds(d) = ParentIds(d)
         /\ Promise!Cascade(f, seeds, mayFall) = Cascade(f, seeds, mayFall)
         /\ Promise!Valid(new, f) <=> Valid(new, f)
<1>1. Promise!IdsOf(new) = IdsOf(new) /\ Promise!DefsOf(new) = DefsOf(new)
  BY DEF Promise!IdsOf, IdsOf, Promise!DefsOf, DefsOf
<1>2. Promise!Extend(f, g) = Extend(f, g)
  BY DEF Promise!Extend, Extend
<1>3. \A x : Promise!ParentIds(x) = ParentIds(x)
  BY DEF Promise!ParentIds, ParentIds
<1>4. Promise!Cascade(f, seeds, mayFall) = Cascade(f, seeds, mayFall)
  BY <1>3 DEF Promise!Cascade, Cascade, Promise!ClosedUnder, ClosedUnder
<1>5. Promise!FreshIds(new, f) <=> FreshIds(new, f)
  BY <1>1 DEF Promise!FreshIds, FreshIds
<1>6. Promise!ParentsUsable(new, f) <=> ParentsUsable(new, f)
  <2>1. Promise!Extend(f, Promise!DefsOf(new)) = Extend(f, DefsOf(new))
    BY <1>1 DEF Promise!Extend, Extend
  <2>2. QED
    BY <1>1, <1>3, <2>1 DEF Promise!ParentsUsable, ParentsUsable
<1>7. Promise!RequestsFit(new) <=> RequestsFit(new)
  BY DEF Promise!RequestsFit, RequestsFit
<1>8. Promise!Acyclic(Promise!DefsOf(new)) <=> Acyclic(DefsOf(new))
  BY <1>1, <1>3 DEF Promise!Acyclic, Acyclic
<1>9. Promise!Valid(new, f) <=> Valid(new, f)
  BY <1>5, <1>6, <1>7, <1>8 DEF Promise!Valid, Valid
<1>10. QED
  BY <1>1, <1>2, <1>3, <1>4, <1>9

(***************************************************************************)
(* The phase of each Status.                                               *)
(***************************************************************************)
LEMMA PhaseValues ==
  /\ PhaseOf("Pending") = "waiting" /\ PhaseOf("Ready") = "waiting"
  /\ PhaseOf("Running") = "running"
  /\ PhaseOf("Done") = "ok" /\ PhaseOf("Failed") = "failed"
  BY DEF PhaseOf

(***************************************************************************)
(* run starts where the promise starts.                                    *)
(***************************************************************************)
LEMMA InitRefines == Init => Promise!Init
<1> SUFFICES ASSUME Init PROVE Promise!Init
  OBVIOUS
<1>1. PICK new \in Submissions :
        /\ Valid(new, << >>) /\ jobs = DefsOf(new)
        /\ status = [ j \in IdsOf(new) |-> IF remaining[j] = 0 THEN "Ready" ELSE "Pending" ]
  BY DEF Init
<1>2. DOMAIN jobs = IdsOf(new)
  BY <1>1 DEF DefsOf
<1>3. Phases = [ j \in IdsOf(new) |-> "waiting" ]
  BY <1>1, <1>2 DEF Phases, PhaseOf
<1>4. QED
  BY <1>1, <1>3, SameTerms DEF Promise!Init, Phases

(***************************************************************************)
(* Every step of the pool is a step of the promise, or none.               *)
(***************************************************************************)
LEMMA StepRefines == IInv /\ [Next]_vars => [Promise!Next]_(Promise!vars)
<1> SUFFICES ASSUME IInv, [Next]_vars
             PROVE  Promise!Next \/ UNCHANGED <<jobs, Phases>>
  BY DEF Promise!vars, Phases
<1>1. /\ TypeOK
      /\ Promise!In("waiting") = NotYetRun /\ Promise!In("running") = With("Running")
      /\ Promise!In("ok") = With("Done") /\ Promise!In("failed") = With("Failed")
  BY PhaseFacts DEF IInv
<1>2. status \in [DOMAIN jobs -> Statuses]
  BY <1>1 DEF TypeOK
<1>3. CASE Same
  BY <1>3 DEF Same, Phases
<1>4. ASSUME NEW h \in DOMAIN jobs, Starts(h) PROVE Promise!Next
  <2>1. Phases[h] = "waiting"
    BY <1>4 DEF Starts, Phases, With, PhaseOf
  <2>2. ParentIds(jobs[h]) \subseteq Promise!In("ok")
    BY <1>1, <1>4 DEF Starts, IInv, ParentsFirst
  <2>3. Phases' = [Phases EXCEPT ![h] = "running"]
    <3>1. \A j \in DOMAIN jobs : status'[j] = IF j = h THEN "Running" ELSE status[j]
      BY <1>2, <1>4 DEF Starts
    <3>2. Phases' = [ j \in DOMAIN jobs |-> PhaseOf(status'[j]) ]
      BY <1>4 DEF Phases, Starts
    <3>3. QED
      BY <3>1, <3>2, PhaseValues DEF Phases
  <2>4. Promise!Start(h)
    BY <1>4, <2>1, <2>2, <2>3, SameTerms DEF Promise!Start, Phases, Starts
  <2>5. QED
    BY <2>4 DEF Promise!Next
<1>5. ASSUME NEW w \in Workers, NEW woken \in SUBSET DOMAIN jobs, Finishes(w, woken)
      PROVE  Promise!Next
  <2>1. job[w] \in DOMAIN jobs /\ Phases[job[w]] = "running" /\ jobs' = jobs
    BY <1>5 DEF Finishes, Phases, With, PhaseOf
  <2>2. Phases' = [Phases EXCEPT ![job[w]] = "ok"]
    <3>1. \A j \in DOMAIN jobs :
            PhaseOf(status'[j]) = IF j = job[w] THEN "ok" ELSE PhaseOf(status[j])
      BY <1>5, PhaseValues DEF Finishes, With
    <3>2. Phases' = [ j \in DOMAIN jobs |-> PhaseOf(status'[j]) ]
      BY <2>1 DEF Phases
    <3>3. QED
      BY <2>1, <3>1, <3>2 DEF Phases
  <2>3. Promise!Succeed(job[w])
    BY <2>1, <2>2 DEF Promise!Succeed, Phases
  <2>4. QED
    BY <2>1, <2>3 DEF Promise!Next
<1>6. ASSUME NEW w \in Workers, Falls(w) PROVE Promise!Next
  <2> DEFINE doomed == Cascade(jobs, {job[w]}, NotYetRun)
  <2>1. job[w] \in DOMAIN jobs /\ Phases[job[w]] = "running" /\ jobs' = jobs
    BY <1>6 DEF Falls, Phases, With, PhaseOf
  <2>2. Phases' = [ i \in DOMAIN jobs |-> IF i \in doomed THEN "failed" ELSE Phases[i] ]
    <3>1. \A j \in DOMAIN jobs : status'[j] = IF j \in doomed THEN "Failed" ELSE status[j]
      BY <1>6 DEF Falls
    <3> HIDE DEF doomed
    <3>2. Phases' = [ j \in DOMAIN jobs |-> PhaseOf(status'[j]) ]
      BY <2>1 DEF Phases
    <3>3. QED
      BY <3>1, <3>2, PhaseValues DEF Phases
  <2>3. doomed = Cascade(jobs, {job[w]}, Promise!In("waiting"))
    BY <1>1
  <2> HIDE DEF doomed
  <2>4. Promise!Fail(job[w])
    BY <2>1, <2>2, <2>3, SameTerms DEF Promise!Fail, Phases
  <2>5. QED
    BY <2>1, <2>4 DEF Promise!Next
<1>7. ASSUME NEW w \in Workers, NEW new \in Expansions, Grows(w, new) PROVE Promise!Next
  <2> DEFINE id    == job[w]
             below == { i \in IdsOf(new) :
                          ParentIds(DefsOf(new)[i]) \cap Promise!In("failed") # {} }
             fallen == Cascade(DefsOf(new), below, IdsOf(new))
  <2>1. id \in DOMAIN jobs /\ Phases[id] = "running"
    BY <1>7 DEF Grows, Phases, With, PhaseOf
  <2>2. /\ jobs' = Extend(jobs, DefsOf(new)) /\ DOMAIN jobs' = DOMAIN jobs \cup IdsOf(new)
        /\ IdsOf(new) \cap DOMAIN jobs = {}
        /\ jobs[id].kind = "Graph" /\ Valid(new, jobs)
    BY <1>7, MergeFacts DEF Grows, Merge
  <2>3. fallen = BornFailed(new)
    <3>1. DOMAIN DefsOf(new) = IdsOf(new)
      BY DEF DefsOf
    <3>2. QED
      BY <1>1, <3>1 DEF BornFailed
  <2>4. /\ \A j \in DOMAIN jobs \ {id} : status'[j] = status[j]
        /\ status'[id] = "Done"
        /\ \A j \in fallen : status'[j] = "Failed"
        /\ \A j \in IdsOf(new) \ fallen : status'[j] \in {"Ready", "Pending"}
        /\ fallen \subseteq IdsOf(new)
    <3>1. /\ \A j \in DOMAIN jobs \ {job[w]} : status'[j] = status[j]
          /\ status'[job[w]] = "Done"
          /\ \A j \in BornFailed(new) : status'[j] = "Failed"
          /\ \A j \in IdsOf(new) \ BornFailed(new) : status'[j] \in {"Ready", "Pending"}
          /\ BornFailed(new) \subseteq IdsOf(new)
      BY <1>7, MergeStatus DEF Grows
    <3> HIDE DEF fallen
    <3>2. QED
      BY <2>3, <3>1
  <2> HIDE DEF fallen, id
  <2>5. Phases' = [ i \in DOMAIN jobs' |->
                      CASE i = id             -> "ok"
                        [] i \in fallen      -> "failed"
                        [] i \in DOMAIN jobs \ {id} -> Phases[i]
                        [] OTHER             -> "waiting" ]
    <3>1. \A i \in DOMAIN jobs' :
            PhaseOf(status'[i]) = CASE i = id             -> "ok"
                                    [] i \in fallen      -> "failed"
                                    [] i \in DOMAIN jobs \ {id} -> Phases[i]
                                    [] OTHER             -> "waiting"
      <4> TAKE i \in DOMAIN jobs'
      <4>1. i = id => PhaseOf(status'[i]) = "ok" /\ i \notin fallen
        BY <2>1, <2>2, <2>4, PhaseValues
      <4>2. i \in fallen => PhaseOf(status'[i]) = "failed"
        BY <2>4, PhaseValues
      <4>3. i \in DOMAIN jobs \ {id} => PhaseOf(status'[i]) = Phases[i] /\ i \notin fallen
        BY <2>2, <2>4 DEF Phases
      <4>4. i \in IdsOf(new) \ fallen => PhaseOf(status'[i]) = "waiting"
        BY <2>4, PhaseValues
      <4>5. QED
        BY <2>1, <2>2, <4>1, <4>2, <4>3, <4>4
    <3>2. Phases' = [ j \in DOMAIN jobs' |-> PhaseOf(status'[j]) ]
      BY DEF Phases
    <3>3. QED
      BY <3>1, <3>2
  <2>6. Promise!Grow(id, new)
    BY <2>1, <2>2, <2>5, SameTerms DEF Promise!Grow, Phases, fallen
  <2>7. QED
    BY <2>1, <2>6 DEF Promise!Next
<1>8. QED
  BY <1>3, <1>4, <1>5, <1>6, <1>7, StepKinds DEF Same, Phases

(***************************************************************************)
(* The scheduler keeps the promise of a run (RunPromise).                  *)
(***************************************************************************)
THEOREM KeepsPromise == Spec => Implements
<1>1. Init => Promise!Init
  BY InitRefines
<1>2. IInv /\ [Next]_vars => [Promise!Next]_(Promise!vars)
  BY StepRefines
<1>3. QED
  BY <1>1, <1>2, InvariantHolds, PTL DEF Spec, Implements, Promise!Spec
=============================================================================
