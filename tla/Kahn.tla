-------------------------------- MODULE Kahn --------------------------------
(***************************************************************************)
(* detect_cycle of crates/ppg3-core/src/scheduler.rs, one step per job     *)
(* taken off its queue.  The code says "cycle" when the jobs it visited    *)
(* are not all of them; Verdict says that this is so exactly when the new  *)
(* jobs have a cycle in the sense of JobGraph!Acyclic.                     *)
(***************************************************************************)
EXTENDS JobGraph, SequencesExt

CONSTANT Graphs    \* the job sets given to detect_cycle: functions id -> def

ASSUME GraphsAssumption ==
  \A g \in Graphs :
    DOMAIN g \subseteq Ids /\ IsFiniteSet(DOMAIN g) /\ g \in [DOMAIN g -> JobDef]

VARIABLES
  jobs,      \* the slice of jobs being checked
  indeg,     \* edges from jobs of the slice not yet visited
  queue,     \* ids whose in-degree has reached zero, not yet visited
  visited,   \* the code's counter
  popped     \* history: the ids taken off the queue so far

vars == <<jobs, indeg, queue, visited, popped>>

\* Mutant: every parent counts, in the slice or not.
InDegreeAll(js, c) == Cardinality({ n \in Names : js[c].inputs[n] # Leaf })
\* Mutant: a parent counts once, however many inputs name it.
InDegreeOnce(js, c) == Cardinality(ParentIds(js[c]) \cap DOMAIN js)

(***************************************************************************)
(* The in-degree the first loop computes: one per input that refers to a   *)
(* job of the slice.                                                       *)
(***************************************************************************)
InDegree(js, c) == Cardinality({ n \in Names : js[c].inputs[n] \in DOMAIN js })

(***************************************************************************)
(* The queue starts with the sources, in the order a HashMap yields them.  *)
(***************************************************************************)
Init ==
  /\ jobs \in Graphs
  /\ indeg = [ c \in DOMAIN jobs |-> InDegree(jobs, c) ]
  /\ queue \in SetToSeqs({ c \in DOMAIN jobs : indeg[c] = 0 })
  /\ visited = 0
  /\ popped = {}

Children(n) == { c \in DOMAIN jobs : Edges(jobs[c], n) # {} }

(***************************************************************************)
(* One turn of the while loop: every edge out of the head is removed, and  *)
(* a child left with none goes to the back of the queue.                   *)
(***************************************************************************)
Visit ==
  /\ queue # << >>
  /\ LET n    == Head(queue)
         left == [ c \in DOMAIN jobs |-> indeg[c] - Cardinality(Edges(jobs[c], n)) ]
         free == { c \in Children(n) : left[c] = 0 }
     IN  /\ indeg' = left
         /\ \E order \in SetToSeqs(free) : queue' = Tail(queue) \o order
         /\ popped' = popped \cup {n}
  /\ visited' = visited + 1
  /\ UNCHANGED jobs

Finished == queue = << >>
Accepted == visited = Cardinality(DOMAIN jobs)

Next == Visit \/ (Finished /\ UNCHANGED vars)

Spec == Init /\ [][Next]_vars

-----------------------------------------------------------------------------
(***************************************************************************)
(* Every edge count of detect_cycle stays a number: it is taken down once  *)
(* for every edge and never below zero, where the subtraction of the usize *)
(* would panic.                                                            *)
(***************************************************************************)
TypeOK ==
  /\ DOMAIN jobs \subseteq Ids
  /\ indeg \in [DOMAIN jobs -> Nat]
  /\ queue \in Seq(DOMAIN jobs)
  /\ visited \in Nat
  /\ popped \subseteq DOMAIN jobs

(***************************************************************************)
(* detect_cycle accepts a slice exactly when it has no cycle; an edge      *)
(* counted twice (two inputs naming one parent) makes no difference, and   *)
(* an edge into a job outside the slice none either.                       *)
(***************************************************************************)
Verdict == Finished => (Accepted <=> Acyclic(jobs))

(***************************************************************************)
(* No job is visited twice, whatever the multiplicity of its edges: the    *)
(* counter is the number of different jobs visited.                        *)
(***************************************************************************)
VisitedOnce == visited = Cardinality(popped) /\ popped \cap ToSet(queue) = {}
=============================================================================
