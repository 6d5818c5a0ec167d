----------------------------- MODULE RunPromise -----------------------------
(***************************************************************************)
(* What a run promises about the jobs it is given, without worker threads, *)
(* queues, counters or locks: a job starts once, when every parent has     *)
(* succeeded; a failure fails at once everything below it that has not     *)
(* started, and nothing else; a graph job that succeeds may add jobs.      *)
(* Scheduler implements it (Scheduler!Promise).                            *)
(***************************************************************************)
EXTENDS JobGraph

CONSTANTS Submissions, Expansions

VARIABLES
  graph,   \* the jobs known so far: id -> definition
  phase    \* id -> "waiting", "running", "ok" or "failed"

vars == <<graph, phase>>

In(p) == { j \in DOMAIN graph : phase[j] = p }

Init ==
  \E new \in Submissions :
    /\ Valid(new, << >>)
    /\ graph = DefsOf(new)
    /\ phase = [ j \in IdsOf(new) |-> "waiting" ]

Start(j) ==
  /\ phase[j] = "waiting"
  /\ ParentIds(graph[j]) \subseteq In("ok")
  /\ phase' = [phase EXCEPT ![j] = "running"]
  /\ UNCHANGED graph

Succeed(j) ==
  /\ phase[j] = "running"
  /\ phase' = [phase EXCEPT ![j] = "ok"]
  /\ UNCHANGED graph

Fail(j) ==
  /\ phase[j] = "running"
  /\ LET fallen == Cascade(graph, {j}, In("waiting"))
     IN  phase' = [ i \in DOMAIN graph |->
                      IF i \in fallen THEN "failed" ELSE phase[i] ]
  /\ UNCHANGED graph

(***************************************************************************)
(* The new jobs join waiting, except those below an earlier failure.       *)
(***************************************************************************)
Grow(j, new) ==
  /\ phase[j] = "running"
  /\ graph[j].kind = "Graph"
  /\ Valid(new, graph)
  /\ graph' = Extend(graph, DefsOf(new))
  /\ LET below  == { i \in IdsOf(new) :
                       ParentIds(DefsOf(new)[i]) \cap In("failed") # {} }
         fallen == Cascade(DefsOf(new), below, IdsOf(new))
     IN  phase' = [ i \in DOMAIN graph' |->
                      CASE i = j             -> "ok"
                        [] i \in fallen      -> "failed"
                        [] i \in DOMAIN graph \ {j} -> phase[i]
                        [] OTHER             -> "waiting" ]

Next ==
  \E j \in DOMAIN graph :
    \/ Start(j) \/ Succeed(j) \/ Fail(j)
    \/ \E new \in Expansions : Grow(j, new)

Spec == Init /\ [][Next]_vars
=============================================================================
