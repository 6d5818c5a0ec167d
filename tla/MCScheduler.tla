----------------------------- MODULE MCScheduler ----------------------------
(***************************************************************************)
(* Small instances of the scheduler: every list of three argv jobs with    *)
(* two inputs each, in one order of their ids (the first has none), and    *)
(* graphs with a graph job, an in-process job, doubled edges and a         *)
(* diamond.  MCExpansions: valid and invalid lists to merge into them.     *)
(***************************************************************************)
EXTENDS Scheduler

CONSTANTS a, b, c, d, e, n1, n2, cores

MCCapacity == cores :> 2
MCRequests == {<< >>, cores :> 1, cores :> 3}

Def(id, kind, in1, in2, res) ==
  [id |-> id, inputs |-> (n1 :> in1 @@ n2 :> in2), kind |-> kind, resources |-> res]
Argv(id, in1, in2) == Def(id, "Argv", in1, in2, cores :> 1)
InProcess(id, in1) == Def(id, "InProcess", in1, Leaf, << >>)
GraphJob(id)       == Def(id, "Graph", Leaf, Leaf, << >>)

In(S) == [{n1, n2} -> S \cup {Leaf}]
AllGraphs ==
  { << Argv(a, Leaf, Leaf),
       Argv(b, i[n1], i[n2]),
       Argv(c, k[n1], k[n2]) >> : i \in In({a, c}), k \in In({a, b}) }

Diamond  == << Argv(a, Leaf, Leaf), Argv(b, a, a), Argv(c, a, Leaf), Argv(d, b, c) >>
TwoChains == << Argv(a, Leaf, Leaf), Argv(b, a, Leaf), Argv(c, Leaf, Leaf),
                InProcess(d, c) >>
Growing  == << GraphJob(a), Argv(b, Leaf, Leaf) >>
MCSubmissions == AllGraphs \cup {Diamond, TwoChains, Growing}

MCExpansions ==
  { << >>,
    << Argv(c, b, Leaf), Argv(d, c, b) >>,        \* below an existing job
    << Argv(d, c, Leaf), Argv(c, b, b) >>,        \* a child before its parent
    << Argv(c, Leaf, Leaf), GraphJob(d) >>,       \* a further graph job
    << Argv(e, b, Leaf) >>,
    << Argv(b, Leaf, Leaf) >>,                    \* an id already taken
    << Argv(c, d, Leaf), Argv(d, c, Leaf) >>,     \* a cycle
    << Argv(c, a, Leaf) >>,                       \* a parent without an entry
    << Def(c, "Argv", Leaf, Leaf, cores :> 3) >> }  \* more than the pool holds
=============================================================================
