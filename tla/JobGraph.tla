------------------------------ MODULE JobGraph ------------------------------
(***************************************************************************)
(* Job definitions of a ppg3 run and the static checks a graph of them     *)
(* passes before anything is dispatched                                    *)
(* (crates/ppg3-core/src/scheduler.rs: JobDef, InputRef, parent_ids,       *)
(* validate_and_index).  There are no variables here: the scheduler, its   *)
(* abstract promise and the Kahn model all speak of graphs in these terms. *)
(*                                                                         *)
(* An input of a job is named.  It refers to a parent job (Job, JobSubset) *)
(* or to something outside the graph (Leaf, File), written Leaf here.  Two *)
(* inputs of one job may name the same parent, so edges are counted per    *)
(* input name, as the code counts them.                                    *)
(***************************************************************************)
EXTENDS Naturals, FiniteSets, Sequences

CONSTANTS
  Ids,        \* job ids
  Names,      \* input names a job may use
  Leaf,       \* an input that is no parent job
  Pools,      \* resource pool names a job may mention
  Capacity,   \* configured pools: a function from some of Pools to Nat
  Requests    \* resource requests jobs make: functions from some of Pools to Nat

ASSUME LeafAssumption == Leaf \notin Ids
ASSUME NamesAssumption == IsFiniteSet(Names)
ASSUME CapacityAssumption ==
  /\ DOMAIN Capacity \subseteq Pools
  /\ \A p \in DOMAIN Capacity : Capacity[p] \in Nat
ASSUME RequestsAssumption ==
  \A r \in Requests : DOMAIN r \subseteq Pools /\ \A p \in DOMAIN r : r[p] \in Nat

(***************************************************************************)
(* "Argv" jobs run a command and publish a store entry; "InProcess" jobs   *)
(* call back into the coordinating process and publish none; a "Graph" job *)
(* is an InProcess job with graph_job set, whose callback returns new jobs.*)
(***************************************************************************)
Kinds == {"Argv", "InProcess", "Graph"}

JobDef == [ id        : Ids,
            inputs    : [Names -> Ids \cup {Leaf}],
            kind      : Kinds,
            resources : Requests ]

Edges(def, p)   == { n \in Names : def.inputs[n] = p }
ParentIds(def)  == { def.inputs[n] : n \in Names } \ {Leaf}

IdsOf(new)   == { new[i].id : i \in DOMAIN new }
DefsOf(new)  == [ j \in IdsOf(new) |->
                    new[CHOOSE i \in DOMAIN new : new[i].id = j] ]

(***************************************************************************)
(* f, extended with the mapping g on the new points of g.                  *)
(***************************************************************************)
Extend(f, g) == [ x \in DOMAIN f \cup DOMAIN g |->
                    IF x \in DOMAIN f THEN f[x] ELSE g[x] ]

-----------------------------------------------------------------------------
(***************************************************************************)
(* Acyclicity, as a definition and not as an algorithm: no non-empty set   *)
(* of jobs in which every job has a parent in the set.  Only edges inside  *)
(* jobs count, as in detect_cycle.                                         *)
(***************************************************************************)
Acyclic(jobs) ==
  \A S \in SUBSET DOMAIN jobs :
    (\A j \in S : ParentIds(jobs[j]) \cap S # {}) => S = {}

(***************************************************************************)
(* The four checks of validate_and_index, in its order: no id twice and    *)
(* none taken, every parent known and with a store entry, every resource   *)
(* request within a configured pool, no cycle among the new jobs.          *)
(***************************************************************************)
FreshIds(new, existing) ==
  /\ \A i, k \in DOMAIN new : new[i].id = new[k].id => i = k
  /\ IdsOf(new) \cap DOMAIN existing = {}

ParentsUsable(new, existing) ==
  \A i \in DOMAIN new : \A p \in ParentIds(new[i]) :
    /\ p \in DOMAIN existing \cup IdsOf(new)
    /\ Extend(existing, DefsOf(new))[p].kind = "Argv"

RequestsFit(new) ==
  \A i \in DOMAIN new : \A p \in DOMAIN new[i].resources :
    p \in DOMAIN Capacity /\ new[i].resources[p] <= Capacity[p]

Valid(new, existing) ==
  /\ FreshIds(new, existing)
  /\ ParentsUsable(new, existing)
  /\ RequestsFit(new)
  /\ Acyclic(DefsOf(new))

-----------------------------------------------------------------------------
(***************************************************************************)
(* The jobs a failure takes down: the least set that contains seeds and,   *)
(* with a job, every child of it that may still fall (fail_job's recursion *)
(* over dependents).  Stated as the intersection of all closed sets.       *)
(***************************************************************************)
ClosedUnder(T, jobs, seeds, mayFall) ==
  /\ seeds \subseteq T
  /\ \A c \in mayFall : ParentIds(jobs[c]) \cap T # {} => c \in T

Cascade(jobs, seeds, mayFall) ==
  { c \in DOMAIN jobs :
      \A T \in SUBSET DOMAIN jobs :
        ClosedUnder(T, jobs, seeds, mayFall) => c \in T }
=============================================================================
