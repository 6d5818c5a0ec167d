--------------------------- MODULE ProjectProofs ----------------------------
(***************************************************************************)
(* What a project keeps over any number of runs, edits, collections and    *)
(* kills, for any scripts, stores and files: what a run has is what        *)
(* building everything anew would give, and what was obtained is not built *)
(* again.                                                                  *)
(***************************************************************************)
EXTENDS Explain, FiniteSetTheorems, WellFoundedInduction, TLAPS

(***************************************************************************)
(* A job does not tell a value from a file with that content: derive_key   *)
(* keys them alike (scheduler.rs:1192), and an input that was the one may  *)
(* have become the other.                                                  *)
(***************************************************************************)
SeesContent(job) ==
  \A f, g :
    (\A m \in DOMAIN job.inputs :
       f[m] = g[m] \/ (job.inputs[m].kind = "leaf" /\ f[m][2] = g[m][2]))
    => \A n \in job.recipe.writes :
         Does(job.recipe, job.env, n, [ m \in DOMAIN job.inputs |-> f[m] ]) =
         Does(job.recipe, job.env, n, [ m \in DOMAIN job.inputs |-> g[m] ])

Blind == \A s \in Scripts : \A id \in DOMAIN s : ~IsFetch(s[id]) => SeesContent(s[id])

-----------------------------------------------------------------------------
(***************************************************************************)
(* A set of numbers has a smallest element, a bounded one a largest.       *)
(***************************************************************************)
LEMMA SmallestIs ==
  ASSUME NEW S \in SUBSET Nat, S # {}
  PROVE  Min(S) \in S /\ \A m \in S : Min(S) <= m
<1>1. \E b \in S : \A c \in S : ~ (<<c, b>> \in OpToRel(<, Nat))
  BY WFMin, NatLessThanWellFounded, Zenon
<1>2. PICK least \in S : \A c \in S : least <= c
  <2> DEFINE Less == { ss \in Nat \X Nat : ss[1] < ss[2] }
  <2>1. Less = OpToRel(<, Nat)
    BY Zenon DEF OpToRel
  <2>2. \E b \in S : \A c \in S : ~ (<<c, b>> \in Less)
    BY <1>1, <2>1, Zenon
  <2>3. PICK b \in S : \A c \in S : ~ (<<c, b>> \in Less)
    BY <2>2
  <2>4. ASSUME NEW c \in S PROVE b <= c
    <3>1. b \in Nat /\ c \in Nat /\ ~ (<<c, b>> \in Less)
      BY <2>3
    <3>2. <<c, b>> \in Nat \X Nat /\ <<c, b>>[1] = c /\ <<c, b>>[2] = b
      BY <3>1
    <3>3. ~ (c < b)
      BY <3>1, <3>2, Zenon
    <3>4. QED
      BY <3>1, <3>3
  <2>5. QED
    BY <2>3, <2>4
<1>3. \E b \in S : \A c \in S : b =< c
  BY <1>2
<1>4. QED
  BY <1>3 DEF Min

LEMMA LargestIs ==
  ASSUME NEW k \in Nat, NEW S \in SUBSET (0 .. k), S # {}
  PROVE  Max(S) \in S /\ \A m \in S : m <= Max(S)
<1> DEFINE Bounds == { b \in Nat : \A m \in S : m <= b }
<1> DEFINE b == Min(Bounds)
<1>1. Bounds \in SUBSET Nat /\ k \in Bounds
  OBVIOUS
<1>2. b \in Bounds /\ \A c \in Bounds : b <= c
  <2> HIDE DEF Bounds
  <2>1. QED
    BY <1>1, SmallestIs
<1>3. b \in Nat /\ \A m \in S : m \in Nat /\ m <= b
  BY <1>2
<1> HIDE DEF b
<1>4. b \in S
  <2> SUFFICES ASSUME b \notin S PROVE FALSE
    OBVIOUS
  <2>1. PICK s \in S : TRUE
    OBVIOUS
  <2>2. s \in Nat /\ s <= b /\ s # b /\ \A m \in S : m <= b /\ m # b
    BY <1>3, <2>1
  <2>3. b - 1 \in Nat /\ \A m \in S : m <= b - 1
    BY <1>3, <2>2
  <2>4. b - 1 \in Bounds
    BY <2>3
  <2>5. b <= b - 1
    BY <1>2, <2>4
  <2>6. QED
    BY <1>3, <2>5
<1>5. \E n \in S : \A m \in S : n >= m
  BY <1>3, <1>4
<1>6. Max(S) \in S /\ \A m \in S : Max(S) >= m
  BY <1>5 DEF Max
<1>7. QED
  BY <1>6, <1>3

(***************************************************************************)
(* A store a job publishes to is one that is written to, and a look-up is  *)
(* answered by a store that has the link.                                  *)
(***************************************************************************)
LEMMA TargetIs ==
  ASSUME NEW job, ~NoTarget(job)
  PROVE  Target(job) \in StoreNames \ ReadOnly
<1> DEFINE S == { i \in DOMAIN Stores : Stores[i] \notin ReadOnly }
<1>1. S \in SUBSET Nat /\ S # {}
  BY ProjectAssumption
<1>2. Min(S) \in S
  BY <1>1, SmallestIs
<1>3. QED
  BY <1>2 DEF Target, NoTarget, StoreNames

LEMMA FirstIs ==
  ASSUME NEW ik, ~Misses(ik)
  PROVE  First(ik) \in StoreNames /\ ik \in DOMAIN memo[First(ik)]
<1>1. Linked(ik) \in SUBSET Nat /\ Linked(ik) # {}
  BY ProjectAssumption DEF Linked, Misses
<1>2. Min(Linked(ik)) \in Linked(ik)
  BY <1>1, SmallestIs
<1>3. QED
  BY <1>2 DEF Linked, First, StoreNames

LEMMA MissesIs ==
  ASSUME NEW ik
  PROVE  Misses(ik) <=> \A s \in StoreNames : ik \notin DOMAIN memo[s]
  BY DEF Misses, Linked, StoreNames

-----------------------------------------------------------------------------
(***************************************************************************)
(* Types.  The numbers of generations are those of runs that succeeded,    *)
(* and a job that is run has its parents and somewhere to publish.         *)
(***************************************************************************)
Counts ==
  \A n \in DOMAIN gens : n <= runs /\ (Running => n < runs)

BuildingOK ==
  \A id \in building : ParentsOf(jobs[id]) \subseteq DOMAIN done /\ ~NoTarget(jobs[id])

Typed == TypeOK /\ Counts /\ BuildingOK /\ (Running => runs > 0)

LEMMA LatestIs ==
  ASSUME Typed
  PROVE  /\ Latest \in 0 .. MaxRuns
         /\ Running => Latest + 1 \in 1 .. runs /\ runs \in 1 .. MaxRuns
         /\ \A n \in DOMAIN gens : n \in 1 .. MaxRuns /\ n <= Latest
<1> DEFINE S == {0} \cup DOMAIN gens
<1>1. S \in SUBSET (0 .. MaxRuns) /\ S # {} /\ MaxRuns \in Nat /\ runs \in 0 .. MaxRuns
  BY ProjectAssumption DEF Typed, TypeOK
<1>2. Max(S) \in S /\ \A m \in S : m <= Max(S)
  <2> HIDE DEF S
  <2>1. QED
    BY <1>1, LargestIs
<1>3. Latest \in {0} \cup DOMAIN gens /\ \A m \in DOMAIN gens : m <= Latest
  BY <1>2 DEF Latest
<1>4. Running => Latest < runs
  BY <1>1, <1>3 DEF Typed, Counts
<1>5. MaxRuns \in Nat /\ Latest \in Nat /\ Latest <= MaxRuns /\ runs \in Nat /\ runs <= MaxRuns
  BY <1>1, <1>3
<1>6. QED
  BY <1>1, <1>3, <1>4, <1>5 DEF Typed, TypeOK

LEMMA InitTyped == Init => Typed
<1> SUFFICES ASSUME Init PROVE Typed
  OBVIOUS
<1>1. DOMAIN None = {}
  BY DEF None
<1>2. disk \in [Files -> Values] /\ web \in [Urls -> Values]
  BY ProjectAssumption DEF Init
<1>3. DOMAIN memo = StoreNames /\ DOMAIN entries = StoreNames
  BY DEF Init
<1>4. QED
  BY <1>1, <1>2, <1>3, ProjectAssumption
  DEF Init, Typed, TypeOK, Counts, BuildingOK, Running

(***************************************************************************)
(* The steps outside of a run, those of jobs, and those that end a run.    *)
(***************************************************************************)
Outside ==
  \/ \E s \in Scripts : EditScript(s)
  \/ \E f \in Files, v \in Values : EditFile(f, v)
  \/ \E u \in Urls, v \in Values : Serve(u, v)
  \/ \E id \in DOMAIN script : Unpin(id) \/ \E v \in Values : Pin(id, v)

Commands ==
  \/ \E n \in DOMAIN gens : Rollback(n) \/ DropGeneration(n)
  \/ \E s \in StoreNames : Collect(s) \/ Nuke(s)

LEMMA OutsideTyped == Typed /\ Outside => Typed'
<1> SUFFICES ASSUME Typed, Outside PROVE Typed'
  OBVIOUS
<1>1. Edit /\ UNCHANGED <<store, tree, run, runs, ghosts>>
  BY DEF Outside, EditScript, EditFile, Serve, Unpin, Pin
<1>2. edits' \in 0 .. MaxEdits
  BY <1>1, ProjectAssumption DEF Edit, Typed, TypeOK
<1>3. Running => UNCHANGED <<script, pins>>
  BY DEF Outside, EditScript, EditFile, Serve, Unpin, Pin
<1>4. Running' = Running
  BY <1>1 DEF run, Running
<1>5. /\ script' \in Scripts /\ DOMAIN pins' \subseteq DOMAIN script'
      /\ disk' \in [Files -> Values] /\ web' \in [Urls -> Values]
  <2>1. CASE \E s \in Scripts : EditScript(s)
    BY <2>1 DEF EditScript, Only, Typed, TypeOK
  <2>2. CASE \E f \in Files, v \in Values : EditFile(f, v)
    BY <2>2 DEF EditFile, Typed, TypeOK
  <2>3. CASE \E u \in Urls, v \in Values : Serve(u, v)
    BY <2>3 DEF Serve, Typed, TypeOK
  <2>4. CASE \E id \in DOMAIN script : Unpin(id)
    BY <2>4 DEF Unpin, Only, Typed, TypeOK
  <2>5. CASE \E id \in DOMAIN script, v \in Values : Pin(id, v)
    BY <2>5 DEF Pin, With, Typed, TypeOK
  <2>6. QED
    BY <2>1, <2>2, <2>3, <2>4, <2>5 DEF Outside
<1>6. QED
  BY <1>1, <1>4, <1>5, <1>2, <1>3
  DEF Typed, TypeOK, Counts, BuildingOK, store, tree, run, NoTarget

LEMMA CommandsTyped == Typed /\ Commands => Typed'
<1> SUFFICES ASSUME Typed, Commands PROVE Typed'
  OBVIOUS
<1>1. UNCHANGED <<world, run, runs>> /\ ~Running /\ (UNCHANGED edits \/ Edit)
  BY DEF Commands, Rollback, DropGeneration, Collect, Nuke
<1>2. edits' \in 0 .. MaxEdits
  BY <1>1, ProjectAssumption DEF Edit, Typed, TypeOK
<1>3. DOMAIN memo' = DOMAIN memo /\ DOMAIN entries' = DOMAIN entries
  BY DEF Commands, Rollback, DropGeneration, Collect, Nuke, Leaves, store
<1>4. DOMAIN gens' \subseteq DOMAIN gens
  BY DEF Commands, Only, Rollback, DropGeneration, Collect, Nuke, tree
<1>5. DOMAIN kept' \subseteq DOMAIN kept
  BY DEF Commands, Only, Rollback, DropGeneration, Collect, Nuke, Leaves, store
<1>6. rootless' \subseteq StoreNames \X DOMAIN gens' /\ current' \in 0 .. MaxRuns
  <2>1. CASE \E n \in DOMAIN gens : Rollback(n)
    BY <2>1 DEF Rollback, Typed, TypeOK
  <2>2. CASE \E n \in DOMAIN gens : DropGeneration(n)
    BY <2>2 DEF DropGeneration, Only, Typed, TypeOK
  <2>3. CASE \E s \in StoreNames : Collect(s)
    BY <2>3 DEF Collect, Typed, TypeOK, tree
  <2>4. CASE \E s \in StoreNames : Nuke(s)
    BY <2>4 DEF Nuke, Typed, TypeOK
  <2>5. QED
    BY <2>1, <2>2, <2>3, <2>4 DEF Commands
<1>7. QED
  BY <1>1, <1>5, <1>6, <1>2, <1>3, <1>4
  DEF Typed, TypeOK, Counts, BuildingOK, Running, world, run, NoTarget

LEMMA DispatchTyped == Typed /\ (\E id \in DOMAIN jobs : Dispatch(id)) => Typed'
<1> SUFFICES ASSUME Typed, NEW id \in DOMAIN jobs, Dispatch(id) PROVE Typed'
  OBVIOUS
<1>1. UNCHANGED <<world, tree, jobs, runs, edits>> /\ Running
  BY DEF Dispatch, Cascade, Broken, Hit, Miss, Exit, Built, Running, None
<1>2. DOMAIN memo' = DOMAIN memo /\ DOMAIN entries' = DOMAIN entries
  BY DEF Dispatch, Cascade, Broken, Hit, Miss, Exit, Built, store, Publish
<1>3. \A pin \in DOMAIN kept' : pin[1] \in StoreNames \ ReadOnly
  <2>1. CASE Built(id)
    <3>1. Target(jobs[id]) \in StoreNames \ ReadOnly
      BY <2>1, TargetIs DEF Built, Typed, BuildingOK
    <3>2. kept' = kept \/ kept' = With(kept, <<Target(jobs[id]), jobs[id].keep>>, Output(id))
      BY <2>1 DEF Built
    <3>3. QED
      BY <3>1, <3>2 DEF With, Typed, TypeOK
  <2>2. CASE ~Built(id)
    BY <2>2 DEF Dispatch, Cascade, Broken, Hit, Miss, Exit, store, Typed, TypeOK
  <2>3. QED
    BY <2>1, <2>2
<1>4. /\ \/ done' = done /\ failed' = failed \cup {id}
         \/ DOMAIN done' = DOMAIN done \cup {id} /\ failed' = failed
         \/ done' = done /\ failed' = failed
      /\ \/ building' = building \cup {id} /\ done' = done /\ failed' = failed
         \/ building' = building /\ id \notin building
         \/ building' = building \ {id}
      /\ id \notin DOMAIN done \cup failed
  BY DEF With, Dispatch, Cascade, Broken, Hit, Miss, Exit, Built, Fails, Records, Waits, Ready, Derives,
      Typed, TypeOK
<1>5. building' = building \cup {id} =>
        id \in building \/ (ParentsOf(jobs[id]) \subseteq DOMAIN done /\ ~NoTarget(jobs[id]))
  BY DEF Dispatch, Cascade, Broken, Hit, Miss, Exit, Built, Waits, Ready, Derives
<1>6. TypeOK'
  BY <1>1, <1>2, <1>3, <1>4 DEF Typed, TypeOK, world, tree, Running
<1>7. BuildingOK'
  BY <1>1, <1>4, <1>5 DEF Typed, BuildingOK, NoTarget
<1>8. QED
  BY <1>1, <1>6, <1>7 DEF Typed, Counts, tree, Running

LEMMA EndTyped ==
  Typed /\ (\/ StartRun \/ Failed \/ Killed
            \/ \E linked, patched \in SUBSET Unpinned :
                 Succeeds(linked, patched) \/ Unwritten(linked, patched))
    => Typed'
<1>1. ASSUME Typed, StartRun PROVE Typed'
  <2>1. /\ DOMAIN jobs' = DOMAIN script /\ DOMAIN done' = {} /\ failed' = {} /\ building' = {}
        /\ runs' = runs + 1 /\ runs' \in 0 .. MaxRuns
        /\ UNCHANGED <<world, store, tree, edits>>
    BY <1>1, ProjectAssumption DEF StartRun, None, Typed, TypeOK
  <2>2. \A n \in DOMAIN gens : n < runs'
    BY <1>1, <2>1, ProjectAssumption DEF Typed, TypeOK, Counts
  <2>3. QED
    BY <1>1, <2>1, <2>2 DEF Typed, TypeOK, Counts, BuildingOK, Running, world, store, tree
<1>2. ASSUME Typed, Failed \/ Killed PROVE Typed'
  <2>1. /\ jobs' = None /\ DOMAIN jobs' = {} /\ DOMAIN done' = {} /\ failed' = {} /\ building' = {}
        /\ UNCHANGED <<world, store, tree, runs, edits>>
    BY <1>2 DEF Failed, Killed, NoRun, None
  <2>2. QED
    BY <1>2, <2>1 DEF Typed, TypeOK, Counts, BuildingOK, Running, world, store, tree
<1>3. ASSUME Typed, NEW linked \in SUBSET Unpinned, NEW patched \in SUBSET Unpinned,
             Succeeds(linked, patched) \/ Unwritten(linked, patched)
      PROVE  Typed'
  <2>1. /\ jobs' = None /\ DOMAIN jobs' = {} /\ DOMAIN done' = {} /\ failed' = {} /\ building' = {}
        /\ DOMAIN memo' = StoreNames /\ Running
        /\ UNCHANGED <<script, disk, web, entries, kept, rootless, runs, edits>>
    BY <1>3 DEF Succeeds, Unwritten, TofuPass, NoRun, None, Ended
  <2>2. DOMAIN pins' \subseteq DOMAIN script
    BY <1>3, <2>1 DEF Succeeds, Unwritten, TofuPass, Unpinned, Typed, TypeOK
  <2>3. \/ DOMAIN gens' = DOMAIN gens \cup {Latest + 1} /\ current' = Latest + 1
        \/ UNCHANGED <<gens, current>>
    BY <1>3 DEF With, Succeeds, Unwritten
  <2>4. /\ Latest + 1 \in 1 .. runs /\ runs \in 1 .. MaxRuns
        /\ \A n \in DOMAIN gens : n \in 1 .. MaxRuns
    BY <1>3, <2>1, LatestIs
  <2>5. /\ DOMAIN gens' \subseteq 1 .. MaxRuns /\ current' \in 0 .. MaxRuns
        /\ \A n \in DOMAIN gens' : n <= runs
    BY <1>3, <2>3, <2>4, ProjectAssumption DEF Typed, Counts, TypeOK
  <2>6. rootless' \subseteq StoreNames \X DOMAIN gens'
    BY <1>3, <2>1, <2>3 DEF Typed, TypeOK
  <2>7. QED
    BY <1>3, <2>1, <2>2, <2>5, <2>6 DEF Typed, TypeOK, Counts, BuildingOK, Running
<1>4. QED
  BY <1>1, <1>2, <1>3

LEMMA StepTyped == Typed /\ [Next]_vars => Typed'
<1>1. ASSUME Typed, UNCHANGED vars PROVE Typed'
  BY <1>1 DEF vars, world, store, tree, run, Typed, TypeOK, Counts, BuildingOK, Running, NoTarget
<1>2. QED
  BY <1>1, OutsideTyped, CommandsTyped, DispatchTyped, EndTyped DEF Next, Outside, Commands

(***************************************************************************)
(* TypeOK of Project, for any scripts, stores and bounds.                  *)
(***************************************************************************)
THEOREM TypeCorrect == Spec => []TypeOK
<1>1. Typed => TypeOK
  BY DEF Typed
<1>2. QED
  BY <1>1, InitTyped, StepTyped, PTL DEF Spec

-----------------------------------------------------------------------------
(***************************************************************************)
(* A job as it was lowered is the job of the script, with hashes: of its   *)
(* files, one for each, and of a fetch.                                    *)
(***************************************************************************)
IsFile(job, n) == job.inputs[n].kind = "file"

Lowers(job, src) ==
  /\ {"recipe", "inputs", "env", "outputs"} \subseteq DOMAIN job
  /\ {"does", "pin", "writes"} \subseteq DOMAIN job.recipe
  /\ job.env = src.env /\ job.outputs = src.outputs
  /\ job.recipe.does = src.recipe.does /\ job.recipe.writes = src.recipe.writes
  /\ ~IsFetch(src) => job.recipe = src.recipe
  /\ DOMAIN job.inputs = DOMAIN src.inputs
  /\ \A n \in DOMAIN src.inputs :
       IF IsFile(src, n)
       THEN IsFile(job, n) /\ job.inputs[n].source = src.inputs[n].source
       ELSE job.inputs[n] = src.inputs[n]
  /\ \A m, n \in DOMAIN src.inputs :
       IsFile(src, m) /\ IsFile(src, n) /\ src.inputs[m].source = src.inputs[n].source
         => job.inputs[m].hash = job.inputs[n].hash

LoweredOK == \A id \in DOMAIN jobs : Lowers(jobs[id], script[id])

LEMMA LoweredIs ==
  ASSUME script \in Scripts, NEW id \in DOMAIN script
  PROVE  Lowers(Lowered(id), script[id])
<1> DEFINE src == script[id]
           job == Lowered(id)
<1>1. /\ {"recipe", "inputs", "env", "outputs"} \subseteq DOMAIN src
      /\ {"does", "pin", "writes"} \subseteq DOMAIN src.recipe
  BY ScriptsAssumption
<1>2. DOMAIN job = DOMAIN src /\ job.env = src.env /\ job.outputs = src.outputs
  BY <1>1 DEF Lowered
<1>3. /\ DOMAIN job.recipe = DOMAIN src.recipe
      /\ job.recipe.does = src.recipe.does /\ job.recipe.writes = src.recipe.writes
      /\ ~IsFetch(src) => job.recipe = src.recipe
  BY <1>1 DEF Lowered
<1>4. job.inputs = [ n \in DOMAIN src.inputs |->
                       IF src.inputs[n].kind = "file"
                       THEN [kind |-> "file", source |-> src.inputs[n].source,
                             hash |-> disk[src.inputs[n].source]]
                       ELSE src.inputs[n] ]
  BY <1>1 DEF Lowered
<1> HIDE DEF job
<1>5. DOMAIN job.inputs = DOMAIN src.inputs
  BY <1>4
<1>6. \A n \in DOMAIN src.inputs :
        IF IsFile(src, n)
        THEN /\ IsFile(job, n) /\ job.inputs[n].source = src.inputs[n].source
             /\ job.inputs[n].hash = disk[src.inputs[n].source]
        ELSE job.inputs[n] = src.inputs[n]
  BY <1>4 DEF IsFile
<1>7. Lowers(job, src)
  BY <1>1, <1>2, <1>3, <1>5, <1>6 DEF Lowers
<1>8. QED
  BY <1>7 DEF job

(***************************************************************************)
(* So it has the parents it has in the script, and what the script says of *)
(* its inputs holds.                                                       *)
(***************************************************************************)
LEMMA LoweredInputs ==
  ASSUME script \in Scripts, NEW id \in DOMAIN script, NEW job, Lowers(job, script[id])
  PROVE  /\ IsFetch(job) <=> IsFetch(script[id])
         /\ ParentsOf(job) = ParentsOf(script[id])
         /\ \A n \in DOMAIN job.inputs :
              /\ job.inputs[n].kind = script[id].inputs[n].kind
              /\ job.inputs[n].kind \in {"job", "subset", "file", "leaf"}
              /\ job.inputs[n].kind \in {"job", "subset"} => job.inputs[n].id \in ParentsOf(job)
              /\ job.inputs[n].kind = "subset" => Cardinality(job.inputs[n].names) = 1
              /\ job.inputs[n].kind = "file" => job.inputs[n].source \in Files
              /\ IsFetch(job) => job.inputs[n].kind = "leaf"
<1> DEFINE src == script[id]
<1>1. \A n \in DOMAIN src.inputs :
        /\ src.inputs[n].kind \in {"job", "subset", "file", "leaf"}
        /\ src.inputs[n].kind = "subset" => Cardinality(src.inputs[n].names) = 1
        /\ src.inputs[n].kind = "file" => src.inputs[n].source \in Files
        /\ IsFetch(src) => src.inputs[n].kind = "leaf"
  BY ScriptsAssumption
<1>2. DOMAIN job.inputs = DOMAIN src.inputs /\ (IsFetch(job) <=> IsFetch(src))
  BY DEF Lowers, IsFetch
<1>3. ASSUME NEW n \in DOMAIN src.inputs
      PROVE  /\ job.inputs[n].kind = src.inputs[n].kind
             /\ src.inputs[n].kind # "file" => job.inputs[n] = src.inputs[n]
             /\ src.inputs[n].kind = "file" => job.inputs[n].source = src.inputs[n].source
  BY DEF Lowers, IsFile
<1>4. ParentsOf(job) = ParentsOf(src)
  <2>1. \A n \in DOMAIN src.inputs : job.inputs[n].kind \in {"job", "subset"} =>
          job.inputs[n].id = src.inputs[n].id
    BY <1>3
  <2>2. QED
    BY <1>2, <1>3, <2>1 DEF ParentsOf
<1>5. \A n \in DOMAIN job.inputs :
        job.inputs[n].kind \in {"job", "subset"} => job.inputs[n].id \in ParentsOf(job)
  BY DEF ParentsOf
<1>6. QED
  BY <1>1, <1>2, <1>3, <1>4, <1>5

-----------------------------------------------------------------------------
(***************************************************************************)
(* A key depends on the parents only, and the work of a job is its key.    *)
(***************************************************************************)
LEMMA KeyStable ==
  ASSUME NEW job, NEW f, NEW g, \A p \in ParentsOf(job) : f[p] = g[p]
  PROVE  KeyDocument(job, f) = KeyDocument(job, g)
<1>1. ASSUME NEW n \in DOMAIN job.inputs
      PROVE  InputHash(job.inputs[n], f) = InputHash(job.inputs[n], g)
  <2>1. job.inputs[n].kind \in {"job", "subset"} => f[job.inputs[n].id] = g[job.inputs[n].id]
    BY DEF ParentsOf
  <2>2. QED
    BY <2>1 DEF InputHash
<1>2. [ n \in DOMAIN job.inputs |-> InputHash(job.inputs[n], f) ] =
      [ n \in DOMAIN job.inputs |-> InputHash(job.inputs[n], g) ]
  BY <1>1
<1>3. QED
  BY <1>2 DEF KeyDocument

KeyOf(work) == [ job_recipe |-> work.recipe, env |-> work.env, outputs_declared |-> work.outputs,
                 inputs |-> work.inputs ]

LEMMA WorkIsKey ==
  ASSUME NEW job, NEW got
  PROVE  KeyOf(WorkOf(job, got)) = KeyDocument(job, got)
<1>1. KeyDocument(job, got).inputs = WorkOf(job, got).inputs
  BY DEF KeyDocument, WorkOf, InputHash
<1>2. QED
  BY <1>1 DEF KeyOf, KeyDocument, WorkOf

(***************************************************************************)
(* A job that is run on the files it was keyed by writes what its key      *)
(* says.                                                                   *)
(***************************************************************************)
LEMMA ContentIs ==
  ASSUME Blind, script \in Scripts, NEW id \in DOMAIN script, NEW job, Lowers(job, script[id]),
         ~IsFetch(job), NEW got, NEW now,
         \A n \in DOMAIN job.inputs : IsFile(job, n) =>
           now[job.inputs[n].source] = job.inputs[n].hash
  PROVE  \A oh : Fulfils(KeyDocument(job, got), oh) <=> oh = Content(job, got, now)
<1> DEFINE ik == KeyDocument(job, got)
           f[m \in DOMAIN job.inputs] == Reads(job.inputs[m], got, now)
           g[m \in DOMAIN job.inputs] == Given(ik.inputs[m])
<1>1. /\ ik.job_recipe = script[id].recipe /\ ik.job_recipe = job.recipe
      /\ ik.env = script[id].env /\ ik.env = job.env
      /\ DOMAIN ik.inputs = DOMAIN job.inputs /\ DOMAIN job.inputs = DOMAIN script[id].inputs
      /\ ~IsFetch(script[id]) /\ ik.job_recipe.does # "fetch"
      /\ \A m \in DOMAIN job.inputs : ik.inputs[m] = InputHash(job.inputs[m], got)
  BY LoweredInputs DEF KeyDocument, Lowers, IsFetch
<1>2. ASSUME NEW m \in DOMAIN script[id].inputs
      PROVE  f[m] = g[m] \/ (script[id].inputs[m].kind = "leaf" /\ f[m][2] = g[m][2])
  <2> DEFINE r == job.inputs[m]
  <2>1. /\ r.kind \in {"job", "subset", "file", "leaf"} /\ r.kind = script[id].inputs[m].kind
        /\ r.kind = "subset" => Cardinality(r.names) = 1
    BY <1>1, LoweredInputs
  <2>2. f[m] = Reads(r, got, now) /\ g[m] = Given(InputHash(r, got))
    BY <1>1
  <2>3. CASE r.kind = "file"
    <3>1. Reads(r, got, now) = <<"file", r.hash>>
      BY <1>1, <2>3 DEF Reads, IsFile
    <3>2. Given(InputHash(r, got)) = <<"file", r.hash>>
      BY <2>3 DEF Given, InputHash
    <3>3. QED
      BY <2>2, <3>1, <3>2
  <2>4. CASE r.kind = "leaf"
    <3>1. Reads(r, got, now) = <<"value", r.hash>>
      BY <2>4 DEF Reads
    <3>2. Given(InputHash(r, got)) = <<"file", r.hash>>
      BY <2>4 DEF Given, InputHash
    <3>3. QED
      BY <2>1, <2>2, <2>4, <3>1, <3>2
  <2>5. CASE r.kind = "job"
    <3>1. Reads(r, got, now) = Given(<<"entry", got[r.id].oh>>)
      BY <2>5 DEF Reads, Given
    <3>2. InputHash(r, got) = <<"entry", got[r.id].oh>>
      BY <2>5 DEF InputHash
    <3>3. QED
      BY <2>2, <3>1, <3>2
  <2>6. CASE r.kind = "subset"
    <3> DEFINE named == [ n \in r.names |-> got[r.id].oh[n] ]
    <3>1. InputHash(r, got) = <<"files", named>>
      BY <2>6 DEF InputHash
    <3>2. Reads(r, got, now) = <<"file", got[r.id].oh[CHOOSE n \in r.names : TRUE]>>
      BY <2>1, <2>6 DEF Reads
    <3>3. r.names # {}
      BY <2>1, <2>6, FS_EmptySet
    <3>4. OnlyFile(named) = got[r.id].oh[CHOOSE n \in r.names : TRUE]
      <4>1. DOMAIN named = r.names /\ (CHOOSE n \in r.names : TRUE) \in r.names
        BY <3>3
      <4>2. QED
        BY <4>1 DEF OnlyFile
    <3>5. Given(<<"files", named>>) = <<"file", OnlyFile(named)>>
      <4> HIDE DEF named
      <4>1. QED
        BY DEF Given
    <3>6. QED
      BY <2>2, <3>1, <3>2, <3>4, <3>5
  <2>7. QED
    BY <2>1, <2>3, <2>4, <2>5, <2>6
<1>3. \A n \in job.recipe.writes :
        Does(job.recipe, job.env, n, [ m \in DOMAIN job.inputs |-> f[m] ]) =
        Does(job.recipe, job.env, n, [ m \in DOMAIN job.inputs |-> g[m] ])
  <2> HIDE DEF f, g
  <2> DEFINE src == script[id]
  <2>1. \A n \in src.recipe.writes :
          Does(src.recipe, src.env, n, [ m \in DOMAIN src.inputs |-> f[m] ]) =
          Does(src.recipe, src.env, n, [ m \in DOMAIN src.inputs |-> g[m] ])
    <3>1. \A m \in DOMAIN src.inputs :
            f[m] = g[m] \/ (src.inputs[m].kind = "leaf" /\ f[m][2] = g[m][2])
      BY <1>2
    <3>2. SeesContent(src)
      BY <1>1 DEF Blind
    <3> HIDE DEF src
    <3>3. QED
      BY <3>1, <3>2, Zenon DEF SeesContent
  <2>2. QED
    BY <1>1, <2>1
<1>4. QED
  <2>1. [ m \in DOMAIN job.inputs |-> f[m] ] =
        [ m \in DOMAIN job.inputs |-> Reads(job.inputs[m], got, now) ]
    OBVIOUS
  <2>2. [ m \in DOMAIN job.inputs |-> g[m] ] = [ m \in DOMAIN ik.inputs |-> Given(ik.inputs[m]) ]
    BY <1>1
  <2>3. Content(job, got, now) =
        [ n \in ik.job_recipe.writes |->
            Does(ik.job_recipe, ik.env, n, [ m \in DOMAIN ik.inputs |-> Given(ik.inputs[m]) ]) ]
    BY <1>1, <1>3, <2>1, <2>2 DEF Content
  <2>4. QED
    BY <1>1, <2>3 DEF Fulfils

-----------------------------------------------------------------------------
(***************************************************************************)
(* The inductive invariant.  Every link leads to the content its key       *)
(* stands for, that of a fetch always and that of another job unless the   *)
(* key was published for a file that had changed; so does what the run     *)
(* has, and its keys are linked while it goes on; and what was obtained    *)
(* for some work is what the key of that work leads to.                    *)
(***************************************************************************)
Sound(ik, oh, odd) ==
  IF ik.job_recipe.does = "fetch" THEN Fulfils(ik, oh)
                                  ELSE Blind => Fulfils(ik, oh) \/ ik \in odd

LinksSound == \A s \in StoreNames : \A ik \in DOMAIN memo[s] : Sound(ik, memo[s][ik], mixed)

DoneOK ==
  \A id \in DOMAIN done :
    /\ ParentsOf(jobs[id]) \subseteq DOMAIN done
    /\ done[id].ik = Key(id)
    /\ Sound(done[id].ik, done[id].oh, mixed)
    /\ done[id].store \in StoreNames /\ done[id].ik \in DOMAIN memo[done[id].store]

Obtained ==
  \A k \in known :
    /\ k.store \in StoreNames /\ KeyOf(k.work) \in DOMAIN memo[k.store]
    /\ memo[k.store][KeyOf(k.work)] = k.oh

Right == Typed /\ LoweredOK /\ LinksSound /\ DoneOK /\ Obtained

LEMMA SoundGrows ==
  ASSUME NEW ik, NEW oh, NEW A, NEW B, A \subseteq B, Sound(ik, oh, A)
  PROVE  Sound(ik, oh, B)
  BY DEF Sound

LEMMA AtRest ==
  ASSUME jobs = None, Typed
  PROVE  DOMAIN jobs = {} /\ DOMAIN done = {}
  BY DEF None, Typed, TypeOK

LEMMA InitRight == Init => Right
<1> SUFFICES ASSUME Init PROVE Right
  OBVIOUS
<1>1. Typed /\ DOMAIN jobs = {} /\ DOMAIN done = {} /\ known = {}
  BY InitTyped DEF Init, None
<1>2. LinksSound
  <2> SUFFICES ASSUME NEW s \in StoreNames, NEW ik \in DOMAIN memo[s]
               PROVE  Sound(ik, memo[s][ik], mixed)
    BY DEF LinksSound
  <2>1. PICK was \in Published :
          memo = [ t \in StoreNames |-> IF t \in ReadOnly THEN was.links ELSE None ]
    BY DEF Init
  <2>2. ik \in DOMAIN was.links /\ memo[s][ik] = was.links[ik]
    BY <2>1 DEF None
  <2>3. QED
    BY <2>2, PublishedAssumption DEF Sound
<1>3. QED
  BY <1>1, <1>2 DEF Right, LoweredOK, DoneOK, Obtained

(***************************************************************************)
(* In a run links are added and keys become mixed, nothing is taken away.  *)
(***************************************************************************)
Grows ==
  /\ mixed \subseteq mixed'
  /\ \A s \in StoreNames :
       DOMAIN memo[s] \subseteq DOMAIN memo'[s]
         /\ \A ik \in DOMAIN memo[s] : memo'[s][ik] = memo[s][ik]

LEMMA GrowsKeeps ==
  ASSUME Right, Grows
  PROVE  /\ (jobs' = jobs /\ done' = done) => DoneOK'
         /\ known' = known => Obtained'
         /\ \A s \in StoreNames : \A ik : ik \in DOMAIN memo[s] => Sound(ik, memo'[s][ik], mixed')
<1>1. ASSUME jobs' = jobs, done' = done PROVE DoneOK'
  BY <1>1, SoundGrows DEF Right, DoneOK, Grows, Key, StoreNames
<1>2. ASSUME known' = known PROVE Obtained'
  BY <1>2 DEF Right, Obtained, Grows
<1>3. \A s \in StoreNames : \A ik : ik \in DOMAIN memo[s] => Sound(ik, memo'[s][ik], mixed')
  BY SoundGrows DEF Right, LinksSound, Grows
<1>4. QED
  BY <1>1, <1>2, <1>3

LEMMA RecordsKeeps ==
  ASSUME Right, Grows, UNCHANGED jobs, NEW id \in DOMAIN jobs, id \notin DOMAIN done,
         ParentsOf(jobs[id]) \subseteq DOMAIN done,
         NEW oh, NEW s \in StoreNames, Records(id, Key(id), oh, s),
         Key(id) \in DOMAIN memo'[s], memo'[s][Key(id)] = oh, Sound(Key(id), oh, mixed')
  PROVE  DoneOK' /\ Obtained'
<1>1. /\ DOMAIN done' = DOMAIN done \cup {id}
      /\ done'[id] = [ik |-> Key(id), oh |-> oh, store |-> s]
      /\ \A x \in DOMAIN done : done'[x] = done[x]
  BY DEF Records, With
<1>2. ASSUME NEW x \in DOMAIN done', ParentsOf(jobs[x]) \subseteq DOMAIN done
      PROVE  Key(x)' = Key(x)
  <2>1. KeyDocument(jobs[x], done) = KeyDocument(jobs[x], done')
    BY <1>1, <1>2, KeyStable
  <2>2. QED
    BY <2>1 DEF Key
<1>3. ASSUME NEW x \in DOMAIN done
      PROVE  /\ ParentsOf(jobs[x]) \subseteq DOMAIN done
             /\ done[x].ik = Key(x)
             /\ Sound(done[x].ik, done[x].oh, mixed')
             /\ done[x].store \in StoreNames /\ done[x].ik \in DOMAIN memo'[done[x].store]
  BY SoundGrows DEF Right, DoneOK, Grows
<1>4. DoneOK'
  <2> SUFFICES ASSUME NEW x \in DOMAIN done'
               PROVE  /\ ParentsOf(jobs[x]) \subseteq DOMAIN done'
                      /\ done'[x].ik = Key(x)'
                      /\ Sound(done'[x].ik, done'[x].oh, mixed')
                      /\ done'[x].store \in StoreNames
                      /\ done'[x].ik \in DOMAIN memo'[done'[x].store]
    BY DEF DoneOK, StoreNames
  <2>1. CASE x = id
    BY <1>1, <1>2, <2>1
  <2>2. CASE x # id
    BY <1>1, <1>2, <1>3, <2>2
  <2>3. QED
    BY <2>1, <2>2
<1>5. KeyOf(Work(id)) = Key(id)
  BY WorkIsKey DEF Work, Key
<1>6. Obtained'
  <2>1. known' = known \cup {[work |-> Work(id), oh |-> oh, store |-> s]}
    BY DEF Records
  <2>2. QED
    BY <1>5, <2>1 DEF Right, Obtained, Grows
<1>7. QED
  BY <1>4, <1>6

(***************************************************************************)
(* Jobs: a hit, or a build that is published; the others change no link.   *)
(***************************************************************************)
LEMMA HitKeeps ==
  ASSUME Right, NEW id \in DOMAIN jobs, Hit(id)
  PROVE  LinksSound' /\ DoneOK' /\ Obtained'
<1> DEFINE ik == Key(id)
           s  == First(ik)
<1>1. UNCHANGED <<memo, mixed, jobs>> /\ Grows
  BY DEF Hit, store, Grows
<1>2. LinksSound'
  BY <1>1 DEF Right, LinksSound, StoreNames
<1>3. s \in StoreNames /\ ik \in DOMAIN memo[s]
  <2>1. ~Misses(ik)
    BY DEF Hit, Answers
  <2>2. QED
    BY <2>1, FirstIs
<1>4. id \notin DOMAIN done /\ ParentsOf(jobs[id]) \subseteq DOMAIN done
  BY DEF Hit, Derives, Ready, Waits
<1>5. CASE Lacks(jobs[id], Answer(ik))
  <2>1. done' = done /\ known' = known
    BY <1>5 DEF Hit
  <2>2. QED
    BY <1>1, <1>2, <2>1, GrowsKeeps
<1>6. CASE ~Lacks(jobs[id], Answer(ik))
  <2>1. Records(id, ik, memo[s][ik], s)
    BY <1>6 DEF Hit, Answer
  <2>2. Sound(ik, memo[s][ik], mixed') /\ memo'[s][ik] = memo[s][ik] /\ ik \in DOMAIN memo'[s]
    BY <1>1, <1>3 DEF Right, LinksSound
  <2> HIDE DEF s
  <2>3. DoneOK' /\ Obtained'
    BY <1>1, <1>3, <1>4, <2>1, <2>2, RecordsKeeps
  <2>4. QED
    BY <1>2, <2>3
<1>7. QED
  BY <1>5, <1>6

LEMMA OutputSound ==
  ASSUME Right, NEW id \in DOMAIN jobs, Built(id)
  PROVE  Sound(Key(id), Output(id), mixed')
<1> DEFINE job == jobs[id]
           ik  == Key(id)
           oh  == Output(id)
<1>1. /\ script \in Scripts /\ id \in DOMAIN script /\ Lowers(job, script[id])
  BY DEF Right, Typed, TypeOK, LoweredOK, Running, None
<1>2. ik.job_recipe = job.recipe
  BY DEF Key, KeyDocument
<1>3. CASE IsFetch(job)
  <2> DEFINE served == web[job.recipe.url]
  <2>1. oh = [ n \in job.recipe.writes |-> served ]
    BY <1>3 DEF Output, Fetched
  <2>2. job.recipe.writes # {}
    <3>1. IsFetch(script[id]) /\ job.recipe.writes = script[id].recipe.writes
      BY <1>1, <1>3 DEF Lowers, IsFetch
    <3>2. QED
      BY <1>1, <3>1, ScriptsAssumption
  <2>3. OnlyFile(oh) = served
    BY <2>1, <2>2 DEF OnlyFile
  <2>4. job.recipe.pin[1] = "pin" => job.recipe.pin[2] = served
    BY <1>3 DEF Built, Rejected
  <2> HIDE DEF served, oh
  <2>5. oh = [ n \in job.recipe.writes |->
                 IF job.recipe.pin[1] = "pin" THEN job.recipe.pin[2] ELSE OnlyFile(oh) ]
    BY <2>1, <2>3, <2>4
  <2>6. QED
    BY <1>2, <1>3, <2>5 DEF Sound, Fulfils, IsFetch, oh
<1>4. CASE ~IsFetch(job)
  <2>1. Changed(job) => ik \in mixed'
    BY DEF Built
  <2>2. ASSUME ~Changed(job), Blind PROVE Fulfils(ik, oh)
    <3>1. \A n \in DOMAIN job.inputs : IsFile(job, n) =>
            disk[job.inputs[n].source] = job.inputs[n].hash
      BY <2>2 DEF Changed, IsFile
    <3>2. oh = Content(job, done, disk)
      BY <1>4 DEF Output
    <3>3. QED
      BY <1>1, <1>4, <2>2, <3>1, <3>2, ContentIs DEF Key
  <2>3. QED
    BY <1>2, <1>4, <2>1, <2>2 DEF Sound, IsFetch
<1>5. QED
  BY <1>3, <1>4

LEMMA BuiltKeeps ==
  ASSUME Right, NEW id \in DOMAIN jobs, Built(id)
  PROVE  LinksSound' /\ DoneOK' /\ Obtained'
<1> DEFINE s  == Target(jobs[id])
           ik == Key(id)
           oh == Output(id)
<1>1. s \in StoreNames /\ DOMAIN memo = StoreNames
  BY TargetIs DEF Built, Right, Typed, TypeOK, BuildingOK
<1>2. id \notin DOMAIN done /\ ParentsOf(jobs[id]) \subseteq DOMAIN done /\ UNCHANGED jobs
  BY DEF Built, Right, Typed, TypeOK, BuildingOK
<1>3. Sound(ik, oh, mixed')
  BY OutputSound
<1> HIDE DEF s, oh, ik
<1>4. memo' = [memo EXCEPT ![s] = IF ik \in DOMAIN @ THEN @ ELSE With(@, ik, oh)]
  BY DEF Built, Publish, s, ik, oh
<1>5. /\ \A t \in StoreNames \ {s} : memo'[t] = memo[t]
      /\ DOMAIN memo'[s] = DOMAIN memo[s] \cup {ik}
      /\ \A k \in DOMAIN memo[s] : memo'[s][k] = memo[s][k]
      /\ ik \notin DOMAIN memo[s] => memo'[s][ik] = oh
  BY <1>1, <1>4 DEF With
<1>6. Grows
  BY <1>5 DEF Grows, Built
<1>7. LinksSound'
  <2> SUFFICES ASSUME NEW t \in StoreNames, NEW k \in DOMAIN memo'[t]
               PROVE  Sound(k, memo'[t][k], mixed')
    BY DEF LinksSound, StoreNames
  <2>1. CASE k \in DOMAIN memo[t]
    BY <1>6, <2>1, GrowsKeeps
  <2>2. CASE k \notin DOMAIN memo[t]
    BY <1>3, <1>5, <2>2
  <2>3. QED
    BY <2>1, <2>2
<1>8. CASE Conflicts(s, ik, oh) \/ Lacks(jobs[id], oh)
  <2>1. done' = done /\ known' = known
    BY <1>8 DEF Built, s, ik, oh
  <2>2. QED
    BY <1>2, <1>6, <1>7, <2>1, GrowsKeeps
<1>9. CASE ~(Conflicts(s, ik, oh) \/ Lacks(jobs[id], oh))
  <2>1. Records(id, Key(id), oh, s) /\ ik = Key(id)
    BY <1>9 DEF Built, s, ik, oh
  <2>2. memo'[s][ik] = oh /\ ik \in DOMAIN memo'[s]
    BY <1>5, <1>9 DEF Conflicts
  <2>3. DoneOK' /\ Obtained'
    BY <1>1, <1>2, <1>3, <1>6, <2>1, <2>2, RecordsKeeps
  <2>4. QED
    BY <1>7, <2>3
<1>10. QED
  BY <1>8, <1>9

LEMMA DispatchRight ==
  ASSUME Right, NEW id \in DOMAIN jobs, Dispatch(id)
  PROVE  Right'
<1>1. Typed'
  BY DispatchTyped DEF Right
<1>2. LoweredOK'
  <2>1. UNCHANGED <<jobs, script>>
    BY DEF Dispatch, Cascade, Broken, Hit, Miss, Exit, Built, world
  <2>2. QED
    BY <2>1 DEF Right, LoweredOK
<1>3. CASE Cascade(id) \/ Broken(id) \/ Miss(id) \/ Exit(id)
  <2>1. UNCHANGED <<memo, mixed, known, jobs, done>>
    BY <1>3 DEF Cascade, Broken, Miss, Exit, store, ghosts
  <2>2. Grows /\ LinksSound'
    BY <2>1 DEF Grows, Right, LinksSound, StoreNames
  <2>3. QED
    BY <1>1, <1>2, <2>1, <2>2, GrowsKeeps DEF Right
<1>4. QED
  BY <1>1, <1>2, <1>3, HitKeeps, BuiltKeeps DEF Dispatch, Right

(***************************************************************************)
(* The end of a good run: the key a fetch is given stands for just what    *)
(* the fetch has brought.                                                  *)
(***************************************************************************)
LEMMA PinnedFulfils ==
  ASSUME Right, NEW id \in Unpinned
  PROVE  /\ PinnedKey(id).job_recipe.does = "fetch"
         /\ \A oh : Fulfils(PinnedKey(id), oh) <=> oh = done[id].oh
         /\ KeyOf(WorkOf(Pinned(id), None)) = PinnedKey(id)
<1> DEFINE job == jobs[id]
           oh  == done[id].oh
           v   == OnlyFile(oh)
<1>1. /\ id \in DOMAIN done /\ id \in DOMAIN jobs /\ IsFetch(job) /\ job.recipe.pin[1] = "once"
      /\ {"recipe", "inputs", "env", "outputs"} \subseteq DOMAIN job
      /\ {"does", "pin", "writes"} \subseteq DOMAIN job.recipe
  BY DEF Unpinned, Right, Typed, TypeOK, LoweredOK, Lowers
<1>2. done[id].ik.job_recipe = job.recipe /\ Sound(done[id].ik, oh, mixed)
  <2>1. done[id].ik = Key(id) /\ Sound(done[id].ik, oh, mixed)
    BY <1>1 DEF Right, DoneOK
  <2>2. Key(id).job_recipe = job.recipe
    BY DEF Key, KeyDocument
  <2>3. QED
    BY <2>1, <2>2
<1>3. oh = [ n \in job.recipe.writes |-> v ]
  <2>1. Fulfils(done[id].ik, oh)
    BY <1>1, <1>2 DEF Sound, IsFetch
  <2>2. job.recipe.does = "fetch" /\ job.recipe.pin[1] # "pin"
    BY <1>1 DEF IsFetch
  <2>3. QED
    BY <1>2, <2>1, <2>2 DEF Fulfils
<1>4. PinnedKey(id).job_recipe = [job.recipe EXCEPT !.pin = <<"pin", v>>]
  BY <1>1 DEF PinnedKey, Pinned, KeyDocument
<1> HIDE DEF v
<1>5. /\ PinnedKey(id).job_recipe.does = "fetch"
      /\ PinnedKey(id).job_recipe.writes = job.recipe.writes
      /\ PinnedKey(id).job_recipe.pin = <<"pin", v>>
  BY <1>1, <1>4 DEF IsFetch
<1> HIDE DEF oh, job
<1>6. \A x : Fulfils(PinnedKey(id), x) <=> x = [ n \in job.recipe.writes |-> v ]
  BY <1>5 DEF Fulfils
<1>7. KeyOf(WorkOf(Pinned(id), None)) = PinnedKey(id)
  BY WorkIsKey DEF PinnedKey
<1>8. QED
  BY <1>3, <1>5, <1>6, <1>7 DEF oh

LEMMA AliasIs ==
  ASSUME NEW s \in StoreNames, NEW linked \in SUBSET Unpinned
  PROVE  /\ DOMAIN memo[s] \subseteq DOMAIN Alias(s, linked)
         /\ \A ik \in DOMAIN memo[s] : Alias(s, linked)[ik] = memo[s][ik]
         /\ \A ik \in DOMAIN Alias(s, linked) \ DOMAIN memo[s] :
              \E id \in linked : PinnedKey(id) = ik /\ Alias(s, linked)[ik] = done[id].oh
         /\ \A id \in linked : First(done[id].ik) = s => PinnedKey(id) \in DOMAIN Alias(s, linked)
<1> DEFINE new == { id \in linked : First(done[id].ik) = s /\ PinnedKey(id) \notin DOMAIN memo[s] }
<1>1. Alias(s, linked) = [ ik \in DOMAIN memo[s] \cup { PinnedKey(id) : id \in new } |->
                     IF ik \in DOMAIN memo[s] THEN memo[s][ik]
                                              ELSE done[CHOOSE id \in new : PinnedKey(id) = ik].oh ]
  BY DEF Alias
<1>2. DOMAIN Alias(s, linked) = DOMAIN memo[s] \cup { PinnedKey(id) : id \in new }
  BY <1>1
<1>3. ASSUME NEW ik \in DOMAIN Alias(s, linked) \ DOMAIN memo[s]
      PROVE  \E id \in linked : PinnedKey(id) = ik /\ Alias(s, linked)[ik] = done[id].oh
  <2> DEFINE x == CHOOSE id \in new : PinnedKey(id) = ik
  <2>1. \E id \in new : PinnedKey(id) = ik
    BY <1>2, <1>3
  <2>2. x \in new /\ PinnedKey(x) = ik
    BY <2>1
  <2>3. Alias(s, linked)[ik] = done[x].oh
    BY <1>1, <1>2, <1>3
  <2> HIDE DEF x
  <2>4. QED
    BY <2>2, <2>3
<1>4. \A ik \in DOMAIN memo[s] : Alias(s, linked)[ik] = memo[s][ik]
  BY <1>1, <1>2
<1>5. \A id \in linked : First(done[id].ik) = s => PinnedKey(id) \in DOMAIN Alias(s, linked)
  BY <1>2
<1>6. QED
  BY <1>2, <1>3, <1>4, <1>5

LEMMA SucceedsRight ==
  ASSUME Right, NEW linked \in SUBSET Unpinned, NEW patched \in SUBSET Unpinned,
         Succeeds(linked, patched) \/ Unwritten(linked, patched)
  PROVE  Right'
<1>1. Typed'
  BY EndTyped DEF Right
<1>2. DOMAIN jobs' = {} /\ DOMAIN done' = {}
  BY DEF Succeeds, Unwritten, TofuPass, NoRun, None
<1>3. memo' = [ s \in StoreNames |-> Alias(s, linked) ] /\ mixed' = mixed
  BY DEF Succeeds, Unwritten, TofuPass
<1>4. Grows
  BY <1>3, AliasIs DEF Grows
<1>5. LinksSound'
  <2> SUFFICES ASSUME NEW s \in StoreNames, NEW ik \in DOMAIN memo'[s]
               PROVE  Sound(ik, memo'[s][ik], mixed')
    BY DEF LinksSound, StoreNames
  <2>1. CASE ik \in DOMAIN memo[s]
    BY <1>4, <2>1, GrowsKeeps
  <2>2. CASE ik \notin DOMAIN memo[s]
    <3>1. PICK id \in linked : PinnedKey(id) = ik /\ memo'[s][ik] = done[id].oh
      BY <1>3, <2>2, AliasIs
    <3>2. QED
      BY <3>1, PinnedFulfils DEF Sound
  <2>3. QED
    BY <2>1, <2>2
<1>6. ASSUME NEW id \in linked
      PROVE  LET s == First(done[id].ik) IN
             /\ s \in StoreNames /\ PinnedKey(id) \in DOMAIN memo'[s]
             /\ memo'[s][PinnedKey(id)] = done[id].oh
  <2> DEFINE s == First(done[id].ik)
  <2>1. s \in StoreNames
    <3>1. ~Misses(done[id].ik)
      BY MissesIs DEF Unpinned, Right, DoneOK
    <3>2. QED
      BY <3>1, FirstIs
  <2>2. PinnedKey(id) \in DOMAIN memo'[s]
    BY <1>3, <2>1, AliasIs
  <2>3. Sound(PinnedKey(id), memo'[s][PinnedKey(id)], mixed')
    BY <1>5, <2>1, <2>2 DEF LinksSound, StoreNames
  <2>4. QED
    BY <2>1, <2>2, <2>3, PinnedFulfils DEF Sound
<1>7. Obtained'
  <2> SUFFICES ASSUME NEW k \in known'
               PROVE  /\ k.store \in StoreNames /\ KeyOf(k.work) \in DOMAIN memo'[k.store]
                      /\ memo'[k.store][KeyOf(k.work)] = k.oh
    BY DEF Obtained, StoreNames
  <2>1. CASE k \in known
    BY <1>4, <2>1 DEF Right, Obtained, Grows
  <2>2. CASE k \notin known
    <3>1. PICK id \in linked :
            k = [work |-> WorkOf(Pinned(id), None), oh |-> done[id].oh, store |-> First(done[id].ik)]
      BY <2>2 DEF Succeeds, Unwritten, TofuPass
    <3>2. KeyOf(k.work) = PinnedKey(id) /\ k.oh = done[id].oh /\ k.store = First(done[id].ik)
      BY <3>1, PinnedFulfils
    <3>3. QED
      BY <1>6, <3>2
  <2>3. QED
    BY <2>1, <2>2
<1>8. QED
  BY <1>1, <1>2, <1>5, <1>7 DEF Right, LoweredOK, DoneOK

(***************************************************************************)
(* The other ends of a run, its start, and what happens beside runs.       *)
(***************************************************************************)
LEMMA QuietRight ==
  ASSUME Right, StartRun \/ Failed \/ Killed \/ Outside \/ UNCHANGED vars
  PROVE  Right'
<1>1. Typed'
  BY OutsideTyped, EndTyped, StepTyped DEF Right
<1>2. UNCHANGED <<memo, mixed, known>>
  BY DEF StartRun, Failed, Killed, Outside, EditScript, EditFile, Serve, Unpin, Pin, vars, store, ghosts
<1>3. Grows /\ LinksSound' /\ Obtained'
  BY <1>2 DEF Grows, Right, LinksSound, Obtained, StoreNames
<1>4. CASE StartRun
  <2>1. DOMAIN done' = {} /\ UNCHANGED script /\ jobs' = [ id \in DOMAIN script |-> Lowered(id) ]
    BY <1>4 DEF StartRun, None, world
  <2>2. \A id \in DOMAIN script : Lowers(Lowered(id), script[id])
    BY LoweredIs DEF Right, Typed, TypeOK
  <2>3. LoweredOK' /\ DoneOK'
    BY <2>1, <2>2 DEF LoweredOK, DoneOK
  <2>4. QED
    BY <1>1, <1>3, <2>3 DEF Right
<1>5. CASE Failed \/ Killed
  <2>1. DOMAIN jobs' = {} /\ DOMAIN done' = {}
    BY <1>5 DEF Failed, Killed, NoRun, None
  <2>2. QED
    BY <1>1, <1>3, <2>1 DEF Right, LoweredOK, DoneOK
<1>6. CASE Outside \/ UNCHANGED vars
  <2>1. UNCHANGED <<jobs, done>> /\ (Running => script' = script)
    BY <1>6 DEF Outside, EditScript, EditFile, Serve, Unpin, Pin, vars, run, world
  <2>2. DoneOK'
    BY <1>3, <2>1, GrowsKeeps
  <2>3. LoweredOK'
    BY <2>1, AtRest DEF Right, LoweredOK, Running
  <2>4. QED
    BY <1>1, <1>3, <2>2, <2>3 DEF Right
<1>7. QED
  BY <1>4, <1>5, <1>6

(***************************************************************************)
(* What a collection or nuke leaves is as it was, and a key that is still  *)
(* linked is still known to be mixed.                                      *)
(***************************************************************************)
LEMMA LeavesKeeps ==
  ASSUME Right, NEW s \in StoreNames, NEW iks, NEW ohs, Leaves(s, iks, ohs),
         \A ik \in DOMAIN memo[s] : memo[s][ik] \in ohs => ik \in iks
  PROVE  LinksSound' /\ Obtained'
<1>1. DOMAIN memo = StoreNames
  BY DEF Right, Typed, TypeOK
<1>2. /\ \A t \in StoreNames \ {s} : memo'[t] = memo[t]
      /\ DOMAIN memo'[s] = DOMAIN memo[s] \cap iks
      /\ \A ik \in DOMAIN memo'[s] : memo'[s][ik] = memo[s][ik]
  BY <1>1 DEF Leaves, Only
<1>3. LinksSound'
  <2> SUFFICES ASSUME NEW t \in StoreNames, NEW ik \in DOMAIN memo'[t]
               PROVE  Sound(ik, memo'[t][ik], mixed')
    BY DEF LinksSound, StoreNames
  <2>1. ik \in DOMAIN memo[t] /\ memo'[t][ik] = memo[t][ik] /\ (t = s => ik \in iks)
    BY <1>2
  <2>2. ik \in mixed => ik \in mixed'
    BY <2>1 DEF Leaves
  <2>3. Sound(ik, memo[t][ik], mixed)
    BY <2>1 DEF Right, LinksSound
  <2>4. QED
    BY <2>1, <2>2, <2>3 DEF Sound
<1>4. Obtained'
  <2> SUFFICES ASSUME NEW k \in known'
               PROVE  /\ k.store \in StoreNames /\ KeyOf(k.work) \in DOMAIN memo'[k.store]
                      /\ memo'[k.store][KeyOf(k.work)] = k.oh
    BY DEF Obtained, StoreNames
  <2>1. k \in known /\ (k.store = s => k.oh \in ohs)
    BY DEF Leaves
  <2>2. QED
    BY <1>2, <2>1 DEF Right, Obtained
<1>5. QED
  BY <1>3, <1>4

LEMMA CommandsRight ==
  ASSUME Right, Commands
  PROVE  Right'
<1>1. Typed' /\ UNCHANGED <<jobs, done>> /\ jobs = None
  BY CommandsTyped DEF Right, Commands, Rollback, DropGeneration, Collect, Nuke, run, Running
<1>2. LoweredOK' /\ DoneOK'
  BY <1>1, AtRest DEF LoweredOK, DoneOK, Right
<1>3. LinksSound' /\ Obtained'
  <2>1. CASE \E n \in DOMAIN gens : Rollback(n) \/ DropGeneration(n)
    <3>1. UNCHANGED <<memo, mixed, known>>
      BY <2>1 DEF Rollback, DropGeneration, store, ghosts
    <3>2. QED
      BY <3>1 DEF Right, LinksSound, Obtained, StoreNames
  <2>2. ASSUME NEW s \in StoreNames, Collect(s) PROVE LinksSound' /\ Obtained'
    <3> DEFINE iks == { ik \in DOMAIN memo[s] : memo[s][ik] \in DOMAIN entries[s] }
               ohs == { oh \in DOMAIN entries[s] : Rooted(s, oh) }
    <3>1. Leaves(s, iks, ohs) /\ \A ik \in DOMAIN memo[s] : memo[s][ik] \in ohs => ik \in iks
      BY <2>2 DEF Collect
    <3> HIDE DEF iks, ohs
    <3>2. QED
      BY <3>1, LeavesKeeps
  <2>3. ASSUME NEW s \in StoreNames, Nuke(s) PROVE LinksSound' /\ Obtained'
    <3>1. Leaves(s, {}, {})
      BY <2>3 DEF Nuke
    <3>2. QED
      BY <3>1, LeavesKeeps
  <2>4. QED
    BY <2>1, <2>2, <2>3 DEF Commands
<1>4. QED
  BY <1>1, <1>2, <1>3 DEF Right

LEMMA StepRight == Right /\ [Next]_vars => Right'
  BY DispatchRight, SucceedsRight, QuietRight, CommandsRight DEF Next, Outside, Commands

(***************************************************************************)
(* Links lead to what their keys stand for in every reachable state.       *)
(***************************************************************************)
THEOREM InvariantHolds == Spec => []Right
  BY InitRight, StepRight, PTL DEF Spec

(***************************************************************************)
(* OnlyNewIsBuilt of Project: a job is not run when what it does was       *)
(* obtained before, for whatever job, in whatever store, and is not        *)
(* collected, whatever was edited, killed or pinned since.                 *)
(***************************************************************************)
THEOREM BuildsOnlyNew == Spec => OnlyNewIsBuilt
<1>1. ASSUME Right, NEW id \in DOMAIN script, Miss(id), NEW k \in known PROVE k.work # Work(id)
  <2>1. KeyOf(Work(id)) = Key(id)
    BY WorkIsKey DEF Work, Key
  <2>2. \A s \in StoreNames : Key(id) \notin DOMAIN memo[s]
    BY <1>1, MissesIs DEF Miss
  <2>3. k.store \in StoreNames /\ KeyOf(k.work) \in DOMAIN memo[k.store]
    BY <1>1 DEF Right, Obtained
  <2>4. QED
    BY <2>1, <2>2, <2>3
<1>2. Right /\ [Next]_vars => [\A id \in DOMAIN script : Miss(id) => \A k \in known : k.work # Work(id)]_vars
  BY <1>1
<1>3. QED
  BY <1>2, InvariantHolds, PTL DEF Spec, OnlyNewIsBuilt

-----------------------------------------------------------------------------
(***************************************************************************)
(* Clean is defined by recursion over the jobs of a run.  There is such a  *)
(* function because every set of jobs has one whose parents are not in it: *)
(* two solutions for parts of the run agree where both are defined, so all *)
(* of them together are one, and it could be extended by any job that is   *)
(* not in it yet.                                                          *)
(***************************************************************************)
CleanStep(id, f) ==
  LET job == jobs[id] IN
  IF ~IsFetch(job)
  THEN Content(job, [ p \in ParentsOf(job) |-> [oh |-> f[p]] ], AsLowered(job))
  ELSE IF job.recipe.pin[1] = "pin" THEN [ n \in job.recipe.writes |-> job.recipe.pin[2] ]
                                    ELSE done[id].oh

Solves(f, T) ==
  /\ T \subseteq DOMAIN jobs /\ \A x \in T : ParentsOf(jobs[x]) \subseteq T
  /\ f = [ x \in T |-> CleanStep(x, f) ]

LEMMA StepIsLocal ==
  ASSUME NEW x, NEW f, NEW g, \A p \in ParentsOf(jobs[x]) : f[p] = g[p]
  PROVE  CleanStep(x, f) = CleanStep(x, g)
<1>1. [ p \in ParentsOf(jobs[x]) |-> [oh |-> f[p]] ] = [ p \in ParentsOf(jobs[x]) |-> [oh |-> g[p]] ]
  OBVIOUS
<1>2. QED
  BY <1>1 DEF CleanStep

LEMMA HasFirst ==
  ASSUME Right
  PROVE  /\ \A S \in SUBSET DOMAIN jobs : S # {} => \E x \in S : ParentsOf(jobs[x]) \cap S = {}
         /\ \A x \in DOMAIN jobs : ParentsOf(jobs[x]) \subseteq DOMAIN jobs
<1>1. \A x \in DOMAIN jobs : x \in DOMAIN script /\ ParentsOf(jobs[x]) = ParentsOf(script[x])
  <2>1. script \in Scripts /\ DOMAIN jobs \subseteq DOMAIN script
    BY DEF Right, Typed, TypeOK, Running, None
  <2>2. \A x \in DOMAIN jobs : Lowers(jobs[x], script[x])
    BY DEF Right, LoweredOK
  <2>3. QED
    BY <2>1, <2>2, LoweredInputs
<1>2. script \in Scripts /\ (DOMAIN jobs = DOMAIN script \/ DOMAIN jobs = {})
  BY DEF Right, Typed, TypeOK, Running, None
<1>3. \A S \in (SUBSET DOMAIN script) \ {{}} : \E id \in S : ParentsOf(script[id]) \cap S = {}
  BY <1>2, ScriptsAssumption
<1>4. \A id \in DOMAIN script : ParentsOf(script[id]) \subseteq DOMAIN script
  BY <1>2, ScriptsAssumption
<1>5. ASSUME NEW S \in SUBSET DOMAIN jobs, S # {} PROVE \E x \in S : ParentsOf(jobs[x]) \cap S = {}
  <2>1. PICK x \in S : ParentsOf(script[x]) \cap S = {}
    BY <1>2, <1>3, <1>5
  <2>2. QED
    BY <1>1, <2>1
<1>6. QED
  BY <1>1, <1>2, <1>4, <1>5

LEMMA SolutionsAgree ==
  ASSUME Right, NEW f, NEW T, Solves(f, T), NEW g, NEW U, Solves(g, U)
  PROVE  \A x \in T \cap U : f[x] = g[x]
<1> DEFINE Bad == { x \in T \cap U : f[x] # g[x] }
<1>1. SUFFICES ASSUME Bad # {} PROVE FALSE
  OBVIOUS
<1>2. Bad \in SUBSET DOMAIN jobs
  BY DEF Solves
<1>3. PICK x \in Bad : ParentsOf(jobs[x]) \cap Bad = {}
  <2> HIDE DEF Bad
  <2>1. QED
    BY <1>1, <1>2, HasFirst
<1>4. \A p \in ParentsOf(jobs[x]) : f[p] = g[p]
  BY <1>3 DEF Solves
<1>5. f[x] = CleanStep(x, f) /\ g[x] = CleanStep(x, g)
  BY <1>3 DEF Solves
<1>6. QED
  BY <1>3, <1>4, <1>5, StepIsLocal

LEMMA CleanIs ==
  ASSUME Right
  PROVE  Clean = [ x \in DOMAIN jobs |-> CleanStep(x, Clean) ]
<1> DEFINE G == { x \in DOMAIN jobs : \E f, T : Solves(f, T) /\ x \in T }
           Some(x) == CHOOSE f : \E T : Solves(f, T) /\ x \in T
           h == [ x \in G |-> Some(x)[x] ]
<1>1. ASSUME NEW f, NEW T, Solves(f, T), NEW x \in T PROVE x \in G /\ h[x] = f[x]
  <2>1. x \in G
    BY <1>1 DEF Solves
  <2>2. \E T2 : Solves(Some(x), T2) /\ x \in T2
    BY <1>1
  <2>3. PICK T2 : Solves(Some(x), T2) /\ x \in T2
    BY <2>2
  <2> HIDE DEF Some
  <2>4. Some(x)[x] = f[x]
    BY <1>1, <2>3, SolutionsAgree
  <2> HIDE DEF G
  <2>5. QED
    BY <2>1, <2>4
<1>2. DOMAIN h = G /\ h = [ x \in G |-> h[x] ]
  OBVIOUS
<1>3. G \subseteq DOMAIN jobs
  OBVIOUS
<1>4. \A x \in G : \E f, T : Solves(f, T) /\ x \in T
  OBVIOUS
<1> HIDE DEF G, h
<1>5. Solves(h, G)
  <2>1. ASSUME NEW x \in G PROVE ParentsOf(jobs[x]) \subseteq G /\ h[x] = CleanStep(x, h)
    <3>1. PICK f, T : Solves(f, T) /\ x \in T
      BY <1>4
    <3>2. ParentsOf(jobs[x]) \subseteq T /\ f[x] = CleanStep(x, f)
      BY <3>1 DEF Solves
    <3>3. h[x] = f[x] /\ \A p \in ParentsOf(jobs[x]) : p \in G /\ h[p] = f[p]
      BY <1>1, <3>1, <3>2
    <3>4. CleanStep(x, f) = CleanStep(x, h)
      BY <3>3, StepIsLocal
    <3>5. QED
      BY <3>2, <3>3, <3>4
  <2>2. h = [ x \in G |-> CleanStep(x, h) ]
    BY <1>2, <2>1
  <2>3. QED
    BY <1>3, <2>1, <2>2 DEF Solves
<1>6. G = DOMAIN jobs
  <2> SUFFICES ASSUME DOMAIN jobs \ G # {} PROVE FALSE
    BY <1>3
  <2>1. PICK x \in DOMAIN jobs \ G : ParentsOf(jobs[x]) \cap (DOMAIN jobs \ G) = {}
    BY HasFirst
  <2>2. ParentsOf(jobs[x]) \subseteq G /\ x \notin G
    BY <2>1, HasFirst
  <2> DEFINE T == G \cup {x}
             f == [ y \in T |-> IF y = x THEN CleanStep(x, h) ELSE h[y] ]
  <2>3. \A y \in G : f[y] = h[y]
    BY <2>2
  <2>4. f[x] = CleanStep(x, h) /\ DOMAIN f = T /\ f = [ y \in T |-> f[y] ]
    OBVIOUS
  <2> HIDE DEF f
  <2>5. \A y \in T : ParentsOf(jobs[y]) \subseteq G
    BY <1>5, <2>2 DEF Solves
  <2>6. ASSUME NEW y \in T PROVE f[y] = CleanStep(y, f)
    <3>1. CleanStep(y, f) = CleanStep(y, h)
      BY <2>3, <2>5, StepIsLocal
    <3>2. y \in G => h[y] = CleanStep(y, h)
      BY <1>5 DEF Solves
    <3>3. QED
      BY <2>3, <2>4, <3>1, <3>2
  <2>7. f = [ y \in T |-> CleanStep(y, f) ]
    BY <2>4, <2>6
  <2>8. Solves(f, T)
    BY <1>3, <2>1, <2>5, <2>7 DEF Solves
  <2>9. x \in T
    OBVIOUS
  <2> HIDE DEF T
  <2>10. QED
    BY <1>1, <2>2, <2>8, <2>9
<1>7. \E f : f = [ x \in DOMAIN jobs |-> CleanStep(x, f) ]
  BY <1>5, <1>6 DEF Solves
<1>8. Clean = CHOOSE f : f = [ x \in DOMAIN jobs |-> CleanStep(x, f) ]
  BY DEF Clean, CleanStep
<1>9. QED
  BY <1>7, <1>8

(***************************************************************************)
(* SameAsClean of Project: whatever was edited, dropped, collected, pinned *)
(* or killed before, and in whatever store it was found, what a run has    *)
(* for a job is what building everything anew would give, unless the job,  *)
(* or one it builds on, was published for a file that had changed.         *)
(***************************************************************************)
THEOREM WhatARunHas ==
  ASSUME Blind
  PROVE  Spec => []SameAsClean
<1>1. ASSUME Right, NEW T \in SUBSET DOMAIN done, Unmixed(T), NEW id \in T,
             \A p \in ParentsOf(jobs[id]) : done[p].oh = Clean[p]
      PROVE  done[id].oh = Clean[id]
  <2> DEFINE job == jobs[id]
             got == [ p \in ParentsOf(job) |-> [oh |-> Clean[p]] ]
  <2>1. id \in DOMAIN done /\ id \in DOMAIN jobs /\ id \in DOMAIN script /\ script \in Scripts
    BY <1>1 DEF Right, Typed, TypeOK, Running, None
  <2>2. Lowers(job, script[id])
    BY <1>1, <2>1 DEF Right, LoweredOK
  <2>3. Clean[id] = CleanStep(id, Clean)
    BY <1>1, <2>1, CleanIs
  <2>4. done[id].ik = KeyDocument(job, done) /\ Sound(done[id].ik, done[id].oh, mixed)
    BY <1>1, <2>1 DEF Right, DoneOK, Key
  <2>5. Fulfils(KeyDocument(job, done), done[id].oh)
    BY <1>1, <2>4 DEF Sound, Unmixed
  <2>6. CASE ~IsFetch(job)
    <3>1. KeyDocument(job, done) = KeyDocument(job, got)
      <4>1. \A n \in DOMAIN job.inputs : InputHash(job.inputs[n], done) = InputHash(job.inputs[n], got)
        <5> SUFFICES ASSUME NEW n \in DOMAIN job.inputs
                     PROVE  InputHash(job.inputs[n], done) = InputHash(job.inputs[n], got)
          OBVIOUS
        <5>1. job.inputs[n].kind \in {"job", "subset"} =>
                done[job.inputs[n].id].oh = got[job.inputs[n].id].oh
          BY <1>1 DEF ParentsOf
        <5>2. QED
          BY <5>1 DEF InputHash
      <4>2. QED
        BY <4>1 DEF KeyDocument
    <3>2. \A n \in DOMAIN job.inputs : IsFile(job, n) =>
            AsLowered(job)[job.inputs[n].source] = job.inputs[n].hash
      <4> SUFFICES ASSUME NEW n \in DOMAIN job.inputs, IsFile(job, n)
                   PROVE  AsLowered(job)[job.inputs[n].source] = job.inputs[n].hash
        OBVIOUS
      <4> DEFINE f == job.inputs[n].source
                 mine == { m \in DOMAIN job.inputs :
                             job.inputs[m].kind = "file" /\ job.inputs[m].source = f }
                 first == CHOOSE m \in mine : TRUE
      <4>1. f \in Files /\ n \in mine
        BY <2>1, <2>2, LoweredInputs DEF IsFile
      <4>2. first \in mine
        BY <4>1
      <4>3. AsLowered(job)[f] = job.inputs[first].hash
        BY <4>1 DEF AsLowered
      <4> HIDE DEF first
      <4>4. job.inputs[first].hash = job.inputs[n].hash
        <5>1. /\ first \in DOMAIN script[id].inputs /\ n \in DOMAIN script[id].inputs
              /\ IsFile(script[id], first) /\ IsFile(script[id], n)
          BY <2>1, <2>2, <4>2, LoweredInputs DEF Lowers, IsFile
        <5>2. script[id].inputs[first].source = script[id].inputs[n].source
          BY <2>2, <4>2, <5>1 DEF Lowers
        <5>3. QED
          BY <2>2, <5>1, <5>2 DEF Lowers
      <4>5. QED
        BY <4>3, <4>4
    <3>3. done[id].oh = Content(job, got, AsLowered(job))
      <4> HIDE DEF got, job
      <4>1. QED
        BY <2>1, <2>2, <2>5, <2>6, <3>1, <3>2, ContentIs
    <3>4. QED
      BY <2>3, <2>6, <3>3 DEF CleanStep
  <2>7. CASE IsFetch(job)
    <3>1. KeyDocument(job, done).job_recipe = job.recipe /\ job.recipe.does = "fetch"
      BY <2>7 DEF KeyDocument, IsFetch
    <3>2. job.recipe.pin[1] = "pin" => done[id].oh = [ n \in job.recipe.writes |-> job.recipe.pin[2] ]
      BY <2>5, <3>1 DEF Fulfils
    <3>3. QED
      BY <2>3, <2>7, <3>2 DEF CleanStep
  <2>8. QED
    BY <2>6, <2>7
<1>2. ASSUME Right PROVE SameAsClean
  <2> SUFFICES ASSUME NEW T \in SUBSET DOMAIN done, Unmixed(T)
               PROVE  \A id \in T : done[id].oh = Clean[id]
    BY DEF SameAsClean
  <2> DEFINE Bad == { id \in T : done[id].oh # Clean[id] }
  <2>1. SUFFICES ASSUME Bad # {} PROVE FALSE
    OBVIOUS
  <2>2. Bad \in SUBSET DOMAIN jobs
    BY <1>2 DEF Right, Typed, TypeOK
  <2>3. PICK id \in Bad : ParentsOf(jobs[id]) \cap Bad = {}
    <3> HIDE DEF Bad
    <3>1. QED
      BY <1>2, <2>1, <2>2, HasFirst
  <2>4. ParentsOf(jobs[id]) \subseteq T
    BY <2>3 DEF Unmixed
  <2>5. \A p \in ParentsOf(jobs[id]) : done[p].oh = Clean[p]
    BY <2>3, <2>4
  <2>6. QED
    BY <1>1, <1>2, <2>3, <2>5
<1>3. QED
  BY <1>2, InvariantHolds, PTL

-----------------------------------------------------------------------------
(***************************************************************************)
(* What explain reads.  The manifest of an entry stands for its content,   *)
(* that of a fetch without a hash for one content only, because the key it *)
(* had in its run is not used again; and the entries that the run has, and *)
(* that generations show, are there.                                       *)
(***************************************************************************)
Unhashed(recipe) == recipe.does = "fetch" /\ recipe.pin[1] # "pin"

ManifestsSound ==
  \A s \in StoreNames : \A oh \in DOMAIN entries[s] : Sound(entries[s][oh], oh, mixed)

OneContent ==
  \A s, t \in StoreNames : \A oh \in DOMAIN entries[s], other \in DOMAIN entries[t] :
    /\ Unhashed(entries[s][oh].job_recipe)
    /\ entries[s][oh].job_recipe = entries[t][other].job_recipe
    => oh = other

UsedUp(pin) ==
  /\ pin = <<"once", pin[2], pin[3]>> /\ pin[2] \in Nat /\ pin[2] < runs
  /\ Running /\ pin[2] = runs - 1 => pin[3] \in DOMAIN done \cup failed

OnceUsed ==
  \A s \in StoreNames : \A oh \in DOMAIN entries[s] :
    LET recipe == entries[s][oh].job_recipe IN
    recipe.does = "fetch" /\ recipe.pin[1] = "once" => UsedUp(recipe.pin)

LoweredOnce ==
  \A id \in DOMAIN jobs :
    Unhashed(jobs[id].recipe) => jobs[id].recipe.pin = <<"once", runs - 1, id>>

RootsStay ==
  \A n \in DOMAIN gens : \A p \in DOMAIN gens[n] :
    LET e == gens[n][p] IN
    Held(n, e) => e.store \in StoreNames /\ e.oh \in DOMAIN entries[e.store]

DoneThere == \A id \in DOMAIN done : done[id].oh \in DOMAIN entries[done[id].store]

TreesOK ==
  /\ current # 0 => current \in DOMAIN gens
  /\ \A n \in DOMAIN gens : \A p \in DOMAIN gens[n] :
       gens[n][p] = [oh |-> gens[n][p].oh, store |-> gens[n][p].store]

Documents == ManifestsSound /\ OneContent /\ OnceUsed

Readable ==
  Right /\ Documents /\ LoweredOnce /\ RootsStay /\ DoneThere /\ TreesOK

LEMMA InitReadable == Init => Readable
<1> SUFFICES ASSUME Init PROVE Readable
  OBVIOUS
<1>1. Right /\ DOMAIN jobs = {} /\ DOMAIN done = {} /\ DOMAIN gens = {} /\ current = 0
  BY InitRight DEF Init, None
<1>2. PICK was \in Published :
        entries = [ s \in StoreNames |-> IF s \in ReadOnly THEN was.docs ELSE None ]
  BY DEF Init
<1>3. ASSUME NEW s \in StoreNames, NEW oh \in DOMAIN entries[s]
      PROVE  oh \in DOMAIN was.docs /\ entries[s][oh] = was.docs[oh]
  BY <1>2 DEF None
<1>4. ManifestsSound
  BY <1>3, PublishedAssumption DEF ManifestsSound, Sound
<1>5. OneContent
  BY <1>3, PublishedAssumption DEF OneContent, Unhashed
<1>6. OnceUsed
  BY <1>3, PublishedAssumption DEF OnceUsed
<1>7. QED
  BY <1>1, <1>4, <1>5, <1>6
  DEF Readable, Documents, LoweredOnce, RootsStay, DoneThere, TreesOK

(***************************************************************************)
(* Steps that publish nothing and remove nothing.                          *)
(***************************************************************************)
LEMMA DocumentsStay ==
  ASSUME Readable, UNCHANGED <<entries, runs>>, mixed \subseteq mixed',
         Running' => Running /\ DOMAIN done \cup failed \subseteq DOMAIN done' \cup failed'
  PROVE  Documents'
<1>1. ManifestsSound'
  BY SoundGrows DEF Readable, Documents, ManifestsSound, StoreNames
<1>2. OneContent'
  BY DEF Readable, Documents, OneContent, StoreNames
<1>3. OnceUsed'
  <2> SUFFICES ASSUME NEW s \in StoreNames, NEW oh \in DOMAIN entries[s],
                      entries[s][oh].job_recipe.does = "fetch",
                      NEW pin, pin = entries[s][oh].job_recipe.pin, pin[1] = "once"
               PROVE  UsedUp(pin)'
    BY DEF OnceUsed, StoreNames
  <2>1. UsedUp(pin)
    BY DEF Readable, Documents, OnceUsed
  <2>2. QED
    BY <2>1 DEF UsedUp
<1>4. QED
  BY <1>1, <1>2, <1>3 DEF Documents

LEMMA QuietReadable ==
  ASSUME Readable, UNCHANGED vars \/ Outside \/ StartRun \/ Failed \/ Killed
  PROVE  Documents' /\ LoweredOnce' /\ RootsStay' /\ DoneThere' /\ TreesOK'
<1>1. UNCHANGED <<entries, gens, rootless, current, mixed>>
  BY DEF vars, Outside, EditScript, EditFile, Serve, Unpin, Pin, StartRun, Failed, Killed,
         store, tree, ghosts
<1>2. RootsStay' /\ TreesOK'
  BY <1>1 DEF Readable, RootsStay, TreesOK, Held, StoreNames
<1>3. CASE StartRun
  <2>1. /\ runs' = runs + 1 /\ runs \in Nat /\ DOMAIN done' = {} /\ ~Running
        /\ jobs' = [ id \in DOMAIN script |-> Lowered(id) ]
    BY <1>3, ProjectAssumption DEF StartRun, None, Readable, Right, Typed, TypeOK
  <2>2. DoneThere'
    BY <2>1 DEF DoneThere
  <2>3. LoweredOnce'
    <3> SUFFICES ASSUME NEW id \in DOMAIN script, Unhashed(Lowered(id).recipe)
                 PROVE  Lowered(id).recipe.pin = <<"once", runs' - 1, id>>
      BY <2>1 DEF LoweredOnce
    <3>1. {"recipe", "inputs"} \subseteq DOMAIN script[id] /\ {"does", "pin"} \subseteq DOMAIN script[id].recipe
      BY ScriptsAssumption DEF Readable, Right, Typed, TypeOK
    <3>2. IsFetch(script[id])
      BY <3>1 DEF Unhashed, Lowered, IsFetch
    <3>3. Lowered(id).recipe.pin = IF id \in DOMAIN pins THEN <<"pin", pins[id]>> ELSE <<"once", runs, id>>
      BY <3>1, <3>2 DEF Lowered
    <3>4. QED
      BY <2>1, <3>3 DEF Unhashed
  <2>4. ManifestsSound' /\ OneContent'
    BY <1>1 DEF Readable, Documents, ManifestsSound, OneContent, StoreNames
  <2>5. OnceUsed'
    <3> SUFFICES ASSUME NEW s \in StoreNames, NEW oh \in DOMAIN entries[s],
                        entries[s][oh].job_recipe.does = "fetch",
                        NEW pin, pin = entries[s][oh].job_recipe.pin, pin[1] = "once"
                 PROVE  UsedUp(pin)'
      BY <1>1 DEF OnceUsed, StoreNames
    <3>1. UsedUp(pin)
      BY DEF Readable, Documents, OnceUsed
    <3>2. QED
      BY <1>1, <2>1, <3>1 DEF UsedUp
  <2>6. QED
    BY <1>2, <2>2, <2>3, <2>4, <2>5 DEF Documents
<1>4. CASE UNCHANGED vars \/ Outside \/ Failed \/ Killed
  <2>1. /\ runs' = runs
        /\ UNCHANGED <<jobs, done, failed>> \/ (jobs' = None /\ done' = None)
    BY <1>4 DEF vars, Outside, EditScript, EditFile, Serve, Unpin, Pin, Failed, Killed, run, NoRun
  <2>2. LoweredOnce' /\ DoneThere'
    BY <1>1, <2>1 DEF Readable, LoweredOnce, DoneThere, None
  <2>3. Documents'
    BY <1>1, <2>1, DocumentsStay DEF Running
  <2>4. QED
    BY <1>2, <2>2, <2>3
<1>5. QED
  BY <1>3, <1>4

(***************************************************************************)
(* A run that succeeds writes a generation of entries that are there.      *)
(***************************************************************************)
LEMMA SucceedsReadable ==
  ASSUME Readable, NEW linked \in SUBSET Unpinned, NEW patched \in SUBSET Unpinned,
         Succeeds(linked, patched)
  PROVE  Documents' /\ LoweredOnce' /\ RootsStay' /\ DoneThere' /\ TreesOK'
<1>1. /\ UNCHANGED <<entries, rootless, runs, mixed>> /\ jobs' = None /\ done' = None
      /\ gens' = With(gens, Latest + 1, Tree) /\ current' = Latest + 1
  BY DEF Succeeds, TofuPass, NoRun
<1>2. Documents' /\ LoweredOnce' /\ DoneThere'
  BY <1>1, DocumentsStay DEF LoweredOnce, DoneThere, None, Running
<1>4. ASSUME NEW p \in DOMAIN Tree
      PROVE  /\ Tree[p] = [oh |-> Tree[p].oh, store |-> Tree[p].store]
             /\ Tree[p].store \in StoreNames /\ Tree[p].oh \in DOMAIN entries[Tree[p].store]
  <2> DEFINE Places == UNION { { <<jobs[id].view[n], id>> : n \in DOMAIN jobs[id].view } : id \in DOMAIN done }
             place == CHOOSE x \in Places : x[1] = p
             d == done[place[2]]
  <2>1. \E x \in Places : x[1] = p
    BY DEF Tree
  <2>2. place \in Places
    BY <2>1
  <2>3. \A x \in Places : x[2] \in DOMAIN done
    OBVIOUS
  <2>4. Tree[p] = [oh |-> d.oh, store |-> d.store]
    BY DEF Tree
  <2> HIDE DEF place, Places
  <2>5. QED
    BY <2>2, <2>3, <2>4 DEF Readable, Right, DoneOK, DoneThere
<1>5. RootsStay'
  <2> SUFFICES ASSUME NEW n \in DOMAIN gens', NEW p \in DOMAIN gens'[n], Held(n, gens'[n][p])
               PROVE  gens'[n][p].store \in StoreNames
                      /\ gens'[n][p].oh \in DOMAIN entries[gens'[n][p].store]
    BY <1>1 DEF RootsStay, StoreNames, Held
  <2>1. CASE n = Latest + 1
    <3>1. gens'[n] = Tree
      BY <1>1, <2>1 DEF With
    <3>2. QED
      BY <1>4, <3>1
  <2>2. CASE n # Latest + 1
    <3>1. n \in DOMAIN gens /\ gens'[n] = gens[n]
      BY <1>1, <2>2 DEF With
    <3>2. QED
      BY <3>1 DEF Readable, RootsStay
  <2>3. QED
    BY <2>1, <2>2
<1>6. TreesOK'
  <2>1. current' \in DOMAIN gens'
    BY <1>1 DEF With
  <2>2. ASSUME NEW n \in DOMAIN gens', NEW p \in DOMAIN gens'[n]
        PROVE  gens'[n][p] = [oh |-> gens'[n][p].oh, store |-> gens'[n][p].store]
    <3>1. n = Latest + 1 => gens'[n] = Tree
      BY <1>1 DEF With
    <3>2. n # Latest + 1 => n \in DOMAIN gens /\ gens'[n] = gens[n]
      BY <1>1 DEF With
    <3>3. QED
      BY <1>4, <3>1, <3>2 DEF Readable, TreesOK
  <2>3. QED
    BY <2>1, <2>2 DEF TreesOK
<1>7. QED
  BY <1>2, <1>5, <1>6

(***************************************************************************)
(* A run that ends before that writes none.                                *)
(***************************************************************************)
LEMMA UnwrittenReadable ==
  ASSUME Readable, NEW linked \in SUBSET Unpinned, NEW patched \in SUBSET Unpinned,
         Unwritten(linked, patched)
  PROVE  Documents' /\ LoweredOnce' /\ RootsStay' /\ DoneThere' /\ TreesOK'
<1>1. /\ UNCHANGED <<entries, rootless, runs, mixed, gens, current>> /\ jobs' = None /\ done' = None
  BY DEF Unwritten, TofuPass, NoRun
<1>2. Documents' /\ LoweredOnce' /\ DoneThere'
  BY <1>1, DocumentsStay DEF LoweredOnce, DoneThere, None, Running
<1>3. RootsStay' /\ TreesOK'
  BY <1>1 DEF Readable, RootsStay, TreesOK, StoreNames, Held
<1>4. QED
  BY <1>2, <1>3

(***************************************************************************)
(* A build adds its manifest, if there is none; a fetch without a hash     *)
(* adds one for a recipe no other manifest has.                            *)
(***************************************************************************)
LEMMA BuiltDocuments ==
  ASSUME Readable, NEW id \in DOMAIN jobs, Built(id)
  PROVE  /\ Documents'
         /\ \A s \in StoreNames : DOMAIN entries[s] \subseteq DOMAIN entries'[s]
         /\ DoneThere'
<1> DEFINE s  == Target(jobs[id])
           ik == Key(id)
           oh == Output(id)
<1>1. /\ s \in StoreNames /\ DOMAIN entries = StoreNames /\ Running
      /\ id \notin DOMAIN done /\ id \notin failed
      /\ runs \in Nat /\ runs > 0 /\ UNCHANGED <<jobs, runs>>
  <2>1. id \in building /\ UNCHANGED <<jobs, runs>> /\ Running /\ Typed
    BY DEF Built, Readable, Right, Running, None
  <2>2. s \in StoreNames
    BY <2>1, TargetIs DEF Typed, BuildingOK
  <2>3. runs \in Nat /\ runs > 0
    BY <2>1, ProjectAssumption DEF Typed, TypeOK
  <2>4. QED
    BY <2>1, <2>2, <2>3 DEF Typed, TypeOK
<1>2. Sound(ik, oh, mixed') /\ mixed \subseteq mixed'
  BY OutputSound DEF Readable, Built
<1>3. ik.job_recipe = jobs[id].recipe
  BY DEF Key, KeyDocument
<1> HIDE DEF s, oh, ik
<1>4. entries' = [entries EXCEPT ![s] = IF oh \in DOMAIN @ THEN @ ELSE With(@, oh, ik)]
  BY DEF Built, Publish, s, ik, oh
<1>5. /\ \A t \in StoreNames \ {s} : entries'[t] = entries[t]
      /\ DOMAIN entries'[s] = DOMAIN entries[s] \cup {oh}
      /\ \A x \in DOMAIN entries[s] : entries'[s][x] = entries[s][x]
      /\ oh \notin DOMAIN entries[s] => entries'[s][oh] = ik
  BY <1>1, <1>4 DEF With
<1>6. ASSUME NEW t \in StoreNames, NEW x \in DOMAIN entries'[t]
      PROVE  \/ x \in DOMAIN entries[t] /\ entries'[t][x] = entries[t][x]
             \/ t = s /\ x = oh /\ entries'[t][x] = ik
  BY <1>5
<1>7. ManifestsSound'
  <2> SUFFICES ASSUME NEW t \in StoreNames, NEW x \in DOMAIN entries'[t]
               PROVE  Sound(entries'[t][x], x, mixed')
    BY DEF ManifestsSound, StoreNames
  <2>1. x \in DOMAIN entries[t] => Sound(entries[t][x], x, mixed')
    BY <1>2, SoundGrows DEF Readable, Documents, ManifestsSound
  <2>2. QED
    BY <1>2, <1>6, <2>1
<1>8. Unhashed(ik.job_recipe) => ik.job_recipe.pin = <<"once", runs - 1, id>>
  BY <1>3 DEF Readable, LoweredOnce
<1>9. ASSUME NEW t \in StoreNames, NEW x \in DOMAIN entries[t], Unhashed(ik.job_recipe),
             entries[t][x].job_recipe = ik.job_recipe
      PROVE  FALSE
  <2>1. UsedUp(ik.job_recipe.pin)
    BY <1>8, <1>9 DEF Readable, Documents, OnceUsed, Unhashed
  <2>2. QED
    BY <1>1, <1>8, <1>9, <2>1 DEF UsedUp
<1>10. OneContent'
  <2> SUFFICES ASSUME NEW t \in StoreNames, NEW u \in StoreNames,
                      NEW x \in DOMAIN entries'[t], NEW y \in DOMAIN entries'[u],
                      Unhashed(entries'[t][x].job_recipe),
                      entries'[t][x].job_recipe = entries'[u][y].job_recipe
               PROVE  x = y
    BY DEF OneContent, StoreNames
  <2>1. CASE x \in DOMAIN entries[t] /\ entries'[t][x] = entries[t][x]
    <3>1. CASE y \in DOMAIN entries[u] /\ entries'[u][y] = entries[u][y]
      BY <2>1, <3>1 DEF Readable, Documents, OneContent
    <3>2. CASE y = oh /\ entries'[u][y] = ik
      BY <1>9, <2>1, <3>2
    <3>3. QED
      BY <1>6, <3>1, <3>2
  <2>2. CASE x = oh /\ entries'[t][x] = ik
    BY <1>6, <1>9, <2>2
  <2>3. QED
    BY <1>6, <2>1, <2>2
<1>11. DOMAIN done' \cup failed' = DOMAIN done \cup failed \cup {id}
  BY DEF Built, Records, Fails, With
<1>12. Running'
  BY <1>1 DEF Running
<1>13. OnceUsed'
  <2> SUFFICES ASSUME NEW t \in StoreNames, NEW x \in DOMAIN entries'[t],
                      entries'[t][x].job_recipe.does = "fetch",
                      NEW pin, pin = entries'[t][x].job_recipe.pin, pin[1] = "once"
               PROVE  UsedUp(pin)'
    BY DEF OnceUsed, StoreNames
  <2>1. CASE x \in DOMAIN entries[t] /\ entries'[t][x] = entries[t][x]
    <3>1. UsedUp(pin)
      BY <2>1 DEF Readable, Documents, OnceUsed
    <3>2. QED
      BY <1>1, <1>11, <2>1, <3>1 DEF UsedUp
  <2>2. CASE entries'[t][x] = ik
    <3>1. pin = <<"once", runs - 1, id>>
      BY <1>8, <2>2 DEF Unhashed
    <3>2. QED
      BY <1>1, <1>11, <1>12, <3>1 DEF UsedUp
  <2>3. QED
    BY <1>6, <2>1, <2>2
<1>14. DoneThere'
  <2>1. \/ done' = done
        \/ done' = With(done, id, [ik |-> ik, oh |-> oh, store |-> s])
    BY DEF Built, Records, s, oh, ik
  <2>2. \A x \in DOMAIN done : done[x].oh \in DOMAIN entries'[done[x].store]
    BY <1>5 DEF Readable, Right, DoneOK, DoneThere
  <2>3. QED
    BY <1>5, <2>1, <2>2 DEF DoneThere, With
<1>15. QED
  BY <1>5, <1>7, <1>10, <1>13, <1>14 DEF Documents

LEMMA DispatchReadable ==
  ASSUME Readable, NEW id \in DOMAIN jobs, Dispatch(id)
  PROVE  Documents' /\ LoweredOnce' /\ RootsStay' /\ DoneThere' /\ TreesOK'
<1>1. UNCHANGED <<gens, rootless, current, jobs, runs>>
  BY DEF Dispatch, Cascade, Broken, Hit, Miss, Exit, Built, tree
<1>2. /\ Documents' /\ DoneThere'
      /\ \A s \in StoreNames : DOMAIN entries[s] \subseteq DOMAIN entries'[s]
  <2>1. CASE Built(id)
    BY <2>1, BuiltDocuments
  <2>2. CASE Hit(id)
    <3>1. UNCHANGED <<entries, mixed>>
      BY <2>2 DEF Hit, store
    <3>2. \/ done' = done
          \/ done' = With(done, id, [ik |-> Key(id), oh |-> Answer(Key(id)), store |-> First(Key(id))])
      BY <2>2 DEF Hit, Records
    <3>3. Answer(Key(id)) \in DOMAIN entries[First(Key(id))]
      BY <2>2 DEF Hit, Answers, Answer
    <3>4. DoneThere'
      BY <3>1, <3>2, <3>3 DEF DoneThere, With, Readable
    <3>5. DOMAIN done \cup failed \subseteq DOMAIN done' \cup failed'
      BY <2>2, <3>2 DEF Hit, Fails, With
    <3>6. QED
      BY <1>1, <3>1, <3>4, <3>5, DocumentsStay DEF Running
  <2>3. CASE Cascade(id) \/ Broken(id) \/ Miss(id) \/ Exit(id)
    <3>1. UNCHANGED <<entries, mixed, done>> /\ failed \subseteq failed'
      BY <2>3 DEF Cascade, Broken, Miss, Exit, Fails, store, ghosts
    <3>2. QED
      BY <1>1, <3>1, DocumentsStay DEF Running, DoneThere, Readable
  <2>4. QED
    BY <2>1, <2>2, <2>3 DEF Dispatch
<1>3. LoweredOnce' /\ TreesOK'
  BY <1>1 DEF Readable, LoweredOnce, TreesOK
<1>4. RootsStay'
  BY <1>1, <1>2 DEF Readable, RootsStay, Held, StoreNames
<1>5. QED
  BY <1>2, <1>3, <1>4

(***************************************************************************)
(* A collection leaves what generations show, and with a store go its      *)
(* roots.                                                                  *)
(***************************************************************************)
LEMMA LeavesDocuments ==
  ASSUME Readable, ~Running, ~Running', UNCHANGED runs,
         NEW s \in StoreNames, NEW iks, NEW ohs, Leaves(s, iks, ohs)
  PROVE  /\ Documents'
         /\ \A t \in StoreNames \ {s} : entries'[t] = entries[t]
         /\ DOMAIN entries'[s] = DOMAIN entries[s] \cap ohs
<1>1. DOMAIN entries = StoreNames
  BY DEF Readable, Right, Typed, TypeOK
<1>2. /\ \A t \in StoreNames \ {s} : entries'[t] = entries[t]
      /\ DOMAIN entries'[s] = DOMAIN entries[s] \cap ohs
      /\ \A x \in DOMAIN entries'[s] : entries'[s][x] = entries[s][x]
  BY <1>1 DEF Leaves, Only
<1>3. ASSUME NEW t \in StoreNames, NEW x \in DOMAIN entries'[t]
      PROVE  /\ x \in DOMAIN entries[t] /\ entries'[t][x] = entries[t][x]
             /\ t = s => x \in ohs
  BY <1>2
<1>4. ManifestsSound'
  <2> SUFFICES ASSUME NEW t \in StoreNames, NEW x \in DOMAIN entries'[t]
               PROVE  Sound(entries[t][x], x, mixed')
    BY <1>3 DEF ManifestsSound, StoreNames
  <2>1. Sound(entries[t][x], x, mixed)
    BY <1>3 DEF Readable, Documents, ManifestsSound
  <2>2. entries[t][x] \in mixed => entries[t][x] \in mixed'
    BY <1>3 DEF Leaves
  <2>3. QED
    BY <2>1, <2>2 DEF Sound
<1>5. OneContent'
  BY <1>3 DEF Readable, Documents, OneContent, StoreNames
<1>6. OnceUsed'
  <2> SUFFICES ASSUME NEW t \in StoreNames, NEW x \in DOMAIN entries'[t],
                      entries[t][x].job_recipe.does = "fetch",
                      NEW pin, pin = entries[t][x].job_recipe.pin, pin[1] = "once"
               PROVE  UsedUp(pin)'
    BY <1>3 DEF OnceUsed, StoreNames
  <2>1. UsedUp(pin)
    BY <1>3 DEF Readable, Documents, OnceUsed
  <2>2. QED
    BY <2>1 DEF UsedUp
<1>7. QED
  BY <1>2, <1>4, <1>5, <1>6 DEF Documents

LEMMA CommandsReadable ==
  ASSUME Readable, Commands
  PROVE  Documents' /\ LoweredOnce' /\ RootsStay' /\ DoneThere' /\ TreesOK'
<1>1. UNCHANGED <<jobs, done, failed, runs>> /\ ~Running /\ ~Running'
  BY DEF Commands, Rollback, DropGeneration, Collect, Nuke, run, Running
<1>2. LoweredOnce' /\ DoneThere'
  BY <1>1, AtRest DEF LoweredOnce, DoneThere, Running, Readable, Right
<1>3. CASE \E n \in DOMAIN gens : Rollback(n)
  <2>1. UNCHANGED <<entries, gens, rootless, mixed>> /\ current' \in DOMAIN gens
    BY <1>3 DEF Rollback, store, ghosts
  <2>2. RootsStay' /\ TreesOK'
    BY <2>1 DEF Readable, RootsStay, TreesOK, Held, StoreNames
  <2>3. Documents'
    BY <1>1, <2>1, DocumentsStay
  <2>4. QED
    BY <1>2, <2>2, <2>3
<1>4. CASE \E n \in DOMAIN gens : DropGeneration(n)
  <2>1. PICK n \in DOMAIN gens : DropGeneration(n)
    BY <1>4
  <2>2. /\ UNCHANGED <<entries, mixed, current>> /\ n # current
        /\ DOMAIN gens' = DOMAIN gens \ {n} /\ \A m \in DOMAIN gens' : gens'[m] = gens[m]
        /\ \A m \in DOMAIN gens' : \A t : <<t, m>> \in rootless => <<t, m>> \in rootless'
    BY <2>1 DEF DropGeneration, Only, store, ghosts
  <2>3. RootsStay'
    <3> SUFFICES ASSUME NEW m \in DOMAIN gens', NEW p \in DOMAIN gens[m], Held(m, gens[m][p])'
                 PROVE  gens[m][p].store \in StoreNames
                        /\ gens[m][p].oh \in DOMAIN entries[gens[m][p].store]
      BY <2>2 DEF RootsStay, StoreNames, Held
    <3>1. Held(m, gens[m][p]) /\ m \in DOMAIN gens
      BY <2>2 DEF Held
    <3>2. QED
      BY <3>1 DEF Readable, RootsStay
  <2>4. TreesOK'
    BY <2>2 DEF Readable, TreesOK
  <2>5. Documents'
    BY <1>1, <2>2, DocumentsStay
  <2>6. QED
    BY <1>2, <2>3, <2>4, <2>5
<1>5. CASE \E s \in StoreNames : Collect(s)
  <2>1. PICK s \in StoreNames : Collect(s)
    BY <1>5
  <2> DEFINE iks == { ik \in DOMAIN memo[s] : memo[s][ik] \in DOMAIN entries[s] }
             ohs == { oh \in DOMAIN entries[s] : Rooted(s, oh) }
  <2>2. Leaves(s, iks, ohs) /\ UNCHANGED tree
    BY <2>1 DEF Collect
  <2>3. \A oh \in DOMAIN entries[s] : Rooted(s, oh) => oh \in ohs
    OBVIOUS
  <2> HIDE DEF iks, ohs
  <2>4. /\ Documents'
        /\ \A t \in StoreNames \ {s} : entries'[t] = entries[t]
        /\ DOMAIN entries'[s] = DOMAIN entries[s] \cap ohs
    BY <1>1, <2>2, LeavesDocuments
  <2>5. RootsStay'
    <3> SUFFICES ASSUME NEW n \in DOMAIN gens, NEW p \in DOMAIN gens[n], Held(n, gens[n][p])
                 PROVE  gens[n][p].store \in StoreNames
                        /\ gens[n][p].oh \in DOMAIN entries'[gens[n][p].store]
      BY <2>2 DEF RootsStay, StoreNames, Held, tree
    <3>1. gens[n][p].store \in StoreNames /\ gens[n][p].oh \in DOMAIN entries[gens[n][p].store]
      BY DEF Readable, RootsStay
    <3>2. gens[n][p].store = s => Rooted(s, gens[n][p].oh)
      <4>1. gens[n][p].store = s => gens[n][p] = [oh |-> gens[n][p].oh, store |-> s]
        BY DEF Readable, TreesOK
      <4>2. QED
        BY <4>1 DEF Rooted, Held
    <3>3. QED
      BY <2>3, <2>4, <3>1, <3>2
  <2>6. TreesOK'
    BY <2>2 DEF Readable, TreesOK, tree
  <2>7. QED
    BY <1>2, <2>4, <2>5, <2>6
<1>6. CASE \E s \in StoreNames : Nuke(s)
  <2>1. PICK s \in StoreNames : Nuke(s)
    BY <1>6
  <2>2. /\ Leaves(s, {}, {}) /\ UNCHANGED <<gens, current>>
        /\ rootless' = rootless \cup ({s} \X DOMAIN gens)
    BY <2>1 DEF Nuke
  <2>3. Documents' /\ \A t \in StoreNames \ {s} : entries'[t] = entries[t]
    BY <1>1, <2>2, LeavesDocuments
  <2>4. RootsStay'
    <3> SUFFICES ASSUME NEW n \in DOMAIN gens, NEW p \in DOMAIN gens[n], Held(n, gens[n][p])'
                 PROVE  gens[n][p].store \in StoreNames
                        /\ gens[n][p].oh \in DOMAIN entries'[gens[n][p].store]
      BY <2>2 DEF RootsStay, StoreNames, Held
    <3>1. Held(n, gens[n][p]) /\ gens[n][p].store # s
      BY <2>2 DEF Held
    <3>2. QED
      BY <2>3, <3>1 DEF Readable, RootsStay
  <2>5. TreesOK'
    BY <2>2 DEF Readable, TreesOK
  <2>6. QED
    BY <1>2, <2>3, <2>4, <2>5
<1>7. QED
  BY <1>3, <1>4, <1>5, <1>6 DEF Commands

LEMMA StepReadable == Readable /\ [Next]_vars => Readable'
<1>1. Readable /\ [Next]_vars => Right'
  BY StepRight DEF Readable
<1>2. Readable /\ [Next]_vars =>
        Documents' /\ LoweredOnce' /\ RootsStay' /\ DoneThere' /\ TreesOK'
  BY QuietReadable, SucceedsReadable, UnwrittenReadable, DispatchReadable, CommandsReadable DEF Next, Outside, Commands
<1>3. QED
  BY <1>1, <1>2 DEF Readable

(***************************************************************************)
(* Two manifests that have no difference stand for the same content.       *)
(***************************************************************************)
LEMMA NoDiffSame ==
  ASSUME Readable, Blind,
         NEW s \in StoreNames, NEW oh \in DOMAIN entries[s], entries[s][oh] \notin mixed,
         NEW t \in StoreNames, NEW other \in DOMAIN entries[t], entries[t][other] \notin mixed,
         is_empty(diff_key_documents(entries[s][oh], entries[t][other]))
  PROVE  oh = other
<1> DEFINE a == entries[s][oh]
           b == entries[t][other]
<1>1. Fulfils(a, oh) /\ Fulfils(b, other)
  BY DEF Readable, Documents, ManifestsSound, Sound
<1>2. Unhashed(a.job_recipe) /\ a.job_recipe = b.job_recipe => oh = other
  BY DEF Readable, Documents, OneContent
<1> HIDE DEF a, b
<1>3. /\ a.job_recipe = b.job_recipe /\ a.env = b.env
      /\ NameListDiff(a.inputs, b.inputs) = Same
  BY DEF is_empty, diff_key_documents, a, b
<1>4. /\ DOMAIN a.inputs = DOMAIN b.inputs
      /\ \A n \in DOMAIN a.inputs : a.inputs[n] = b.inputs[n]
  BY <1>3 DEF NameListDiff, Same
<1>5. [ m \in DOMAIN a.inputs |-> Given(a.inputs[m]) ] = [ m \in DOMAIN b.inputs |-> Given(b.inputs[m]) ]
  BY <1>4
<1>6. CASE Unhashed(a.job_recipe)
  BY <1>2, <1>3, <1>6
<1>7. CASE ~Unhashed(a.job_recipe)
  BY <1>1, <1>3, <1>5, <1>7 DEF Fulfils, Unhashed
<1>8. QED
  BY <1>6, <1>7

LEMMA NotSameFiles ==
  ASSUME Readable, Blind,
         NEW s \in StoreNames, NEW oh \in DOMAIN entries[s], entries[s][oh] \notin mixed,
         NEW t \in StoreNames, NEW other \in DOMAIN entries[t], entries[t][other] \notin mixed,
         oh # other
  PROVE  diff_entries(oh, other) # Same
<1>1. Fulfils(entries[s][oh], oh) /\ Fulfils(entries[t][other], other)
  BY DEF Readable, Documents, ManifestsSound, Sound
<1>2. oh = [ n \in DOMAIN oh |-> oh[n] ] /\ other = [ n \in DOMAIN other |-> other[n] ]
  BY <1>1 DEF Fulfils
<1>3. ASSUME diff_entries(oh, other) = Same PROVE FALSE
  <2>1. DOMAIN oh = DOMAIN other /\ \A n \in DOMAIN oh : oh[n] = other[n]
    BY <1>3 DEF diff_entries, NameListDiff, Same
  <2>2. QED
    BY <1>2, <2>1
<1>4. QED
  BY <1>3

LEMMA DocOfIs ==
  ASSUME NEW oh, \E s \in StoreNames : oh \in DOMAIN entries[s]
  PROVE  \E s \in StoreNames : oh \in DOMAIN entries[s] /\ DocOf(oh) = entries[s][oh]
<1> DEFINE S == { i \in DOMAIN Stores : oh \in DOMAIN entries[Stores[i]] }
<1>1. S \in SUBSET Nat /\ S # {}
  BY ProjectAssumption DEF StoreNames
<1>2. Min(S) \in S
  BY <1>1, SmallestIs
<1>3. QED
  BY <1>2 DEF DocOf, StoreNames

(***************************************************************************)
(* Every step of a chain compares two entries that are there and differ.   *)
(***************************************************************************)
LEMMA StepCompares ==
  ASSUME NEW a, NEW b, NEW step \in resolve_why_chain(a, b)
  PROVE  /\ step.oh_a # step.oh_b
         /\ \E s \in StoreNames : step.oh_a \in DOMAIN entries[s]
         /\ \E s \in StoreNames : step.oh_b \in DOMAIN entries[s]
         /\ step.diff = diff_key_documents(DocOf(step.oh_a), DocOf(step.oh_b))
<1>1. \E pairs : step \in WhySteps(pairs)
  BY Zenon DEF resolve_why_chain
<1>2. PICK p, d, n : n \in Resolved(p[1], p[2]) /\ step = WhyStep(p[1], p[2], d, n)
  BY <1>1 DEF WhySteps
<1> DEFINE va == p[1].inputs[n]
           vb == p[2].inputs[n]
<1>3. va # vb /\ Found(va) /\ Found(vb)
  BY <1>2 DEF Resolved, diff_key_documents, NameListDiff
<1>4. /\ step.oh_a = va[2] /\ step.oh_b = vb[2]
      /\ step.diff = diff_key_documents(DocOf(va[2]), DocOf(vb[2]))
  BY <1>2 DEF WhyStep
<1>5. /\ va = <<"entry", va[2]>> /\ \E s \in StoreNames : va[2] \in DOMAIN entries[s]
      /\ vb = <<"entry", vb[2]>> /\ \E s \in StoreNames : vb[2] \in DOMAIN entries[s]
  BY <1>3 DEF Found
<1>6. QED
  BY <1>3, <1>4, <1>5

(***************************************************************************)
(* ExplainSees of Explain: a content that is not what it was differs in a  *)
(* file and has a reason, and so has each entry the chain of reasons leads *)
(* to, through deduplicated entries, links made for fetches, dropped       *)
(* generations, collections and rollbacks.                                 *)
(***************************************************************************)
THEOREM WhatExplainSees ==
  ASSUME Blind
  PROVE  Spec => []ExplainSees
<1>1. ASSUME Readable PROVE ExplainSees
  <2> SUFFICES ASSUME current # 0, NEW path \in DOMAIN gens[current],
                      Held(current, gens[current][path])
               PROVE  LET cur == gens[current][path] IN
                      /\ cur.oh \in DOMAIN entries[cur.store]
                      /\ ~FirstAppearance(path) /\ Held(Max(Before(path)), Previous(path)) =>
                           LET prev == Previous(path)  e == explain_view_path(path) IN
                           /\ prev.oh \in DOMAIN entries[prev.store]
                           /\ prev.oh # cur.oh /\ {Manifest(prev), Manifest(cur)} \cap mixed = {} =>
                                diff_entries(prev.oh, cur.oh) # Same /\ ~is_empty(e.diff)
                           /\ \A step \in e.why_chain :
                                {DocOf(step.oh_a), DocOf(step.oh_b)} \cap mixed = {} => ~is_empty(step.diff)
    BY DEF ExplainSees
  <2> DEFINE cur  == gens[current][path]
             prev == Previous(path)
  <2>1. cur.store \in StoreNames /\ cur.oh \in DOMAIN entries[cur.store]
    BY <1>1 DEF Readable, TreesOK, RootsStay
  <2>2. ASSUME ~FirstAppearance(path), Held(Max(Before(path)), prev)
        PROVE  prev.store \in StoreNames /\ prev.oh \in DOMAIN entries[prev.store]
    <3> DEFINE S == Before(path)
    <3>1. S \in SUBSET (0 .. MaxRuns) /\ S # {} /\ MaxRuns \in Nat
      BY <1>1, <2>2, ProjectAssumption
      DEF Before, FirstAppearance, Readable, Right, Typed, TypeOK
    <3>2. Max(S) \in S
      <4> HIDE DEF S
      <4>1. QED
        BY <3>1, LargestIs
    <3>3. Max(S) \in DOMAIN gens /\ path \in DOMAIN gens[Max(S)]
      BY <3>2 DEF Before
    <3>4. QED
      BY <1>1, <2>2, <3>3 DEF Readable, RootsStay, Previous
  <2>3. ASSUME ~FirstAppearance(path), Held(Max(Before(path)), prev), prev.oh # cur.oh,
               {Manifest(prev), Manifest(cur)} \cap mixed = {}
        PROVE  diff_entries(prev.oh, cur.oh) # Same /\ ~is_empty(explain_view_path(path).diff)
    <3>1. /\ entries[prev.store][prev.oh] \notin mixed
          /\ entries[cur.store][cur.oh] \notin mixed
      BY <2>3 DEF Manifest
    <3>2. explain_view_path(path).diff =
            diff_key_documents(entries[prev.store][prev.oh], entries[cur.store][cur.oh])
      BY DEF explain_view_path, Manifest
    <3> HIDE DEF cur, prev
    <3>3. QED
      BY <1>1, <2>1, <2>2, <2>3, <3>1, <3>2, NoDiffSame, NotSameFiles
  <2>4. ASSUME NEW step \in explain_view_path(path).why_chain,
               {DocOf(step.oh_a), DocOf(step.oh_b)} \cap mixed = {}
        PROVE  ~is_empty(step.diff)
    <3>1. step \in resolve_why_chain(Manifest(prev), Manifest(cur))
      BY <2>4 DEF explain_view_path
    <3>2. /\ step.oh_a # step.oh_b
          /\ \E s \in StoreNames : step.oh_a \in DOMAIN entries[s]
          /\ \E s \in StoreNames : step.oh_b \in DOMAIN entries[s]
          /\ step.diff = diff_key_documents(DocOf(step.oh_a), DocOf(step.oh_b))
      <4> HIDE DEF prev, cur
      <4>1. QED
        BY <3>1, StepCompares
    <3>3. PICK s \in StoreNames :
            step.oh_a \in DOMAIN entries[s] /\ DocOf(step.oh_a) = entries[s][step.oh_a]
      BY <3>2, DocOfIs
    <3>4. PICK t \in StoreNames :
            step.oh_b \in DOMAIN entries[t] /\ DocOf(step.oh_b) = entries[t][step.oh_b]
      BY <3>2, DocOfIs
    <3>5. QED
      BY <1>1, <2>4, <3>2, <3>3, <3>4, NoDiffSame
  <2>5. QED
    BY <2>1, <2>2, <2>3, <2>4
<1>2. QED
  BY <1>1, InitReadable, StepReadable, InitRight, StepRight, PTL DEF Spec

=============================================================================
