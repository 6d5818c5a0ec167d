------------------------------- MODULE Project ------------------------------
(***************************************************************************)
(* A project over its runs: somebody edits the script and the files it     *)
(* reads, what a URL serves changes, runs look up, build and publish, the  *)
(* generations they leave are dropped, and the stores are collected.       *)
(* It composes, a whole operation to a step, what the modules Scheduler,   *)
(* Store and Views take apart: run and run_tofu_pass of python/ppg3,       *)
(* dispatch_argv_job of scheduler.rs, StoreSet, and the look-up, publish   *)
(* and alias_input of store.rs.  What a job is keyed by is in Keys.        *)
(***************************************************************************)
EXTENDS Keys, Sequences, FiniteSetsExt

CONSTANTS
  Scripts,        \* what a script may define: job id -> job
  Files, Urls,    \* what jobs read
  Stores,         \* the names of the stores, in their order
  ReadOnly,       \* those that are not written to
  Published,      \* what they may hold: [links, docs]
  MaxRuns,        \* bound: runs
  MaxEdits        \* bound: edits of the script, of files and of what a URL serves,
                  \*        and stores deleted

ASSUME ProjectAssumption ==
  /\ Stores \in Seq({ Stores[i] : i \in DOMAIN Stores })
  /\ ReadOnly \subseteq { Stores[i] : i \in DOMAIN Stores }
  /\ ReadOnly # { Stores[i] : i \in DOMAIN Stores }
  /\ 0 \in Values
  /\ MaxRuns \in Nat /\ MaxEdits \in Nat

(***************************************************************************)
(* What a script may say: the fields of a job; a parent is a job of the    *)
(* script, and every set of jobs has one whose parents are not in it       *)
(* (validate_and_index); a subset names one output (_lower_input of        *)
(* jobs.py); a fetch uses no other job and no file, and writes something.  *)
(***************************************************************************)
ASSUME ScriptsAssumption ==
  \A s \in Scripts :
    /\ \A id \in DOMAIN s :
         /\ {"recipe", "inputs", "env", "outputs", "view", "keep", "store"} \subseteq DOMAIN s[id]
         /\ {"does", "pin", "writes"} \subseteq DOMAIN s[id].recipe
         /\ IsFetch(s[id]) => s[id].recipe.writes # {}
         /\ ParentsOf(s[id]) \subseteq DOMAIN s
         /\ \A n \in DOMAIN s[id].inputs :
              LET r == s[id].inputs[n] IN
              /\ r.kind \in {"job", "subset", "file", "leaf"}
              /\ r.kind = "subset" => Cardinality(r.names) = 1
              /\ r.kind = "file" => r.source \in Files
              /\ IsFetch(s[id]) => r.kind = "leaf"
    /\ \A S \in (SUBSET DOMAIN s) \ {{}} : \E id \in S : ParentsOf(s[id]) \cap S = {}

(***************************************************************************)
(* The content a key document stands for; that of a fetch without a hash   *)
(* is the same in each of its files.  A file and a value are keyed alike.  *)
(***************************************************************************)
Given(v) ==
  CASE v[1] = "entry" -> IF Cardinality(DOMAIN v[2]) = 1 THEN <<"file", OnlyFile(v[2])>>
                                                         ELSE <<"directory", v[2]>>
    [] v[1] = "files" -> <<"file", OnlyFile(v[2])>>
    [] OTHER          -> <<"file", v[2]>>

Fulfils(ik, oh) ==
  oh = [ n \in ik.job_recipe.writes |->
           IF ik.job_recipe.does # "fetch"
           THEN Does(ik.job_recipe, ik.env, n, [ m \in DOMAIN ik.inputs |-> Given(ik.inputs[m]) ])
           ELSE IF ik.job_recipe.pin[1] = "pin" THEN ik.job_recipe.pin[2] ELSE OnlyFile(oh) ]

\* What others have published they have made in the same way; a fetch without
\* a hash of theirs is keyed by something that is used once, and not here.
ASSUME PublishedAssumption ==
  \A was \in Published :
    /\ \A ik \in DOMAIN was.links : Fulfils(ik, was.links[ik])
    /\ \A oh \in DOMAIN was.docs : Fulfils(was.docs[oh], oh)
    /\ \A oh \in DOMAIN was.docs :
         LET recipe == was.docs[oh].job_recipe IN
         recipe.does = "fetch" /\ recipe.pin[1] # "pin" =>
           /\ recipe.pin[1] # "once"
           /\ \A other \in DOMAIN was.docs : was.docs[other].job_recipe = recipe => other = oh

VARIABLES
  script,   \* what the script defines
  pins,     \* fetches whose hash was written into the script: job id -> hash
  disk,     \* file -> its content
  web,      \* URL -> what it serves
  memo,     \* store -> its links: input key -> output hash
  entries,  \* store -> its entries: output hash -> key document of its manifest
  kept,     \* the pins of entries: <<store, name>> -> output hash
  gens,     \* generation -> its tree: path -> [oh, store]
  rootless, \* <<store, generation>> whose roots went with the store
  current,  \* the current generation, 0 for none
  jobs,     \* the jobs of the run as they were lowered; none when no run goes on
  done,     \* job id -> [ik, oh, store] once it is a hit or built
  failed,   \* ids of jobs that failed, or that wait for one that did
  building, \* ids of jobs that missed and are run now
  runs,     \* runs started
  edits,    \* edits made
  known,    \* what was obtained for what: [work, oh, store] (a ghost, see Work)
  mixed     \* keys that were published for files that had changed (a ghost)

world == <<script, pins, disk, web>>
store == <<memo, entries, kept>>
tree  == <<gens, rootless, current>>
run   == <<jobs, done, failed, building>>
ghosts == <<known, mixed>>
vars  == <<world, store, tree, run, runs, edits, ghosts>>

None == [ x \in {} |-> x ]      \* the function of nothing

With(f, x, v) == [ y \in DOMAIN f \cup {x} |-> IF y = x THEN v ELSE f[y] ]
Only(f, S)    == [ x \in DOMAIN f \cap S |-> f[x] ]

StoreNames == { Stores[i] : i \in DOMAIN Stores }
Running    == jobs # None
Latest     == Max({0} \cup DOMAIN gens)

TypeOK ==
  /\ script \in Scripts
  /\ DOMAIN pins \subseteq DOMAIN script
  /\ disk \in [Files -> Values]
  /\ web \in [Urls -> Values]
  /\ DOMAIN memo = StoreNames /\ DOMAIN entries = StoreNames
  /\ \A pin \in DOMAIN kept : pin[1] \in StoreNames \ ReadOnly
  /\ DOMAIN gens \subseteq 1 .. MaxRuns
  /\ rootless \subseteq StoreNames \X DOMAIN gens
  /\ current \in 0 .. MaxRuns
  /\ Running => DOMAIN jobs = DOMAIN script
  /\ DOMAIN done \cup failed \cup building \subseteq DOMAIN jobs
  /\ DOMAIN done \cap failed = {} /\ (DOMAIN done \cup failed) \cap building = {}
  /\ runs \in 0 .. MaxRuns
  /\ edits \in 0 .. MaxEdits

-----------------------------------------------------------------------------
(***************************************************************************)
(* The look-up: the stores in their order, the first link decides.  A link *)
(* whose entry was collected is an error, also when a later store could    *)
(* answer.                                                                 *)
(***************************************************************************)
Linked(ik) == { i \in DOMAIN Stores : ik \in DOMAIN memo[Stores[i]] }
First(ik)  == Stores[Min(Linked(ik))]

Misses(ik)  == Linked(ik) = {}
Answers(ik) == ~Misses(ik) /\ memo[First(ik)][ik] \in DOMAIN entries[First(ik)]
Answer(ik)  == memo[First(ik)][ik]

\* write_store: the store the job names, or the first that is written to.  One
\* that is not written to, or that there is not, is an error.
Target(job) == IF job.store = "" THEN Stores[Min({ i \in DOMAIN Stores : Stores[i] \notin ReadOnly })]
                                 ELSE job.store
NoTarget(job) == job.store # "" /\ job.store \notin StoreNames \ ReadOnly

-----------------------------------------------------------------------------
(***************************************************************************)
(* What is left to the outside.  Edits happen while a run goes on, too.    *)
(***************************************************************************)
Edit == edits < MaxEdits /\ edits' = edits + 1

EditScript(s) ==
  /\ Edit /\ ~Running /\ s # script
  /\ script' = s
  /\ pins' = Only(pins, { id \in DOMAIN s : id \in DOMAIN script /\ s[id] = script[id] })
  /\ UNCHANGED <<disk, web, store, tree, run, runs, ghosts>>

\* A hash is written into the script by hand, or taken out of it.
Pin(id, v) ==
  /\ Edit /\ ~Running /\ IsFetch(script[id]) /\ (id \in DOMAIN pins => pins[id] # v)
  /\ pins' = With(pins, id, v)
  /\ UNCHANGED <<script, disk, web, store, tree, run, runs, ghosts>>

Unpin(id) ==
  /\ Edit /\ ~Running /\ id \in DOMAIN pins
  /\ pins' = Only(pins, DOMAIN pins \ {id})
  /\ UNCHANGED <<script, disk, web, store, tree, run, runs, ghosts>>

EditFile(f, v) ==
  /\ Edit /\ disk[f] # v
  /\ disk' = [disk EXCEPT ![f] = v]
  /\ UNCHANGED <<script, pins, web, store, tree, run, runs, ghosts>>

Serve(u, v) ==
  /\ Edit /\ web[u] # v
  /\ web' = [web EXCEPT ![u] = v]
  /\ UNCHANGED <<script, pins, disk, store, tree, run, runs, ghosts>>

-----------------------------------------------------------------------------
(***************************************************************************)
(* A run.  The jobs are lowered before it starts: a file is hashed then    *)
(* (_lower_input of jobs.py), and a fetch is keyed by its hash, one        *)
(* without a hash by something that is used once (FetchJob).               *)
(***************************************************************************)
Lowered(id) ==
  LET job == script[id] IN
  [ job EXCEPT
      !.inputs = [ n \in DOMAIN job.inputs |->
                     IF job.inputs[n].kind = "file"
                     THEN [kind |-> "file", source |-> job.inputs[n].source,
                           hash |-> disk[job.inputs[n].source]]
                     ELSE job.inputs[n] ],
      !.recipe = IF IsFetch(job)
                 THEN [@ EXCEPT !.pin = IF id \in DOMAIN pins THEN <<"pin", pins[id]>>
                                                              ELSE <<"once", runs, id>>]
                 ELSE @ ]

StartRun ==
  /\ ~Running /\ runs < MaxRuns
  /\ jobs' = [ id \in DOMAIN script |-> Lowered(id) ]
  /\ done' = None /\ failed' = {} /\ building' = {}
  /\ runs' = runs + 1
  /\ UNCHANGED <<world, store, tree, edits, ghosts>>

Key(id)     == KeyDocument(jobs[id], done)
Waits(id)   == id \in DOMAIN jobs \ (DOMAIN done \cup failed \cup building)
\* Mutant: a job that is run, or was, is handed out again.
ReadyAgain(id) == id \in DOMAIN jobs /\ ParentsOf(jobs[id]) \subseteq DOMAIN done

Ready(id)   == Waits(id) /\ ParentsOf(jobs[id]) \subseteq DOMAIN done
Derives(id) == Ready(id) /\ ~Underivable(jobs[id], done)

(***************************************************************************)
(* What a job does, whatever it is keyed by: how it is made, and of what   *)
(* content.  Where it is published and how its inputs came to be are not   *)
(* part of it.                                                             *)
(***************************************************************************)
WorkOf(job, got) ==
  [ recipe |-> job.recipe, env |-> job.env, outputs |-> job.outputs,
    inputs |-> [ n \in DOMAIN job.inputs |->
                   LET r == job.inputs[n] IN
                   CASE r.kind = "job"    -> <<"entry", got[r.id].oh>>
                     [] r.kind = "subset" -> <<"files", [ m \in r.names |-> got[r.id].oh[m] ]>>
                     [] OTHER             -> <<"value", r.hash>> ] ]
Work(id) == WorkOf(jobs[id], done)

Records(id, ik, oh, s) ==
  /\ done' = With(done, id, [ik |-> ik, oh |-> oh, store |-> s])
  /\ known' = known \cup {[work |-> Work(id), oh |-> oh, store |-> s]}

Fails(id) == failed' = failed \cup {id}

\* A parent failed: the job is not run.
Cascade(id) ==
  /\ Waits(id) /\ ParentsOf(jobs[id]) \cap failed # {}
  /\ Fails(id)
  /\ UNCHANGED <<world, store, tree, jobs, done, building, runs, edits, ghosts>>

\* No key, a link to an entry that is gone, or nowhere to publish: the job
\* fails.
Broken(id) ==
  /\ Ready(id)
  /\ \/ Underivable(jobs[id], done)
     \/ ~Misses(Key(id)) /\ ~Answers(Key(id))
     \/ Misses(Key(id)) /\ NoTarget(jobs[id])
  /\ Fails(id)
  /\ UNCHANGED <<world, store, tree, jobs, done, building, runs, edits, ghosts>>

\* An entry without a declared output fails its job each time.
Hit(id) ==
  /\ Derives(id) /\ Answers(Key(id))
  /\ IF Lacks(jobs[id], Answer(Key(id)))
     THEN Fails(id) /\ UNCHANGED <<done, known>>
     ELSE /\ Records(id, Key(id), Answer(Key(id)), First(Key(id)))
          /\ UNCHANGED failed
  /\ UNCHANGED <<world, store, tree, jobs, building, runs, edits, mixed>>

Miss(id) ==
  /\ Derives(id) /\ Misses(Key(id)) /\ ~NoTarget(jobs[id])
  /\ building' = building \cup {id}
  /\ UNCHANGED <<world, store, tree, jobs, done, failed, runs, edits, ghosts>>

(***************************************************************************)
(* A job runs and ends: it fails, or its output is published.  The entry   *)
(* that is there already stays as it is, with its manifest; the link of    *)
(* the key is made last, and one that leads elsewhere is a determinism     *)
(* violation.  Then the declared outputs are checked.                      *)
(***************************************************************************)
Fetched(id) == [ n \in jobs[id].recipe.writes |-> web[jobs[id].recipe.url] ]

\* The shim compares a fetch that has a hash with it.
Rejected(id) ==
  IsFetch(jobs[id]) /\ jobs[id].recipe.pin[1] = "pin"
    /\ jobs[id].recipe.pin[2] # web[jobs[id].recipe.url]

Output(id) == IF IsFetch(jobs[id]) THEN Fetched(id) ELSE Content(jobs[id], done, disk)

Changed(job) == \E n \in DOMAIN job.inputs :
                  job.inputs[n].kind = "file" /\ disk[job.inputs[n].source] # job.inputs[n].hash

Publish(s, ik, oh) ==
  /\ entries' = [entries EXCEPT ![s] = IF oh \in DOMAIN @ THEN @ ELSE With(@, oh, ik)]
  /\ memo' = [memo EXCEPT ![s] = IF ik \in DOMAIN @ THEN @ ELSE With(@, ik, oh)]

Conflicts(s, ik, oh) == ik \in DOMAIN memo[s] /\ memo[s][ik] # oh

Exit(id) ==
  /\ id \in building
  /\ building' = building \ {id}
  /\ Unlowerable(jobs[id]) \/ Rejected(id)
  /\ Fails(id)
  /\ UNCHANGED <<world, store, tree, jobs, done, runs, edits, ghosts>>

Built(id) ==
  LET s == Target(jobs[id])  ik == Key(id)  oh == Output(id) IN
  /\ id \in building
  /\ building' = building \ {id}
  /\ ~Unlowerable(jobs[id]) /\ ~Rejected(id)
  /\ Publish(s, ik, oh)
  /\ IF Conflicts(s, ik, oh) \/ Lacks(jobs[id], oh)
     THEN Fails(id) /\ UNCHANGED <<done, known, kept>>
     ELSE /\ Records(id, ik, oh, s)
          /\ kept' = IF jobs[id].keep = "" THEN kept ELSE With(kept, <<s, jobs[id].keep>>, oh)
          /\ UNCHANGED failed
  /\ mixed' = IF Changed(jobs[id]) THEN mixed \cup {ik} ELSE mixed
  /\ UNCHANGED <<world, tree, jobs, runs, edits>>

(***************************************************************************)
(* The end of a good run.  The hash of what a fetch without one brought is *)
(* written into the script, and the key the job has with it is linked to   *)
(* the entry, unless it leads elsewhere; then the generation is written.   *)
(* Each link and each patch may fail on its own, and the run may be killed *)
(* before its generation is there: what was done stays.                    *)
(***************************************************************************)
Unpinned == { id \in DOMAIN done : IsFetch(jobs[id]) /\ jobs[id].recipe.pin[1] = "once" }

Pinned(id) == [jobs[id] EXCEPT !.recipe.pin = <<"pin", OnlyFile(done[id].oh)>>]

\* alias_input_key, in the store that has the entry.
PinnedKey(id) == KeyDocument(Pinned(id), None)

Alias(s, linked) ==
  LET new == { id \in linked : First(done[id].ik) = s /\ PinnedKey(id) \notin DOMAIN memo[s] } IN
  [ ik \in DOMAIN memo[s] \cup { PinnedKey(id) : id \in new } |->
      IF ik \in DOMAIN memo[s] THEN memo[s][ik]
                               ELSE done[CHOOSE id \in new : PinnedKey(id) = ik].oh ]

\* write_generation: a published output goes to its path.
Tree ==
  LET Places == UNION { { <<jobs[id].view[n], id>> : n \in DOMAIN jobs[id].view } : id \in DOMAIN done }
  IN  [ p \in { x[1] : x \in Places } |->
          LET d == done[(CHOOSE x \in Places : x[1] = p)[2]] IN
          [oh |-> d.oh, store |-> d.store] ]

NoRun == jobs' = None /\ done' = None /\ failed' = {} /\ building' = {}

Ended == Running /\ DOMAIN done \cup failed = DOMAIN jobs

TofuPass(linked, patched) ==
  /\ Ended /\ failed = {}
  /\ memo' = [ s \in StoreNames |-> Alias(s, linked) ]
  /\ known' = known \cup
       { [work |-> WorkOf(Pinned(id), None), oh |-> done[id].oh, store |-> First(done[id].ik)]
         : id \in linked }
  /\ pins' = [ id \in DOMAIN pins \cup patched |->
                 IF id \in patched THEN OnlyFile(done[id].oh) ELSE pins[id] ]
  /\ NoRun
  /\ UNCHANGED <<script, disk, web, entries, kept, rootless, runs, edits, mixed>>

Succeeds(linked, patched) ==
  /\ TofuPass(linked, patched)
  /\ gens' = With(gens, Latest + 1, Tree)
  /\ current' = Latest + 1

Unwritten(linked, patched) ==
  /\ TofuPass(linked, patched)
  /\ UNCHANGED <<gens, current>>

\* A run in which a job failed leaves no generation; what was built stays.
Failed ==
  /\ Ended /\ failed # {}
  /\ NoRun
  /\ UNCHANGED <<world, store, tree, runs, edits, ghosts>>

\* The coordinator is killed.
Killed ==
  /\ Running /\ ~Ended
  /\ NoRun
  /\ UNCHANGED <<world, store, tree, runs, edits, ghosts>>

-----------------------------------------------------------------------------
(***************************************************************************)
(* The commands, between two runs.  A collection removes the links that    *)
(* lead nowhere, then the entries no generation shows and nothing pins.    *)
(***************************************************************************)
Rollback(n) ==
  /\ ~Running /\ n \in DOMAIN gens \ {current}
  /\ current' = n
  /\ UNCHANGED <<world, store, gens, rootless, run, runs, edits, ghosts>>

DropGeneration(n) ==
  /\ ~Running /\ n \in DOMAIN gens \ {current}
  /\ gens' = Only(gens, DOMAIN gens \ {n})
  /\ rootless' = rootless \ (StoreNames \X {n})
  /\ UNCHANGED <<world, store, current, run, runs, edits, ghosts>>

Rooted(s, oh) ==
  \/ \E n \in DOMAIN gens : /\ <<s, n>> \notin rootless
                           /\ \E p \in DOMAIN gens[n] : gens[n][p] = [oh |-> oh, store |-> s]
  \/ \E pin \in DOMAIN kept : pin[1] = s /\ kept[pin] = oh

\* What is left of a store: these links and entries.
Leaves(s, iks, ohs) ==
  /\ memo' = [memo EXCEPT ![s] = Only(@, iks)]
  /\ entries' = [entries EXCEPT ![s] = Only(@, ohs)]
  /\ known' = { k \in known : k.store = s => k.oh \in ohs }
  /\ mixed' = { ik \in mixed : \/ ik \in iks \/ \E oh \in ohs : entries[s][oh] = ik
                               \/ \E t \in StoreNames \ {s} :
                                    ik \in DOMAIN memo[t] \/ \E oh \in DOMAIN entries[t] : entries[t][oh] = ik }

Collect(s) ==
  /\ ~Running /\ s \notin ReadOnly
  /\ Leaves(s, { ik \in DOMAIN memo[s] : memo[s][ik] \in DOMAIN entries[s] },
               { oh \in DOMAIN entries[s] : Rooted(s, oh) })
  /\ UNCHANGED <<world, kept, tree, run, runs, edits>>

\* nuke: the store is deleted with its roots and pins.
Nuke(s) ==
  /\ Edit /\ ~Running /\ s \notin ReadOnly
  /\ Leaves(s, {}, {})
  /\ kept' = Only(kept, { pin \in DOMAIN kept : pin[1] # s })
  /\ rootless' = rootless \cup ({s} \X DOMAIN gens)
  /\ UNCHANGED <<world, gens, current, run, runs>>

-----------------------------------------------------------------------------
Init ==
  /\ script \in Scripts
  /\ pins = None
  /\ disk = [ f \in Files |-> 0 ]
  /\ web = [ u \in Urls |-> 0 ]
  /\ \E was \in Published :
       /\ memo = [ s \in StoreNames |-> IF s \in ReadOnly THEN was.links ELSE None ]
       /\ entries = [ s \in StoreNames |-> IF s \in ReadOnly THEN was.docs ELSE None ]
  /\ kept = None
  /\ gens = None /\ rootless = {} /\ current = 0
  /\ jobs = None /\ done = None /\ failed = {} /\ building = {}
  /\ runs = 0 /\ edits = 0
  /\ known = {} /\ mixed = {}

Dispatch(id) ==
  Cascade(id) \/ Broken(id) \/ Hit(id) \/ Miss(id) \/ Exit(id) \/ Built(id)

Next ==
  \/ \E s \in Scripts : EditScript(s)
  \/ \E f \in Files, v \in Values : EditFile(f, v)
  \/ \E u \in Urls, v \in Values : Serve(u, v)
  \/ \E id \in DOMAIN script : Unpin(id) \/ \E v \in Values : Pin(id, v)
  \/ StartRun \/ Failed \/ Killed
  \/ \E linked, patched \in SUBSET Unpinned :
       Succeeds(linked, patched) \/ Unwritten(linked, patched)
  \/ \E id \in DOMAIN jobs : Dispatch(id)
  \/ \E n \in DOMAIN gens : Rollback(n) \/ DropGeneration(n)
  \/ \E s \in StoreNames : Collect(s) \/ Nuke(s)

Spec == Init /\ [][Next]_vars

-----------------------------------------------------------------------------
(***************************************************************************)
(* The content a job has when everything is built anew from what the       *)
(* script defines and the files had when it was lowered; of a fetch, what  *)
(* its hash says.                                                          *)
(***************************************************************************)
AsLowered(job) ==
  [ f \in Files |->
      LET mine == { n \in DOMAIN job.inputs :
                      job.inputs[n].kind = "file" /\ job.inputs[n].source = f }
      IN  IF mine = {} THEN disk[f] ELSE job.inputs[CHOOSE n \in mine : TRUE].hash ]

Clean[id \in DOMAIN jobs] ==
  LET job == jobs[id] IN
  IF ~IsFetch(job)
  THEN Content(job, [ p \in ParentsOf(job) |-> [oh |-> Clean[p]] ], AsLowered(job))
  ELSE IF job.recipe.pin[1] = "pin" THEN [ n \in job.recipe.writes |-> job.recipe.pin[2] ]
                                    ELSE done[id].oh

(***************************************************************************)
(* Whatever was edited, dropped, collected or killed before, and in        *)
(* whatever store it was found, what a run has for a job is what building  *)
(* everything anew would give: early cutoff, named outputs, deduplicated   *)
(* entries and linked fetches never show another job's or an old content   *)
(* (derive_key, publish, alias_input; PRINCIPLES.md P3, P4, P7).  A job    *)
(* that read a file after it was edited is exempt, and those that use it.  *)
(***************************************************************************)
Unmixed(T) == \A id \in T : ParentsOf(jobs[id]) \subseteq T /\ done[id].ik \notin mixed

SameAsClean ==
  \A T \in SUBSET DOMAIN done : Unmixed(T) => \A id \in T : done[id].oh = Clean[id]

(***************************************************************************)
(* A job is not run when what it does was obtained before, for whatever    *)
(* job, from the same content, and is not collected: not for a path that   *)
(* was renamed, an input that was rebuilt and came out the same, a run     *)
(* that failed elsewhere or was killed, or a hash that was written into    *)
(* the script after its key was linked (PRINCIPLES.md P1.3, P7, P8.1;      *)
(* PPG3_DESIGN.md 5).  A link that fails is all a fetch may be lost for.   *)
(***************************************************************************)
OnlyNewIsBuilt ==
  [][\A id \in DOMAIN script :
       Miss(id) => \A k \in known : k.work # Work(id)]_vars
=============================================================================
