-------------------------------- MODULE Views -------------------------------
(***************************************************************************)
(* The generations of one project (crates/ppg3-core/src/views.rs):         *)
(* views/<n>/ with its meta.json, views/current, outputs, and the roots a  *)
(* generation holds in the stores, by scripts that write generations and   *)
(* shells that roll back and drop them.  There is no lock; a step here is  *)
(* one of the file operations another process can come between.            *)
(*                                                                         *)
(* An entry of a view is a store and an output hash: the path of its link  *)
(* and the name it has in meta.json are left out.  The roots of a          *)
(* generation in one store are written, and removed, in one step.          *)
(* A definition marked "Mutant" is a slip somebody could make in the       *)
(* definition after it; no specification uses it.                          *)
(***************************************************************************)
EXTENDS Naturals, FiniteSets

CONSTANTS
  Scripts,     \* processes that end a run with write_generation
  Shells,      \* processes of the command line: rollback, generations, gc
  Stores,      \* the stores of the project's StoreSet
  ReadOnly,    \* those a run may hit and never writes
  Hashes,      \* output hashes
  Offers,      \* the views of the runs: entries, dirty, ephemeral
  Budgets,     \* <<keep, keep_oplog>> of the calls of gc and keep
  MaxGen,      \* bound: the highest generation number
  MaxCrashes   \* bound: processes killed

ASSUME ViewsAssumption ==
  /\ Scripts \cap Shells = {} /\ ReadOnly \subseteq Stores
  /\ Offers \subseteq (SUBSET (Stores \X Hashes)) \X BOOLEAN \X BOOLEAN
  /\ Budgets \subseteq Nat \X Nat /\ MaxGen \in Nat /\ MaxCrashes \in Nat

Procs    == Scripts \cup Shells
Entries  == Stores \X Hashes
Writable == Stores \ ReadOnly
Numbers  == 1 .. MaxGen
None     == 0          \* current_generation_number: no `current` yet

VARIABLES
  gens,      \* views/<n>/: what meta.json says, and the files that are there
  current,   \* the target of views/current
  outputs,   \* <project>/outputs: missing, a link, or something of the user's
  roots,     \* roots/<project_id>/<n>/<oh> in each store
  job,       \* what each process is at
  undone,    \* history: generations somebody has begun to drop
  crashes

vars == <<gens, current, outputs, roots, job, undone, crashes>>

(***************************************************************************)
(* Three files stand for the directory: meta.json, the .ephemeral marker   *)
(* and the links.  dirty: the working copy was, when the run was made.     *)
(***************************************************************************)
Files == {"meta", "marker", "links"}
Generation == [made : SUBSET Entries, dirty : BOOLEAN, files : SUBSET Files]

\* Rolling, Writing and Dropping: the steps of each of the three handlers.
Writing  == {"root", "build", "place", "point", "outputs"}
Dropping == {"unroot", "delete", "rmdir"}
Steps    == {"idle", "repoint", "list", "check"} \cup Writing \cup Dropping

\* n: the generation at hand; view: what is written; left: stores whose
\* roots are still to be written or removed; todo: what is still to be
\* dropped, from the first bucket and then from the second; policy: the
\* command, its budgets, and `current` as it was when the command read it.
View     == (SUBSET Entries) \X BOOLEAN \X BOOLEAN
Policy   == {"rm", "keep", "explicit", "gc"} \X (Nat \X Nat) \X Nat
Nothing  == <<{}, {}>>
NoView  == <<{}, FALSE, FALSE>>
NoPolicy == <<"rm", <<0, 0>>, None>>

Job ==
  [at : Steps, n : Nat, view : View, left : SUBSET Stores,
   todo : (SUBSET Nat) \X (SUBSET Nat), policy : Policy]

Task(at, n, view, left, todo, policy) ==
  [at |-> at, n |-> n, view |-> view, left |-> left, todo |-> todo, policy |-> policy]

Idle == Task("idle", None, NoView, {}, Nothing, NoPolicy)

At(p) == job[p].at
N(p)  == job[p].n
Made(p)      == job[p].view[1]
Dirty(p)     == job[p].view[2]
IsEphemeral(p) == job[p].view[3]
Seen(p)      == job[p].policy[3]
Becomes(p, new) == job' = [job EXCEPT ![p] = new]
Goes(p, step)   == Becomes(p, [job[p] EXCEPT !.at = step])
Returns(p)      == Becomes(p, Idle)

StoresOf(made) == { s \in Stores : \E oh \in Hashes : <<s, oh>> \in made }
Largest(S) == IF S = {} THEN 0 ELSE CHOOSE n \in S : \A m \in S : m <= n

Init ==
  /\ gens = << >>
  /\ current = None
  /\ outputs \in {"missing", "other"}
  /\ roots = {}
  /\ job = [p \in Procs |-> Idle]
  /\ undone = {}
  /\ crashes = 0

-----------------------------------------------------------------------------
(***************************************************************************)
(* write_generation.  The number is one more than the largest directory    *)
(* name; then the roots, store by store, none in a read-only store.        *)
(***************************************************************************)
\* Mutant: the directories are counted.
NextNumberCount == Cardinality(DOMAIN gens) + 1

NextNumber == Largest(DOMAIN gens) + 1

\* Mutant: read-only stores get roots too.
NumberAll(p, view) ==
  /\ At(p) = "idle"
  /\ NextNumber <= MaxGen
  /\ Becomes(p, Task("root", NextNumber, view, StoresOf(view[1]), Nothing, NoPolicy))
  /\ UNCHANGED <<gens, current, outputs, roots, undone, crashes>>

Number(p, view) ==
  /\ At(p) = "idle"
  /\ NextNumber <= MaxGen
  /\ Becomes(p, Task("root", NextNumber, view, StoresOf(view[1]) \cap Writable,
                     Nothing, NoPolicy))
  /\ UNCHANGED <<gens, current, outputs, roots, undone, crashes>>

RootsFor(made, s, n) == { <<s, n, e[2]>> : e \in { f \in made : f[1] = s } }

Register(p, s) ==
  /\ At(p) = "root"
  /\ s \in job[p].left
  /\ roots' = roots \cup RootsFor(Made(p), s, N(p))
  /\ Becomes(p, [job[p] EXCEPT !.left = @ \ {s}])
  /\ UNCHANGED <<gens, current, outputs, undone, crashes>>

\* Mutant: the view is built before its roots are registered.
RegisteredEarly(p) ==
  /\ At(p) = "root"
  /\ Goes(p, "build")
  /\ UNCHANGED <<gens, current, outputs, roots, undone, crashes>>

Registered(p) ==
  /\ At(p) = "root"
  /\ job[p].left = {}
  /\ Goes(p, "build")
  /\ UNCHANGED <<gens, current, outputs, roots, undone, crashes>>

(***************************************************************************)
(* The links and meta.json are built under a name no reader looks at.      *)
(* They resolve, unless an entry has been swept or evicted meanwhile.      *)
(***************************************************************************)
Build(p) ==
  /\ At(p) = "build"
  /\ Goes(p, "place") \/ Returns(p)
  /\ UNCHANGED <<gens, current, outputs, roots, undone, crashes>>

\* Mutant: meta.json is left for later.
FilesOfLater(p) == {"links"} \cup (IF IsEphemeral(p) THEN {"marker"} ELSE {})

FilesOf(p) == {"meta", "links"} \cup (IF IsEphemeral(p) THEN {"marker"} ELSE {})

(***************************************************************************)
(* The rename: over nothing, or over a directory that has become empty.    *)
(***************************************************************************)
Free(n) == n \in DOMAIN gens => gens[n].files = {}

Place(p) ==
  /\ At(p) = "place"
  /\ IF Free(N(p))
     THEN /\ gens' = [ m \in DOMAIN gens \cup {N(p)} |->
                         IF m = N(p)
                         THEN [made |-> Made(p), dirty |-> Dirty(p),
                               files |-> FilesOf(p)]
                         ELSE gens[m] ]
          /\ undone' = undone \ {N(p)}
          /\ Goes(p, "point")
     ELSE Returns(p) /\ UNCHANGED <<gens, undone>>
  /\ UNCHANGED <<current, outputs, roots, crashes>>

Point(p) ==
  /\ At(p) = "point"
  /\ current' = N(p)
  /\ Goes(p, "outputs")
  /\ UNCHANGED <<gens, outputs, roots, undone, crashes>>

(***************************************************************************)
(* ensure_outputs_symlink: a directory of the user's is left alone.        *)
(***************************************************************************)
LinkOutputs(p) ==
  /\ At(p) = "outputs"
  /\ outputs' = IF outputs = "other" THEN "other" ELSE "link"
  /\ Returns(p)
  /\ UNCHANGED <<gens, current, roots, undone, crashes>>

-----------------------------------------------------------------------------
(***************************************************************************)
(* rollback, to a generation that is named or to the largest below the     *)
(* current one: the directory is looked for, then `current` repointed.     *)
(***************************************************************************)
PreviousExisting == Largest({ n \in DOMAIN gens : n < current })

Rollback(p, n) ==
  /\ At(p) = "idle"
  /\ n \in DOMAIN gens
  /\ Becomes(p, Task("repoint", n, NoView, {}, Nothing, NoPolicy))
  /\ UNCHANGED <<gens, current, outputs, roots, undone, crashes>>

RollbackPrevious(p) ==
  /\ current # None /\ PreviousExisting # None
  /\ Rollback(p, PreviousExisting)

Repoint(p) ==
  /\ At(p) = "repoint"
  /\ current' = N(p)
  /\ Returns(p)
  /\ UNCHANGED <<gens, outputs, roots, undone, crashes>>

-----------------------------------------------------------------------------
(***************************************************************************)
(* generations rm drops one generation; generations keep and gc read       *)
(* `current`, list the directories, and drop what is over the budget.      *)
(***************************************************************************)
Remove(p, n) ==
  /\ At(p) = "idle"
  /\ Becomes(p, Task("check", None, NoView, {}, <<{n}, {}>>, NoPolicy))
  /\ UNCHANGED <<gens, current, outputs, roots, undone, crashes>>

Retain(p, by, budget) ==
  /\ At(p) = "idle"
  /\ by # "rm"
  /\ Becomes(p, Task("list", None, NoView, {}, Nothing, <<by, budget, current>>))
  /\ UNCHANGED <<gens, current, outputs, roots, undone, crashes>>

Ephemeral(n) == "marker" \in gens[n].files
OpLog(n)     == Ephemeral(n) \/ gens[n].dirty
Oldest(ns, keep) == { n \in ns : Cardinality({ m \in ns : m > n }) >= keep }

\* Mutant: gc does not take the current generation off before it counts,
\* but after.
OverBudgetAfter(p) ==
  <<Oldest({ n \in DOMAIN gens : ~OpLog(n) }, job[p].policy[2][1]) \ {Seen(p)},
    Oldest({ n \in DOMAIN gens : OpLog(n) }, job[p].policy[2][2]) \ {Seen(p)}>>

(***************************************************************************)
(* keep_last counts the current generation and spares it; gc               *)
(* (remove_old_generations) leaves it out of both of its buckets.          *)
(***************************************************************************)
OverBudget(p) ==
  LET by     == job[p].policy[1]
      budget == job[p].policy[2]
      seen   == Seen(p)
  IN  CASE by = "explicit" ->
             <<Oldest({ n \in DOMAIN gens : Ephemeral(n) }, budget[1]) \ {seen}, {}>>
        [] by = "gc" ->
             <<Oldest({ n \in DOMAIN gens \ {seen} : ~OpLog(n) }, budget[1]),
               Oldest({ n \in DOMAIN gens \ {seen} : OpLog(n) }, budget[2])>>
        [] OTHER -> <<Oldest(DOMAIN gens, budget[1]) \ {seen}, {}>>

(***************************************************************************)
(* list_generations fails on a directory without its meta.json.            *)
(***************************************************************************)
List(p) ==
  /\ At(p) = "list"
  /\ IF \E n \in DOMAIN gens : "meta" \notin gens[n].files
     THEN Returns(p)
     ELSE Becomes(p, Task("check", None, NoView, {}, OverBudget(p), job[p].policy))
  /\ UNCHANGED <<gens, current, outputs, roots, undone, crashes>>

(***************************************************************************)
(* drop_generation: refused for the current generation; then meta.json     *)
(* tells the stores to unregister from, and the directory goes, file by    *)
(* file.  A generation that fails ends the command; one that is done is    *)
(* followed by the next.                                                   *)
(***************************************************************************)
IsNext(n, todo) ==
  \/ n \in todo[1] /\ \A m \in todo[1] : n <= m
  \/ todo[1] = {} /\ n \in todo[2] /\ \A m \in todo[2] : n <= m

Done(p) ==
  /\ At(p) = "check" /\ job[p].todo = Nothing
  /\ Returns(p)
  /\ UNCHANGED <<gens, current, outputs, roots, undone, crashes>>

MayDrop(n) == n # current /\ n \in DOMAIN gens /\ "meta" \in gens[n].files

Check(p, n) ==
  /\ At(p) = "check"
  /\ IsNext(n, job[p].todo)
  /\ IF MayDrop(n)
     THEN LET todo == job[p].todo
          IN  Becomes(p, Task("unroot", n, NoView, StoresOf(gens[n].made) \cap Writable,
                              <<todo[1] \ {n}, todo[2] \ {n}>>, job[p].policy))
     ELSE Returns(p)
  /\ UNCHANGED <<gens, current, outputs, roots, undone, crashes>>

Unregister(p, s) ==
  /\ At(p) = "unroot"
  /\ s \in job[p].left
  /\ roots' = { r \in roots : ~(r[1] = s /\ r[2] = N(p)) }
  /\ Becomes(p, [job[p] EXCEPT !.left = @ \ {s}])
  /\ undone' = undone \cup {N(p)}
  /\ UNCHANGED <<gens, current, outputs, crashes>>

Unregistered(p) ==
  /\ At(p) = "unroot"
  /\ job[p].left = {}
  /\ Goes(p, "delete")
  /\ UNCHANGED <<gens, current, outputs, roots, undone, crashes>>

Delete(p, file) ==
  /\ At(p) = "delete"
  /\ N(p) \in DOMAIN gens
  /\ file \in gens[N(p)].files
  /\ gens' = [gens EXCEPT ![N(p)].files = @ \ {file}]
  /\ undone' = undone \cup {N(p)}
  /\ UNCHANGED <<current, outputs, roots, job, crashes>>

Deleted(p) ==
  /\ At(p) = "delete"
  /\ IF N(p) \notin DOMAIN gens
     THEN Returns(p)
     ELSE gens[N(p)].files = {} /\ Goes(p, "rmdir")
  /\ UNCHANGED <<gens, current, outputs, roots, undone, crashes>>

RemoveDir(p) ==
  /\ At(p) = "rmdir"
  /\ IF N(p) \in DOMAIN gens /\ gens[N(p)].files = {}
     THEN /\ gens' = [ m \in DOMAIN gens \ {N(p)} |-> gens[m] ]
          /\ undone' = undone \ {N(p)}
          /\ Goes(p, "check")
     ELSE Returns(p) /\ UNCHANGED <<gens, undone>>
  /\ UNCHANGED <<current, outputs, roots, crashes>>

-----------------------------------------------------------------------------
(***************************************************************************)
(* A process may be killed anywhere.                                       *)
(***************************************************************************)
Crash(p) ==
  /\ At(p) # "idle" /\ crashes < MaxCrashes
  /\ Returns(p)
  /\ crashes' = crashes + 1
  /\ UNCHANGED <<gens, current, outputs, roots, undone>>

Write(p) ==
  \/ \E view \in Offers : Number(p, view)
  \/ \E s \in Stores : Register(p, s)
  \/ Registered(p) \/ Build(p) \/ Place(p) \/ Point(p) \/ LinkOutputs(p)

Drop(p) ==
  \/ \E n \in Numbers : Check(p, n)
  \/ \E s \in Stores : Unregister(p, s)
  \/ Unregistered(p) \/ (\E file \in Files : Delete(p, file)) \/ Deleted(p) \/ RemoveDir(p)

Command(p) ==
  \/ \E n \in Numbers : Rollback(p, n) \/ Remove(p, n)
  \/ RollbackPrevious(p) \/ Repoint(p)
  \/ \E by \in {"keep", "explicit", "gc"}, budget \in Budgets : Retain(p, by, budget)
  \/ List(p) \/ Done(p) \/ Drop(p)

Next ==
  \/ \E p \in Scripts : Write(p)
  \/ \E p \in Shells : Command(p)
  \/ \E p \in Procs : Crash(p)

Spec == Init /\ [][Next]_vars

-----------------------------------------------------------------------------
(***************************************************************************)
(* The files of a project are those the handlers write.                    *)
(***************************************************************************)
TypeOK ==
  /\ DOMAIN gens \subseteq Numbers /\ \A n \in DOMAIN gens : gens[n] \in Generation
  /\ current \in Numbers \cup {None}
  /\ outputs \in {"missing", "other", "link"}
  /\ roots \subseteq Writable \X Numbers \X Hashes
  /\ job \in [Procs -> Job]
  /\ undone \subseteq DOMAIN gens
  /\ crashes \in 0 .. MaxCrashes

(***************************************************************************)
(* Whatever a generation shows is rooted in its store, from the moment it  *)
(* can be seen until somebody begins to drop it, whoever is killed.        *)
(***************************************************************************)
Rooted(n, made) ==
  \A e \in made : e[1] \in Writable => <<e[1], n, e[2]>> \in roots

RootsBeforeView ==
  \A n \in DOMAIN gens \ undone : Rooted(n, gens[n].made)

(***************************************************************************)
(* A script that is alone never finds its number taken when it comes to    *)
(* rename its directory, whatever has been dropped since it chose it: its  *)
(* run is not lost.                                                        *)
(***************************************************************************)
NumberFree ==
  \A p \in Scripts : At(p) = "place" => N(p) \notin DOMAIN gens

(***************************************************************************)
(* A listing only ever fails because a drop is under way or was killed:    *)
(* every other generation has its meta.json.                               *)
(***************************************************************************)
ListingWorks ==
  \A n \in DOMAIN gens : "meta" \in gens[n].files \/ n \in undone

(***************************************************************************)
(* What a command with a budget begins to drop is not the generation that  *)
(* was current when it began, nor the one that is now, is of a kind the    *)
(* command may drop, and has at least the budget of younger generations    *)
(* that count with it, however many are written while it works: for gc     *)
(* those of its bucket but the current one, for keep all, and ephemeral    *)
(* ones only where explicit ones are kept (remove_old_generations,         *)
(* keep_last).                                                             *)
(***************************************************************************)
Counted(p) ==
  LET by == job[p].policy[1] IN
  { n \in DOMAIN gens : /\ by = "gc" => n # Seen(p)
                        /\ by = "explicit" => Ephemeral(n) }

Bucket(p, n) == IF job[p].policy[1] = "gc" /\ OpLog(n) THEN 2 ELSE 1

RetentionKept ==
  [][\A p \in Shells :
       At(p) = "check" /\ job[p].policy[1] # "rm" /\ job'[p].at = "unroot" =>
         LET n == job'[p].n
         IN  /\ n \in Counted(p) \ {Seen(p), current}
             /\ Cardinality({ m \in Counted(p) : m > n /\ Bucket(p, m) = Bucket(p, n) })
                  >= job[p].policy[2][Bucket(p, n)]]_vars
=============================================================================
