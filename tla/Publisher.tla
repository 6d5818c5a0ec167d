------------------------------ MODULE Publisher -----------------------------
(***************************************************************************)
(* The runs that read and fill a store: dispatch_argv_job of scheduler.rs  *)
(* with lookup, open_staging, publish, pin and the lease (store.rs,        *)
(* lease.rs), and the generation a run registers when it is over           *)
(* (views.rs).  A step is one file-system operation another process can    *)
(* see the effect of.                                                      *)
(***************************************************************************)
EXTENDS StoreFiles

CONSTANTS
  Yields,      \* key -> the hashes a build may produce: one if deterministic
  Retain,      \* key -> "default", "evict" or "pin"
  Lacking,     \* hashes of contents that miss a declared output
  Mismatched,  \* hashes that are not what the job's blake3= declares
  MaxJobs,     \* bound: jobs one worker takes
  MaxCrashes   \* bound: runs that are killed

ASSUME YieldsAssumption == Yields \in [Keys -> SUBSET Hashes]
ASSUME RetainAssumption == Retain \in [Keys -> {"default", "evict", "pin"}]
ASSUME RunBounds == MaxJobs \in Nat /\ MaxCrashes \in Nat

VARIABLES
  phase,    \* run -> "running", "returned", "rooted", "over" or "dead"
  spoilt,   \* runs with a failed job: they write no generation
  held,     \* run -> <<key, hash>> of its completed jobs (job_entries)
  job,      \* worker -> the job it is at (see NoJob)
  result,   \* worker -> how its last job ended
  jobs,     \* worker -> jobs taken
  crashes   \* runs killed

local == <<phase, spoilt, held, job, result, jobs, crashes>>

AnyKey  == CHOOSE k \in Keys : TRUE
AnyHash == CHOOSE oh \in Hashes : TRUE

(***************************************************************************)
(* The locals of a job: where it is, its key, the hash its look-up has     *)
(* followed, the hash of what it has built, and whether the look-up is the *)
(* second one, after the publish.                                          *)
(***************************************************************************)
NoJob == [at |-> "idle", key |-> AnyKey, seen |-> AnyHash, made |-> AnyHash, built |-> FALSE]

At(w)   == job[w].at
Key(w)  == job[w].key
Seen(w) == job[w].seen
Made(w) == job[w].made

Alive(r) == phase[r] \in {"running", "returned"}

NoRuns ==
  /\ phase = [ r \in Runs |-> "running" ]
  /\ spoilt = {}
  /\ held = [ r \in Runs |-> {} ]
  /\ job = [ w \in Workers |-> NoJob ]
  /\ result = [ w \in Workers |-> "none" ]
  /\ jobs = [ w \in Workers |-> 0 ]
  /\ crashes = 0

Goes(w, there) == job' = [job EXCEPT ![w].at = there]

Continues(w, there) == Goes(w, there) /\ UNCHANGED <<result, shared, spoilt>>

(***************************************************************************)
(* The job ends without an entry to hold: the run has a failed job.  A     *)
(* shared lock is released.                                                *)
(***************************************************************************)
Ends(w, how) ==
  /\ job' = [job EXCEPT ![w] = NoJob]
  /\ result' = [result EXCEPT ![w] = how]
  /\ shared' = shared \ {w}
  /\ spoilt' = spoilt \cup {RunOf[w]}

Leaves(w) == staging' = IF <<w, "current">> \in staging
                        THEN (staging \ {<<w, "current">>}) \cup {<<w, "left">>} ELSE staging

-----------------------------------------------------------------------------
Pick(w, k) ==
  /\ At(w) = "idle" /\ phase[RunOf[w]] = "running" /\ jobs[w] < MaxJobs
  /\ job' = [job EXCEPT ![w] = [NoJob EXCEPT !.at = "lookup", !.key = k]]
  /\ result' = [result EXCEPT ![w] = "none"]
  /\ jobs' = [jobs EXCEPT ![w] = @ + 1]
  /\ UNCHANGED <<files, phase, spoilt, held, crashes>>

(***************************************************************************)
(* lookup, first half: read the link.  No link is a miss; after a publish  *)
(* it is an error ("vanished").                                            *)
(***************************************************************************)
Lookup(w) ==
  /\ At(w) = "lookup"
  /\ IF Key(w) \in DOMAIN links
     THEN /\ job' = [job EXCEPT ![w].at = "manifest", ![w].seen = links[Key(w)]]
          /\ UNCHANGED <<result, shared, spoilt>>
     ELSE IF job[w].built THEN Ends(w, "corrupt")
                          ELSE Continues(w, "open")
  /\ UNCHANGED <<entries, links, staging, logs, idleLogs, leases, roots, pins, exclusive,
                 phase, held, jobs, crashes>>

(***************************************************************************)
(* lookup, second half: read the manifest behind it; and touch .atime,     *)
(* best effort.                                                            *)
(***************************************************************************)
ReadManifest(w) ==
  /\ At(w) = "manifest"
  /\ IF HasManifest(Seen(w))
     THEN Continues(w, "touch")
     ELSE Ends(w, "corrupt")
  /\ UNCHANGED <<entries, links, staging, logs, idleLogs, leases, roots, pins, exclusive,
                 phase, held, jobs, crashes>>

Touch(w) ==
  /\ At(w) = "touch"
  /\ entries' = IF Seen(w) \in DOMAIN entries THEN AddPart(Seen(w), "atime") ELSE entries
  /\ Goes(w, "contract")
  /\ UNCHANGED <<links, staging, logs, idleLogs, leases, roots, pins, shared, exclusive,
                 phase, spoilt, held, result, jobs, crashes>>

(***************************************************************************)
(* A miss: open_staging and log_dir_for, then the command runs.            *)
(***************************************************************************)
Open(w) ==
  /\ At(w) = "open"
  /\ staging' = staging \cup {<<w, "current">>}
  /\ logs' = logs \cup {<<Key(w), w>>}
  /\ idleLogs' = idleLogs \ {Key(w)}
  /\ Goes(w, "build")
  /\ UNCHANGED <<entries, links, leases, roots, pins, shared, exclusive, phase, spoilt,
                 held, result, jobs, crashes>>

(***************************************************************************)
(* The executor writes the output of the command into the log directory    *)
(* when it has ended, and fails if the directory is gone ("nolog"; the     *)
(* failure log makes the directory again).  After a good exit the content  *)
(* is hashed and the manifest written into staging.                        *)
(***************************************************************************)
Build(w, oh) ==
  /\ At(w) = "build"
  /\ <<Key(w), w>> \in logs
  /\ oh \in Yields[Key(w)]
  /\ job' = [job EXCEPT ![w].at = "lock", ![w].made = oh]
  /\ UNCHANGED <<files, phase, spoilt, held, result, jobs, crashes>>

BuildFails(w) ==
  /\ At(w) = "build"
  /\ Ends(w, IF <<Key(w), w>> \in logs THEN "failed" ELSE "nolog")
  /\ Leaves(w)
  /\ logs' = logs \cup {<<Key(w), w>>}
  /\ idleLogs' = IF <<Key(w), w>> \in logs THEN idleLogs ELSE idleLogs \ {Key(w)}
  /\ UNCHANGED <<entries, links, leases, roots, pins, exclusive, phase, held, jobs,
                 crashes>>

-----------------------------------------------------------------------------
\* Mutant: the collector does not keep publishers out.
LockAlone(w) ==
  /\ At(w) = "lock"
  /\ shared' = shared \cup {w}
  /\ Goes(w, "resolve")
  /\ UNCHANGED <<entries, links, staging, logs, idleLogs, leases, roots, pins, exclusive,
                 phase, spoilt, held, result, jobs, crashes>>

(***************************************************************************)
(* publish, steps 4 to 6, under the shared lock.                           *)
(***************************************************************************)
Lock(w) ==
  /\ At(w) = "lock" /\ ~exclusive
  /\ shared' = shared \cup {w}
  /\ Goes(w, "resolve")
  /\ UNCHANGED <<entries, links, staging, logs, idleLogs, leases, roots, pins, exclusive,
                 phase, spoilt, held, result, jobs, crashes>>

(***************************************************************************)
(* Step 5 where entries/<oh> is free: the staging directory is renamed     *)
(* into place, then the marker of an evictable entry is written and the    *)
(* payload made read-only.                                                 *)
(***************************************************************************)
Promote(w) ==
  /\ At(w) = "resolve" /\ Made(w) \notin DOMAIN entries
  /\ IF <<w, "current">> \in staging
     THEN /\ entries' = Put(entries, Made(w),
                            [parts |-> {"manifest", "data"}, sealed |-> FALSE, key |-> Key(w)])
          /\ staging' = staging \ {<<w, "current">>}
          /\ Continues(w, "seal")
     ELSE /\ Ends(w, "corrupt")
          /\ UNCHANGED <<entries, staging>>
  /\ UNCHANGED <<links, logs, idleLogs, leases, roots, pins, exclusive, phase, held, jobs,
                 crashes>>

Mark(w) ==
  /\ At(w) = "seal"
  /\ entries' = IF Retain[Key(w)] = "evict" THEN AddPart(Made(w), "evict") ELSE entries
  /\ Goes(w, "chmod")
  /\ UNCHANGED <<links, staging, logs, idleLogs, leases, roots, pins, shared, exclusive,
                 phase, spoilt, held, result, jobs, crashes>>

\* Mutant: an entry that is there already is not made read-only again.
DedupUnsealed(w) ==
  /\ At(w) = "resolve" /\ Made(w) \in DOMAIN entries
  /\ IF HasManifest(Made(w)) /\ <<w, "current">> \in staging
     THEN /\ staging' = staging \ {<<w, "current">>}
          /\ Continues(w, "link")
     ELSE Leaves(w) /\ Ends(w, "corrupt")
  /\ UNCHANGED <<entries, links, logs, idleLogs, leases, roots, pins, exclusive, phase,
                 held, jobs, crashes>>

\* Mutant: an entry that is there already is an error.
DedupRefused(w) ==
  /\ At(w) = "resolve" /\ Made(w) \in DOMAIN entries
  /\ Leaves(w) /\ Ends(w, "corrupt")
  /\ UNCHANGED <<entries, links, logs, idleLogs, leases, roots, pins, exclusive, phase,
                 held, jobs, crashes>>

(***************************************************************************)
(* Step 5 where entries/<oh> is taken: the two manifests agree, for the    *)
(* hash is that of the content, and staging is removed.                    *)
(***************************************************************************)
Dedup(w) ==
  /\ At(w) = "resolve" /\ Made(w) \in DOMAIN entries
  /\ IF HasManifest(Made(w)) /\ <<w, "current">> \in staging
     THEN /\ staging' = staging \ {<<w, "current">>}
          /\ Continues(w, "chmod")
     ELSE Leaves(w) /\ Ends(w, "corrupt")
  /\ UNCHANGED <<entries, links, logs, idleLogs, leases, roots, pins, exclusive, phase,
                 held, jobs, crashes>>

(***************************************************************************)
(* The end of step 5 on both ways; it fails where there is no data to      *)
(* make read-only.                                                         *)
(***************************************************************************)
Seal(w) ==
  /\ At(w) = "chmod"
  /\ IF Whole(Made(w))
     THEN /\ entries' = [entries EXCEPT ![Made(w)].sealed = TRUE]
          /\ Continues(w, "link")
     ELSE Ends(w, "corrupt") /\ UNCHANGED entries
  /\ UNCHANGED <<links, staging, logs, idleLogs, leases, roots, pins, exclusive, phase,
                 held, jobs, crashes>>

\* Mutant: a link that leads elsewhere is replaced.
LinkOver(w) ==
  /\ At(w) = "link"
  /\ links' = Put(links, Key(w), Made(w))
  /\ job' = [job EXCEPT ![w].at = "lookup", ![w].built = TRUE]
  /\ shared' = shared \ {w}
  /\ UNCHANGED <<entries, staging, logs, idleLogs, leases, roots, pins, exclusive, phase,
                 spoilt, held, result, jobs, crashes>>

\* diff_report: the manifests of the two entries are compared for the report,
\* which is an error of its own if one cannot be read.
Violation(w) ==
  IF HasManifest(links[Key(w)]) /\ HasManifest(Made(w)) THEN "violation" ELSE "corrupt"

(***************************************************************************)
(* Step 6: create the link, or find it there.  One that leads elsewhere is *)
(* a determinism violation.  The lock is released, and the link looked up  *)
(* again.                                                                  *)
(***************************************************************************)
Link(w) ==
  /\ At(w) = "link"
  /\ IF Key(w) \notin DOMAIN links \/ links[Key(w)] = Made(w)
     THEN /\ links' = Put(links, Key(w), Made(w))
          /\ job' = [job EXCEPT ![w].at = "lookup", ![w].built = TRUE]
          /\ shared' = shared \ {w}
          /\ UNCHANGED <<result, spoilt>>
     ELSE /\ Ends(w, Violation(w))
          /\ UNCHANGED links
  /\ UNCHANGED <<entries, staging, logs, idleLogs, leases, roots, pins, exclusive, phase,
                 held, jobs, crashes>>

-----------------------------------------------------------------------------
(***************************************************************************)
(* The content is held against the job: declared outputs for a hit and a   *)
(* build, the declared hash and the pin for a build only.                  *)
(***************************************************************************)
Contract(w) ==
  /\ At(w) = "contract"
  /\ IF Seen(w) \in Lacking \/ (job[w].built /\ Seen(w) \in Mismatched)
     THEN Ends(w, "failed") /\ UNCHANGED pins
     ELSE /\ pins' = IF job[w].built /\ Retain[Key(w)] = "pin"
                     THEN Put(pins, Key(w), Made(w)) ELSE pins
          /\ Continues(w, "apply")
  /\ UNCHANGED <<entries, links, staging, logs, idleLogs, leases, roots, exclusive, phase,
                 held, jobs, crashes>>

(***************************************************************************)
(* apply_outcome: the run's lease protects the entry, if the file is still *)
(* there, and the jobs below may read it from now on.                      *)
(***************************************************************************)
Taken(w) == IF job[w].built THEN Made(w) ELSE Seen(w)

Apply(w) ==
  LET r == RunOf[w]
  IN  /\ At(w) = "apply"
      /\ leases' = IF r \in DOMAIN leases
                   THEN [leases EXCEPT ![r] = [protects |-> @.protects \cup {Taken(w)},
                                               fresh |-> TRUE]]
                   ELSE leases
      /\ held' = [held EXCEPT ![r] = @ \cup {<<Key(w), Taken(w)>>}]
      /\ job' = [job EXCEPT ![w] = NoJob]
      /\ result' = [result EXCEPT ![w] = IF job[w].built THEN "built" ELSE "hit"]
      /\ UNCHANGED <<entries, links, staging, logs, idleLogs, roots, pins, shared,
                     exclusive, phase, spoilt, jobs, crashes>>

-----------------------------------------------------------------------------
(***************************************************************************)
(* The run is over: its lease is dropped.  If no job failed its generation *)
(* is written: a root for each entry, the links of the view (which must    *)
(* resolve), and the pointer to it.  The process ends.                     *)
(***************************************************************************)
Return(r) ==
  /\ phase[r] = "running"
  /\ \A w \in Workers : RunOf[w] = r => At(w) = "idle"
  /\ phase' = [phase EXCEPT ![r] = IF r \in spoilt THEN "over" ELSE "returned"]
  /\ leases' = Drop(leases, {r})
  /\ UNCHANGED <<entries, links, staging, logs, idleLogs, roots, pins, shared, exclusive,
                 spoilt, held, job, result, jobs, crashes>>

AddRoot(r, oh) ==
  /\ phase[r] = "returned"
  /\ <<r, oh>> \notin roots /\ \E k \in Keys : <<k, oh>> \in held[r]
  /\ roots' = roots \cup {<<r, oh>>}
  /\ UNCHANGED <<entries, links, staging, logs, idleLogs, leases, pins, shared, exclusive,
                 local>>

Generate(r) ==
  /\ phase[r] = "returned"
  /\ \A h \in held[r] : <<r, h[2]>> \in roots
  /\ phase' = [phase EXCEPT ![r] =
                 IF \A h \in held[r] : HasData(h[2]) THEN "rooted" ELSE "over"]
  /\ UNCHANGED <<files, spoilt, held, job, result, jobs, crashes>>

DropGeneration(r) ==
  /\ phase[r] = "rooted"
  /\ roots' = { root \in roots : root[1] # r }
  /\ phase' = [phase EXCEPT ![r] = "over"]
  /\ UNCHANGED <<entries, links, staging, logs, idleLogs, leases, pins, shared, exclusive,
                 spoilt, held, job, result, jobs, crashes>>

(***************************************************************************)
(* A run is killed: its locks go with the process, its files stay.         *)
(***************************************************************************)
Crash(r) ==
  /\ Alive(r) /\ crashes < MaxCrashes
  /\ crashes' = crashes + 1
  /\ phase' = [phase EXCEPT ![r] = "dead"]
  /\ job' = [ w \in Workers |->
                IF RunOf[w] = r THEN [NoJob EXCEPT !.at = "dead"] ELSE job[w] ]
  /\ shared' = { w \in shared : RunOf[w] # r }
  /\ UNCHANGED <<entries, links, staging, logs, idleLogs, leases, roots, pins, exclusive,
                 spoilt, held, result, jobs>>

-----------------------------------------------------------------------------
Works(w) ==
  \/ Lookup(w) \/ ReadManifest(w) \/ Touch(w)
  \/ Open(w) \/ (\E oh \in Hashes : Build(w, oh)) \/ BuildFails(w)
  \/ Lock(w) \/ Promote(w) \/ Mark(w) \/ Dedup(w) \/ Seal(w) \/ Link(w)
  \/ Contract(w) \/ Apply(w)

Publishes ==
  \/ \E w \in Workers : Works(w) \/ (\E k \in Keys : Pick(w, k))
  \/ \E r \in Runs : \/ Return(r) \/ Generate(r) \/ DropGeneration(r) \/ Crash(r)
                     \/ \E oh \in Hashes : AddRoot(r, oh)

Places == {"idle", "lookup", "manifest", "touch", "open", "build", "lock", "resolve",
           "seal", "chmod", "link", "contract", "apply", "dead"}
Results == {"none", "hit", "built", "failed", "violation", "corrupt", "nolog"}

LocalOK ==
  /\ phase \in [Runs -> {"running", "returned", "rooted", "over", "dead"}]
  /\ spoilt \subseteq Runs
  /\ held \in [Runs -> SUBSET (Keys \X Hashes)]
  /\ job \in [Workers -> [at : Places, key : Keys, seen : Hashes, made : Hashes,
                          built : BOOLEAN]]
  /\ result \in [Workers -> Results]
  /\ jobs \in [Workers -> 0 .. MaxJobs]
  /\ crashes \in 0 .. MaxCrashes
=============================================================================
