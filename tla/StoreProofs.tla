----------------------------- MODULE StoreProofs ----------------------------
(***************************************************************************)
(* What holds of the store of Store in every reachable state, for any      *)
(* keys, contents, runs, workers, jobs, crashes and calls of the           *)
(* collector.                                                              *)
(***************************************************************************)
EXTENDS Store, FiniteSetTheorems, TLAPS

(***************************************************************************)
(* Writing one link (or entry, or pin), and removing some, leaves a table  *)
(* of the same kind.                                                       *)
(***************************************************************************)
LEMMA PutDrop ==
  ASSUME NEW f, NEW S, NEW T, PartialFun(f, S, T)
  PROVE  /\ \A x \in S, v \in T : PartialFun(Put(f, x, v), S, T)
         /\ \A gone : PartialFun(Drop(f, gone), S, T)
         /\ \A gone : DOMAIN Drop(f, gone) = DOMAIN f \ gone
         /\ \A gone : \A x \in DOMAIN f \ gone : Drop(f, gone)[x] = f[x]
  BY DEF PartialFun, Put, Drop, Restrict

(***************************************************************************)
(* The steps of publish and of the collector that change the parts of an   *)
(* entry leave it an entry.                                                *)
(***************************************************************************)
LEMMA EntryUpdates ==
  ASSUME PartialFun(entries, Hashes, EntryDir)
  PROVE  /\ \A oh : \A p \in Parts : PartialFun(AddPart(oh, p), Hashes, EntryDir)
         /\ \A oh, p : PartialFun([entries EXCEPT ![oh].parts = @ \ {p}], Hashes, EntryDir)
         /\ \A oh : \A b \in BOOLEAN :
              PartialFun([entries EXCEPT ![oh].sealed = b], Hashes, EntryDir)
<1>0. \A oh \in DOMAIN entries : entries[oh] \in EntryDir
  BY DEF PartialFun
<1>1. ASSUME NEW oh, NEW p \in Parts PROVE PartialFun(AddPart(oh, p), Hashes, EntryDir)
  <2> DEFINE f == AddPart(oh, p)
  <2>1. DOMAIN f = DOMAIN entries /\ f = [ x \in DOMAIN entries |-> f[x] ]
    BY DEF AddPart
  <2>2. ASSUME NEW x \in DOMAIN entries PROVE f[x] \in EntryDir
    <3>1. f[x] = IF x = oh THEN [entries[x] EXCEPT !.parts = entries[x].parts \cup {p}]
                           ELSE entries[x]
      BY DEF AddPart
    <3>2. QED
      BY <1>0, <3>1 DEF EntryDir
  <2>3. QED
    BY <2>1, <2>2 DEF PartialFun
<1>2. ASSUME NEW oh, NEW p
      PROVE  PartialFun([entries EXCEPT ![oh].parts = @ \ {p}], Hashes, EntryDir)
  <2> DEFINE f == [entries EXCEPT ![oh].parts = @ \ {p}]
  <2>1. DOMAIN f = DOMAIN entries /\ f = [ x \in DOMAIN entries |-> f[x] ]
    OBVIOUS
  <2>2. ASSUME NEW x \in DOMAIN entries PROVE f[x] \in EntryDir
    <3>1. f[x] = IF x = oh THEN [entries[x] EXCEPT !.parts = entries[x].parts \ {p}]
                           ELSE entries[x]
      OBVIOUS
    <3>2. QED
      BY <1>0, <3>1 DEF EntryDir
  <2>3. QED
    BY <2>1, <2>2 DEF PartialFun
<1>3. ASSUME NEW oh, NEW b \in BOOLEAN
      PROVE  PartialFun([entries EXCEPT ![oh].sealed = b], Hashes, EntryDir)
  <2> DEFINE f == [entries EXCEPT ![oh].sealed = b]
  <2>1. DOMAIN f = DOMAIN entries /\ f = [ x \in DOMAIN entries |-> f[x] ]
    OBVIOUS
  <2>2. ASSUME NEW x \in DOMAIN entries PROVE f[x] \in EntryDir
    <3>1. f[x] = IF x = oh THEN [entries[x] EXCEPT !.sealed = b] ELSE entries[x]
      OBVIOUS
    <3>2. QED
      BY <1>0, <3>1 DEF EntryDir
  <2>3. QED
    BY <2>1, <2>2 DEF PartialFun
<1>4. QED
  BY <1>1, <1>2, <1>3

-----------------------------------------------------------------------------
JobRecord == [at : Places, key : Keys, seen : Hashes, made : Hashes, built : BOOLEAN]

(***************************************************************************)
(* What the locals of a job become in the steps of dispatch_argv_job.      *)
(***************************************************************************)
LEMMA JobUpdates ==
  ASSUME job \in [Workers -> JobRecord], NEW w \in Workers
  PROVE  /\ \A there \in Places : [job EXCEPT ![w].at = there] \in [Workers -> JobRecord]
         /\ \A oh \in Hashes :
              /\ [job EXCEPT ![w].at = "manifest", ![w].seen = oh] \in [Workers -> JobRecord]
              /\ [job EXCEPT ![w].at = "lock", ![w].made = oh] \in [Workers -> JobRecord]
         /\ [job EXCEPT ![w].at = "lookup", ![w].built = TRUE] \in [Workers -> JobRecord]
         /\ \A k \in Keys : [job EXCEPT ![w] = [NoJob EXCEPT !.at = "lookup", !.key = k]]
                              \in [Workers -> JobRecord]
         /\ [job EXCEPT ![w] = NoJob] \in [Workers -> JobRecord]
         /\ \A v \in Workers : Key(v) \in Keys /\ Made(v) \in Hashes /\ Seen(v) \in Hashes
<1>1. AnyKey \in Keys /\ AnyHash \in Hashes
  BY NamesAssumption DEF AnyKey, AnyHash
<1>2. NoJob \in JobRecord
  BY <1>1 DEF NoJob, JobRecord, Places
<1>3. \A v \in Workers : Key(v) \in Keys /\ Made(v) \in Hashes /\ Seen(v) \in Hashes
  BY DEF Key, Made, Seen, JobRecord
<1>4. \A there \in Places : [job EXCEPT ![w].at = there] \in [Workers -> JobRecord]
  BY DEF JobRecord
<1>5. \A oh \in Hashes :
        /\ [job EXCEPT ![w].at = "manifest", ![w].seen = oh] \in [Workers -> JobRecord]
        /\ [job EXCEPT ![w].at = "lock", ![w].made = oh] \in [Workers -> JobRecord]
  BY DEF JobRecord, Places
<1>6. [job EXCEPT ![w].at = "lookup", ![w].built = TRUE] \in [Workers -> JobRecord]
  BY DEF JobRecord, Places
<1>7. \A k \in Keys : [NoJob EXCEPT !.at = "lookup", !.key = k] \in JobRecord
  BY <1>2 DEF JobRecord, Places
<1>8. QED
  BY <1>2, <1>3, <1>4, <1>5, <1>6, <1>7

(***************************************************************************)
(* The steps of a run leave the files what they are.                       *)
(***************************************************************************)
LEMMA RunFiles ==
  ASSUME FilesOK, LocalOK, Publishes
  PROVE  FilesOK'
<1>1. /\ PartialFun(entries, Hashes, EntryDir) /\ PartialFun(links, Keys, Hashes)
      /\ staging \subseteq Workers \X {"current", "left"}
      /\ logs \subseteq Keys \X Workers /\ idleLogs \subseteq Keys
      /\ PartialFun(leases, Runs, [protects : SUBSET Hashes, fresh : BOOLEAN])
      /\ roots \subseteq Runs \X Hashes /\ PartialFun(pins, Keys, Hashes)
      /\ shared \subseteq Workers /\ exclusive \in BOOLEAN
  BY DEF FilesOK
<1>2. /\ \A w \in Workers : Key(w) \in Keys /\ Made(w) \in Hashes /\ Seen(w) \in Hashes
      /\ \A w \in Workers : Taken(w) \in Hashes
  BY DEF LocalOK, Key, Made, Seen, Taken
<1>3. ASSUME NEW w \in Workers, NEW k \in Keys, Pick(w, k) PROVE FilesOK'
  BY <1>1, <1>2, <1>3, PutDrop, EntryUpdates
  DEF Pick, files, Goes, Continues, Ends, Leaves, FilesOK, Parts
<1>4. ASSUME NEW w \in Workers, Lookup(w) PROVE FilesOK'
  BY <1>1, <1>2, <1>4, PutDrop, EntryUpdates
  DEF Lookup, Goes, Continues, Ends, Leaves, FilesOK, Parts
<1>5. ASSUME NEW w \in Workers, ReadManifest(w) PROVE FilesOK'
  BY <1>1, <1>2, <1>5, PutDrop, EntryUpdates
  DEF ReadManifest, Goes, Continues, Ends, Leaves, FilesOK, Parts
<1>6. ASSUME NEW w \in Workers, Touch(w) PROVE FilesOK'
  <2>1. PartialFun(entries', Hashes, EntryDir)
    <3>1. entries' = entries \/ entries' = AddPart(Seen(w), "atime")
      BY <1>6 DEF Touch
    <3>2. QED
      BY <1>1, <3>1, EntryUpdates DEF Parts
  <2>2. QED
    BY <1>1, <1>2, <1>6, <2>1 DEF Touch, Goes, Continues, Ends, Leaves, FilesOK
<1>7. ASSUME NEW w \in Workers, Open(w) PROVE FilesOK'
  BY <1>1, <1>2, <1>7, PutDrop, EntryUpdates
  DEF Open, Goes, Continues, Ends, Leaves, FilesOK, Parts
<1>8. ASSUME NEW w \in Workers, NEW oh \in Hashes, Build(w, oh) PROVE FilesOK'
  BY <1>1, <1>2, <1>8, PutDrop, EntryUpdates
  DEF Build, files, Goes, Continues, Ends, Leaves, FilesOK, Parts
<1>9. ASSUME NEW w \in Workers, BuildFails(w) PROVE FilesOK'
  BY <1>1, <1>2, <1>9, PutDrop, EntryUpdates
  DEF BuildFails, Goes, Continues, Ends, Leaves, FilesOK, Parts
<1>10. ASSUME NEW w \in Workers, Lock(w) PROVE FilesOK'
  BY <1>1, <1>2, <1>10, PutDrop, EntryUpdates
  DEF Lock, Goes, Continues, Ends, Leaves, FilesOK, Parts
<1>11. ASSUME NEW w \in Workers, Promote(w) PROVE FilesOK'
  <2>1. PartialFun(entries', Hashes, EntryDir)
    <3>1. CASE entries' = entries
      BY <1>1, <3>1
    <3>2. CASE entries' = Put(entries, Made(w),
                     [parts |-> {"manifest", "data"}, sealed |-> FALSE, key |-> Key(w)])
      <4>1. [parts |-> {"manifest", "data"}, sealed |-> FALSE, key |-> Key(w)] \in EntryDir
        BY <1>2 DEF EntryDir, Parts
      <4>2. QED
        BY <1>1, <1>2, <3>2, <4>1, PutDrop
    <3>3. QED
      BY <1>11, <3>1, <3>2 DEF Promote
  <2>2. QED
    BY <1>1, <1>2, <1>11, <2>1 DEF Promote, Goes, Continues, Ends, Leaves, FilesOK
<1>12. ASSUME NEW w \in Workers, Mark(w) PROVE FilesOK'
  <2>1. PartialFun(entries', Hashes, EntryDir)
    <3>1. entries' = entries \/ entries' = AddPart(Made(w), "evict")
      BY <1>12 DEF Mark
    <3>2. QED
      BY <1>1, <3>1, EntryUpdates DEF Parts
  <2>2. QED
    BY <1>1, <1>2, <1>12, <2>1 DEF Mark, Goes, Continues, Ends, Leaves, FilesOK
<1>13. ASSUME NEW w \in Workers, Dedup(w) PROVE FilesOK'
  BY <1>1, <1>2, <1>13, PutDrop, EntryUpdates
  DEF Dedup, Goes, Continues, Ends, Leaves, FilesOK, Parts
<1>14. ASSUME NEW w \in Workers, Seal(w) PROVE FilesOK'
  BY <1>1, <1>2, <1>14, PutDrop, EntryUpdates
  DEF Seal, Goes, Continues, Ends, Leaves, FilesOK, Parts
<1>15. ASSUME NEW w \in Workers, Link(w) PROVE FilesOK'
  <2>1. PartialFun(links', Keys, Hashes)
    <3>1. links' = links \/ links' = Put(links, Key(w), Made(w))
      BY <1>15 DEF Link
    <3>2. QED
      BY <1>1, <1>2, <3>1, PutDrop
  <2>2. QED
    BY <1>1, <1>2, <1>15, <2>1 DEF Link, Goes, Continues, Ends, Leaves, FilesOK
<1>16. ASSUME NEW w \in Workers, Contract(w) PROVE FilesOK'
  BY <1>1, <1>2, <1>16, PutDrop, EntryUpdates
  DEF Contract, Goes, Continues, Ends, Leaves, FilesOK, Parts
<1>17. ASSUME NEW w \in Workers, Apply(w) PROVE FilesOK'
  <2>1. PartialFun(leases', Runs, [protects : SUBSET Hashes, fresh : BOOLEAN])
    <3>1. CASE RunOf[w] \in DOMAIN leases
      <4>1. /\ DOMAIN leases' = DOMAIN leases
            /\ \A r \in DOMAIN leases :
                 leases'[r] = IF r = RunOf[w]
                              THEN [protects |-> leases[r].protects \cup {Taken(w)},
                                    fresh |-> TRUE] ELSE leases[r]
            /\ leases' = [ r \in DOMAIN leases |-> leases'[r] ]
        BY <1>17, <3>1 DEF Apply
      <4>2. \A r \in DOMAIN leases : leases[r] \in [protects : SUBSET Hashes, fresh : BOOLEAN]
        BY <1>1 DEF PartialFun
      <4>3. \A r \in DOMAIN leases : leases'[r] \in [protects : SUBSET Hashes, fresh : BOOLEAN]
        <5>1. TAKE r \in DOMAIN leases
        <5>2. leases[r].protects \cup {Taken(w)} \in SUBSET Hashes
          BY <1>2, <4>2
        <5>3. CASE r = RunOf[w]
          <6>1. leases'[r] = [protects |-> leases[r].protects \cup {Taken(w)}, fresh |-> TRUE]
            BY <4>1, <5>3
          <6>2. QED
            BY <5>2, <6>1
        <5>4. CASE r # RunOf[w]
          BY <4>1, <4>2, <5>4
        <5>5. QED
          BY <5>3, <5>4
      <4>4. QED
        BY <1>1, <4>1, <4>3 DEF PartialFun
    <3>2. CASE RunOf[w] \notin DOMAIN leases
      BY <1>1, <1>17, <3>2 DEF Apply
    <3>3. QED
      BY <3>1, <3>2
  <2>2. QED
    BY <1>1, <1>2, <1>17, <2>1 DEF Apply, Goes, Continues, Ends, Leaves, FilesOK
<1>18. ASSUME NEW r \in Runs, Return(r) PROVE FilesOK'
  BY <1>1, <1>2, <1>18, PutDrop, EntryUpdates
  DEF Return, Goes, Continues, Ends, Leaves, FilesOK, Parts
<1>19. ASSUME NEW r \in Runs, Generate(r) PROVE FilesOK'
  BY <1>1, <1>2, <1>19, PutDrop, EntryUpdates
  DEF Generate, files, Goes, Continues, Ends, Leaves, FilesOK, Parts
<1>20. ASSUME NEW r \in Runs, DropGeneration(r) PROVE FilesOK'
  BY <1>1, <1>2, <1>20, PutDrop, EntryUpdates
  DEF DropGeneration, Goes, Continues, Ends, Leaves, FilesOK, Parts
<1>21. ASSUME NEW r \in Runs, Crash(r) PROVE FilesOK'
  BY <1>1, <1>2, <1>21, PutDrop, EntryUpdates
  DEF Crash, Goes, Continues, Ends, Leaves, FilesOK, Parts
<1>22. ASSUME NEW r \in Runs, NEW oh \in Hashes, AddRoot(r, oh) PROVE FilesOK'
  BY <1>1, <1>2, <1>22, PutDrop, EntryUpdates
  DEF AddRoot, local, Goes, Continues, Ends, Leaves, FilesOK, Parts
<1>23. QED
  BY <1>3, <1>4, <1>5, <1>6, <1>7, <1>8, <1>9, <1>10, <1>11, <1>12, <1>13,
     <1>14, <1>15, <1>16, <1>17, <1>18, <1>19, <1>20, <1>21, <1>22 DEF
     Publishes, Works

(***************************************************************************)
(* What becomes of a job in the steps of dispatch_argv_job.                *)
(***************************************************************************)
LEMMA JobSteps ==
  ASSUME job \in [Workers -> JobRecord]
  PROVE  /\ \A w \in Workers :
              /\ \A there \in Places : Goes(w, there) => job' \in [Workers -> JobRecord]
              /\ \A how : Ends(w, how) => job' \in [Workers -> JobRecord]
              /\ \A oh \in Hashes :
                   /\ [job EXCEPT ![w].at = "manifest", ![w].seen = oh] \in [Workers -> JobRecord]
                   /\ [job EXCEPT ![w].at = "lock", ![w].made = oh] \in [Workers -> JobRecord]
              /\ [job EXCEPT ![w].at = "lookup", ![w].built = TRUE] \in [Workers -> JobRecord]
              /\ \A k \in Keys : [job EXCEPT ![w] = [NoJob EXCEPT !.at = "lookup", !.key = k]]
                                   \in [Workers -> JobRecord]
              /\ [job EXCEPT ![w] = NoJob] \in [Workers -> JobRecord]
         /\ [NoJob EXCEPT !.at = "dead"] \in JobRecord
<1>1. ASSUME NEW w \in Workers, NEW there \in Places, Goes(w, there)
      PROVE  job' \in [Workers -> JobRecord]
  BY <1>1, JobUpdates DEF Goes
<1>2. ASSUME NEW w \in Workers, NEW how, Ends(w, how) PROVE job' \in [Workers -> JobRecord]
  BY <1>2, JobUpdates DEF Ends
<1>3. [NoJob EXCEPT !.at = "dead"] \in JobRecord
  BY NamesAssumption DEF NoJob, JobRecord, Places, AnyKey, AnyHash
<1>4. QED
  BY <1>1, <1>2, <1>3, JobUpdates

(***************************************************************************)
(* The steps of a run leave its own state what it is.                      *)
(***************************************************************************)
LEMMA RunLocals ==
  ASSUME FilesOK, LocalOK, Publishes
  PROVE  LocalOK'
<1>1. /\ job \in [Workers -> JobRecord] /\ RunOf \in [Workers -> Runs]
      /\ result \in [Workers -> Results] /\ spoilt \subseteq Runs
      /\ phase \in [Runs -> {"running", "returned", "rooted", "over", "dead"}]
      /\ held \in [Runs -> SUBSET (Keys \X Hashes)]
      /\ jobs \in [Workers -> 0 .. MaxJobs] /\ crashes \in 0 .. MaxCrashes
  BY RunOfAssumption DEF LocalOK, JobRecord
<1>2. /\ \A w \in Workers : Key(w) \in Keys /\ Made(w) \in Hashes /\ Seen(w) \in Hashes
      /\ \A w \in Workers : Taken(w) \in Hashes
      /\ \A k \in DOMAIN links : links[k] \in Hashes
  BY DEF LocalOK, FilesOK, PartialFun, Key, Made, Seen, Taken
<1>3. ASSUME NEW w \in Workers, NEW k \in Keys, Pick(w, k) PROVE LocalOK'
  <2>1. job' \in [Workers -> JobRecord]
    BY <1>1, <1>2, <1>3, JobSteps DEF Pick, files, Continues, Places
  <2>2. /\ result' \in [Workers -> Results] /\ spoilt' \subseteq Runs
        /\ jobs' \in [Workers -> 0 .. MaxJobs] /\ crashes' \in 0 .. MaxCrashes
    BY <1>1, <1>3, RunBounds DEF Pick, files, Continues, Ends, Results
  <2>3. /\ phase' \in [Runs -> {"running", "returned", "rooted", "over", "dead"}]
        /\ held' \in [Runs -> SUBSET (Keys \X Hashes)]
    BY <1>1, <1>2, <1>3 DEF Pick, files
  <2>4. QED
    BY <2>1, <2>2, <2>3 DEF LocalOK, JobRecord
<1>4. ASSUME NEW w \in Workers, Lookup(w) PROVE LocalOK'
  <2>1. job' \in [Workers -> JobRecord]
    <3>1. CASE Key(w) \in DOMAIN links
      <4> DEFINE oh == links[Key(w)]
      <4>1. oh \in Hashes /\ job' = [job EXCEPT ![w].at = "manifest", ![w].seen = oh]
        BY <1>2, <1>4, <3>1 DEF Lookup
      <4> HIDE DEF oh
      <4>2. QED
        BY <1>1, <4>1, JobSteps
    <3>2. CASE Key(w) \notin DOMAIN links
      BY <1>1, <1>4, <3>2, JobSteps DEF Lookup, Continues, Places
    <3>3. QED
      BY <3>1, <3>2
  <2>2. /\ result' \in [Workers -> Results] /\ spoilt' \subseteq Runs
        /\ jobs' \in [Workers -> 0 .. MaxJobs] /\ crashes' \in 0 .. MaxCrashes
    BY <1>1, <1>4, RunBounds DEF Lookup, Continues, Ends, Results
  <2>3. /\ phase' \in [Runs -> {"running", "returned", "rooted", "over", "dead"}]
        /\ held' \in [Runs -> SUBSET (Keys \X Hashes)]
    BY <1>1, <1>2, <1>4 DEF Lookup
  <2>4. QED
    BY <2>1, <2>2, <2>3 DEF LocalOK, JobRecord
<1>5. ASSUME NEW w \in Workers, ReadManifest(w) PROVE LocalOK'
  <2>1. job' \in [Workers -> JobRecord]
    BY <1>1, <1>2, <1>5, JobSteps DEF ReadManifest, Continues, Places
  <2>2. /\ result' \in [Workers -> Results] /\ spoilt' \subseteq Runs
        /\ jobs' \in [Workers -> 0 .. MaxJobs] /\ crashes' \in 0 .. MaxCrashes
    BY <1>1, <1>5, RunBounds DEF ReadManifest, Continues, Ends, Results
  <2>3. /\ phase' \in [Runs -> {"running", "returned", "rooted", "over", "dead"}]
        /\ held' \in [Runs -> SUBSET (Keys \X Hashes)]
    BY <1>1, <1>2, <1>5 DEF ReadManifest
  <2>4. QED
    BY <2>1, <2>2, <2>3 DEF LocalOK, JobRecord
<1>6. ASSUME NEW w \in Workers, Touch(w) PROVE LocalOK'
  <2>1. job' \in [Workers -> JobRecord]
    BY <1>1, <1>2, <1>6, JobSteps DEF Touch, Continues, Places
  <2>2. /\ result' \in [Workers -> Results] /\ spoilt' \subseteq Runs
        /\ jobs' \in [Workers -> 0 .. MaxJobs] /\ crashes' \in 0 .. MaxCrashes
    BY <1>1, <1>6, RunBounds DEF Touch, Continues, Ends, Results
  <2>3. /\ phase' \in [Runs -> {"running", "returned", "rooted", "over", "dead"}]
        /\ held' \in [Runs -> SUBSET (Keys \X Hashes)]
    BY <1>1, <1>2, <1>6 DEF Touch
  <2>4. QED
    BY <2>1, <2>2, <2>3 DEF LocalOK, JobRecord
<1>7. ASSUME NEW w \in Workers, Open(w) PROVE LocalOK'
  <2>1. job' \in [Workers -> JobRecord]
    BY <1>1, <1>2, <1>7, JobSteps DEF Open, Continues, Places
  <2>2. /\ result' \in [Workers -> Results] /\ spoilt' \subseteq Runs
        /\ jobs' \in [Workers -> 0 .. MaxJobs] /\ crashes' \in 0 .. MaxCrashes
    BY <1>1, <1>7, RunBounds DEF Open, Continues, Ends, Results
  <2>3. /\ phase' \in [Runs -> {"running", "returned", "rooted", "over", "dead"}]
        /\ held' \in [Runs -> SUBSET (Keys \X Hashes)]
    BY <1>1, <1>2, <1>7 DEF Open
  <2>4. QED
    BY <2>1, <2>2, <2>3 DEF LocalOK, JobRecord
<1>8. ASSUME NEW w \in Workers, NEW oh \in Hashes, Build(w, oh) PROVE LocalOK'
  <2>1. job' \in [Workers -> JobRecord]
    BY <1>1, <1>2, <1>8, JobSteps DEF Build, files, Continues, Places
  <2>2. /\ result' \in [Workers -> Results] /\ spoilt' \subseteq Runs
        /\ jobs' \in [Workers -> 0 .. MaxJobs] /\ crashes' \in 0 .. MaxCrashes
    BY <1>1, <1>8, RunBounds DEF Build, files, Continues, Ends, Results
  <2>3. /\ phase' \in [Runs -> {"running", "returned", "rooted", "over", "dead"}]
        /\ held' \in [Runs -> SUBSET (Keys \X Hashes)]
    BY <1>1, <1>2, <1>8 DEF Build, files
  <2>4. QED
    BY <2>1, <2>2, <2>3 DEF LocalOK, JobRecord
<1>9. ASSUME NEW w \in Workers, BuildFails(w) PROVE LocalOK'
  <2>1. job' \in [Workers -> JobRecord]
    BY <1>1, <1>2, <1>9, JobSteps DEF BuildFails, Continues, Places
  <2>2. /\ result' \in [Workers -> Results] /\ spoilt' \subseteq Runs
        /\ jobs' \in [Workers -> 0 .. MaxJobs] /\ crashes' \in 0 .. MaxCrashes
    BY <1>1, <1>9, RunBounds DEF BuildFails, Continues, Ends, Results
  <2>3. /\ phase' \in [Runs -> {"running", "returned", "rooted", "over", "dead"}]
        /\ held' \in [Runs -> SUBSET (Keys \X Hashes)]
    BY <1>1, <1>2, <1>9 DEF BuildFails
  <2>4. QED
    BY <2>1, <2>2, <2>3 DEF LocalOK, JobRecord
<1>10. ASSUME NEW w \in Workers, Lock(w) PROVE LocalOK'
  <2>1. job' \in [Workers -> JobRecord]
    BY <1>1, <1>2, <1>10, JobSteps DEF Lock, Continues, Places
  <2>2. /\ result' \in [Workers -> Results] /\ spoilt' \subseteq Runs
        /\ jobs' \in [Workers -> 0 .. MaxJobs] /\ crashes' \in 0 .. MaxCrashes
    BY <1>1, <1>10, RunBounds DEF Lock, Continues, Ends, Results
  <2>3. /\ phase' \in [Runs -> {"running", "returned", "rooted", "over", "dead"}]
        /\ held' \in [Runs -> SUBSET (Keys \X Hashes)]
    BY <1>1, <1>2, <1>10 DEF Lock
  <2>4. QED
    BY <2>1, <2>2, <2>3 DEF LocalOK, JobRecord
<1>11. ASSUME NEW w \in Workers, Promote(w) PROVE LocalOK'
  <2>1. job' \in [Workers -> JobRecord]
    BY <1>1, <1>2, <1>11, JobSteps DEF Promote, Continues, Places
  <2>2. /\ result' \in [Workers -> Results] /\ spoilt' \subseteq Runs
        /\ jobs' \in [Workers -> 0 .. MaxJobs] /\ crashes' \in 0 .. MaxCrashes
    BY <1>1, <1>11, RunBounds DEF Promote, Continues, Ends, Results
  <2>3. /\ phase' \in [Runs -> {"running", "returned", "rooted", "over", "dead"}]
        /\ held' \in [Runs -> SUBSET (Keys \X Hashes)]
    BY <1>1, <1>2, <1>11 DEF Promote
  <2>4. QED
    BY <2>1, <2>2, <2>3 DEF LocalOK, JobRecord
<1>12. ASSUME NEW w \in Workers, Mark(w) PROVE LocalOK'
  <2>1. job' \in [Workers -> JobRecord]
    BY <1>1, <1>2, <1>12, JobSteps DEF Mark, Continues, Places
  <2>2. /\ result' \in [Workers -> Results] /\ spoilt' \subseteq Runs
        /\ jobs' \in [Workers -> 0 .. MaxJobs] /\ crashes' \in 0 .. MaxCrashes
    BY <1>1, <1>12, RunBounds DEF Mark, Continues, Ends, Results
  <2>3. /\ phase' \in [Runs -> {"running", "returned", "rooted", "over", "dead"}]
        /\ held' \in [Runs -> SUBSET (Keys \X Hashes)]
    BY <1>1, <1>2, <1>12 DEF Mark
  <2>4. QED
    BY <2>1, <2>2, <2>3 DEF LocalOK, JobRecord
<1>13. ASSUME NEW w \in Workers, Dedup(w) PROVE LocalOK'
  <2>1. job' \in [Workers -> JobRecord]
    BY <1>1, <1>2, <1>13, JobSteps DEF Dedup, Continues, Places
  <2>2. /\ result' \in [Workers -> Results] /\ spoilt' \subseteq Runs
        /\ jobs' \in [Workers -> 0 .. MaxJobs] /\ crashes' \in 0 .. MaxCrashes
    BY <1>1, <1>13, RunBounds DEF Dedup, Continues, Ends, Results
  <2>3. /\ phase' \in [Runs -> {"running", "returned", "rooted", "over", "dead"}]
        /\ held' \in [Runs -> SUBSET (Keys \X Hashes)]
    BY <1>1, <1>2, <1>13 DEF Dedup
  <2>4. QED
    BY <2>1, <2>2, <2>3 DEF LocalOK, JobRecord
<1>14. ASSUME NEW w \in Workers, Seal(w) PROVE LocalOK'
  <2>1. job' \in [Workers -> JobRecord]
    BY <1>1, <1>2, <1>14, JobSteps DEF Seal, Continues, Places
  <2>2. /\ result' \in [Workers -> Results] /\ spoilt' \subseteq Runs
        /\ jobs' \in [Workers -> 0 .. MaxJobs] /\ crashes' \in 0 .. MaxCrashes
    BY <1>1, <1>14, RunBounds DEF Seal, Continues, Ends, Results
  <2>3. /\ phase' \in [Runs -> {"running", "returned", "rooted", "over", "dead"}]
        /\ held' \in [Runs -> SUBSET (Keys \X Hashes)]
    BY <1>1, <1>2, <1>14 DEF Seal
  <2>4. QED
    BY <2>1, <2>2, <2>3 DEF LocalOK, JobRecord
<1>15. ASSUME NEW w \in Workers, Link(w) PROVE LocalOK'
  <2>1. job' \in [Workers -> JobRecord]
    BY <1>1, <1>2, <1>15, JobSteps DEF Link, Continues, Places
  <2>2. /\ result' \in [Workers -> Results] /\ spoilt' \subseteq Runs
        /\ jobs' \in [Workers -> 0 .. MaxJobs] /\ crashes' \in 0 .. MaxCrashes
    BY <1>1, <1>15, RunBounds DEF Link, Violation, Continues, Ends, Results
  <2>3. /\ phase' \in [Runs -> {"running", "returned", "rooted", "over", "dead"}]
        /\ held' \in [Runs -> SUBSET (Keys \X Hashes)]
    BY <1>1, <1>2, <1>15 DEF Link
  <2>4. QED
    BY <2>1, <2>2, <2>3 DEF LocalOK, JobRecord
<1>16. ASSUME NEW w \in Workers, Contract(w) PROVE LocalOK'
  <2>1. job' \in [Workers -> JobRecord]
    BY <1>1, <1>2, <1>16, JobSteps DEF Contract, Continues, Places
  <2>2. /\ result' \in [Workers -> Results] /\ spoilt' \subseteq Runs
        /\ jobs' \in [Workers -> 0 .. MaxJobs] /\ crashes' \in 0 .. MaxCrashes
    BY <1>1, <1>16, RunBounds DEF Contract, Continues, Ends, Results
  <2>3. /\ phase' \in [Runs -> {"running", "returned", "rooted", "over", "dead"}]
        /\ held' \in [Runs -> SUBSET (Keys \X Hashes)]
    BY <1>1, <1>2, <1>16 DEF Contract
  <2>4. QED
    BY <2>1, <2>2, <2>3 DEF LocalOK, JobRecord
<1>17. ASSUME NEW w \in Workers, Apply(w) PROVE LocalOK'
  <2>1. job' \in [Workers -> JobRecord]
    BY <1>1, <1>2, <1>17, JobSteps DEF Apply, Continues, Places
  <2>2. /\ result' \in [Workers -> Results] /\ spoilt' \subseteq Runs
        /\ jobs' \in [Workers -> 0 .. MaxJobs] /\ crashes' \in 0 .. MaxCrashes
    BY <1>1, <1>17, RunBounds DEF Apply, Continues, Ends, Results
  <2>3. /\ phase' \in [Runs -> {"running", "returned", "rooted", "over", "dead"}]
        /\ held' \in [Runs -> SUBSET (Keys \X Hashes)]
    BY <1>1, <1>2, <1>17 DEF Apply
  <2>4. QED
    BY <2>1, <2>2, <2>3 DEF LocalOK, JobRecord
<1>18. ASSUME NEW r \in Runs, Return(r) PROVE LocalOK'
  <2>1. job' \in [Workers -> JobRecord]
    BY <1>1, <1>2, <1>18, JobSteps DEF Return, Continues, Places
  <2>2. /\ result' \in [Workers -> Results] /\ spoilt' \subseteq Runs
        /\ jobs' \in [Workers -> 0 .. MaxJobs] /\ crashes' \in 0 .. MaxCrashes
    BY <1>1, <1>18, RunBounds DEF Return, Continues, Ends, Results
  <2>3. /\ phase' \in [Runs -> {"running", "returned", "rooted", "over", "dead"}]
        /\ held' \in [Runs -> SUBSET (Keys \X Hashes)]
    BY <1>1, <1>2, <1>18 DEF Return
  <2>4. QED
    BY <2>1, <2>2, <2>3 DEF LocalOK, JobRecord
<1>19. ASSUME NEW r \in Runs, Generate(r) PROVE LocalOK'
  <2>1. job' \in [Workers -> JobRecord]
    BY <1>1, <1>2, <1>19, JobSteps DEF Generate, files, Continues, Places
  <2>2. /\ result' \in [Workers -> Results] /\ spoilt' \subseteq Runs
        /\ jobs' \in [Workers -> 0 .. MaxJobs] /\ crashes' \in 0 .. MaxCrashes
    BY <1>1, <1>19, RunBounds DEF Generate, files, Continues, Ends, Results
  <2>3. /\ phase' \in [Runs -> {"running", "returned", "rooted", "over", "dead"}]
        /\ held' \in [Runs -> SUBSET (Keys \X Hashes)]
    BY <1>1, <1>2, <1>19 DEF Generate, files
  <2>4. QED
    BY <2>1, <2>2, <2>3 DEF LocalOK, JobRecord
<1>20. ASSUME NEW r \in Runs, DropGeneration(r) PROVE LocalOK'
  <2>1. job' \in [Workers -> JobRecord]
    BY <1>1, <1>2, <1>20, JobSteps DEF DropGeneration, Continues, Places
  <2>2. /\ result' \in [Workers -> Results] /\ spoilt' \subseteq Runs
        /\ jobs' \in [Workers -> 0 .. MaxJobs] /\ crashes' \in 0 .. MaxCrashes
    BY <1>1, <1>20, RunBounds DEF DropGeneration, Continues, Ends, Results
  <2>3. /\ phase' \in [Runs -> {"running", "returned", "rooted", "over", "dead"}]
        /\ held' \in [Runs -> SUBSET (Keys \X Hashes)]
    BY <1>1, <1>2, <1>20 DEF DropGeneration
  <2>4. QED
    BY <2>1, <2>2, <2>3 DEF LocalOK, JobRecord
<1>21. ASSUME NEW r \in Runs, Crash(r) PROVE LocalOK'
  <2>1. job' \in [Workers -> JobRecord]
    BY <1>1, <1>2, <1>21, JobSteps DEF Crash, Places
  <2>2. /\ result' \in [Workers -> Results] /\ spoilt' \subseteq Runs
        /\ jobs' \in [Workers -> 0 .. MaxJobs] /\ crashes' \in 0 .. MaxCrashes
    BY <1>1, <1>21, RunBounds DEF Crash, Continues, Ends, Results
  <2>3. /\ phase' \in [Runs -> {"running", "returned", "rooted", "over", "dead"}]
        /\ held' \in [Runs -> SUBSET (Keys \X Hashes)]
    BY <1>1, <1>2, <1>21 DEF Crash
  <2>4. QED
    BY <2>1, <2>2, <2>3 DEF LocalOK, JobRecord
<1>22. ASSUME NEW r \in Runs, NEW oh \in Hashes, AddRoot(r, oh) PROVE LocalOK'
  <2>1. job' \in [Workers -> JobRecord]
    BY <1>1, <1>2, <1>22, JobSteps DEF AddRoot, local, Continues, Places
  <2>2. /\ result' \in [Workers -> Results] /\ spoilt' \subseteq Runs
        /\ jobs' \in [Workers -> 0 .. MaxJobs] /\ crashes' \in 0 .. MaxCrashes
    BY <1>1, <1>22, RunBounds DEF AddRoot, local, Continues, Ends, Results
  <2>3. /\ phase' \in [Runs -> {"running", "returned", "rooted", "over", "dead"}]
        /\ held' \in [Runs -> SUBSET (Keys \X Hashes)]
    BY <1>1, <1>2, <1>22 DEF AddRoot, local
  <2>4. QED
    BY <2>1, <2>2, <2>3 DEF LocalOK, JobRecord
<1>23. QED
  BY <1>3, <1>4, <1>5, <1>6, <1>7, <1>8, <1>9, <1>10, <1>11, <1>12, <1>13,
     <1>14, <1>15, <1>16, <1>17, <1>18, <1>19, <1>20, <1>21, <1>22 DEF
     Publishes, Works

-----------------------------------------------------------------------------
(***************************************************************************)
(* The collector's own variables: what it has listed is there (nobody else *)
(* removes an entry), and the entry it is removing is not listed any more. *)
(***************************************************************************)
Listing ==
  /\ candidates \cup victim \subseteq DOMAIN entries
  /\ candidates \cap victim = {}
  /\ stage \notin {"evict", "trim", "sweep"} => candidates = {} /\ victim = {}

(***************************************************************************)
(* The steps of the collector keep the types.                              *)
(***************************************************************************)
LEMMA CollectorTypes ==
  ASSUME FilesOK, CollectorOK, Listing, Collects \/ Killed \/ \E l \in Levels : Start(l)
  PROVE  FilesOK' /\ CollectorOK'
<1>1. /\ PartialFun(entries, Hashes, EntryDir) /\ PartialFun(links, Keys, Hashes)
      /\ staging \subseteq Workers \X {"current", "left"}
      /\ logs \subseteq Keys \X Workers /\ idleLogs \subseteq Keys
      /\ PartialFun(leases, Runs, [protects : SUBSET Hashes, fresh : BOOLEAN])
      /\ roots \subseteq Runs \X Hashes /\ PartialFun(pins, Keys, Hashes)
      /\ shared \subseteq Workers /\ exclusive \in BOOLEAN
  BY DEF FilesOK
<1>2. /\ kept \subseteq Hashes /\ unread \subseteq Runs /\ candidates \subseteq Hashes
      /\ victim \subseteq Hashes /\ doomed \subseteq Parts /\ kills \in 0 .. MaxKills
      /\ stage \in Stages /\ level \in FailedOnly .. Reset /\ sweeps \in 0 .. MaxSweeps
  BY DEF CollectorOK
<1>3. /\ DOMAIN entries \subseteq Hashes /\ DOMAIN links \subseteq Keys
      /\ DOMAIN leases \subseteq Runs
      /\ \A oh \in DOMAIN entries : entries[oh].parts \subseteq Parts
      /\ { root[2] : root \in roots } \subseteq Hashes
      /\ \A k \in DOMAIN pins : pins[k] \in Hashes
      /\ \A r \in DOMAIN leases : leases[r].protects \subseteq Hashes
  BY <1>1 DEF PartialFun, EntryDir
<1>4. PartialFun(<< >>, Keys, Hashes)
  BY DEF PartialFun
<1>5. ASSUME NEW l \in Levels, Start(l) PROVE FilesOK' /\ CollectorOK'
  <2>1. FilesOK'
    BY <1>1, <1>5, PutDrop DEF Start, local, FilesOK
  <2>2. CollectorOK'
    BY <1>2, <1>3, <1>5, LevelsAssumption, SweepBounds
    DEF Start, local, CollectorOK, Stages, Listing, FailedOnly, Reset
  <2>3. QED
    BY <2>1, <2>2
<1>6. ASSUME Debris PROVE FilesOK' /\ CollectorOK'
  <2>1. FilesOK'
    <3>1. pins' = pins \/ pins' = << >>
      BY <1>6 DEF Debris
    <3>2. PartialFun(pins', Keys, Hashes)
      BY <1>1, <1>4, <3>1
    <3>3. QED
      BY <1>1, <1>6, <3>2, PutDrop DEF Debris, FilesOK
  <2>2. CollectorOK'
    BY <1>2, <1>3, <1>6, LevelsAssumption, SweepBounds
    DEF Debris, local, CollectorOK, Stages, Listing, FailedOnly, Reset
  <2>3. QED
    BY <2>1, <2>2
<1>7. ASSUME CollectRoots PROVE FilesOK' /\ CollectorOK'
  <2>1. FilesOK'
    BY <1>1, <1>7, PutDrop DEF CollectRoots, files, local, FilesOK
  <2>2. CollectorOK'
    BY <1>2, <1>3, <1>7, LevelsAssumption, SweepBounds
    DEF CollectRoots, files, local, CollectorOK, Stages, Listing, FailedOnly, Reset
  <2>3. QED
    BY <2>1, <2>2
<1>8. ASSUME CollectPins PROVE FilesOK' /\ CollectorOK'
  <2>1. FilesOK'
    BY <1>1, <1>8, PutDrop DEF CollectPins, files, local, FilesOK
  <2>2. CollectorOK'
    BY <1>2, <1>3, <1>8, LevelsAssumption, SweepBounds
    DEF CollectPins, files, local, CollectorOK, Stages, Listing, FailedOnly, Reset
  <2>3. QED
    BY <2>1, <2>2
<1>9. ASSUME ListLeases PROVE FilesOK' /\ CollectorOK'
  <2>1. FilesOK'
    BY <1>1, <1>9, PutDrop DEF ListLeases, files, local, FilesOK
  <2>2. CollectorOK'
    BY <1>2, <1>3, <1>9, LevelsAssumption, SweepBounds
    DEF ListLeases, files, local, CollectorOK, Stages, Listing, FailedOnly, Reset
  <2>3. QED
    BY <2>1, <2>2
<1>10. ASSUME NEW r \in Runs, ReadLease(r) PROVE FilesOK' /\ CollectorOK'
  <2>1. FilesOK'
    BY <1>1, <1>10, PutDrop DEF ReadLease, files, local, FilesOK
  <2>2. CollectorOK'
    BY <1>2, <1>3, <1>10, LevelsAssumption, SweepBounds
    DEF ReadLease, files, local, CollectorOK, Stages, Listing, FailedOnly, Reset
  <2>3. QED
    BY <2>1, <2>2
<1>11. ASSUME NEW r \in Runs, LeaseGone(r) PROVE FilesOK' /\ CollectorOK'
  <2>1. FilesOK'
    BY <1>1, <1>11, PutDrop DEF LeaseGone, Stops, local, FilesOK
  <2>2. CollectorOK'
    BY <1>2, <1>3, <1>11, LevelsAssumption, SweepBounds
    DEF LeaseGone, Stops, local, CollectorOK, Stages, Listing, FailedOnly, Reset
  <2>3. QED
    BY <2>1, <2>2
<1>12. ASSUME LeasesRead PROVE FilesOK' /\ CollectorOK'
  <2>1. FilesOK'
    BY <1>1, <1>12, PutDrop DEF LeasesRead, files, local, FilesOK
  <2>2. CollectorOK'
    BY <1>2, <1>3, <1>12, LevelsAssumption, SweepBounds
    DEF LeasesRead, files, local, CollectorOK, Stages, Listing, FailedOnly, Reset
  <2>3. QED
    BY <2>1, <2>2
<1>13. ASSUME NEW k \in Keys, Unlink(k) PROVE FilesOK' /\ CollectorOK'
  <2>1. FilesOK'
    BY <1>1, <1>13, PutDrop DEF Unlink, local, collector, FilesOK
  <2>2. CollectorOK'
    BY <1>2, <1>3, <1>13, LevelsAssumption, SweepBounds
    DEF Unlink, local, collector, CollectorOK, Stages, Listing, FailedOnly, Reset
  <2>3. QED
    BY <2>1, <2>2
<1>14. ASSUME ListEntries PROVE FilesOK' /\ CollectorOK'
  <2>1. FilesOK'
    BY <1>1, <1>14, PutDrop DEF ListEntries, files, local, FilesOK
  <2>2. CollectorOK'
    BY <1>2, <1>3, <1>14, LevelsAssumption, SweepBounds
    DEF ListEntries, files, local, CollectorOK, Stages, Listing, FailedOnly, Reset
  <2>3. QED
    BY <2>1, <2>2
<1>15. ASSUME NEW oh \in Hashes, Evict(oh) PROVE FilesOK' /\ CollectorOK'
  <2>1. FilesOK'
    <3>1. PartialFun(entries', Hashes, EntryDir)
      BY <1>1, <1>15, EntryUpdates DEF Evict, Remove
    <3>2. QED
      BY <1>1, <1>15, <3>1 DEF Evict, Remove, FilesOK
  <2>2. CollectorOK'
    BY <1>2, <1>3, <1>15, LevelsAssumption, SweepBounds
    DEF Evict, Remove, Evictable, local, CollectorOK, Stages, Listing, FailedOnly, Reset
  <2>3. QED
    BY <2>1, <2>2
<1>16. ASSUME NEW oh \in Hashes, Sweep(oh) PROVE FilesOK' /\ CollectorOK'
  <2>1. FilesOK'
    <3>1. PartialFun(entries', Hashes, EntryDir)
      BY <1>1, <1>16, EntryUpdates DEF Sweep, Remove
    <3>2. QED
      BY <1>1, <1>16, <3>1 DEF Sweep, Remove, FilesOK
  <2>2. CollectorOK'
    BY <1>2, <1>3, <1>16, LevelsAssumption, SweepBounds
    DEF Sweep, Remove, local, CollectorOK, Stages, Listing, FailedOnly, Reset
  <2>3. QED
    BY <2>1, <2>2
<1>17. ASSUME Evicted PROVE FilesOK' /\ CollectorOK'
  <2>1. FilesOK'
    BY <1>1, <1>17, PutDrop DEF Evicted, files, local, FilesOK
  <2>2. CollectorOK'
    BY <1>2, <1>3, <1>17, LevelsAssumption, SweepBounds
    DEF Evicted, files, local, CollectorOK, Stages, Listing, FailedOnly, Reset
  <2>3. QED
    BY <2>1, <2>2
<1>18. ASSUME NEW log \in logs, Trim(log) PROVE FilesOK' /\ CollectorOK'
  <2>1. FilesOK'
    BY <1>1, <1>18, PutDrop DEF Trim, local, collector, FilesOK
  <2>2. CollectorOK'
    BY <1>2, <1>3, <1>18, LevelsAssumption, SweepBounds
    DEF Trim, local, collector, CollectorOK, Stages, Listing, FailedOnly, Reset
  <2>3. QED
    BY <2>1, <2>2
<1>19. ASSUME NEW p \in Parts, RemovePart(p) PROVE FilesOK' /\ CollectorOK'
  <2>1. FilesOK'
    <3>1. PICK oh \in victim : entries' = [entries EXCEPT ![oh].parts = @ \ {p}]
      BY <1>19 DEF RemovePart
    <3>2. PartialFun(entries', Hashes, EntryDir)
      BY <1>1, <3>1, EntryUpdates
    <3>3. QED
      BY <1>1, <1>19, <3>2 DEF RemovePart, FilesOK
  <2>2. CollectorOK'
    BY <1>2, <1>3, <1>19, LevelsAssumption, SweepBounds
    DEF RemovePart, local, CollectorOK, Stages, Listing, FailedOnly, Reset
  <2>3. QED
    BY <2>1, <2>2
<1>20. ASSUME RemoveDir PROVE FilesOK' /\ CollectorOK'
  <2>1. FilesOK'
    <3>1. entries' = entries \/ entries' = Drop(entries, victim)
      BY <1>20 DEF RemoveDir
    <3>2. PartialFun(entries', Hashes, EntryDir)
      BY <1>1, <3>1, PutDrop
    <3>3. QED
      BY <1>1, <1>20, <3>2 DEF RemoveDir, Stops, FilesOK
  <2>2. CollectorOK'
    BY <1>2, <1>3, <1>20, LevelsAssumption, SweepBounds
    DEF RemoveDir, Stops, local, CollectorOK, Stages, Listing, FailedOnly, Reset
  <2>3. QED
    BY <2>1, <2>2
<1>21. ASSUME Finish PROVE FilesOK' /\ CollectorOK'
  <2>1. FilesOK'
    BY <1>1, <1>21, PutDrop DEF Finish, Stops, Orphaned, local, FilesOK
  <2>2. CollectorOK'
    BY <1>2, <1>3, <1>21, LevelsAssumption, SweepBounds
    DEF Finish, Stops, Orphaned, local, CollectorOK, Stages, Listing, FailedOnly, Reset
  <2>3. QED
    BY <2>1, <2>2
<1>22. ASSUME Killed PROVE FilesOK' /\ CollectorOK'
  <2>1. FilesOK'
    BY <1>1, <1>22, PutDrop DEF Killed, Stops, local, FilesOK
  <2>2. CollectorOK'
    BY <1>2, <1>3, <1>22, LevelsAssumption, SweepBounds
    DEF Killed, Stops, local, CollectorOK, Stages, Listing, FailedOnly, Reset
  <2>3. QED
    BY <2>1, <2>2
<1>23. QED
  BY <1>5, <1>6, <1>7, <1>8, <1>9, <1>10, <1>11, <1>12, <1>13, <1>14, <1>15,
     <1>16, <1>17, <1>18, <1>19, <1>20, <1>21, <1>22 DEF Collects

(***************************************************************************)
(* Time, and the history variables, keep the types.                        *)
(***************************************************************************)
LEMMA TypeStep ==
  ASSUME TypeOK, Listing, Steps, Remembers
  PROVE  TypeOK'
<1>1. FilesOK /\ LocalOK /\ CollectorOK
  BY DEF TypeOK
<1>2. FilesOK' /\ LocalOK' /\ CollectorOK'
  <2>1. CASE Publishes /\ UNCHANGED collector
    <3>1. CollectorOK'
      BY <1>1, <2>1 DEF collector, CollectorOK
    <3>2. QED
      BY <1>1, <2>1, <3>1, RunFiles, RunLocals
  <2>2. CASE Collects \/ Killed \/ \E l \in Levels : Start(l)
    <3>1. UNCHANGED local
      BY <2>2 DEF Collects, Killed, Start, Debris, CollectRoots, CollectPins, ListLeases,
         ReadLease, LeaseGone, LeasesRead, Unlink, ListEntries, Evict, Sweep, Remove, Evicted,
         Trim, RemovePart, RemoveDir, Finish
    <3>2. LocalOK'
      BY <1>1, <3>1 DEF local, LocalOK
    <3>3. QED
      BY <1>1, <2>2, <3>2, CollectorTypes
  <2>3. CASE TimePasses
    <3>1. LocalOK' /\ CollectorOK'
      BY <1>1, <2>3 DEF TimePasses, local, collector, LocalOK, CollectorOK
    <3>2. CASE \E k \in Keys : LogsAge(k)
      BY <1>1, <3>1, <3>2 DEF LogsAge, FilesOK
    <3>3. ASSUME NEW r \in Runs, LeaseAges(r) PROVE FilesOK'
      <4>1. /\ DOMAIN leases' = DOMAIN leases
            /\ \A q \in DOMAIN leases :
                 leases'[q] = IF q = r THEN [leases[q] EXCEPT !.fresh = FALSE] ELSE leases[q]
            /\ leases' = [ q \in DOMAIN leases |-> leases'[q] ]
        BY <3>3 DEF LeaseAges
      <4>2. /\ DOMAIN leases \subseteq Runs
            /\ \A q \in DOMAIN leases : leases[q] \in [protects : SUBSET Hashes, fresh : BOOLEAN]
        BY <1>1 DEF FilesOK, PartialFun
      <4>3. \A q \in DOMAIN leases : leases'[q] \in [protects : SUBSET Hashes, fresh : BOOLEAN]
        BY <4>1, <4>2
      <4>4. PartialFun(leases', Runs, [protects : SUBSET Hashes, fresh : BOOLEAN])
        BY <4>1, <4>2, <4>3 DEF PartialFun
      <4>5. QED
        BY <1>1, <3>3, <4>4 DEF LeaseAges, FilesOK
    <3>4. QED
      BY <2>3, <3>1, <3>2, <3>3 DEF TimePasses
  <2>4. QED
    BY <2>1, <2>2, <2>3 DEF Steps
<1>3. \A p \in Protections' : p[3] \in Hashes
  <2>1. /\ roots' \subseteq Runs \X Hashes
        /\ \A k \in DOMAIN pins' : pins'[k] \in Hashes
        /\ \A r \in DOMAIN leases' : leases'[r].protects \subseteq Hashes
    BY <1>2 DEF FilesOK, PartialFun
  <2>2. QED
    BY <2>1 DEF Protections
<1>4. (\A p \in steady : p[3] \in Hashes)'
  BY <1>3 DEF TypeOK, Remembers
<1>5. unlinked' \subseteq Keys
  BY <1>1 DEF TypeOK, Remembers, FilesOK, PartialFun
<1>6. past' \subseteq Keys \X Hashes
  <2>1. \A k \in DOMAIN links' : k \in Keys /\ links'[k] \in Hashes
    BY <1>2 DEF FilesOK, PartialFun
  <2>2. QED
    BY <2>1 DEF TypeOK, Remembers
<1>7. QED
  BY <1>2, <1>4, <1>5, <1>6 DEF TypeOK

-----------------------------------------------------------------------------
(***************************************************************************)
(* Whatever a run does, an entry keeps the parts it has, and stays read-   *)
(* only: publish adds entries, and look-ups and publish add parts.         *)
(***************************************************************************)
LEMMA EntriesGrow ==
  ASSUME FilesOK, Publishes
  PROVE  \A oh \in DOMAIN entries :
           /\ oh \in DOMAIN entries'
           /\ entries[oh].parts \subseteq entries'[oh].parts
           /\ entries[oh].sealed => entries'[oh].sealed
<1>1. \A oh \in DOMAIN entries : entries[oh] \in EntryDir
  BY DEF FilesOK, PartialFun
<1>2. CASE entries' = entries
  BY <1>2
<1>3. ASSUME NEW oh, NEW p, entries' = AddPart(oh, p)
      PROVE  \A x \in DOMAIN entries :
               /\ x \in DOMAIN entries'
               /\ entries[x].parts \subseteq entries'[x].parts
               /\ entries[x].sealed => entries'[x].sealed
  <2>1. /\ DOMAIN entries' = DOMAIN entries
        /\ \A x \in DOMAIN entries :
             entries'[x] = IF x = oh THEN [entries[x] EXCEPT !.parts = entries[x].parts \cup {p}]
                                     ELSE entries[x]
    BY <1>3 DEF AddPart
  <2>2. QED
    BY <1>1, <2>1 DEF EntryDir
<1>4. ASSUME NEW oh, NEW new, oh \notin DOMAIN entries, entries' = Put(entries, oh, new)
      PROVE  \A x \in DOMAIN entries : x \in DOMAIN entries' /\ entries'[x] = entries[x]
  BY <1>4 DEF Put
<1>5. ASSUME NEW oh \in DOMAIN entries, entries' = [entries EXCEPT ![oh].sealed = TRUE]
      PROVE  \A x \in DOMAIN entries :
               /\ x \in DOMAIN entries' /\ entries[x].parts = entries'[x].parts
               /\ entries[x].sealed => entries'[x].sealed
  <2>1. /\ DOMAIN entries' = DOMAIN entries
        /\ \A x \in DOMAIN entries :
             entries'[x] = IF x = oh THEN [entries[x] EXCEPT !.sealed = TRUE] ELSE entries[x]
    BY <1>5
  <2>2. QED
    BY <1>1, <2>1 DEF EntryDir
<1> DEFINE Grown == \/ entries' = entries
                    \/ \E oh, p : entries' = AddPart(oh, p)
                    \/ \E oh, new : oh \notin DOMAIN entries /\ entries' = Put(entries, oh, new)
                    \/ \E oh \in DOMAIN entries : entries' = [entries EXCEPT ![oh].sealed = TRUE]
<1>6. Grown
  <2>1. ASSUME NEW w \in Workers, Works(w) PROVE Grown
    <3>1. CASE Lookup(w) \/ ReadManifest(w) \/ Open(w) \/ (\E oh \in Hashes : Build(w, oh))
               \/ BuildFails(w) \/ Lock(w) \/ Dedup(w) \/ Link(w) \/ Contract(w) \/ Apply(w)
      BY <3>1 DEF Lookup, ReadManifest, Open, Build, BuildFails, Lock, Dedup, Link, Contract,
         Apply, files
    <3>2. CASE Touch(w) \/ Mark(w)
      BY <3>2 DEF Touch, Mark
    <3>3. CASE Promote(w)
      BY <3>3 DEF Promote
    <3>4. CASE Seal(w)
      BY <3>4 DEF Seal, Whole, HasManifest
    <3>5. QED
      BY <2>1, <3>1, <3>2, <3>3, <3>4 DEF Works
  <2>2. ASSUME NEW w \in Workers, NEW k \in Keys, Pick(w, k) PROVE Grown
    BY <2>2 DEF Pick, files
  <2>3. ASSUME NEW r \in Runs, \/ Return(r) \/ Generate(r) \/ DropGeneration(r) \/ Crash(r)
                               \/ \E oh \in Hashes : AddRoot(r, oh)
        PROVE  Grown
    BY <2>3 DEF Return, Generate, DropGeneration, Crash, AddRoot, files
  <2>4. QED
    BY <2>1, <2>2, <2>3 DEF Publishes
<1>7. QED
  BY <1>2, <1>3, <1>4, <1>5, <1>6

(***************************************************************************)
(* The collector's list stays a list of entries that are there.            *)
(***************************************************************************)
LEMMA ListingStep ==
  ASSUME TypeOK, Listing, Steps
  PROVE  Listing'
<1> USE DEF Listing
<1>1. FilesOK /\ Listing
  BY DEF TypeOK
<1>2. DOMAIN Drop(entries, victim) = DOMAIN entries \ victim
  BY <1>1, PutDrop DEF FilesOK
<1>3. CASE Publishes /\ UNCHANGED collector
  BY <1>1, <1>3, EntriesGrow DEF collector
<1>4. ASSUME NEW l \in Levels, Start(l) PROVE Listing'
  BY <1>1, <1>4 DEF Start, local
<1>5. ASSUME Debris PROVE Listing'
  BY <1>1, <1>5 DEF Debris, local
<1>6. ASSUME CollectRoots PROVE Listing'
  BY <1>1, <1>6 DEF CollectRoots, files, local
<1>7. ASSUME CollectPins PROVE Listing'
  BY <1>1, <1>7 DEF CollectPins, files, local
<1>8. ASSUME ListLeases PROVE Listing'
  BY <1>1, <1>8 DEF ListLeases, files, local
<1>9. ASSUME NEW r \in Runs, ReadLease(r) PROVE Listing'
  BY <1>1, <1>9 DEF ReadLease, files, local
<1>10. ASSUME NEW r \in Runs, LeaseGone(r) PROVE Listing'
  BY <1>1, <1>10 DEF LeaseGone, Stops, local
<1>11. ASSUME LeasesRead PROVE Listing'
  BY <1>1, <1>11 DEF LeasesRead, files, local
<1>12. ASSUME NEW k \in Keys, Unlink(k) PROVE Listing'
  BY <1>1, <1>12 DEF Unlink, local, collector
<1>13. ASSUME ListEntries PROVE Listing'
  BY <1>1, <1>13 DEF ListEntries, files, local
<1>14. ASSUME NEW oh \in Hashes, Evict(oh) PROVE Listing'
  <2>1. /\ DOMAIN entries' = DOMAIN entries /\ candidates' = candidates \ {oh}
        /\ victim' = {oh} /\ stage' \in {"evict", "sweep"} /\ oh \in candidates
    BY <1>14 DEF Evict, Remove, Evictable, local
  <2>2. QED
    BY <1>1, <2>1
<1>15. ASSUME NEW oh \in Hashes, Sweep(oh) PROVE Listing'
  <2>1. /\ DOMAIN entries' = DOMAIN entries /\ candidates' = candidates \ {oh}
        /\ victim' = {oh} /\ stage' \in {"evict", "sweep"} /\ oh \in candidates
    BY <1>15 DEF Sweep, Remove, local
  <2>2. QED
    BY <1>1, <2>1
<1>16. ASSUME Evicted PROVE Listing'
  BY <1>1, <1>16 DEF Evicted, files, local
<1>17. ASSUME NEW log \in logs, Trim(log) PROVE Listing'
  BY <1>1, <1>17 DEF Trim, local, collector
<1>18. ASSUME NEW p \in Parts, RemovePart(p) PROVE Listing'
  <2>1. DOMAIN entries' = DOMAIN entries
    BY <1>18 DEF RemovePart
  <2>2. QED
    BY <1>1, <1>18, <2>1 DEF RemovePart
<1>19. ASSUME RemoveDir PROVE Listing'
  <2>1. CASE entries' = Drop(entries, victim) /\ victim' = {} /\ UNCHANGED <<stage, candidates>>
    BY <1>1, <1>2, <2>1
  <2>2. CASE Stops /\ UNCHANGED entries
    BY <2>2 DEF Stops
  <2>3. QED
    BY <1>19, <2>1, <2>2 DEF RemoveDir
<1>20. ASSUME Finish PROVE Listing'
  BY <1>1, <1>20 DEF Finish, Stops, Orphaned, local
<1>21. ASSUME Killed PROVE Listing'
  BY <1>1, <1>21 DEF Killed, Stops, local
<1>22. CASE TimePasses
  BY <1>1, <1>22 DEF TimePasses, LeaseAges, LogsAge, collector
<1>23. QED
  BY <1>3, <1>4, <1>5, <1>6, <1>7, <1>8, <1>9, <1>10, <1>11, <1>12, <1>13,
     <1>14, <1>15, <1>16, <1>17, <1>18, <1>19, <1>20, <1>21, <1>22 DEF Steps,
     Collects

(***************************************************************************)
(* At the start, and in a step that changes nothing, the types are right.  *)
(***************************************************************************)
LEMMA TypesInit == Init => TypeOK /\ Listing
<1>1. ASSUME Init PROVE FilesOK
  <2>1. PartialFun(<< >>, Hashes, EntryDir) /\ PartialFun(<< >>, Keys, Hashes)
    BY DEF PartialFun
  <2>2. leases \in [Runs -> [protects : SUBSET Hashes, fresh : BOOLEAN]]
    BY <1>1 DEF Init, NoFiles
  <2>3. PartialFun(leases, Runs, [protects : SUBSET Hashes, fresh : BOOLEAN])
    BY <2>2 DEF PartialFun
  <2>4. QED
    BY <1>1, <2>1, <2>3 DEF Init, NoFiles, FilesOK
<1>2. ASSUME Init PROVE LocalOK
  <2>1. NoJob \in JobRecord
    BY NamesAssumption DEF NoJob, JobRecord, Places, AnyKey, AnyHash
  <2>2. QED
    BY <1>2, <2>1, RunBounds DEF Init, NoRuns, LocalOK, JobRecord, Results
<1>3. ASSUME Init PROVE CollectorOK /\ Listing
  BY <1>3, SweepBounds DEF Init, NoCollector, CollectorOK, Listing, Stages, FailedOnly, Reset
<1>4. QED
  BY <1>1, <1>2, <1>3 DEF Init, TypeOK

LEMMA TypesStutter ==
  ASSUME TypeOK, Listing, UNCHANGED vars
  PROVE  TypeOK' /\ Listing'
<1>1. FilesOK' /\ LocalOK' /\ CollectorOK'
  BY DEF TypeOK, FilesOK, LocalOK, CollectorOK, vars, files, local, collector
<1>2. QED
  BY <1>1 DEF TypeOK, Listing, vars, files, collector, history

(***************************************************************************)
(* TypeOK of Store: the files, the runs and the collector have their types *)
(* in every reachable state.                                               *)
(***************************************************************************)
THEOREM TypeCorrect == Spec => []TypeOK
<1>1. Init => TypeOK /\ Listing
  BY TypesInit
<1>2. TypeOK /\ Listing /\ [Next]_vars => TypeOK' /\ Listing'
  BY TypeStep, ListingStep, TypesStutter DEF Next
<1>3. QED
  BY <1>1, <1>2, PTL DEF Spec

-----------------------------------------------------------------------------
(***************************************************************************)
(* The collector holds the lock from its first step to its last, and       *)
(* nobody publishes then.                                                  *)
(***************************************************************************)
Locking ==
  /\ exclusive <=> stage # "idle"
  /\ exclusive => shared = {}

(***************************************************************************)
(* The memo table has led from the key to the hash, and still does but for *)
(* the collector.                                                          *)
(***************************************************************************)
Memo(k, oh) ==
  /\ <<k, oh>> \in past
  /\ k \in unlinked \/ (k \in DOMAIN links /\ links[k] = oh)

(***************************************************************************)
(* A worker at a job: its run is running; it shares the lock in the steps  *)
(* of publish; it has a staging directory until it is promoted or dropped, *)
(* and then an entry; and the table has led from its key to what it has    *)
(* seen, and to what it has published.                                     *)
(***************************************************************************)
Locked == {"resolve", "seal", "chmod", "link"}
Following == {"manifest", "touch", "contract", "apply"}

Working(w) ==
  /\ At(w) \notin {"idle", "dead"} => phase[RunOf[w]] = "running"
  /\ w \in shared <=> At(w) \in Locked
  /\ At(w) \in {"build", "lock", "resolve"} => <<w, "current">> \in staging
  /\ At(w) \in {"seal", "chmod"} => HasManifest(Made(w))
  /\ At(w) = "link" => Whole(Made(w)) /\ entries[Made(w)].sealed
  /\ At(w) \in Following => Memo(Key(w), Seen(w))
  /\ At(w) \in Following \cup {"lookup"} /\ job[w].built => Memo(Key(w), Made(w))

(***************************************************************************)
(* A link changes only by being removed, in any step.                      *)
(***************************************************************************)
LEMMA LinksStay ==
  ASSUME FilesOK, LocalOK, Steps, Remembers
  PROVE  /\ \A k \in DOMAIN links : k \in DOMAIN links' => links'[k] = links[k]
         /\ \A k \in DOMAIN links \ DOMAIN links' : links[k] \notin DOMAIN entries
         /\ \A k \in Keys, oh \in Hashes : Memo(k, oh) => Memo(k, oh)'
<1> DEFINE Kept == \/ links' = links
                   \/ \E k, oh : /\ k \notin DOMAIN links \/ links[k] = oh
                                 /\ links' = Put(links, k, oh)
                   \/ \E k \in Dangling : links' = Drop(links, {k})
<1>1. Kept
  <2>1. ASSUME NEW w \in Workers, Works(w) PROVE Kept
    <3>1. CASE Lookup(w) \/ ReadManifest(w) \/ Open(w) \/ (\E oh \in Hashes : Build(w, oh))
               \/ BuildFails(w) \/ Lock(w) \/ Dedup(w) \/ Contract(w) \/ Apply(w)
               \/ Touch(w) \/ Promote(w) \/ Mark(w) \/ Seal(w)
      BY <3>1 DEF Lookup, ReadManifest, Open, Build, BuildFails, Lock, Dedup, Contract,
         Apply, Touch, Promote, Mark, Seal, files
    <3>2. CASE Link(w)
      BY <3>2 DEF Link
    <3>3. QED
      BY <2>1, <3>1, <3>2 DEF Works
  <2>2. ASSUME NEW w \in Workers, NEW k \in Keys, Pick(w, k) PROVE Kept
    BY <2>2 DEF Pick, files
  <2>3. ASSUME NEW r \in Runs, \/ Return(r) \/ Generate(r) \/ DropGeneration(r) \/ Crash(r)
                               \/ \E oh \in Hashes : AddRoot(r, oh)
        PROVE  Kept
    BY <2>3 DEF Return, Generate, DropGeneration, Crash, AddRoot, files
  <2>4. CASE Collects
    <3>1. ASSUME NEW k \in Keys, Unlink(k) PROVE Kept
      BY <3>1 DEF Unlink
    <3>2. CASE \/ Debris \/ CollectRoots \/ CollectPins \/ ListLeases
               \/ (\E r \in Runs : ReadLease(r) \/ LeaseGone(r)) \/ LeasesRead
               \/ ListEntries
      BY <3>2 DEF Debris, CollectRoots, CollectPins, ListLeases, ReadLease, LeaseGone,
         LeasesRead, ListEntries, files
    <3>3. CASE \/ (\E oh \in Hashes : Evict(oh) \/ Sweep(oh)) \/ Evicted
               \/ (\E log \in logs : Trim(log))
               \/ (\E p \in Parts : RemovePart(p)) \/ RemoveDir \/ Finish
      BY <3>3 DEF Evict, Sweep, Remove, Evicted, Trim, RemovePart, RemoveDir, Finish, files
    <3>4. QED
      BY <2>4, <3>1, <3>2, <3>3 DEF Collects
  <2>5. CASE Killed \/ TimePasses \/ \E l \in Levels : Start(l)
    BY <2>5 DEF Killed, TimePasses, LeaseAges, LogsAge, Start
  <2>6. QED
    BY <2>1, <2>2, <2>3, <2>4, <2>5 DEF Steps, Publishes
<1>2. /\ \A k \in DOMAIN links : k \in DOMAIN links' => links'[k] = links[k]
      /\ \A k \in DOMAIN links \ DOMAIN links' : links[k] \notin DOMAIN entries
  <2>1. ASSUME NEW k, NEW oh, k \notin DOMAIN links \/ links[k] = oh, links' = Put(links, k, oh)
        PROVE  \A x \in DOMAIN links : x \in DOMAIN links' /\ links'[x] = links[x]
    BY <2>1 DEF Put
  <2>2. ASSUME NEW k \in Dangling, links' = Drop(links, {k})
        PROVE  /\ DOMAIN links' = DOMAIN links \ {k}
               /\ \A x \in DOMAIN links' : links'[x] = links[x]
               /\ links[k] \notin DOMAIN entries
    <3>1. PartialFun(links, Keys, Hashes) /\ k \in DOMAIN links /\ links[k] \notin DOMAIN entries
      BY <2>2 DEF FilesOK, Dangling
    <3>2. /\ DOMAIN Drop(links, {k}) = DOMAIN links \ {k}
          /\ \A x \in DOMAIN links \ {k} : Drop(links, {k})[x] = links[x]
      BY <3>1, PutDrop
    <3>3. QED
      BY <2>2, <3>1, <3>2
  <2>3. QED
    BY <1>1, <2>1, <2>2
<1>3. ASSUME NEW k \in Keys, NEW oh \in Hashes, Memo(k, oh) PROVE Memo(k, oh)'
  BY <1>2, <1>3 DEF Memo, Remembers
<1>4. QED
  BY <1>2, <1>3

(***************************************************************************)
(* In a step of one worker, the others stay where they are.                *)
(***************************************************************************)
LEMMA OthersStay ==
  ASSUME LocalOK, NEW w \in Workers, Works(w) \/ \E k \in Keys : Pick(w, k)
  PROVE  /\ phase' = phase /\ exclusive' = exclusive
         /\ \A v \in Workers \ {w} :
              /\ job'[v] = job[v]
              /\ v \in shared' <=> v \in shared
              /\ <<v, "current">> \in staging => <<v, "current">> \in staging'
<1>1. job \in [Workers -> JobRecord]
  BY DEF LocalOK, JobRecord
<1>2. phase' = phase /\ exclusive' = exclusive
  BY DEF Works, Pick, Lookup, ReadManifest, Open, Build, BuildFails, Lock, Dedup, Contract,
     Apply, Touch, Promote, Mark, Seal, Link, files
<1> DEFINE Stay == \A v \in Workers \ {w} :
                     /\ job'[v] = job[v]
                     /\ v \in shared' <=> v \in shared
                     /\ <<v, "current">> \in staging => <<v, "current">> \in staging'
<1>3. ASSUME Lookup(w) PROVE Stay
  BY <1>1, <1>3 DEF Lookup, Goes, Continues, Ends, Leaves
<1>4. ASSUME ReadManifest(w) PROVE Stay
  BY <1>1, <1>4 DEF ReadManifest, Goes, Continues, Ends, Leaves
<1>5. ASSUME Touch(w) PROVE Stay
  BY <1>1, <1>5 DEF Touch, Goes, Continues, Ends, Leaves
<1>6. ASSUME Open(w) PROVE Stay
  BY <1>1, <1>6 DEF Open, Goes, Continues, Ends, Leaves
<1>7. ASSUME NEW oh \in Hashes, Build(w, oh) PROVE Stay
  BY <1>1, <1>7 DEF Build, files, Goes, Continues, Ends, Leaves
<1>8. ASSUME BuildFails(w) PROVE Stay
  BY <1>1, <1>8 DEF BuildFails, Goes, Continues, Ends, Leaves
<1>9. ASSUME Lock(w) PROVE Stay
  BY <1>1, <1>9 DEF Lock, Goes, Continues, Ends, Leaves
<1>10. ASSUME Promote(w) PROVE Stay
  BY <1>1, <1>10 DEF Promote, Goes, Continues, Ends, Leaves
<1>11. ASSUME Mark(w) PROVE Stay
  BY <1>1, <1>11 DEF Mark, Goes, Continues, Ends, Leaves
<1>12. ASSUME Dedup(w) PROVE Stay
  BY <1>1, <1>12 DEF Dedup, Goes, Continues, Ends, Leaves
<1>13. ASSUME Seal(w) PROVE Stay
  BY <1>1, <1>13 DEF Seal, Goes, Continues, Ends, Leaves
<1>14. ASSUME Link(w) PROVE Stay
  BY <1>1, <1>14 DEF Link, Goes, Continues, Ends, Leaves
<1>15. ASSUME Contract(w) PROVE Stay
  BY <1>1, <1>15 DEF Contract, Goes, Continues, Ends, Leaves
<1>16. ASSUME Apply(w) PROVE Stay
  BY <1>1, <1>16 DEF Apply, Goes, Continues, Ends, Leaves
<1>17. ASSUME NEW k \in Keys, Pick(w, k) PROVE Stay
  BY <1>1, <1>17 DEF Pick, files
<1> HIDE DEF Stay
<1>18. Stay
  BY <1>3, <1>4, <1>5, <1>6, <1>7, <1>8, <1>9, <1>10, <1>11, <1>12, <1>13,
     <1>14, <1>15, <1>16, <1>17 DEF Works
<1>19. QED
  BY <1>2, <1>18 DEF Stay

(***************************************************************************)
(* The job of a worker after a step that goes on, and after one that ends  *)
(* the job.                                                                *)
(***************************************************************************)
LEMMA JobAfter ==
  ASSUME LocalOK, NEW w \in Workers
  PROVE  /\ \A there : Goes(w, there) =>
              /\ At(w)' = there
              /\ Key(w)' = Key(w) /\ Seen(w)' = Seen(w) /\ Made(w)' = Made(w)
              /\ job'[w].built = job[w].built
         /\ \A how : Ends(w, how) => Working(w)'
         /\ Key(w) \in Keys /\ Seen(w) \in Hashes /\ Made(w) \in Hashes
<1>1. job \in [Workers -> JobRecord]
  BY DEF LocalOK, JobRecord
<1>2. ASSUME NEW there, Goes(w, there)
      PROVE  /\ At(w)' = there
             /\ Key(w)' = Key(w) /\ Seen(w)' = Seen(w) /\ Made(w)' = Made(w)
             /\ job'[w].built = job[w].built
  BY <1>1, <1>2 DEF Goes, At, Key, Seen, Made, JobRecord
<1>3. ASSUME NEW how, Ends(w, how) PROVE Working(w)'
  <2>1. At(w)' = "idle" /\ w \notin shared'
    BY <1>1, <1>3 DEF Ends, At, NoJob
  <2>2. QED
    BY <2>1 DEF Working, Locked, Following
<1>4. QED
  BY <1>1, <1>2, <1>3, JobUpdates

(***************************************************************************)
(* What a worker relies on is not taken away by another worker.            *)
(***************************************************************************)
LEMMA OtherWorking ==
  ASSUME TypeOK, Steps, Remembers,
         NEW w \in Workers, Works(w) \/ \E k \in Keys : Pick(w, k),
         NEW v \in Workers \ {w}, Working(v)
  PROVE  Working(v)'
<1>1. FilesOK /\ LocalOK /\ Publishes
  BY DEF TypeOK, Publishes
<1>2. /\ At(v)' = At(v) /\ Key(v)' = Key(v) /\ Seen(v)' = Seen(v) /\ Made(v)' = Made(v)
      /\ job'[v].built = job[v].built
      /\ Key(v) \in Keys /\ Seen(v) \in Hashes /\ Made(v) \in Hashes
  BY <1>1, OthersStay, JobAfter DEF At, Key, Seen, Made
<1>3. /\ phase' = phase /\ (v \in shared' <=> v \in shared)
      /\ <<v, "current">> \in staging => <<v, "current">> \in staging'
  BY <1>1, OthersStay
<1>4. /\ HasManifest(Made(v)) => HasManifest(Made(v))'
      /\ Whole(Made(v)) /\ entries[Made(v)].sealed => Whole(Made(v))' /\ entries'[Made(v)'].sealed
  BY <1>1, <1>2, EntriesGrow DEF HasManifest, Whole, HasData
<1>5. /\ Memo(Key(v), Seen(v)) => Memo(Key(v), Seen(v))'
      /\ Memo(Key(v), Made(v)) => Memo(Key(v), Made(v))'
  <2>1. \A k \in Keys, oh \in Hashes :
          Memo(k, oh) =>
            /\ <<k, oh>> \in past'
            /\ k \in unlinked' \/ (k \in DOMAIN links' /\ links'[k] = oh)
    BY <1>1, LinksStay DEF Memo
  <2>2. QED
    BY <1>2, <2>1 DEF Memo
<1>6. QED
  BY <1>2, <1>3, <1>4, <1>5 DEF Working

(***************************************************************************)
(* Each step of a job finds what it relies on and leaves what the next one *)
(* relies on.                                                              *)
(***************************************************************************)
LEMMA OwnWorking ==
  ASSUME TypeOK, Steps, Remembers, NEW w \in Workers, Working(w),
         Works(w) \/ \E k \in Keys : Pick(w, k)
  PROVE  Working(w)'
<1>1. FilesOK /\ LocalOK /\ Publishes
  BY DEF TypeOK, Publishes
<1>2. job \in [Workers -> JobRecord]
  BY <1>1 DEF LocalOK, JobRecord
<1>3. Key(w) \in Keys /\ Seen(w) \in Hashes /\ Made(w) \in Hashes
  BY <1>1, JobAfter
<1>4. \A k \in Keys, oh \in Hashes :
        Memo(k, oh) =>
          /\ <<k, oh>> \in past'
          /\ k \in unlinked' \/ (k \in DOMAIN links' /\ links'[k] = oh)
  BY <1>1, LinksStay DEF Memo
<1>5. ASSUME NEW there \in Places \ {"seal", "chmod", "link", "build", "lock", "resolve"},
             Goes(w, there), At(w) \notin {"idle", "dead"},
             phase' = phase, w \notin shared' ,
             there \in Following => At(w) \in Following,
             there # "lookup"
      PROVE  Working(w)'
  <2>1. /\ At(w)' = there /\ Key(w)' = Key(w) /\ Seen(w)' = Seen(w) /\ Made(w)' = Made(w)
        /\ job'[w].built = job[w].built
    BY <1>1, <1>5, JobAfter
  <2>2. QED
    BY <1>3, <1>4, <1>5, <2>1 DEF Working, Locked, Following, Memo
<1>6. ASSUME NEW k \in Keys, Pick(w, k) PROVE Working(w)'
  <2>1. /\ job'[w] = [NoJob EXCEPT !.at = "lookup", !.key = k]
        /\ phase[RunOf[w]] = "running" /\ phase' = phase /\ shared' = shared /\ At(w) = "idle"
    BY <1>2, <1>6 DEF Pick, files
  <2>2. At(w)' = "lookup" /\ ~job'[w].built
    BY <2>1 DEF NoJob, At
  <2>3. QED
    BY <2>1, <2>2 DEF Working, Locked, Following
<1>7. CASE Lookup(w)
  <2>1. CASE Key(w) \in DOMAIN links
    <3> DEFINE oh == links[Key(w)]
    <3>1. /\ job' = [job EXCEPT ![w].at = "manifest", ![w].seen = oh]
          /\ links' = links /\ phase' = phase /\ shared' = shared /\ At(w) = "lookup"
      BY <1>7, <2>1 DEF Lookup
    <3>2. At(w)' = "manifest" /\ Key(w)' = Key(w) /\ Seen(w)' = oh /\ Made(w)' = Made(w)
          /\ job'[w].built = job[w].built
      <4> HIDE DEF oh
      <4>1. QED
        BY <1>2, <3>1 DEF At, Key, Seen, Made, JobRecord
    <3>3. <<Key(w), oh>> \in past'
      BY <2>1, <3>1 DEF Remembers
    <3>4. QED
      BY <1>3, <1>4, <2>1, <3>1, <3>2, <3>3 DEF Working, Locked, Following, Memo
  <2>2. CASE Key(w) \notin DOMAIN links /\ job[w].built
    BY <1>1, <1>7, <2>2, JobAfter DEF Lookup
  <2>3. CASE Key(w) \notin DOMAIN links /\ ~job[w].built
    BY <1>5, <1>7, <2>3 DEF Lookup, Continues, Places, Following, Working, Locked
  <2>4. QED
    BY <2>1, <2>2, <2>3
<1>8. CASE ReadManifest(w)
  <2>1. CASE HasManifest(Seen(w))
    BY <1>5, <1>8, <2>1 DEF ReadManifest, Continues, Places, Following, Working, Locked
  <2>2. CASE ~HasManifest(Seen(w))
    BY <1>1, <1>8, <2>2, JobAfter DEF ReadManifest
  <2>3. QED
    BY <2>1, <2>2
<1>9. CASE Touch(w)
  BY <1>5, <1>9 DEF Touch, Places, Following, Working, Locked
<1>10. CASE Open(w)
  <2>1. At(w)' = "build"
    BY <1>1, <1>10, JobAfter DEF Open
  <2>2. QED
    BY <1>10, <2>1 DEF Open, Working, Locked, Following
<1>11. ASSUME NEW oh \in Hashes, Build(w, oh) PROVE Working(w)'
  <2>1. At(w)' = "lock"
    BY <1>2, <1>11 DEF Build, At, JobRecord
  <2>2. QED
    BY <1>11, <2>1 DEF Build, Working, Locked, Following, files
<1>12. CASE BuildFails(w)
  BY <1>1, <1>12, JobAfter DEF BuildFails
<1>13. CASE Lock(w)
  <2>1. At(w)' = "resolve"
    BY <1>1, <1>13, JobAfter DEF Lock
  <2>2. QED
    BY <1>13, <2>1 DEF Lock, Working, Locked, Following
<1>14. CASE Promote(w)
  <2>1. At(w)' = "seal" /\ Made(w)' = Made(w)
    BY <1>1, <1>14, JobAfter DEF Promote, Continues, Working
  <2>2. HasManifest(Made(w))'
    <3>1. entries' = Put(entries, Made(w),
                         [parts |-> {"manifest", "data"}, sealed |-> FALSE, key |-> Key(w)])
      BY <1>14 DEF Promote, Working
    <3>2. QED
      BY <2>1, <3>1 DEF HasManifest, Put
  <2>3. QED
    BY <1>14, <2>1, <2>2 DEF Promote, Continues, Working, Locked, Following
<1>15. CASE Mark(w)
  <2>1. At(w)' = "chmod" /\ Made(w)' = Made(w)
    BY <1>1, <1>15, JobAfter DEF Mark
  <2>2. HasManifest(Made(w))'
    BY <1>1, <1>15, <2>1, EntriesGrow DEF Mark, Working, HasManifest
  <2>3. QED
    BY <1>15, <2>1, <2>2 DEF Mark, Working, Locked, Following
<1>16. CASE Dedup(w)
  <2>1. CASE HasManifest(Made(w)) /\ <<w, "current">> \in staging
    <3>1. At(w)' = "chmod" /\ Made(w)' = Made(w)
      BY <1>1, <1>16, <2>1, JobAfter DEF Dedup, Continues
    <3>2. QED
      BY <1>16, <2>1, <3>1 DEF Dedup, Continues, Working, Locked, Following, HasManifest
  <2>2. CASE ~(HasManifest(Made(w)) /\ <<w, "current">> \in staging)
    BY <1>1, <1>16, <2>2, JobAfter DEF Dedup
  <2>3. QED
    BY <2>1, <2>2
<1>17. CASE Seal(w)
  <2>1. CASE Whole(Made(w))
    <3>1. At(w)' = "link" /\ Made(w)' = Made(w)
      BY <1>1, <1>17, <2>1, JobAfter DEF Seal, Continues
    <3>2. entries[Made(w)] \in EntryDir /\ entries' = [entries EXCEPT ![Made(w)].sealed = TRUE]
      BY <1>1, <1>17, <2>1 DEF Seal, FilesOK, PartialFun, Whole, HasManifest
    <3>3. Whole(Made(w))' /\ entries'[Made(w)'].sealed
      BY <2>1, <3>1, <3>2 DEF Whole, HasManifest, HasData, EntryDir
    <3>4. QED
      BY <1>17, <2>1, <3>1, <3>3 DEF Seal, Continues, Working, Locked, Following
  <2>2. CASE ~Whole(Made(w))
    BY <1>1, <1>17, <2>2, JobAfter DEF Seal
  <2>3. QED
    BY <2>1, <2>2
<1>18. CASE Link(w)
  <2>1. CASE Key(w) \notin DOMAIN links \/ links[Key(w)] = Made(w)
    <3>1. At(w)' = "lookup" /\ Key(w)' = Key(w) /\ Made(w)' = Made(w)
      BY <1>2, <1>18, <2>1 DEF Link, At, Key, Made, JobRecord
    <3>2. Key(w) \in DOMAIN links' /\ links'[Key(w)] = Made(w)
      BY <1>18, <2>1 DEF Link, Put
    <3>3. <<Key(w), Made(w)>> \in past'
      BY <3>2 DEF Remembers
    <3>4. QED
      BY <1>18, <2>1, <3>1, <3>2, <3>3 DEF Link, Working, Locked, Following, Memo
  <2>2. CASE ~(Key(w) \notin DOMAIN links \/ links[Key(w)] = Made(w))
    BY <1>1, <1>18, <2>2, JobAfter DEF Link
  <2>3. QED
    BY <2>1, <2>2
<1>19. CASE Contract(w)
  <2>1. CASE Goes(w, "apply") /\ w \notin shared'
    BY <1>5, <1>19, <2>1 DEF Contract, Places, Following
  <2>2. QED
    BY <1>1, <1>19, <2>1, JobAfter DEF Contract, Continues, Working, Locked
<1>20. CASE Apply(w)
  <2>1. At(w)' = "idle" /\ shared' = shared /\ At(w) = "apply"
    BY <1>2, <1>20 DEF Apply, At, NoJob
  <2>2. QED
    BY <2>1 DEF Working, Locked, Following
<1>21. QED
  BY <1>6, <1>7, <1>8, <1>9, <1>10, <1>11, <1>12, <1>13, <1>14, <1>15, <1>16, <1>17, <1>18,
     <1>19, <1>20 DEF Works

(***************************************************************************)
(* What a run does when its jobs are over, or when it is killed, takes     *)
(* nothing from a worker of another run.                                   *)
(***************************************************************************)
LEMMA RunWorking ==
  ASSUME TypeOK, Steps, Remembers, NEW r \in Runs,
         \/ Return(r) \/ Generate(r) \/ DropGeneration(r) \/ Crash(r)
         \/ \E oh \in Hashes : AddRoot(r, oh),
         NEW w \in Workers, Working(w)
  PROVE  Working(w)' /\ exclusive' = exclusive
<1>1. FilesOK /\ LocalOK
  BY DEF TypeOK
<1>2. /\ job \in [Workers -> JobRecord]
      /\ phase \in [Runs -> {"running", "returned", "rooted", "over", "dead"}]
      /\ Key(w) \in Keys /\ Seen(w) \in Hashes /\ Made(w) \in Hashes
  BY <1>1, JobAfter DEF LocalOK, JobRecord
<1>3. /\ exclusive' = exclusive /\ entries' = entries /\ staging' = staging /\ links' = links
  BY DEF Return, Generate, DropGeneration, Crash, AddRoot, files
<1>4. unlinked' = unlinked /\ past \subseteq past'
  BY <1>3 DEF Remembers
<1>5. CASE RunOf[w] = r /\ Crash(r)
  <2>1. At(w)' = "dead" /\ w \notin shared'
    BY <1>5 DEF Crash, At, NoJob
  <2>2. QED
    BY <1>3, <2>1 DEF Working, Locked, Following
<1>6. CASE ~(RunOf[w] = r /\ Crash(r))
  <2>1. job'[w] = job[w] /\ (w \in shared' <=> w \in shared)
    BY <1>2, <1>6 DEF Return, Generate, DropGeneration, Crash, AddRoot, files, local
  <2>2. At(w) \notin {"idle", "dead"} => phase'[RunOf[w]] = phase[RunOf[w]]
    <3>1. At(w) \notin {"idle", "dead"} => phase[RunOf[w]] = "running"
      BY DEF Working
    <3>2. CASE RunOf[w] = r
      BY <1>6, <3>1, <3>2 DEF Return, Generate, DropGeneration, AddRoot, local
    <3>3. CASE RunOf[w] # r
      BY <1>2, <3>3, RunOfAssumption DEF Return, Generate, DropGeneration, Crash, AddRoot, local
    <3>4. QED
      BY <3>2, <3>3
  <2>3. /\ At(w)' = At(w) /\ Key(w)' = Key(w) /\ Seen(w)' = Seen(w) /\ Made(w)' = Made(w)
        /\ job'[w].built = job[w].built
    BY <2>1 DEF At, Key, Seen, Made
  <2>4. /\ HasManifest(Made(w))' <=> HasManifest(Made(w))
        /\ Whole(Made(w))' <=> Whole(Made(w))
        /\ entries'[Made(w)'].sealed = entries[Made(w)].sealed
    BY <1>3, <2>3 DEF HasManifest, HasData, Whole
  <2>5. /\ Memo(Key(w), Seen(w)) => Memo(Key(w), Seen(w))'
        /\ Memo(Key(w), Made(w)) => Memo(Key(w), Made(w))'
    BY <1>3, <1>4, <2>3 DEF Memo
  <2>6. QED
    BY <1>3, <2>1, <2>2, <2>3, <2>4, <2>5 DEF Working
<1>7. QED
  BY <1>3, <1>5, <1>6

(***************************************************************************)
(* The collector starts when nobody publishes, releases the lock when it   *)
(* stops, and leaves the runs their state.                                 *)
(***************************************************************************)
LEMMA CollectorLocking ==
  ASSUME Locking, Listing, Collects \/ Killed \/ \E l \in Levels : Start(l)
  PROVE  Locking' /\ shared = {} /\ UNCHANGED <<local, shared>>
<1>1. CASE \E l \in Levels : Start(l)
  BY <1>1 DEF Start, Locking
<1>2. CASE \/ Debris \/ CollectRoots \/ CollectPins \/ ListLeases
           \/ (\E r \in Runs : ReadLease(r) \/ LeaseGone(r)) \/ LeasesRead
           \/ (\E k \in Keys : Unlink(k)) \/ ListEntries
  BY <1>2 DEF Debris, CollectRoots, CollectPins, ListLeases, ReadLease, LeaseGone, Stops,
     LeasesRead, Unlink, ListEntries, files, collector, Locking
<1>3. CASE \/ (\E oh \in Hashes : Evict(oh) \/ Sweep(oh)) \/ Evicted
           \/ (\E log \in logs : Trim(log)) \/ Finish \/ Killed
  BY <1>3 DEF Evict, Sweep, Remove, Evicted, Trim, Finish, Stops, Killed, files, collector,
     Locking
<1>4. CASE \E p \in Parts : RemovePart(p)
  BY <1>4 DEF RemovePart, Locking, Listing
<1>5. CASE RemoveDir
  BY <1>5 DEF RemoveDir, Stops, Locking, Listing
<1>6. QED
  BY <1>1, <1>2, <1>3, <1>4, <1>5 DEF Collects

(***************************************************************************)
(* What a worker relies on is not taken away by the collector: with nobody *)
(* in the steps under the lock, all a worker has is a staging directory,   *)
(* which its run being alive keeps, and the memo.                          *)
(***************************************************************************)
LEMMA CollectorWorking ==
  ASSUME TypeOK, Locking, Listing, Steps, Remembers,
         Collects \/ Killed \/ \E l \in Levels : Start(l),
         NEW w \in Workers, Working(w)
  PROVE  Working(w)'
<1>1. FilesOK /\ LocalOK
  BY DEF TypeOK
<1>2. /\ shared = {} /\ shared' = shared /\ phase' = phase /\ job' = job
  BY CollectorLocking DEF local
<1>3. Key(w) \in Keys /\ Seen(w) \in Hashes /\ Made(w) \in Hashes
  BY <1>1, JobAfter
<1>4. \A k \in Keys, oh \in Hashes :
        Memo(k, oh) =>
          /\ <<k, oh>> \in past'
          /\ k \in unlinked' \/ (k \in DOMAIN links' /\ links'[k] = oh)
  BY <1>1, LinksStay DEF Memo
<1>5. ASSUME At(w) \in {"build", "lock", "resolve"} PROVE <<w, "current">> \in staging'
  <2>1. <<w, "current">> \in staging /\ phase[RunOf[w]] = "running"
    BY <1>5 DEF Working
  <2>2. CASE Debris
    BY <2>1, <2>2 DEF Debris, Alive
  <2>3. CASE ~Debris
    BY <2>1, <2>3 DEF Collects, Killed, Start, CollectRoots, CollectPins, ListLeases, ReadLease,
       LeaseGone, LeasesRead, Unlink, ListEntries, Evict, Sweep, Remove, Evicted, Trim,
       RemovePart, RemoveDir, Finish, files
  <2>4. QED
    BY <2>2, <2>3
<1>6. /\ At(w)' = At(w) /\ Key(w)' = Key(w) /\ Seen(w)' = Seen(w) /\ Made(w)' = Made(w)
      /\ job'[w].built = job[w].built
  BY <1>2 DEF At, Key, Seen, Made
<1>7. At(w) \notin Locked
  BY <1>2 DEF Working
<1>8. QED
  BY <1>2, <1>3, <1>4, <1>5, <1>6, <1>7 DEF Working, Locked, Following, Memo

-----------------------------------------------------------------------------
(***************************************************************************)
(* The inductive invariant: the types, the lock, the list of the collector *)
(* and what the workers rely on.                                           *)
(***************************************************************************)
Sound ==
  /\ TypeOK /\ Listing /\ Locking
  /\ \A w \in Workers : Working(w)

(***************************************************************************)
(* An empty store with idle workers is sound.                              *)
(***************************************************************************)
LEMMA SoundInit == Init => Sound
<1>1. SUFFICES ASSUME Init PROVE Sound
  OBVIOUS
<1>2. TypeOK /\ Listing
  BY <1>1, TypesInit
<1>3. Locking
  BY <1>1 DEF Init, NoFiles, NoCollector, Locking
<1>4. ASSUME NEW w \in Workers PROVE Working(w)
  BY <1>1 DEF Init, NoRuns, NoFiles, NoJob, At, Working, Locked, Following
<1>5. QED
  BY <1>2, <1>3, <1>4 DEF Sound

(***************************************************************************)
(* Every step of a run, of the collector and of time keeps it sound.       *)
(***************************************************************************)
LEMMA SoundStep ==
  ASSUME Sound, Steps, Remembers
  PROVE  Sound'
<1>1. TypeOK' /\ Listing'
  BY TypeStep, ListingStep DEF Sound
<1>2. CASE Publishes /\ UNCHANGED collector
  <2>1. ASSUME NEW w \in Workers, Works(w) \/ \E k \in Keys : Pick(w, k)
        PROVE  Locking' /\ \A v \in Workers : Working(v)'
    <3>1. \A v \in Workers : Working(v)'
      BY <2>1, OwnWorking, OtherWorking DEF Sound
    <3>2. exclusive' = exclusive /\ stage' = stage
      BY <1>2, <2>1, OthersStay DEF Sound, TypeOK, collector
    <3>3. exclusive => shared' = {}
      <4>1. SUFFICES ASSUME exclusive PROVE shared' = {}
        OBVIOUS
      <4>2. shared = {} /\ shared' \subseteq Workers
        BY <1>1, <4>1 DEF Sound, Locking, TypeOK, FilesOK
      <4>3. ASSUME NEW v \in Workers \ {w} PROVE v \notin shared'
        BY <2>1, <4>2, OthersStay DEF Sound, TypeOK
      <4>4. w \notin shared'
        BY <2>1, <4>1, <4>2
        DEF Works, Pick, Lookup, ReadManifest, Open, Build, BuildFails, Lock, Dedup, Contract,
            Apply, Touch, Promote, Mark, Seal, Link, files, Ends, Continues
      <4>5. QED
        BY <4>2, <4>3, <4>4
    <3>4. QED
      BY <3>1, <3>2, <3>3 DEF Sound, Locking
  <2>2. ASSUME NEW r \in Runs, \/ Return(r) \/ Generate(r) \/ DropGeneration(r) \/ Crash(r)
                               \/ \E oh \in Hashes : AddRoot(r, oh)
        PROVE  Locking' /\ \A w \in Workers : Working(w)'
    <3>1. \A w \in Workers : Working(w)'
      BY <2>2, RunWorking DEF Sound
    <3>2. exclusive' = exclusive /\ shared' \subseteq shared /\ stage' = stage
      BY <1>2, <2>2 DEF Return, Generate, DropGeneration, Crash, AddRoot, files, collector
    <3>3. QED
      BY <3>1, <3>2 DEF Sound, Locking
  <2>3. QED
    BY <1>1, <1>2, <2>1, <2>2 DEF Publishes, Sound
<1>3. CASE Collects \/ Killed \/ \E l \in Levels : Start(l)
  BY <1>1, <1>3, CollectorLocking, CollectorWorking DEF Sound
<1>4. CASE TimePasses
  <2>1. /\ UNCHANGED <<entries, links, staging, shared, exclusive, local, stage, unlinked>>
        /\ past \subseteq past'
    BY <1>4 DEF TimePasses, LeaseAges, LogsAge, collector, Remembers
  <2>2. ASSUME NEW w \in Workers PROVE Working(w)'
    <3>1. Working(w)
      BY DEF Sound
    <3>2. QED
      BY <2>1, <3>1
      DEF local, Working, At, Key, Seen, Made, HasManifest, HasData, Whole, Memo
  <2>3. QED
    BY <1>1, <2>1, <2>2 DEF Sound, Locking
<1>5. QED
  BY <1>2, <1>3, <1>4 DEF Steps

(***************************************************************************)
(* So does a step that changes nothing.                                    *)
(***************************************************************************)
LEMMA SoundStutter ==
  ASSUME Sound, UNCHANGED vars
  PROVE  Sound'
<1>1. TypeOK' /\ Listing'
  BY TypesStutter DEF Sound
<1>2. Locking'
  BY DEF Sound, Locking, vars, files, collector
<1>3. ASSUME NEW w \in Workers PROVE Working(w)'
  <2>1. Working(w)
    BY DEF Sound
  <2>2. QED
    BY <2>1 DEF vars, files, local, history, Working, At, Key, Seen, Made, HasManifest, HasData,
       Whole, Memo
<1>4. QED
  BY <1>1, <1>2, <1>3 DEF Sound

(***************************************************************************)
(* The store is sound in every reachable state.                            *)
(***************************************************************************)
THEOREM Soundness == Spec => []Sound
<1>1. Init => Sound
  BY SoundInit
<1>2. Sound /\ [Next]_vars => Sound'
  BY SoundStep, SoundStutter DEF Next
<1>3. QED
  BY <1>1, <1>2, PTL DEF Spec

(***************************************************************************)
(* PublishProtected of Store: the collector does not run while somebody    *)
(* publishes, and what a publisher has resolved stays until it is linked.  *)
(***************************************************************************)
THEOREM PublishIsProtected == Spec => []PublishProtected
<1>1. Sound => PublishProtected
  BY DEF Sound, Locking, Working, PublishProtected
<1>2. QED
  BY <1>1, Soundness, PTL

(***************************************************************************)
(* StagingSurvives of Store: a build in progress keeps its staging         *)
(* directory.                                                              *)
(***************************************************************************)
THEOREM BuildsKeepStaging == Spec => []StagingSurvives
<1>1. Sound => StagingSurvives
  BY DEF Sound, Working, StagingSurvives
<1>2. QED
  BY <1>1, Soundness, PTL

(***************************************************************************)
(* What a run holds is what the memo table has said, the collector aside;  *)
(* and so two runs hold the same.                                          *)
(***************************************************************************)
HeldByMemo == \A r \in Runs : \A h \in held[r] : Memo(h[1], h[2])

(***************************************************************************)
(* Only a job that completes adds to what is held.                         *)
(***************************************************************************)
LEMMA HeldOnlyByApply ==
  ASSUME Sound, Steps
  PROVE  held' = held \/ \E w \in Workers : Apply(w)
<1> SUFFICES ASSUME ~ \E w \in Workers : Apply(w) PROVE held' = held
  OBVIOUS
<1>1. CASE Collects \/ Killed \/ (\E l \in Levels : Start(l)) \/ TimePasses
  BY <1>1, CollectorLocking DEF Sound, TimePasses, local
<1>2. ASSUME NEW w \in Workers, Works(w) \/ (\E k \in Keys : Pick(w, k)) PROVE held' = held
  BY <1>2
  DEF Works, Pick, Lookup, ReadManifest, Open, Build, BuildFails, Lock, Dedup, Contract,
      Touch, Promote, Mark, Seal, Link
<1>3. ASSUME NEW r \in Runs, \/ Return(r) \/ Generate(r) \/ DropGeneration(r) \/ Crash(r)
                             \/ \E oh \in Hashes : AddRoot(r, oh)
      PROVE  held' = held
  BY <1>3 DEF Return, Generate, DropGeneration, Crash, AddRoot, local
<1>4. QED
  BY <1>1, <1>2, <1>3 DEF Steps, Publishes

(***************************************************************************)
(* Only a completed job adds to what is held, and it adds what it relies   *)
(* on.                                                                     *)
(***************************************************************************)
LEMMA HeldStep ==
  ASSUME Sound, HeldByMemo, Steps, Remembers
  PROVE  HeldByMemo'
<1>1. FilesOK /\ LocalOK /\ held \in [Runs -> SUBSET (Keys \X Hashes)]
  BY DEF Sound, TypeOK, LocalOK
<1>2. \A k \in Keys, oh \in Hashes :
        Memo(k, oh) =>
          /\ <<k, oh>> \in past'
          /\ k \in unlinked' \/ (k \in DOMAIN links' /\ links'[k] = oh)
  BY <1>1, LinksStay DEF Memo
<1>3. ASSUME NEW r \in Runs, NEW h \in held[r] PROVE Memo(h[1], h[2])'
  BY <1>1, <1>2, <1>3 DEF HeldByMemo, Memo
<1>4. CASE held' = held
  BY <1>3, <1>4 DEF HeldByMemo
<1>5. ASSUME NEW w \in Workers, Apply(w) PROVE HeldByMemo'
  <2>1. /\ Key(w) \in Keys /\ Taken(w) \in Hashes
        /\ Memo(Key(w), Taken(w))
    BY <1>1, <1>5, JobAfter DEF Sound, Working, Following, Apply, Taken
  <2>2. \A r \in Runs : held'[r] = held[r] \/ held'[r] = held[r] \cup {<<Key(w), Taken(w)>>}
    BY <1>1, <1>5 DEF Apply
  <2>3. ASSUME NEW h, h = <<Key(w), Taken(w)>> PROVE Memo(h[1], h[2])'
    BY <1>2, <2>1, <2>3 DEF Memo
  <2>4. QED
    BY <1>3, <2>2, <2>3 DEF HeldByMemo
<1>6. held' = held \/ \E w \in Workers : Apply(w)
  BY HeldOnlyByApply
<1>7. QED
  BY <1>4, <1>5, <1>6

(***************************************************************************)
(* OneOutputPerKey of Store: completed jobs of one key have one output, in *)
(* all runs, unless the collector has taken the key off the table.         *)
(***************************************************************************)
THEOREM OneOutput == Spec => []OneOutputPerKey
<1>1. Init => HeldByMemo
  BY DEF Init, NoRuns, HeldByMemo
<1>2. Sound /\ HeldByMemo /\ [Next]_vars => HeldByMemo'
  <2>1. CASE Steps /\ Remembers
    BY <2>1, HeldStep
  <2>2. ASSUME HeldByMemo, UNCHANGED vars PROVE HeldByMemo'
    BY <2>2 DEF vars, files, local, history, HeldByMemo, Memo
  <2>3. QED
    BY <2>1, <2>2 DEF Next
<1>3. HeldByMemo => OneOutputPerKey
  BY DEF HeldByMemo, OneOutputPerKey, Memo
<1>4. QED
  BY <1>1, <1>2, <1>3, Soundness, PTL DEF Spec

-----------------------------------------------------------------------------
(***************************************************************************)
(* What becomes of an entry while it is published and looked up: it comes  *)
(* to be whole; then it is touched, or marked if it has its manifest, and  *)
(* marked only while the collector does not run.                           *)
(***************************************************************************)
LEMMA PartsGrow ==
  ASSUME Sound, Publishes, NEW oh \in DOMAIN entries'
  PROVE  \/ oh \notin DOMAIN entries /\ Whole(oh)'
         \/ /\ oh \in DOMAIN entries
            /\ entries'[oh].parts \in {entries[oh].parts, entries[oh].parts \cup {"atime"}}
         \/ /\ HasManifest(oh) /\ victim = {}
            /\ entries'[oh].parts = entries[oh].parts \cup {"evict"}
<1> DEFINE Grown == \/ oh \notin DOMAIN entries /\ Whole(oh)'
                    \/ /\ oh \in DOMAIN entries
                       /\ entries'[oh].parts \in {entries[oh].parts,
                                                  entries[oh].parts \cup {"atime"}}
                    \/ /\ HasManifest(oh) /\ victim = {}
                       /\ entries'[oh].parts = entries[oh].parts \cup {"evict"}
<1>1. \A x \in DOMAIN entries : entries[x] \in EntryDir
  BY DEF Sound, TypeOK, FilesOK, PartialFun
<1>2. ASSUME NEW x, NEW p, entries' = AddPart(x, p)
      PROVE  /\ oh \in DOMAIN entries
             /\ entries'[oh].parts = IF oh = x THEN entries[oh].parts \cup {p}
                                               ELSE entries[oh].parts
  <2>1. oh \in DOMAIN entries
    BY <1>2 DEF AddPart
  <2>2. entries[oh] \in EntryDir
    BY <1>1, <2>1
  <2>3. QED
    BY <1>2, <2>1, <2>2 DEF AddPart, EntryDir
<1>3. CASE entries' = entries
  BY <1>3
<1>4. ASSUME NEW w \in Workers, Touch(w) PROVE Grown
  BY <1>2, <1>3, <1>4 DEF Touch
<1>5. ASSUME NEW w \in Workers, Mark(w) PROVE Grown
  <2>1. HasManifest(Made(w)) /\ victim = {}
    BY <1>5 DEF Mark, Sound, Working, Locked, Locking, Listing
  <2>2. CASE entries' = AddPart(Made(w), "evict")
    <3>1. /\ oh \in DOMAIN entries
          /\ entries'[oh].parts = IF oh = Made(w) THEN entries[oh].parts \cup {"evict"}
                                                 ELSE entries[oh].parts
      BY <1>2, <2>2
    <3>2. CASE oh = Made(w)
      BY <2>1, <3>1, <3>2
    <3>3. CASE oh # Made(w)
      BY <3>1, <3>3
    <3>4. QED
      BY <3>2, <3>3
  <2>3. QED
    BY <1>3, <1>5, <2>2 DEF Mark
<1>6. ASSUME NEW w \in Workers, Promote(w) PROVE Grown
  <2>1. CASE entries' = Put(entries, Made(w),
                            [parts |-> {"manifest", "data"}, sealed |-> FALSE, key |-> Key(w)])
    <3>1. CASE oh = Made(w)
      BY <1>6, <2>1, <3>1 DEF Promote, Put, Whole, HasManifest, HasData
    <3>2. CASE oh # Made(w)
      BY <2>1, <3>2 DEF Put
    <3>3. QED
      BY <3>1, <3>2
  <2>2. QED
    BY <1>3, <1>6, <2>1 DEF Promote
<1>7. ASSUME NEW w \in Workers, Seal(w) PROVE Grown
  <2>1. CASE entries' = [entries EXCEPT ![Made(w)].sealed = TRUE]
    <3>1. oh \in DOMAIN entries /\ entries[oh] \in EntryDir
      BY <1>1, <2>1
    <3>2. QED
      BY <2>1, <3>1 DEF EntryDir
  <2>2. QED
    BY <1>3, <1>7, <2>1 DEF Seal
<1>8. ASSUME NEW w \in Workers,
             \/ Lookup(w) \/ ReadManifest(w) \/ Open(w) \/ (\E x \in Hashes : Build(w, x))
             \/ BuildFails(w) \/ Lock(w) \/ Dedup(w) \/ Link(w) \/ Contract(w) \/ Apply(w)
             \/ \E k \in Keys : Pick(w, k)
      PROVE  entries' = entries
  BY <1>8 DEF Lookup, ReadManifest, Open, Build, BuildFails, Lock, Dedup, Link, Contract,
     Apply, Pick, files
<1>9. ASSUME NEW r \in Runs, \/ Return(r) \/ Generate(r) \/ DropGeneration(r) \/ Crash(r)
                             \/ \E x \in Hashes : AddRoot(r, x)
      PROVE  entries' = entries
  BY <1>9 DEF Return, Generate, DropGeneration, Crash, AddRoot, files
<1> HIDE DEF Grown
<1>10. Grown
  <2>1. Grown \/ entries' = entries
    BY <1>4, <1>5, <1>6, <1>7, <1>8, <1>9 DEF Publishes, Works
  <2>2. QED
    BY <1>3, <2>1 DEF Grown
<1>11. QED
  BY <1>10 DEF Grown

(***************************************************************************)
(* Before the first call of the collector every entry that is linked is    *)
(* published: publish creates the link last, and nothing is removed.       *)
(***************************************************************************)
Published ==
  /\ LinkedIsPublished
  /\ sweeps = 0 => stage = "idle"

(***************************************************************************)
(* Until then nothing is at work but the runs and time.                    *)
(***************************************************************************)
LEMMA NotCollected ==
  ASSUME Sound, Published, Steps, sweeps' = 0
  PROVE  /\ sweeps = 0 /\ stage = "idle" /\ UNCHANGED collector
         /\ Publishes \/ TimePasses
<1>1. Locking /\ Listing /\ CollectorOK
  BY DEF Sound, TypeOK
<1>2. CASE Collects \/ Killed \/ \E l \in Levels : Start(l)
  <2>1. ~ \E l \in Levels : Start(l)
    BY <1>1 DEF Start, CollectorOK
  <2>2. sweeps' = sweeps
    BY <1>2, <2>1
    DEF Collects, Killed, CollectRoots, CollectPins, ListLeases, ReadLease, Debris,
        LeaseGone, LeasesRead, Unlink, ListEntries, Evict, Sweep, Remove, Evicted, Trim,
        RemovePart, RemoveDir, Finish, collector
  <2>3. stage = "idle"
    BY <2>2 DEF Published
  <2>4. FALSE
    BY <1>1, <1>2, <2>1, <2>3
    DEF Collects, Killed, CollectRoots, CollectPins, ListLeases, ReadLease, Debris,
        LeaseGone, LeasesRead, Unlink, ListEntries, Evict, Sweep, Remove, Evicted, Trim,
        RemovePart, RemoveDir, Finish, Listing
  <2>5. QED
    BY <2>4
<1>3. CASE (Publishes /\ UNCHANGED collector) \/ TimePasses
  BY <1>3 DEF TimePasses, collector, Published
<1>4. QED
  BY <1>2, <1>3 DEF Steps

(***************************************************************************)
(* Every step keeps it, as long as the collector has not been called.      *)
(***************************************************************************)
LEMMA PublishedStep ==
  ASSUME Sound, Published, Steps, Remembers
  PROVE  Published'
<1>1. SUFFICES ASSUME sweeps' = 0
               PROVE  /\ \A k \in DOMAIN links' : Whole(links[k])' /\ entries'[links'[k]].sealed
                      /\ stage' = "idle"
  BY DEF Published, LinkedIsPublished
<1>2. FilesOK /\ LocalOK
  BY DEF Sound, TypeOK
<1>3. UNCHANGED collector /\ (Publishes \/ TimePasses)
  BY <1>1, NotCollected
<1>4. CASE TimePasses
  BY <1>1, <1>4 DEF TimePasses, LeaseAges, LogsAge, collector, Published, LinkedIsPublished,
     Whole, HasManifest, HasData
<1>5. CASE Publishes
  <2>1. sweeps = 0 /\ stage' = "idle"
    BY <1>1, <1>3 DEF collector, Published
  <2>2. \A oh \in DOMAIN entries :
          Whole(oh) /\ entries[oh].sealed => Whole(oh)' /\ entries'[oh].sealed
    BY <1>2, <1>5, EntriesGrow DEF Whole, HasManifest, HasData
  <2>3. \A k \in DOMAIN links : Whole(links[k]) /\ entries[links[k]].sealed
    BY <2>1 DEF Published, LinkedIsPublished
  <2>4. CASE links' = links
    BY <2>1, <2>2, <2>3, <2>4 DEF Whole, HasManifest
  <2>5. ASSUME NEW w \in Workers, Link(w)
        PROVE  \A k \in DOMAIN links' : Whole(links[k])' /\ entries'[links'[k]].sealed
    <3>1. Whole(Made(w)) /\ entries[Made(w)].sealed /\ entries' = entries
      BY <2>5 DEF Sound, Working, Link
    <3>2. CASE links' = Put(links, Key(w), Made(w))
      BY <2>3, <3>1, <3>2 DEF Put, Whole, HasManifest, HasData
    <3>3. QED
      BY <2>4, <2>5, <3>2 DEF Link
  <2>6. ASSUME ~ \E w \in Workers : Link(w) PROVE links' = links
    BY <1>5, <2>6
    DEF Publishes, Works, Pick, Lookup, ReadManifest, Open, Build, BuildFails, Lock, Dedup,
        Contract, Apply, Touch, Promote, Mark, Seal, Return, Generate, DropGeneration, Crash,
        AddRoot, files
  <2>7. QED
    BY <2>1, <2>4, <2>5, <2>6
<1>6. QED
  BY <1>3, <1>4, <1>5

(***************************************************************************)
(* LinkedIsPublished of Store: in a store that has not been collected,     *)
(* whatever a link leads to is whole and read-only, wherever runs have     *)
(* been killed.                                                            *)
(***************************************************************************)
THEOREM LinkedArePublished == Spec => []LinkedIsPublished
<1>1. Init => Published
  BY DEF Init, NoFiles, NoCollector, Published, LinkedIsPublished
<1>2. Sound /\ Published /\ [Next]_vars => Published'
  <2>1. CASE Steps /\ Remembers
    BY <2>1, PublishedStep
  <2>2. ASSUME Published, UNCHANGED vars PROVE Published'
    BY <2>2 DEF vars, files, collector, Published, LinkedIsPublished, Whole, HasManifest, HasData
  <2>3. QED
    BY <2>1, <2>2 DEF Next
<1>3. QED
  BY <1>1, <1>2, Soundness, PTL DEF Spec, Published

(***************************************************************************)
(* What an uncollected store has for every job: entries that are whole, a  *)
(* table nothing has been removed from, and the log directory of a build.  *)
(***************************************************************************)
Untouched ==
  sweeps = 0 =>
    /\ \A oh \in DOMAIN entries : Whole(oh)
    /\ unlinked = {}
    /\ \A w \in Workers : At(w) = "build" => <<Key(w), w>> \in logs

(***************************************************************************)
(* No step of a run takes that away.                                       *)
(***************************************************************************)
LEMMA UntouchedStep ==
  ASSUME Sound, Published, Untouched, Steps, Remembers
  PROVE  Untouched'
<1>1. SUFFICES ASSUME sweeps' = 0
               PROVE  /\ \A oh \in DOMAIN entries' : Whole(oh)'
                      /\ unlinked' = {}
                      /\ \A w \in Workers : At(w)' = "build" => <<Key(w)', w>> \in logs'
  BY DEF Untouched
<1>2. sweeps = 0 /\ (Publishes \/ TimePasses)
  BY <1>1, NotCollected
<1>3. /\ \A oh \in DOMAIN entries : Whole(oh)
      /\ unlinked = {}
      /\ \A w \in Workers : At(w) = "build" => <<Key(w), w>> \in logs
  BY <1>2 DEF Untouched
<1>4. FilesOK /\ LocalOK /\ job \in [Workers -> JobRecord]
  BY DEF Sound, TypeOK, LocalOK, JobRecord
<1>5. unlinked' = {}
  <2>1. CASE Publishes
    <3>1. DOMAIN links \subseteq DOMAIN links'
      BY <2>1
      DEF Publishes, Works, Pick, Lookup, ReadManifest, Open, Build, BuildFails, Lock, Dedup,
          Contract, Apply, Touch, Promote, Mark, Seal, Link, Put, Return, Generate,
          DropGeneration, Crash, AddRoot, files
    <3>2. QED
      BY <1>3, <3>1 DEF Remembers
  <2>2. CASE TimePasses
    BY <1>3, <2>2 DEF TimePasses, LeaseAges, LogsAge, Remembers
  <2>3. QED
    BY <1>2, <2>1, <2>2
<1>6. ASSUME NEW oh \in DOMAIN entries' PROVE Whole(oh)'
  <2>1. CASE Publishes /\ oh \in DOMAIN entries
    BY <1>3, <1>4, <2>1, EntriesGrow DEF Whole, HasManifest, HasData
  <2>2. CASE Publishes /\ oh \notin DOMAIN entries
    BY <2>2, PartsGrow DEF HasManifest
  <2>3. CASE TimePasses
    BY <1>3, <1>6, <2>3 DEF TimePasses, LeaseAges, LogsAge, Whole, HasManifest, HasData
  <2>4. QED
    BY <1>2, <2>1, <2>2, <2>3
<1>7. ASSUME NEW v \in Workers, At(v)' = "build" PROVE <<Key(v)', v>> \in logs'
  <2>1. CASE TimePasses
    BY <1>3, <1>7, <2>1 DEF TimePasses, LeaseAges, LogsAge, local, At, Key
  <2>2. ASSUME job'[v] = job[v], logs \subseteq logs' PROVE <<Key(v)', v>> \in logs'
    BY <1>3, <1>7, <2>2 DEF At, Key
  <2>3. CASE Publishes
    <3>1. logs \subseteq logs'
      BY <2>3
      DEF Publishes, Works, Pick, Lookup, ReadManifest, Open, Build, BuildFails, Lock, Dedup,
          Contract, Apply, Touch, Promote, Mark, Seal, Link, Return, Generate,
          DropGeneration, Crash, AddRoot, files
    <3>2. ASSUME NEW w \in Workers \ {v}, Works(w) \/ \E k \in Keys : Pick(w, k)
          PROVE  job'[v] = job[v]
      BY <1>4, <3>2, OthersStay
    <3>3. CASE Open(v)
      <4>1. Key(v)' = Key(v)
        BY <1>4, <3>3, JobAfter DEF Open
      <4>2. QED
        BY <3>3, <4>1 DEF Open
    <3>4. ASSUME ~Open(v), Works(v) \/ \E k \in Keys : Pick(v, k) PROVE FALSE
      <4>1. \A there : Goes(v, there) => At(v)' = there
        BY <1>4, JobAfter
      <4>2. \A how : Ends(v, how) => At(v)' = "idle"
        BY <1>4 DEF Ends, At, NoJob
      <4>3. ASSUME NEW k \in Keys, Pick(v, k) PROVE FALSE
        BY <1>4, <1>7, <4>3 DEF Pick, At, NoJob
      <4>4. ASSUME NEW oh \in Hashes, Build(v, oh) PROVE FALSE
        BY <1>4, <1>7, <4>4 DEF Build, At, JobRecord
      <4>5. CASE Apply(v)
        BY <1>4, <1>7, <4>5 DEF Apply, At, NoJob
      <4>6. CASE Lookup(v)
        <5>1. CASE Key(v) \in DOMAIN links
          <6> DEFINE oh == links[Key(v)]
          <6>1. job' = [job EXCEPT ![v].at = "manifest", ![v].seen = oh]
            BY <4>6, <5>1 DEF Lookup
          <6> HIDE DEF oh
          <6>2. QED
            BY <1>4, <1>7, <6>1 DEF At, JobRecord
        <5>2. QED
          BY <1>7, <4>1, <4>2, <4>6, <5>1 DEF Lookup, Continues
      <4>7. CASE Link(v)
        <5>1. At(v)' = "lookup" \/ At(v)' = "idle"
          BY <1>4, <4>2, <4>7 DEF Link, At, JobRecord
        <5>2. QED
          BY <1>7, <5>1
      <4>8. CASE \/ ReadManifest(v) \/ Touch(v) \/ BuildFails(v) \/ Lock(v) \/ Promote(v)
                 \/ Mark(v) \/ Dedup(v) \/ Seal(v) \/ Contract(v)
        BY <1>7, <4>1, <4>2, <4>8
        DEF ReadManifest, Touch, BuildFails, Lock, Promote, Mark, Dedup, Seal, Contract,
            Continues
      <4>9. QED
        BY <3>4, <4>3, <4>4, <4>5, <4>6, <4>7, <4>8 DEF Works
    <3>5. ASSUME NEW r \in Runs, \/ Return(r) \/ Generate(r) \/ DropGeneration(r)
                                 \/ \E oh \in Hashes : AddRoot(r, oh)
          PROVE  job' = job
      BY <3>5 DEF Return, Generate, DropGeneration, AddRoot, local
    <3>6. ASSUME NEW r \in Runs, Crash(r) PROVE job'[v] = job[v]
      BY <1>4, <1>7, <3>6 DEF Crash, At, NoJob
    <3>7. QED
      BY <2>2, <2>3, <3>1, <3>2, <3>3, <3>4, <3>5, <3>6 DEF Publishes
  <2>4. QED
    BY <1>2, <2>1, <2>3
<1>8. QED
  BY <1>5, <1>6, <1>7

(***************************************************************************)
(* With that, whatever way a job ends, it ends with the store intact.      *)
(***************************************************************************)
LEMMA CrashSafeStep ==
  ASSUME Sound, Published, Untouched, CrashSafe, Steps, Remembers
  PROVE  CrashSafe'
<1> DEFINE Bad == {"corrupt", "nolog"}
<1>1. SUFFICES ASSUME sweeps' = 0 PROVE \A v \in Workers : result'[v] \notin Bad
  BY DEF CrashSafe
<1>2. sweeps = 0 /\ (Publishes \/ TimePasses)
  BY <1>1, NotCollected
<1>3. /\ \A oh \in DOMAIN entries : Whole(oh)
      /\ unlinked = {}
      /\ \A w \in Workers : At(w) = "build" => <<Key(w), w>> \in logs
      /\ \A k \in DOMAIN links : Whole(links[k])
      /\ \A w \in Workers : result[w] \notin Bad
  BY <1>2 DEF Untouched, Published, LinkedIsPublished, CrashSafe
<1>4. result \in [Workers -> Results]
  BY DEF Sound, TypeOK, LocalOK
<1>5. CASE result' = result
  BY <1>3, <1>5
<1>6. ASSUME NEW w \in Workers,
             \E how \in Results \ Bad : result' = [result EXCEPT ![w] = how]
      PROVE  \A v \in Workers : result'[v] \notin Bad
  BY <1>3, <1>4, <1>6
<1>7. ASSUME NEW w \in Workers, NEW how \in Results \ Bad, Ends(w, how)
      PROVE  \A v \in Workers : result'[v] \notin Bad
  BY <1>6, <1>7 DEF Ends
<1>8. ASSUME NEW w \in Workers, Works(w) \/ \E k \in Keys : Pick(w, k)
      PROVE  \A v \in Workers : result'[v] \notin Bad
  <2>1. Working(w)
    BY DEF Sound
  <2>2. CASE \E k \in Keys : Pick(w, k)
    BY <1>6, <2>2 DEF Pick, Results
  <2>3. CASE Lookup(w)
    <3>1. Key(w) \in DOMAIN links \/ ~job[w].built
      BY <1>3, <2>1, <2>3 DEF Working, Memo, Lookup
    <3>2. QED
      BY <1>5, <2>3, <3>1 DEF Lookup, Continues
  <2>4. CASE ReadManifest(w)
    <3>1. HasManifest(Seen(w))
      BY <1>3, <2>1, <2>4 DEF Working, Memo, ReadManifest, Following, Whole
    <3>2. QED
      BY <1>5, <2>4, <3>1 DEF ReadManifest, Continues
  <2>5. CASE BuildFails(w)
    <3>1. Ends(w, "failed")
      BY <1>3, <2>5 DEF BuildFails
    <3>2. QED
      BY <1>7, <3>1 DEF Results
  <2>6. CASE Promote(w)
    BY <1>5, <2>1, <2>6 DEF Promote, Working, Continues
  <2>7. CASE Dedup(w)
    <3>1. HasManifest(Made(w)) /\ <<w, "current">> \in staging
      BY <1>3, <2>1, <2>7 DEF Dedup, Working, Whole
    <3>2. QED
      BY <1>5, <2>7, <3>1 DEF Dedup, Continues
  <2>8. CASE Seal(w)
    <3>1. Whole(Made(w))
      BY <1>3, <2>1, <2>8 DEF Seal, Working, HasManifest
    <3>2. QED
      BY <1>5, <2>8, <3>1 DEF Seal, Continues
  <2>9. CASE Link(w)
    <3>1. CASE Key(w) \notin DOMAIN links \/ links[Key(w)] = Made(w)
      BY <1>5, <2>9, <3>1 DEF Link
    <3>2. CASE ~(Key(w) \notin DOMAIN links \/ links[Key(w)] = Made(w))
      <4>1. HasManifest(links[Key(w)]) /\ HasManifest(Made(w))
        BY <1>3, <2>1, <2>9, <3>2 DEF Link, Working, Whole
      <4>2. Ends(w, "violation")
        BY <2>9, <3>2, <4>1 DEF Link, Violation
      <4>3. QED
        BY <1>7, <4>2 DEF Results
    <3>3. QED
      BY <3>1, <3>2
  <2>10. CASE Contract(w)
    <3>1. Ends(w, "failed") \/ result' = result
      BY <2>10 DEF Contract, Continues
    <3>2. CASE Ends(w, "failed")
      BY <1>7, <3>2 DEF Results
    <3>3. QED
      BY <1>5, <3>1, <3>2
  <2>11. CASE Apply(w)
    <3>1. result' = [result EXCEPT ![w] = "built"] \/ result' = [result EXCEPT ![w] = "hit"]
      BY <2>11 DEF Apply
    <3>2. {"built", "hit"} \subseteq Results \ Bad
      BY DEF Results
    <3>3. QED
      BY <1>6, <3>1, <3>2
  <2>12. CASE \/ Touch(w) \/ Open(w) \/ (\E oh \in Hashes : Build(w, oh)) \/ Lock(w)
              \/ Mark(w)
    BY <1>5, <2>12 DEF Touch, Open, Build, Lock, Mark
  <2>13. QED
    BY <1>8, <2>2, <2>3, <2>4, <2>5, <2>6, <2>7, <2>8, <2>9, <2>10, <2>11, <2>12 DEF Works
<1>9. ASSUME NEW r \in Runs, \/ Return(r) \/ Generate(r) \/ DropGeneration(r) \/ Crash(r)
                             \/ \E oh \in Hashes : AddRoot(r, oh)
      PROVE  result' = result
  BY <1>9 DEF Return, Generate, DropGeneration, Crash, AddRoot, local
<1>10. CASE TimePasses
  BY <1>5, <1>10 DEF TimePasses, local
<1>11. QED
  BY <1>2, <1>5, <1>8, <1>9, <1>10 DEF Publishes

(***************************************************************************)
(* CrashSafe of Store: without the collector no job meets a store it       *)
(* cannot use, wherever in publish runs have been killed.                  *)
(***************************************************************************)
THEOREM KillsAreHarmless == Spec => []CrashSafe
<1> DEFINE Safe == Published /\ Untouched /\ CrashSafe
<1>1. Init => Safe
  BY DEF Init, NoFiles, NoCollector, NoRuns, NoJob, At, Published, LinkedIsPublished,
     Untouched, CrashSafe
<1>2. Sound /\ Safe /\ [Next]_vars => Safe'
  <2>1. CASE Steps /\ Remembers
    BY <2>1, PublishedStep, UntouchedStep, CrashSafeStep
  <2>2. ASSUME Safe, UNCHANGED vars PROVE Safe'
    BY <2>2 DEF vars, files, local, collector, history, Published, LinkedIsPublished,
       Untouched, CrashSafe, At, Key, Whole, HasManifest, HasData
  <2>3. QED
    BY <2>1, <2>2 DEF Next
<1>3. QED
  BY <1>1, <1>2, Soundness, PTL DEF Spec

-----------------------------------------------------------------------------
(***************************************************************************)
(* Why the collector keeps what is protected all the time it reads: once   *)
(* it has read the roots it has the steady ones, and so on for the pins    *)
(* and for each lease; and it removes only what it has not kept. A         *)
(* protection that comes or goes while it reads is not steady.             *)
(***************************************************************************)
Removing == {"links", "evict", "trim", "sweep"}

HasKept ==
  /\ stage = "idle" => steady = {}
  /\ stage \in Reading => steady \subseteq Protections
  /\ \A p \in steady :
       /\ stage \in {"pins", "leases", "reading"} /\ p[1] = "root" => p[3] \in kept
       /\ stage \in {"leases", "reading"} /\ p[1] = "pin" => p[3] \in kept
       /\ stage = "reading" /\ p[1] = "lease" => p[2] \in unread \/ p[3] \in kept
       /\ stage \in Removing => p[3] \in kept
  /\ stage \in Removing => (candidates \cup victim) \cap kept = {}

(***************************************************************************)
(* What a protection is.                                                   *)
(***************************************************************************)
LEMMA ProtectionKinds ==
  \A p \in Protections :
    \/ p[1] = "root" /\ \E root \in roots : p[3] = root[2]
    \/ p[1] = "pin" /\ \E k \in DOMAIN pins : p[3] = pins[k]
    \/ /\ p[1] = "lease" /\ p[2] \in DOMAIN leases /\ leases[p[2]].fresh
       /\ p[3] \in leases[p[2]].protects
  BY DEF Protections

(***************************************************************************)
(* Every step of the collector moves this on; every other step keeps it.   *)
(***************************************************************************)
LEMMA KeptStep ==
  ASSUME Sound, HasKept, Steps, Remembers
  PROVE  HasKept'
<1>1. TypeOK /\ Listing /\ Locking /\ Locking'
  BY SoundStep DEF Sound
<1> DEFINE Steady == /\ stage = "idle" => steady' = IF exclusive' THEN Protections' ELSE {}
                     /\ stage # "idle" /\ stage' = "idle" => steady' = {}
                     /\ stage \in Reading /\ stage' # "idle" => steady' = steady \cap Protections'
                     /\ stage \in Removing => steady' \in {steady, {}}
<1>2. Steady
  BY DEF Remembers, Reading, Removing
<1> HIDE DEF Steady
<1>3. CASE stage' = stage /\ kept' = kept /\ unread' = unread /\ exclusive' = exclusive
           /\ candidates' = candidates /\ victim' = victim
  <2>1. stage = "idle" => steady' = {}
    BY <1>1, <1>2, <1>3 DEF Steady, Locking
  <2>2. stage # "idle" => steady' \subseteq steady
    BY <1>1, <1>2, <1>3 DEF Steady, TypeOK, CollectorOK, Stages, Reading, Removing
  <2>3. stage \in Reading => steady' \subseteq Protections'
    BY <1>2, <1>3 DEF Steady, Reading
  <2>4. QED
    BY <1>3, <2>1, <2>2, <2>3 DEF HasKept, Reading, Removing
<1>4. ASSUME NEW l \in Levels, Start(l) PROVE HasKept'
  <2>1. stage = "idle" /\ stage' = "debris" /\ exclusive'
    BY <1>4 DEF Start
  <2>2. QED
    BY <1>2, <2>1 DEF Steady, HasKept, Reading, Removing
<1>5. CASE stage # "idle" /\ stage' = "idle"
  BY <1>2, <1>5 DEF Steady, HasKept, Reading, Removing
<1>6. CASE Debris
  <2>1. stage = "debris" /\ stage' = "roots"
    BY <1>6 DEF Debris
  <2>2. QED
    BY <1>2, <2>1 DEF Steady, HasKept, Reading, Removing
<1>7. CASE CollectRoots
  <2>1. /\ stage = "roots" /\ stage' = "pins" /\ kept' = { root[2] : root \in roots }
        /\ UNCHANGED files
    BY <1>7 DEF CollectRoots
  <2>2. steady' = steady \cap Protections' /\ Protections' = Protections
    BY <1>2, <2>1 DEF Steady, Reading, files, Protections
  <2>3. \A p \in steady' : p[1] = "root" => p[3] \in kept'
    BY <2>1, <2>2, ProtectionKinds
  <2>4. QED
    BY <2>1, <2>2, <2>3 DEF HasKept, Reading, Removing
<1>8. CASE CollectPins
  <2>1. /\ stage = "pins" /\ stage' = "leases" /\ kept' = kept \cup { pins[k] : k \in DOMAIN pins }
        /\ UNCHANGED files
    BY <1>8 DEF CollectPins
  <2>2. steady' = steady \cap Protections' /\ Protections' = Protections
    BY <1>2, <2>1 DEF Steady, Reading, files, Protections
  <2>3. \A p \in steady' : (p[1] = "root" => p[3] \in kept') /\ (p[1] = "pin" => p[3] \in kept')
    BY <2>1, <2>2, ProtectionKinds DEF HasKept
  <2>4. QED
    BY <2>1, <2>2, <2>3 DEF HasKept, Reading, Removing
<1>9. CASE ListLeases
  <2>1. /\ stage = "leases" /\ stage' = "reading" /\ kept' = kept /\ unread' = DOMAIN leases
        /\ UNCHANGED files
    BY <1>9 DEF ListLeases
  <2>2. steady' = steady \cap Protections' /\ Protections' = Protections
    BY <1>2, <2>1 DEF Steady, Reading, files, Protections
  <2>3. \A p \in steady' :
          /\ p[1] \in {"root", "pin"} => p[3] \in kept'
          /\ p[1] = "lease" => p[2] \in unread'
    BY <2>1, <2>2, ProtectionKinds DEF HasKept
  <2>4. QED
    BY <2>1, <2>2, <2>3 DEF HasKept, Reading, Removing
<1>10. ASSUME NEW r \in Runs, ReadLease(r) PROVE HasKept'
  <2>1. /\ stage = "reading" /\ stage' = "reading" /\ unread' = unread \ {r}
        /\ kept' = IF r \in DOMAIN leases /\ leases[r].fresh
                   THEN kept \cup leases[r].protects ELSE kept
        /\ UNCHANGED files
    BY <1>10 DEF ReadLease
  <2>2. steady' = steady \cap Protections' /\ Protections' = Protections
    BY <1>2, <2>1 DEF Steady, Reading, files, Protections
  <2>3. \A p \in steady' :
          /\ p[1] \in {"root", "pin"} => p[3] \in kept'
          /\ p[1] = "lease" => p[2] \in unread' \/ p[3] \in kept'
    BY <2>1, <2>2, ProtectionKinds DEF HasKept
  <2>4. QED
    BY <2>1, <2>2, <2>3 DEF HasKept, Reading, Removing
<1>11. CASE LeasesRead
  <2>1. /\ stage = "reading" /\ stage' = "links" /\ kept' = kept /\ unread = {}
        /\ UNCHANGED <<files, candidates, victim>>
    BY <1>11 DEF LeasesRead
  <2>2. steady' = steady \cap Protections' /\ Protections' = Protections
    BY <1>2, <2>1 DEF Steady, Reading, files, Protections
  <2>3. \A p \in steady' : p[3] \in kept'
    BY <2>1, <2>2, ProtectionKinds DEF HasKept
  <2>4. candidates' = {} /\ victim' = {}
    BY <1>1, <2>1 DEF Listing
  <2>5. QED
    BY <2>1, <2>2, <2>3, <2>4 DEF HasKept, Reading, Removing
<1>12. CASE /\ stage \in Removing /\ stage' \in Removing /\ kept' = kept
            /\ (candidates' \cup victim') \cap kept = {}
  BY <1>2, <1>12 DEF Steady, HasKept, Reading, Removing
<1>13. CASE Collects
  <2>1. CASE ListEntries
    <3>1. victim = {}
      BY <1>1, <2>1 DEF Listing, ListEntries
    <3>2. QED
      BY <1>12, <2>1, <3>1 DEF ListEntries, Removing
  <2>2. ASSUME NEW oh \in Hashes, Evict(oh) \/ Sweep(oh) PROVE HasKept'
    <3>1. /\ stage \in Removing /\ stage' \in Removing /\ kept' = kept /\ oh \in candidates
          /\ candidates' = candidates \ {oh} /\ victim' = {oh}
      BY <2>2 DEF Evict, Sweep, Remove, Evictable, Removing
    <3>2. QED
      BY <1>12, <3>1 DEF HasKept
  <2>3. CASE Evicted
    BY <1>12, <2>3 DEF Evicted, HasKept, Removing
  <2>4. CASE RemoveDir
    <3>1. stage \in Removing
      BY <1>1, <2>4 DEF RemoveDir, Listing, Removing
    <3>2. CASE Stops
      BY <1>5, <3>1, <3>2 DEF Stops, Removing
    <3>3. CASE victim' = {} /\ UNCHANGED <<stage, kept, candidates>>
      BY <1>12, <3>1, <3>3 DEF HasKept
    <3>4. QED
      BY <2>4, <3>2, <3>3 DEF RemoveDir
  <2>5. CASE Finish \/ \E r \in Runs : LeaseGone(r)
    BY <1>5, <2>5 DEF Finish, LeaseGone, Stops
  <2>6. CASE \/ (\E k \in Keys : Unlink(k)) \/ (\E log \in logs : Trim(log))
             \/ (\E p \in Parts : RemovePart(p))
    BY <1>3, <2>6 DEF Unlink, Trim, RemovePart, collector
  <2>7. QED
    BY <1>6, <1>7, <1>8, <1>9, <1>10, <1>11, <1>13, <2>1, <2>2, <2>3, <2>4, <2>5, <2>6
    DEF Collects
<1>14. CASE Killed
  BY <1>5, <1>14 DEF Killed, Stops
<1>15. CASE TimePasses
  BY <1>3, <1>15 DEF TimePasses, LeaseAges, LogsAge, collector
<1>16. CASE Publishes /\ UNCHANGED collector
  <2>1. exclusive \in BOOLEAN /\ exclusive' \in BOOLEAN
    BY <1>1, SoundStep DEF Sound, TypeOK, FilesOK
  <2>2. exclusive' = exclusive
    BY <1>1, <1>16, <2>1 DEF Locking, collector
  <2>3. QED
    BY <1>3, <1>16, <2>2 DEF collector
<1>17. QED
  BY <1>4, <1>13, <1>14, <1>15, <1>16 DEF Steps

(***************************************************************************)
(* An entry loses a part only in a step that removes the collector's       *)
(* victim.                                                                 *)
(***************************************************************************)
LEMMA OnlyVictims ==
  ASSUME Sound, Steps, NEW oh \in DOMAIN entries, oh \notin victim
  PROVE  oh \in DOMAIN entries' /\ entries[oh].parts \subseteq entries'[oh].parts
<1>1. FilesOK /\ Listing /\ entries[oh] \in EntryDir
  BY DEF Sound, TypeOK, FilesOK, PartialFun
<1>2. CASE Publishes
  BY <1>1, <1>2, EntriesGrow
<1>3. CASE entries' = entries
  BY <1>3
<1>4. CASE \E x \in Hashes : Evict(x) \/ Sweep(x)
  <2>1. PICK x \in Hashes : entries' = [entries EXCEPT ![x].sealed = FALSE]
    BY <1>4 DEF Evict, Sweep, Remove
  <2>2. QED
    BY <1>1, <2>1 DEF EntryDir
<1>5. CASE \E p \in Parts : RemovePart(p)
  <2>1. PICK x \in victim : \E p \in Parts : entries' = [entries EXCEPT ![x].parts = @ \ {p}]
    BY <1>5 DEF RemovePart
  <2>2. QED
    BY <1>1, <2>1
<1>6. CASE RemoveDir
  <2>1. PartialFun(entries, Hashes, EntryDir)
    BY <1>1 DEF FilesOK
  <2>2. /\ DOMAIN Drop(entries, victim) = DOMAIN entries \ victim
        /\ \A x \in DOMAIN entries \ victim : Drop(entries, victim)[x] = entries[x]
    BY <2>1, PutDrop
  <2>3. entries' = entries \/ entries' = Drop(entries, victim)
    BY <1>6 DEF RemoveDir
  <2>4. QED
    BY <2>2, <2>3
<1>7. CASE Killed \/ TimePasses \/ (\E l \in Levels : Start(l))
  BY <1>3, <1>7 DEF Killed, TimePasses, LeaseAges, LogsAge, Start
<1>8. CASE Collects
  BY <1>3, <1>4, <1>5, <1>6, <1>8
  DEF Collects, CollectRoots, CollectPins, ListLeases, ReadLease, Debris, LeaseGone,
      LeasesRead, Unlink, ListEntries, Evicted, Trim, Finish, files
<1>9. QED
  BY <1>2, <1>7, <1>8 DEF Steps

(***************************************************************************)
(* SteadySurvives of Store: nothing is removed from an entry that a root,  *)
(* a pin or a fresh lease has kept all the time the collector was reading  *)
(* them.                                                                   *)
(***************************************************************************)
THEOREM SteadyIsKept == Spec => SteadySurvives
<1> DEFINE Survives == \A p \in steady : LET oh == p[3] IN
                         oh \in DOMAIN entries =>
                           oh \in DOMAIN entries' /\ entries[oh].parts \subseteq entries'[oh].parts
<1>1. Init => HasKept
  BY DEF Init, NoCollector, HasKept, Reading, Removing
<1>2. Sound /\ HasKept /\ [Next]_vars => HasKept'
  <2>1. CASE Steps /\ Remembers
    BY <2>1, KeptStep
  <2>2. ASSUME HasKept, UNCHANGED vars PROVE HasKept'
    BY <2>2 DEF vars, files, collector, history, HasKept, Protections
  <2>3. QED
    BY <2>1, <2>2 DEF Next
<1>3. ASSUME Sound, HasKept, [Next]_vars PROVE [Survives]_vars
  <2>1. CASE Steps
    <3>1. ASSUME NEW p \in steady PROVE p[3] \notin victim
      <4>1. CASE stage \in Removing
        BY <1>3, <3>1, <4>1 DEF HasKept
      <4>2. CASE stage \notin Removing
        BY <1>3, <4>2 DEF Sound, Listing, Removing
      <4>3. QED
        BY <4>1, <4>2
    <3>2. QED
      BY <1>3, <2>1, <3>1, OnlyVictims
  <2>2. QED
    BY <1>3, <2>1 DEF Next
<1>4. QED
  BY <1>1, <1>2, <1>3, Soundness, PTL DEF Spec, SteadySurvives

-----------------------------------------------------------------------------
(***************************************************************************)
(* Why a removal that is not killed leaves no half: the collector has one  *)
(* victim at a time, and what it has listed of it to delete is all there   *)
(* is in it but for .atime.                                                *)
(***************************************************************************)
Dismantled ==
  /\ \A oh \in victim : entries[oh].parts \ doomed \subseteq {"atime"}
  /\ \A x, y \in victim : x = y

(***************************************************************************)
(* Every step keeps it, and only a kill of the collector leaves a half     *)
(* entry more: its victim.                                                 *)
(***************************************************************************)
LEMMA DismantledStep ==
  ASSUME Sound, Dismantled, Steps
  PROVE  /\ Dismantled'
         /\ \/ Half' \subseteq Half /\ kills' = kills
            \/ \E x : Half' \subseteq Half \cup {x} /\ kills' = kills + 1
<1> DEFINE Less == Half' \subseteq Half /\ kills' = kills
           More == \E x : Half' \subseteq Half \cup {x} /\ kills' = kills + 1
<1>1. FilesOK /\ Listing /\ kills \in Nat
  BY SweepBounds DEF Sound, TypeOK, CollectorOK
<1>2. /\ PartialFun(entries, Hashes, EntryDir)
      /\ \A x \in DOMAIN entries : entries[x] \in EntryDir
      /\ victim \subseteq DOMAIN entries
  BY <1>1 DEF FilesOK, PartialFun, Listing
<1>3. CASE UNCHANGED <<entries, victim, doomed, kills>>
  BY <1>3 DEF Dismantled, Half, Whole, HasManifest, HasData
<1>4. CASE Publishes /\ UNCHANGED collector
  <2>1. victim' = victim /\ doomed' = doomed /\ kills' = kills
    BY <1>4 DEF collector
  <2>2. \A oh \in DOMAIN entries : oh \in DOMAIN entries'
    BY <1>1, <1>4, EntriesGrow
  <2>3. Dismantled'
    <3>1. ASSUME NEW oh \in victim
          PROVE  entries'[oh].parts \in {entries[oh].parts, entries[oh].parts \cup {"atime"}}
      BY <1>2, <1>4, <2>2, <3>1, PartsGrow
    <3>2. QED
      BY <2>1, <3>1 DEF Dismantled
  <2>4. ASSUME NEW oh \in Half' PROVE oh \in Half
    <3>1. /\ oh \in DOMAIN entries' \ victim
          /\ {"manifest", "data"} \subseteq entries'[oh].parts => Whole(oh)'
          /\ ~Whole(oh)' /\ entries'[oh].parts # {"atime"}
      BY <2>1, <2>4 DEF Half, Whole, HasManifest, HasData
    <3>2. oh \in DOMAIN entries
      BY <1>4, <3>1, PartsGrow DEF HasManifest
    <3>3. entries[oh].parts # {"atime"}
      BY <1>4, <3>1, <3>2, PartsGrow DEF HasManifest
    <3>4. ~Whole(oh)
      <4>1. entries[oh].parts \subseteq entries'[oh].parts
        BY <1>1, <1>4, <3>2, EntriesGrow
      <4>2. QED
        BY <3>1, <4>1 DEF Whole, HasManifest, HasData
    <3>5. QED
      BY <3>1, <3>2, <3>3, <3>4 DEF Half
  <2>5. QED
    BY <2>1, <2>3, <2>4
<1>5. ASSUME NEW oh \in Hashes, Evict(oh) \/ Sweep(oh) PROVE Dismantled' /\ Less
  <2>1. /\ oh \in candidates /\ Remove(oh)
        /\ oh \in DOMAIN entries /\ victim = {}
    BY <1>1, <1>5 DEF Evict, Sweep, Evictable, Listing, Remove
  <2>2. /\ DOMAIN entries' = DOMAIN entries
        /\ \A x \in DOMAIN entries : entries'[x].parts = entries[x].parts
    BY <1>2, <2>1 DEF Remove, EntryDir
  <2>3. victim' = {oh} /\ doomed' = entries[oh].parts /\ kills' = kills
    BY <2>1 DEF Remove
  <2>4. Dismantled'
    BY <2>1, <2>2, <2>3 DEF Dismantled
  <2>5. Less
    BY <2>1, <2>2, <2>3 DEF Half, Whole, HasManifest, HasData
  <2>6. QED
    BY <2>4, <2>5
<1>6. ASSUME NEW p \in Parts, RemovePart(p) PROVE Dismantled' /\ Less
  <2>1. PICK oh \in victim : entries' = [entries EXCEPT ![oh].parts = @ \ {p}]
    BY <1>6 DEF RemovePart
  <2>2. victim' = victim /\ doomed' = doomed \ {p} /\ kills' = kills
    BY <1>6 DEF RemovePart
  <2>3. /\ DOMAIN entries' = DOMAIN entries /\ oh \in DOMAIN entries
        /\ entries'[oh].parts = entries[oh].parts \ {p}
        /\ \A x \in DOMAIN entries \ {oh} : entries'[x] = entries[x]
    BY <1>2, <2>1 DEF EntryDir
  <2>4. victim = {oh}
    BY DEF Dismantled
  <2>5. Dismantled'
    BY <2>2, <2>3, <2>4 DEF Dismantled
  <2>6. Less
    BY <2>2, <2>3, <2>4 DEF Half, Whole, HasManifest, HasData
  <2>7. QED
    BY <2>5, <2>6
<1>7. CASE RemoveDir
  <2>1. doomed = {} /\ kills' = kills /\ victim' = {}
    BY <1>7 DEF RemoveDir, Stops
  <2>2. Dismantled'
    BY <2>1 DEF Dismantled
  <2>3. CASE entries' = Drop(entries, victim)
    <3>1. /\ DOMAIN Drop(entries, victim) = DOMAIN entries \ victim
          /\ \A x \in DOMAIN entries \ victim : Drop(entries, victim)[x] = entries[x]
      BY <1>2, PutDrop
    <3>2. QED
      BY <2>1, <2>2, <2>3, <3>1 DEF Half, Whole, HasManifest, HasData
  <2>4. CASE entries' = entries /\ ~ \A oh \in victim : entries[oh].parts = {}
    <3>1. \A oh \in victim : entries[oh].parts = {"atime"}
      BY <2>1, <2>4 DEF Dismantled
    <3>2. QED
      BY <2>1, <2>2, <2>4, <3>1 DEF Half, Whole, HasManifest, HasData
  <2>5. QED
    BY <1>7, <2>3, <2>4 DEF RemoveDir
<1>8. CASE Killed
  <2>1. kills' = kills + 1 /\ victim' = {} /\ entries' = entries
    BY <1>8 DEF Killed, Stops
  <2>2. Half' \subseteq Half \cup victim
    BY <2>1 DEF Half, Whole, HasManifest, HasData
  <2>3. \E x : victim \subseteq {x}
    BY DEF Dismantled
  <2>4. QED
    BY <2>1, <2>2, <2>3 DEF Dismantled
<1>9. CASE Finish \/ \E r \in Runs : LeaseGone(r)
  <2>1. victim = {} /\ victim' = {} /\ entries' = entries /\ kills' = kills
    BY <1>1, <1>9 DEF Finish, LeaseGone, Stops, Listing
  <2>2. QED
    BY <2>1 DEF Dismantled, Half, Whole, HasManifest, HasData
<1>10. CASE \/ TimePasses \/ (\E l \in Levels : Start(l))
            \/ Debris \/ CollectRoots \/ CollectPins \/ ListLeases
            \/ (\E r \in Runs : ReadLease(r)) \/ LeasesRead
            \/ (\E k \in Keys : Unlink(k)) \/ ListEntries \/ Evicted
            \/ \E log \in logs : Trim(log)
  BY <1>3, <1>10
  DEF TimePasses, LeaseAges, LogsAge, Start, CollectRoots, CollectPins, ListLeases, ReadLease,
      Debris, LeasesRead, Unlink, ListEntries, Evicted, Trim, files, collector
<1> HIDE DEF Less, More
<1>11. Dismantled' /\ (Less \/ More)
  <2>1. Dismantled' /\ (Less \/ More) <=>
          /\ Dismantled'
          /\ \/ Half' \subseteq Half /\ kills' = kills
             \/ \E x : Half' \subseteq Half \cup {x} /\ kills' = kills + 1
    BY DEF Less, More
  <2>2. QED
    BY <1>4, <1>5, <1>6, <1>7, <1>8, <1>9, <1>10, <2>1 DEF Steps, Collects
<1>12. QED
  BY <1>11 DEF Less, More

(***************************************************************************)
(* NoHalfEntry of Store: no entry that the collector is not at is half, or *)
(* no more of them than calls of the collector have been killed.           *)
(***************************************************************************)
THEOREM EntriesAreWhole == Spec => []NoHalfEntry
<1>1. Init => Dismantled /\ NoHalfEntry
  <2>1. Init => Half = {} /\ victim = {} /\ kills = 0
    BY DEF Init, NoFiles, NoCollector, Half
  <2>2. QED
    BY <2>1, FS_EmptySet DEF Dismantled, NoHalfEntry
<1>2. ASSUME Sound, Dismantled, NoHalfEntry, [Next]_vars PROVE Dismantled' /\ NoHalfEntry'
  <2>1. kills \in Nat
    BY <1>2, SweepBounds DEF Sound, TypeOK, CollectorOK
  <2>2. IsFiniteSet(Half) /\ Cardinality(Half) <= kills
    BY <1>2 DEF NoHalfEntry
  <2>3. ASSUME NEW x, NEW S \in SUBSET (Half \cup {x})
        PROVE  IsFiniteSet(S) /\ Cardinality(S) <= kills + 1
    <3>1. /\ IsFiniteSet(Half \cup {x}) /\ Cardinality(Half) \in Nat
          /\ \/ Cardinality(Half \cup {x}) = Cardinality(Half)
             \/ Cardinality(Half \cup {x}) = Cardinality(Half) + 1
      BY <2>2, FS_AddElement, FS_CardinalityType
    <3>2. /\ IsFiniteSet(S) /\ Cardinality(S) \in Nat
          /\ Cardinality(S) <= Cardinality(Half \cup {x})
      BY <3>1, FS_Subset, FS_CardinalityType
    <3>3. QED
      BY <2>1, <2>2, <3>1, <3>2
  <2>4. ASSUME NEW S \in SUBSET Half PROVE IsFiniteSet(S) /\ Cardinality(S) <= kills
    BY <2>1, <2>2, FS_Subset, FS_CardinalityType
  <2>5. CASE Steps
    <3>1. Dismantled' /\ (\/ Half' \subseteq Half /\ kills' = kills
                          \/ \E x : Half' \subseteq Half \cup {x} /\ kills' = kills + 1)
      BY <1>2, <2>5, DismantledStep
    <3>2. QED
      BY <2>3, <2>4, <3>1 DEF NoHalfEntry
  <2>6. CASE UNCHANGED vars
    <3>1. UNCHANGED <<entries, victim, doomed, kills>>
      BY <2>6 DEF vars, files, collector
    <3>2. QED
      BY <1>2, <3>1 DEF Dismantled, NoHalfEntry, Half, Whole, HasManifest, HasData
  <2>7. QED
    BY <1>2, <2>5, <2>6 DEF Next
<1>3. QED
  BY <1>1, <1>2, Soundness, PTL DEF Spec

-----------------------------------------------------------------------------
(***************************************************************************)
(* Why the store is a MemoTable: what it has recorded is in past; and of   *)
(* the files only these steps change what the table shows, the rename of a *)
(* publish, its link, the end of a job, and the collector's removals.      *)
(***************************************************************************)
Recalled == \A k \in DOMAIN links : <<k, links[k]>> \in past

Content == { oh \in DOMAIN entries : Whole(oh) }

(***************************************************************************)
(* The steps of a run but for those change neither links nor contents nor  *)
(* what is held.                                                           *)
(***************************************************************************)
LEMMA SilentRuns ==
  ASSUME Sound, Publishes,
         ~ \E w \in Workers : Promote(w) \/ Link(w) \/ Apply(w)
  PROVE  links' = links /\ held' = held /\ Content' = Content
<1>1. links' = links
  BY DEF Publishes, Works, Pick, Lookup, ReadManifest, Open, Build, BuildFails, Lock, Dedup,
     Contract, Touch, Mark, Seal, Return, Generate, DropGeneration, Crash, AddRoot, files
<1>2. held' = held
  BY DEF Publishes, Works, Pick, Lookup, ReadManifest, Open, Build, BuildFails, Lock, Dedup,
     Contract, Touch, Mark, Seal, Return, Generate, DropGeneration, Crash, AddRoot, local
<1>3. DOMAIN entries' = DOMAIN entries
  BY DEF Publishes, Works, Pick, Lookup, ReadManifest, Open, Build, BuildFails, Lock, Dedup,
     Link, Contract, Apply, Touch, Mark, Seal, Return, Generate, DropGeneration, Crash,
     AddRoot, AddPart, files
<1>4. ASSUME NEW oh \in DOMAIN entries PROVE Whole(oh)' <=> Whole(oh)
  BY <1>3, PartsGrow DEF Whole, HasManifest, HasData
<1>5. QED
  BY <1>1, <1>2, <1>3, <1>4 DEF Content, Whole, HasManifest

(***************************************************************************)
(* What the collector removes is at most one content at a time, and a link *)
(* it removes leads to none.                                               *)
(***************************************************************************)
LEMMA CollectorDiscards ==
  ASSUME Sound, Dismantled, Collects \/ Killed \/ TimePasses \/ \E l \in Levels : Start(l)
  PROVE  /\ held' = held
         /\ \/ /\ links' = links
               /\ Content' = Content \/ \E oh \in Hashes : Content' = Content \ {oh}
            \/ /\ Content' = Content
               /\ \E k \in Keys : /\ k \in DOMAIN links /\ links[k] \notin Content
                                  /\ links' = Drop(links, {k})
<1> DEFINE Discards == /\ links' = links
                       /\ Content' = Content \/ \E oh \in Hashes : Content' = Content \ {oh}
           Forgets == /\ Content' = Content
                      /\ \E k \in Keys : /\ k \in DOMAIN links /\ links[k] \notin Content
                                         /\ links' = Drop(links, {k})
<1>1. FilesOK /\ Listing
  BY DEF Sound, TypeOK
<1>2. /\ PartialFun(entries, Hashes, EntryDir)
      /\ \A x \in DOMAIN entries : entries[x] \in EntryDir
      /\ victim \subseteq DOMAIN entries /\ DOMAIN entries \subseteq Hashes
  BY <1>1 DEF FilesOK, PartialFun, Listing
<1>3. held' = held
  BY CollectorLocking DEF Sound, TimePasses, local
<1>4. ASSUME links' = links, entries' = entries PROVE Discards
  BY <1>4 DEF Content, Whole, HasManifest, HasData
<1>5. ASSUME NEW oh \in Hashes, Evict(oh) \/ Sweep(oh) PROVE Discards
  <2>1. links' = links /\ entries' = [entries EXCEPT ![oh].sealed = FALSE]
    BY <1>5 DEF Evict, Sweep, Remove
  <2>2. /\ DOMAIN entries' = DOMAIN entries
        /\ \A x \in DOMAIN entries : entries'[x].parts = entries[x].parts
    BY <1>2, <2>1 DEF EntryDir
  <2>3. QED
    BY <2>1, <2>2 DEF Content, Whole, HasManifest, HasData
<1>6. ASSUME NEW p \in Parts, RemovePart(p) PROVE Discards
  <2>1. PICK oh \in victim : entries' = [entries EXCEPT ![oh].parts = @ \ {p}]
    BY <1>6 DEF RemovePart
  <2>2. /\ DOMAIN entries' = DOMAIN entries /\ oh \in Hashes /\ oh \in DOMAIN entries
        /\ entries'[oh].parts = entries[oh].parts \ {p}
        /\ \A x \in DOMAIN entries \ {oh} : entries'[x] = entries[x]
    BY <1>2, <2>1 DEF EntryDir
  <2>3. \A x \in DOMAIN entries : x # oh => (Whole(x)' <=> Whole(x))
    BY <2>2 DEF Whole, HasManifest, HasData
  <2>4. Whole(oh)' => Whole(oh)
    BY <2>2 DEF Whole, HasManifest, HasData
  <2>5. Content' = Content \/ Content' = Content \ {oh}
    <3>1. CASE Whole(oh)'
      BY <2>2, <2>3, <2>4, <3>1 DEF Content
    <3>2. CASE ~Whole(oh)'
      BY <2>2, <2>3, <3>2 DEF Content
    <3>3. QED
      BY <3>1, <3>2
  <2>6. QED
    BY <1>6, <2>2, <2>5 DEF RemovePart
<1>7. ASSUME RemoveDir PROVE Discards
  <2>1. links' = links
    BY <1>7 DEF RemoveDir
  <2>2. CASE entries' = Drop(entries, victim) /\ \A oh \in victim : entries[oh].parts = {}
    <3>1. /\ DOMAIN entries' = DOMAIN entries \ victim
          /\ \A x \in DOMAIN entries \ victim : entries'[x] = entries[x]
      <4>1. /\ DOMAIN Drop(entries, victim) = DOMAIN entries \ victim
            /\ \A x \in DOMAIN entries \ victim : Drop(entries, victim)[x] = entries[x]
        BY <1>2, PutDrop
      <4>2. QED
        BY <2>2, <4>1
    <3>2. \A x \in victim : ~Whole(x)
      BY <2>2 DEF Whole, HasManifest
    <3>3. Content' = Content
      BY <3>1, <3>2 DEF Content, Whole, HasManifest, HasData
    <3>4. QED
      BY <2>1, <3>3
  <2>3. QED
    BY <1>4, <1>7, <2>1, <2>2 DEF RemoveDir
<1>8. ASSUME NEW k \in Keys, Unlink(k) PROVE Forgets
  BY <1>8 DEF Unlink, Dangling, Content, Whole, HasManifest, HasData
<1>9. ASSUME \/ TimePasses \/ (\E l \in Levels : Start(l)) \/ Killed
             \/ Debris \/ CollectRoots \/ CollectPins \/ ListLeases
             \/ (\E r \in Runs : ReadLease(r) \/ LeaseGone(r)) \/ LeasesRead
             \/ ListEntries \/ Evicted \/ (\E log \in logs : Trim(log)) \/ Finish
      PROVE  Discards
  <2>1. links' = links /\ entries' = entries
    BY <1>9
    DEF TimePasses, LeaseAges, LogsAge, Start, Killed, CollectRoots, CollectPins, ListLeases,
        ReadLease, LeaseGone, Debris, LeasesRead, ListEntries, Evicted, Trim, Finish, files
  <2>2. QED
    BY <1>4, <2>1
<1> HIDE DEF Discards, Forgets
<1>10. Discards \/ Forgets
  BY <1>5, <1>6, <1>7, <1>8, <1>9 DEF Collects
<1>11. QED
  BY <1>3, <1>10 DEF Discards, Forgets

(***************************************************************************)
(* Each step of the store is one of the table, or none.                    *)
(***************************************************************************)
LEMMA TableStep ==
  ASSUME Sound, Dismantled, Recalled, Steps, Remembers
  PROVE  Recalled' /\ [Table!Next]_(Table!vars)
<1>1. FilesOK /\ LocalOK
  BY DEF Sound, TypeOK
<1>2. past' = past \cup { <<k, links'[k]>> : k \in DOMAIN links' }
  BY DEF Remembers
<1>3. Recalled'
  BY <1>2 DEF Recalled
<1> SUFFICES [Table!Next]_(Table!vars)
  BY <1>3
<1>4. links' = links => past' = past
  BY <1>2 DEF Recalled
<1>5. CASE links' = links /\ held' = held /\ Content' = Content
  BY <1>4, <1>5 DEF Table!vars, Content
<1>6. ASSUME NEW oh \in Hashes, Content' = Content \ {oh}, links' = links, held' = held
      PROVE  Table!Next
  BY <1>4, <1>6 DEF Table!Next, Table!Discard, Content
<1>7. ASSUME NEW w \in Workers, Promote(w) PROVE Table!Next \/ UNCHANGED Table!vars
  <2>1. links' = links /\ held' = held /\ Made(w) \in Hashes
    BY <1>1, <1>7, JobAfter DEF Promote
  <2>2. CASE entries' = entries
    BY <1>5, <2>1, <2>2 DEF Content, Whole, HasManifest, HasData
  <2>3. CASE entries' = Put(entries, Made(w),
                            [parts |-> {"manifest", "data"}, sealed |-> FALSE, key |-> Key(w)])
    <3>1. /\ DOMAIN entries' = DOMAIN entries \cup {Made(w)}
          /\ entries'[Made(w)].parts = {"manifest", "data"}
          /\ \A x \in DOMAIN entries : entries'[x] = entries[x]
      BY <1>7, <2>3 DEF Put, Promote
    <3>2. Content' = Content \cup {Made(w)}
      BY <3>1 DEF Content, Whole, HasManifest, HasData
    <3>3. QED
      BY <1>4, <2>1, <3>2 DEF Table!Next, Table!Store, Content
  <2>4. QED
    BY <1>7, <2>2, <2>3 DEF Promote
<1>8. ASSUME NEW w \in Workers, Link(w) PROVE Table!Next \/ UNCHANGED Table!vars
  <2>1. /\ entries' = entries /\ held' = held
        /\ Key(w) \in Keys /\ Made(w) \in Hashes /\ Whole(Made(w))
    BY <1>1, <1>8, JobAfter DEF Link, Sound, Working
  <2>2. Content' = Content /\ Made(w) \in Content
    BY <2>1 DEF Content, Whole, HasManifest, HasData
  <2>3. CASE links' = Put(links, Key(w), Made(w)) /\ Key(w) \notin DOMAIN links
    <3>1. past' = past \cup {<<Key(w), Made(w)>>}
      <4>1. /\ DOMAIN links' = DOMAIN links \cup {Key(w)} /\ links'[Key(w)] = Made(w)
            /\ \A k \in DOMAIN links : links'[k] = links[k]
        BY <2>3 DEF Put
      <4>2. QED
        BY <1>2, <4>1 DEF Recalled
    <3>2. Table!Record(Key(w), Made(w))
      BY <2>1, <2>2, <2>3, <3>1 DEF Table!Record, Put, Content
    <3>3. QED
      BY <2>1, <3>2 DEF Table!Next
  <2>4. CASE links' = Put(links, Key(w), Made(w)) /\ Key(w) \in DOMAIN links
    <3>1. links[Key(w)] = Made(w)
      BY <1>8, <2>4, LinksStay, <1>1 DEF Put
    <3>2. PartialFun(links, Keys, Hashes)
      BY <1>1 DEF FilesOK
    <3>3. links' = links
      BY <2>4, <3>1, <3>2 DEF Put, PartialFun
    <3>4. QED
      BY <1>5, <2>1, <2>2, <3>3
  <2>5. CASE links' = links
    BY <1>5, <2>1, <2>2, <2>5
  <2>6. QED
    BY <1>8, <2>3, <2>4, <2>5 DEF Link
<1>9. ASSUME NEW w \in Workers, Apply(w) PROVE Table!Next
  <2>1. /\ RunOf[w] \in Runs /\ Key(w) \in Keys /\ Taken(w) \in Hashes
        /\ <<Key(w), Taken(w)>> \in past
    BY <1>1, <1>9, JobAfter, RunOfAssumption
    DEF Sound, Working, Following, Apply, Taken, Memo
  <2>2. /\ UNCHANGED <<links, entries>>
        /\ held' = [held EXCEPT ![RunOf[w]] = @ \cup {<<Key(w), Taken(w)>>}]
    BY <1>9 DEF Apply
  <2>3. Content' = Content
    BY <2>2 DEF Content, Whole, HasManifest, HasData
  <2>4. Table!Answer(RunOf[w], Key(w), Taken(w))
    BY <1>4, <2>1, <2>2, <2>3 DEF Table!Answer, Content
  <2>5. QED
    BY <2>1, <2>4 DEF Table!Next
<1>10. ASSUME NEW k \in Keys, k \in DOMAIN links, links[k] \notin Content,
              links' = Drop(links, {k}), Content' = Content, held' = held
       PROVE  Table!Next
  <2>1. past' = past
    <3>1. DOMAIN links' \subseteq DOMAIN links /\ \A x \in DOMAIN links' : links'[x] = links[x]
      <4>1. PartialFun(links, Keys, Hashes)
        BY <1>1 DEF FilesOK
      <4>2. /\ DOMAIN Drop(links, {k}) = DOMAIN links \ {k}
            /\ \A x \in DOMAIN links \ {k} : Drop(links, {k})[x] = links[x]
        BY <4>1, PutDrop
      <4>3. QED
        BY <1>10, <4>2
    <3>2. QED
      BY <1>2, <3>1 DEF Recalled
  <2>2. Table!Forget(k)
    BY <1>10, <2>1 DEF Table!Forget, Drop, Restrict, Content
  <2>3. QED
    BY <2>2 DEF Table!Next
<1>11. CASE Publishes
  BY <1>5, <1>7, <1>8, <1>9, <1>11, SilentRuns
<1>12. CASE Collects \/ Killed \/ TimePasses \/ \E l \in Levels : Start(l)
  <2>1. held' = held
    BY <1>12, CollectorDiscards
  <2>2. CASE /\ links' = links
             /\ Content' = Content \/ \E oh \in Hashes : Content' = Content \ {oh}
    BY <1>5, <1>6, <2>1, <2>2
  <2>3. CASE /\ Content' = Content
             /\ \E k \in Keys : /\ k \in DOMAIN links /\ links[k] \notin Content
                                /\ links' = Drop(links, {k})
    BY <1>10, <2>1, <2>3
  <2>4. QED
    BY <1>12, <2>2, <2>3, CollectorDiscards
<1>13. QED
  BY <1>11, <1>12 DEF Steps

(***************************************************************************)
(* Memoizes of Store: the store implements MemoTable.  Links are made only *)
(* to whole entries, never change and go only after their entries; and     *)
(* jobs hold what links have said.                                         *)
(***************************************************************************)
THEOREM IsMemoTable == Spec => Memoizes
<1> DEFINE Inv == Dismantled /\ Recalled
<1>1. Init => Inv /\ Table!Init
  BY DEF Init, NoFiles, NoRuns, NoCollector, Dismantled, Recalled, Table!Init
<1>2. Sound /\ Inv /\ [Next]_vars => Inv' /\ [Table!Next]_(Table!vars)
  <2>1. CASE Steps /\ Remembers
    BY <2>1, TableStep, DismantledStep
  <2>2. ASSUME Inv, UNCHANGED vars PROVE Inv' /\ UNCHANGED Table!vars
    BY <2>2 DEF vars, files, local, collector, history, Dismantled, Recalled, Table!vars,
       Whole, HasManifest, HasData
  <2>3. QED
    BY <2>1, <2>2 DEF Next
<1>3. QED
  BY <1>1, <1>2, Soundness, PTL DEF Spec, Memoizes, Table!Spec

-----------------------------------------------------------------------------
(***************************************************************************)
(* Where a job's output comes from.  No run states these two.              *)
(*                                                                         *)
(* What a run holds for a job is an output the job's own command gives,    *)
(* whether it was built or found, and it has what the job declares, unless *)
(* the collector has taken the key off the table: then a job that has      *)
(* built one content may be held against the content another has linked    *)
(* in between (dispatch_argv_job, apply_outcome).                          *)
(***************************************************************************)
HeldIsBuilt ==
  \A r \in Runs : \A h \in held[r] :
    /\ h[2] \in Yields[h[1]]
    /\ h[1] \notin unlinked => h[2] \notin Lacking

(***************************************************************************)
(* Where commands are deterministic no job is failed for a determinism     *)
(* violation, whoever else builds, collects or is killed (step 6 of        *)
(* publish).                                                               *)
(***************************************************************************)
Deterministic == \A k \in Keys : \A g, h \in Yields[k] : g = h

NoFalseAlarm == Deterministic => \A w \in Workers : result[w] # "violation"

(***************************************************************************)
(* The inductive invariant: all a worker makes, follows or links is an     *)
(* output of its job.                                                      *)
(***************************************************************************)
Own(w) ==
  /\ At(w) \in {"lock"} \cup Locked \/ job[w].built => Made(w) \in Yields[Key(w)]
  /\ At(w) \in Following => Seen(w) \in Yields[Key(w)]
  /\ At(w) = "apply" /\ Key(w) \notin unlinked => Taken(w) \notin Lacking
  /\ result[w] = "violation" => ~Deterministic

LinksOwn == \A k \in DOMAIN links : links[k] \in Yields[k]

Born == LinksOwn /\ HeldIsBuilt /\ \A w \in Workers : Own(w)

(***************************************************************************)
(* Only publish adds a link.                                               *)
(***************************************************************************)
LEMMA LinksOwnStep ==
  ASSUME Sound, Born, Steps, Remembers
  PROVE  LinksOwn'
<1>1. FilesOK /\ LocalOK
  BY DEF Sound, TypeOK
<1>2. \A k \in DOMAIN links : links[k] \in Yields[k] /\ (k \in DOMAIN links' => links'[k] = links[k])
  BY <1>1, LinksStay DEF Born, LinksOwn
<1>3. CASE DOMAIN links' \subseteq DOMAIN links
  BY <1>2, <1>3 DEF LinksOwn
<1>4. ASSUME NEW w \in Workers, Link(w) PROVE LinksOwn'
  <2>1. Made(w) \in Yields[Key(w)]
    BY <1>4 DEF Link, Born, Own, Locked
  <2>2. links' = links \/ links' = Put(links, Key(w), Made(w))
    BY <1>4 DEF Link
  <2>3. QED
    BY <1>2, <2>1, <2>2 DEF LinksOwn, Put
<1>5. ASSUME ~ \E w \in Workers : Link(w) PROVE DOMAIN links' \subseteq DOMAIN links
  <2>1. ASSUME Publishes PROVE links' = links
    <3>1. ASSUME NEW w \in Workers, Works(w) \/ (\E k \in Keys : Pick(w, k)) PROVE links' = links
      BY <1>5, <3>1
      DEF Works, Pick, Lookup, ReadManifest, Open, Build, BuildFails, Lock, Dedup, Contract,
          Apply, Touch, Promote, Mark, Seal, files
    <3>2. ASSUME NEW r \in Runs, \/ Return(r) \/ Generate(r) \/ DropGeneration(r) \/ Crash(r)
                                 \/ \E oh \in Hashes : AddRoot(r, oh)
          PROVE  links' = links
      BY <3>2 DEF Return, Generate, DropGeneration, Crash, AddRoot, files
    <3>3. QED
      BY <2>1, <3>1, <3>2 DEF Publishes
  <2>2. ASSUME NEW k \in Keys, Unlink(k) PROVE DOMAIN links' \subseteq DOMAIN links
    BY <1>1, <2>2, PutDrop DEF Unlink, FilesOK
  <2>3. CASE Collects /\ ~ \E k \in Keys : Unlink(k)
    BY <2>3
    DEF Collects, Debris, CollectRoots, CollectPins, ListLeases, ReadLease, LeaseGone, LeasesRead,
        ListEntries, Evict, Sweep, Remove, Evicted, Trim, RemovePart, RemoveDir, Finish, files
  <2>4. CASE Killed \/ TimePasses \/ \E l \in Levels : Start(l)
    BY <2>4 DEF Killed, TimePasses, LeaseAges, LogsAge, Start
  <2>5. QED
    BY <2>1, <2>2, <2>3, <2>4 DEF Steps
<1>6. QED
  BY <1>3, <1>4, <1>5

(***************************************************************************)
(* A worker that goes on keeps its key; one whose job ends has none.       *)
(***************************************************************************)
LEMMA EndedOwn ==
  ASSUME LocalOK, NEW w \in Workers, NEW how, Ends(w, how), how = "violation" => ~Deterministic,
         Deterministic' = Deterministic
  PROVE  Own(w)'
<1>1. job'[w] = NoJob /\ result'[w] = how
  BY DEF Ends, LocalOK
<1>2. QED
  BY <1>1 DEF Own, At, NoJob, Locked, Following

LEMMA GoesOwn ==
  ASSUME LocalOK, NEW w \in Workers
  PROVE  /\ \A there : Goes(w, there) =>
              /\ At(w)' = there /\ Taken(w)' = Taken(w)
              /\ Key(w)' = Key(w) /\ Seen(w)' = Seen(w) /\ Made(w)' = Made(w)
              /\ job'[w].built = job[w].built
         /\ \A there : Continues(w, there) => Goes(w, there) /\ result' = result
<1>1. ASSUME NEW there, Goes(w, there) PROVE Taken(w)' = Taken(w)
  BY <1>1, JobAfter DEF Taken
<1>2. QED
  BY <1>1, JobAfter DEF Continues

(***************************************************************************)
(* Each step of a job leaves it with outputs of its own.                   *)
(***************************************************************************)
LEMMA OwnStep ==
  ASSUME Sound, Born, Steps, Remembers, NEW w \in Workers, Works(w) \/ \E k \in Keys : Pick(w, k)
  PROVE  Own(w)'
<1>1. FilesOK /\ LocalOK /\ Working(w) /\ Own(w) /\ LinksOwn
  BY DEF Sound, TypeOK, Born
<1>2. /\ job \in [Workers -> JobRecord] /\ result \in [Workers -> Results]
      /\ Key(w) \in Keys /\ unlinked \subseteq unlinked'
  BY <1>1, JobAfter DEF LocalOK, JobRecord, Remembers
<1>3. Deterministic' = Deterministic
  BY DEF Deterministic
<1>4. ASSUME NEW k \in Keys, Pick(w, k) PROVE Own(w)'
  <2>1. job'[w] = [NoJob EXCEPT !.at = "lookup", !.key = k] /\ result'[w] = "none"
    BY <1>2, <1>4 DEF Pick
  <2>2. At(w)' = "lookup" /\ job'[w].built = FALSE
    BY <2>1 DEF At, NoJob
  <2>3. QED
    BY <2>1, <2>2 DEF Own, Locked, Following
<1>5. CASE Lookup(w)
  <2>1. CASE Key(w) \in DOMAIN links
    <3>1. /\ At(w)' = "manifest" /\ Seen(w)' = links[Key(w)] /\ Key(w)' = Key(w)
          /\ Made(w)' = Made(w) /\ job'[w].built = job[w].built /\ result' = result
      BY <1>2, <1>5, <2>1 DEF Lookup, At, Seen, Key, Made, JobRecord
    <3>2. links[Key(w)] \in Yields[Key(w)]
      BY <1>1, <2>1 DEF LinksOwn
    <3>3. QED
      BY <1>1, <1>3, <3>1, <3>2 DEF Own, Locked, Following
  <2>2. CASE Ends(w, "corrupt")
    BY <1>1, <1>3, <2>2, EndedOwn
  <2>3. CASE Continues(w, "open")
    BY <1>1, <1>3, <2>3, GoesOwn DEF Own, Locked, Following
  <2>4. QED
    BY <1>5, <2>1, <2>2, <2>3 DEF Lookup
<1>6. CASE ReadManifest(w)
  <2>1. CASE Ends(w, "corrupt")
    BY <1>1, <1>3, <2>1, EndedOwn
  <2>2. CASE Continues(w, "touch")
    BY <1>1, <1>3, <1>6, <2>2, GoesOwn DEF ReadManifest, Own, Locked, Following
  <2>3. QED
    BY <1>6, <2>1, <2>2 DEF ReadManifest
<1>7. CASE Touch(w) \/ Open(w) \/ Lock(w) \/ Mark(w)
  BY <1>1, <1>3, <1>7, GoesOwn DEF Touch, Open, Lock, Mark, Own, Locked, Following
<1>8. ASSUME NEW oh \in Hashes, Build(w, oh) PROVE Own(w)'
  <2>1. /\ At(w)' = "lock" /\ Made(w)' = oh /\ Key(w)' = Key(w)
        /\ result' = result /\ oh \in Yields[Key(w)]
    BY <1>2, <1>8 DEF Build, At, Key, Made, JobRecord
  <2>2. QED
    BY <1>1, <1>3, <2>1 DEF Own, Locked, Following
<1>9. CASE BuildFails(w)
  <2>1. Ends(w, IF <<Key(w), w>> \in logs THEN "failed" ELSE "nolog")
    BY <1>9 DEF BuildFails
  <2>2. QED
    BY <1>1, <1>3, <2>1, EndedOwn
<1>10. CASE Promote(w) \/ Dedup(w) \/ Seal(w)
  <2>1. CASE Ends(w, "corrupt")
    BY <1>1, <1>3, <2>1, EndedOwn
  <2>2. ASSUME NEW there \in {"seal", "chmod", "link"}, Continues(w, there) PROVE Own(w)'
    BY <1>1, <1>3, <1>10, <2>2, GoesOwn DEF Promote, Dedup, Seal, Own, Locked, Following
  <2>3. QED
    BY <1>10, <2>1, <2>2 DEF Promote, Dedup, Seal
<1>11. CASE Link(w)
  <2>1. Made(w) \in Yields[Key(w)]
    BY <1>1, <1>11 DEF Link, Own, Locked
  <2>2. CASE Key(w) \notin DOMAIN links \/ links[Key(w)] = Made(w)
    <3>1. /\ At(w)' = "lookup" /\ Made(w)' = Made(w) /\ Key(w)' = Key(w) /\ result' = result
      BY <1>2, <1>11, <2>2 DEF Link, At, Key, Made, JobRecord
    <3>2. QED
      BY <1>1, <1>3, <2>1, <3>1 DEF Own, Locked, Following
  <2>3. CASE Ends(w, Violation(w)) /\ Key(w) \in DOMAIN links /\ links[Key(w)] # Made(w)
    <3>1. ~Deterministic
      BY <1>1, <1>2, <2>1, <2>3 DEF LinksOwn, Deterministic
    <3>2. QED
      BY <1>1, <1>3, <2>3, <3>1, EndedOwn
  <2>4. QED
    BY <1>11, <2>2, <2>3 DEF Link
<1>12. CASE Contract(w)
  <2>1. CASE Ends(w, "failed")
    BY <1>1, <1>3, <2>1, EndedOwn
  <2>2. CASE Continues(w, "apply") /\ Seen(w) \notin Lacking
    <3>1. Memo(Key(w), Seen(w)) /\ (job[w].built => Memo(Key(w), Made(w)))
      BY <1>1, <1>12 DEF Contract, Working, Following
    <3>2. Key(w) \notin unlinked => Taken(w) \notin Lacking
      BY <2>2, <3>1 DEF Memo, Taken
    <3>3. QED
      BY <1>1, <1>2, <1>3, <1>12, <2>2, <3>2, GoesOwn DEF Contract, Own, Locked, Following
  <2>3. QED
    BY <1>12, <2>1, <2>2 DEF Contract
<1>13. CASE Apply(w)
  <2>1. job'[w] = NoJob /\ result'[w] \in {"built", "hit"}
    BY <1>2, <1>13 DEF Apply
  <2>2. QED
    BY <2>1 DEF Own, At, NoJob, Locked, Following
<1>14. QED
  BY <1>4, <1>5, <1>6, <1>7, <1>8, <1>9, <1>10, <1>11, <1>12, <1>13 DEF Works

(***************************************************************************)
(* A job that completes hands its output over; nothing else adds to what   *)
(* is held.                                                                *)
(***************************************************************************)
LEMMA BornStep ==
  ASSUME Sound, Born, Steps, Remembers
  PROVE  Born'
<1>1. FilesOK /\ LocalOK /\ held \in [Runs -> SUBSET (Keys \X Hashes)]
  BY DEF Sound, TypeOK, LocalOK
<1>2. /\ job \in [Workers -> JobRecord] /\ result \in [Workers -> Results]
      /\ unlinked \subseteq unlinked' /\ Deterministic' = Deterministic
  BY <1>1 DEF LocalOK, JobRecord, Remembers, Deterministic
<1>3. ASSUME NEW v \in Workers, job'[v] = job[v], result'[v] = result[v] PROVE Own(v)'
  <2>1. /\ At(v)' = At(v) /\ Key(v)' = Key(v) /\ Seen(v)' = Seen(v) /\ Made(v)' = Made(v)
        /\ job'[v].built = job[v].built /\ Taken(v)' = Taken(v) /\ Own(v)
    BY <1>3 DEF At, Key, Seen, Made, Taken, Born
  <2>2. QED
    BY <1>2, <1>3, <2>1 DEF Own
<1>4. ASSUME NEW w \in Workers, Works(w) \/ (\E k \in Keys : Pick(w, k)),
             NEW v \in Workers \ {w}
      PROVE  Own(v)'
  <2>1. job'[v] = job[v]
    BY <1>1, <1>4, OthersStay
  <2>2. result'[v] = result[v]
    BY <1>2, <1>4
    DEF Works, Pick, Lookup, ReadManifest, Open, Build, BuildFails, Lock, Dedup, Contract,
        Apply, Touch, Promote, Mark, Seal, Link, Continues, Ends
  <2>3. QED
    BY <1>3, <2>1, <2>2
<1>5. \A w \in Workers : Own(w)'
  <2>1. CASE \E w \in Workers : Works(w) \/ \E k \in Keys : Pick(w, k)
    BY <1>4, <2>1, OwnStep
  <2>2. CASE Collects \/ Killed \/ (\E l \in Levels : Start(l)) \/ TimePasses
    <3>1. job' = job /\ result' = result
      BY <2>2, CollectorLocking DEF Sound, TimePasses, local
    <3>2. QED
      BY <1>3, <3>1
  <2>3. ASSUME NEW r \in Runs, \/ Return(r) \/ Generate(r) \/ DropGeneration(r)
                               \/ \E oh \in Hashes : AddRoot(r, oh)
        PROVE  \A w \in Workers : Own(w)'
    <3>1. job' = job /\ result' = result
      BY <2>3 DEF Return, Generate, DropGeneration, AddRoot, local
    <3>2. QED
      BY <1>3, <3>1
  <2>4. ASSUME NEW r \in Runs, Crash(r), NEW w \in Workers PROVE Own(w)'
    <3>1. result' = result /\ (job'[w] = job[w] \/ job'[w] = [NoJob EXCEPT !.at = "dead"])
      BY <2>4 DEF Crash
    <3>2. CASE job'[w] = [NoJob EXCEPT !.at = "dead"]
      <4>1. At(w)' = "dead" /\ job'[w].built = FALSE
        BY <3>2 DEF At, NoJob
      <4>2. QED
        BY <1>2, <3>1, <4>1 DEF Born, Own, Locked, Following
    <3>3. QED
      BY <1>3, <3>1, <3>2
  <2>5. QED
    BY <2>1, <2>2, <2>3, <2>4 DEF Steps, Publishes
<1>6. HeldIsBuilt'
  <2>1. CASE held' = held
    BY <1>2, <2>1 DEF Born, HeldIsBuilt
  <2>2. ASSUME NEW w \in Workers, Apply(w) PROVE HeldIsBuilt'
    <3>1. At(w) = "apply" /\ Own(w) /\ Key(w) \in Keys /\ Taken(w) \in Hashes
      BY <1>1, <2>2, JobAfter DEF Apply, Born, Taken
    <3>2. /\ Taken(w) \in Yields[Key(w)]
          /\ Key(w) \notin unlinked => Taken(w) \notin Lacking
      BY <3>1 DEF Own, Taken, Following
    <3>3. \A r \in Runs : held'[r] = held[r] \/ held'[r] = held[r] \cup {<<Key(w), Taken(w)>>}
      BY <1>1, <2>2 DEF Apply
    <3>4. ASSUME NEW h, h = <<Key(w), Taken(w)>>
          PROVE  h[2] \in Yields[h[1]] /\ (h[1] \notin unlinked' => h[2] \notin Lacking)
      BY <1>2, <3>2, <3>4
    <3>5. QED
      BY <1>2, <3>3, <3>4 DEF Born, HeldIsBuilt
  <2>3. QED
    BY <2>1, <2>2, HeldOnlyByApply
<1>7. QED
  BY <1>5, <1>6, LinksOwnStep DEF Born

LEMMA BornAlways == Spec => []Born
<1>1. Init => Born
  BY DEF Init, NoFiles, NoRuns, NoJob, Born, LinksOwn, HeldIsBuilt, Own, At, Locked, Following
<1>2. Sound /\ Born /\ [Next]_vars => Born'
  <2>1. CASE Steps /\ Remembers
    BY <2>1, BornStep
  <2>2. ASSUME Born, UNCHANGED vars PROVE Born'
    BY <2>2 DEF vars, files, local, history, Born, LinksOwn, HeldIsBuilt, Own, At, Key, Made,
       Seen, Taken, Deterministic
  <2>3. QED
    BY <2>1, <2>2 DEF Next
<1>3. QED
  BY <1>1, <1>2, Soundness, PTL DEF Spec

(***************************************************************************)
(* HeldIsBuilt: what a run holds is an output of the job, and complete     *)
(* unless the key was taken off the table, however many runs, kills and    *)
(* collections there are.                                                  *)
(***************************************************************************)
THEOREM HeldAreOutputs == Spec => []HeldIsBuilt
<1>1. Born => HeldIsBuilt
  BY DEF Born
<1>2. QED
  BY <1>1, BornAlways, PTL

(***************************************************************************)
(* NoFalseAlarm: only a command that gives one output here and another     *)
(* there is ever reported.                                                 *)
(***************************************************************************)
THEOREM AlarmsAreTrue == Spec => []NoFalseAlarm
<1>1. Born => NoFalseAlarm
  BY DEF Born, Own, NoFalseAlarm
<1>2. QED
  BY <1>1, BornAlways, PTL
=============================================================================
