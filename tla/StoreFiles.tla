----------------------------- MODULE StoreFiles -----------------------------
(***************************************************************************)
(* The files of one ppg3 store (crates/ppg3-core/src/store.rs, lease.rs),  *)
(* shared by the processes that publish into it (Publisher), the garbage   *)
(* collector (Collector) and composed in Store.                            *)
(*                                                                         *)
(*   inputs/<ik>   links: input key -> output hash, the memo table         *)
(*   entries/<oh>  entries: output hash -> what its directory holds        *)
(*   staging/      builds in progress, and what failed or killed ones left *)
(*   logs/<ik>/    one directory per build of the key                      *)
(*   leases/       what a live run keeps from the collector                *)
(*   roots/, pins/ what generations and pins keep from it                  *)
(*   gc.lock       shared for a publish, exclusive for the collector       *)
(*                                                                         *)
(* An output hash is the hash of the content, so one hash is one content   *)
(* (no collision of blake3).  Time only shows as "idle": a lease, or the   *)
(* log directory of a key, not touched for longer than 30 minutes.         *)
(***************************************************************************)
EXTENDS Naturals, FiniteSets, Functions

CONSTANTS
  Keys,      \* input keys
  Hashes,    \* output hashes
  Workers,   \* worker threads of all runs
  Runs,      \* coordinating processes
  RunOf      \* the run each worker belongs to

ASSUME NamesAssumption == Keys # {} /\ Hashes # {}
ASSUME RunOfAssumption == RunOf \in [Workers -> Runs]

VARIABLES
  entries,   \* entries/<oh>: the parts there are, read-only or not, whose key
  links,     \* inputs/<ik>
  staging,   \* staging directories: <<worker, "current">> or <<worker, "left">>
  logs,      \* <<key, worker>>: the worker's directory under logs/<ik>/
  idleLogs,  \* keys whose logs/<ik> has not been touched for 30 minutes
  leases,    \* run -> the hashes its lease file protects, fresh or stale
  roots,     \* <<run, hash>>: the hash is a root of the generation of the run
  pins,      \* key -> hash: the pin of the jobs with this key (see Retain)
  shared,    \* workers that hold gc.lock in shared mode
  exclusive  \* the collector holds gc.lock

files == <<entries, links, staging, logs, idleLogs, leases, roots, pins, shared, exclusive>>

(***************************************************************************)
(* The data of an entry, its manifest, the evict marker and the .atime     *)
(* file are written and deleted one by one.                                *)
(***************************************************************************)
Parts == {"manifest", "data", "evict", "atime"}
EntryDir == [parts : SUBSET Parts, sealed : BOOLEAN, key : Keys]

PartialFun(f, S, T) == DOMAIN f \subseteq S /\ f \in [DOMAIN f -> T]

Put(f, x, v)  == [ y \in DOMAIN f \cup {x} |-> IF y = x THEN v ELSE f[y] ]
Drop(f, gone) == Restrict(f, DOMAIN f \ gone)

AddPart(oh, p) == [entries EXCEPT ![oh].parts = @ \cup {p}]

HasManifest(oh) == oh \in DOMAIN entries /\ "manifest" \in entries[oh].parts
HasData(oh)     == oh \in DOMAIN entries /\ "data" \in entries[oh].parts
Whole(oh)       == HasManifest(oh) /\ HasData(oh)

(***************************************************************************)
(* What keeps an entry from the collector: roots, pins and fresh leases.   *)
(***************************************************************************)
Protections ==
  { <<"root", root[1], root[2]>> : root \in roots }
  \cup { <<"pin", k, pins[k]>> : k \in DOMAIN pins }
  \cup UNION { { <<"lease", r, oh>> : oh \in leases[r].protects } :
                r \in { q \in DOMAIN leases : leases[q].fresh } }

NoFiles ==
  /\ entries = << >> /\ links = << >> /\ staging = {} /\ logs = {} /\ idleLogs = {}
  /\ leases = [ r \in Runs |-> [protects |-> {}, fresh |-> TRUE] ]
  /\ roots = {} /\ pins = << >>
  /\ shared = {} /\ exclusive = FALSE

FilesOK ==
  /\ PartialFun(entries, Hashes, EntryDir)
  /\ PartialFun(links, Keys, Hashes)
  /\ staging \subseteq Workers \X {"current", "left"}
  /\ logs \subseteq Keys \X Workers
  /\ idleLogs \subseteq Keys
  /\ PartialFun(leases, Runs, [protects : SUBSET Hashes, fresh : BOOLEAN])
  /\ roots \subseteq Runs \X Hashes
  /\ PartialFun(pins, Keys, Hashes)
  /\ shared \subseteq Workers
  /\ exclusive \in BOOLEAN

(***************************************************************************)
(* Time passes: a lease file, or the log directory of a key, crosses the   *)
(* 30 minutes.  (Nothing in the code refreshes a lease but protect.)       *)
(***************************************************************************)
LeaseAges(r) ==
  /\ r \in DOMAIN leases /\ leases[r].fresh
  /\ leases' = [leases EXCEPT ![r].fresh = FALSE]
  /\ UNCHANGED <<entries, links, staging, logs, idleLogs, roots, pins, shared, exclusive>>

LogsAge(k) ==
  /\ k \notin idleLogs
  /\ \E log \in logs : log[1] = k
  /\ idleLogs' = idleLogs \cup {k}
  /\ UNCHANGED <<entries, links, staging, logs, leases, roots, pins, shared, exclusive>>
=============================================================================
