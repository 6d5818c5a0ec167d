------------------------------ MODULE Collector -----------------------------
(***************************************************************************)
(* The garbage collector of a store (crates/ppg3-core/src/gc.rs, run).     *)
(* It holds gc.lock exclusively; publishers wait, but look-ups, leases,    *)
(* pins and roots take no lock and go on beside it.  Sizes and access      *)
(* times are left out: at the default level the sweep may stop anywhere    *)
(* (the budget is met) and visit the unrooted entries in any order.        *)
(***************************************************************************)
EXTENDS Publisher

CONSTANTS
  Levels,     \* levels the collector is called with
  MaxSweeps,  \* bound: calls
  MaxKills    \* bound: calls that are killed

FailedOnly == 0
Minimal    == 1
Default    == 2
Aggressive == 3
Reset      == 4

ASSUME LevelsAssumption == Levels \subseteq FailedOnly .. Reset
ASSUME SweepBounds == MaxSweeps \in Nat /\ MaxKills \in Nat

VARIABLES
  stage,       \* where the collector is
  level,       \* the level of this call
  kept,        \* the roots it has collected: hashes it will not remove
  unread,      \* lease files listed and not yet read
  candidates,  \* unrooted entries it has listed and not yet visited
  victim,      \* the entry it is removing, if any
  doomed,      \* parts of the victim still to be deleted
  sweeps,      \* calls made
  kills        \* calls killed

collector == <<stage, level, kept, unread, candidates, victim, doomed, sweeps, kills>>

NoCollector ==
  /\ stage = "idle" /\ level = FailedOnly
  /\ kept = {} /\ unread = {} /\ candidates = {} /\ victim = {} /\ doomed = {}
  /\ sweeps = 0 /\ kills = 0

-----------------------------------------------------------------------------
Start(l) ==
  /\ stage = "idle" /\ sweeps < MaxSweeps
  /\ shared = {}
  /\ exclusive' = TRUE
  /\ stage' = "debris" /\ level' = l /\ sweeps' = sweeps + 1
  /\ UNCHANGED <<entries, links, staging, logs, idleLogs, leases, roots, pins, shared,
                 local, kept, unread, candidates, victim, doomed, kills>>

\* Mutant: all of staging is debris.
DebrisAll ==
  /\ stage = "debris"
  /\ staging' = {}
  /\ leases' = Drop(leases, { r \in DOMAIN leases : ~leases[r].fresh })
  /\ pins' = IF level >= Reset THEN << >> ELSE pins
  /\ stage' = "roots"
  /\ UNCHANGED <<entries, links, logs, idleLogs, roots, shared, exclusive, local,
                 level, kept, unread, candidates, victim, doomed, sweeps, kills>>

(***************************************************************************)
(* Phase A: staging directories of processes that are gone, stale lease    *)
(* files; at the reset level all pins.                                     *)
(***************************************************************************)
Debris ==
  /\ stage = "debris"
  /\ staging' = { dir \in staging : Alive(RunOf[dir[1]]) }
  /\ leases' = Drop(leases, { r \in DOMAIN leases : ~leases[r].fresh })
  /\ pins' = IF level >= Reset THEN << >> ELSE pins
  /\ stage' = "roots"
  /\ UNCHANGED <<entries, links, logs, idleLogs, roots, shared, exclusive, local,
                 level, kept, unread, candidates, victim, doomed, sweeps, kills>>

\* Mutant: the links are collected and not what they lead to.
CollectRootLinks ==
  /\ stage = "roots"
  /\ kept' = roots
  /\ stage' = "pins"
  /\ UNCHANGED <<files, local, level, unread, candidates, victim, doomed, sweeps, kills>>

(***************************************************************************)
(* What is kept is read in three goes: the roots, the pins, and the leases *)
(* one file at a time.  Runs come and go meanwhile.                        *)
(***************************************************************************)
CollectRoots ==
  /\ stage = "roots"
  /\ kept' = { root[2] : root \in roots }
  /\ stage' = "pins"
  /\ UNCHANGED <<files, local, level, unread, candidates, victim, doomed, sweeps, kills>>

\* Mutant: the pins take the place of the roots.
CollectPinsOnly ==
  /\ stage = "pins"
  /\ kept' = { pins[k] : k \in DOMAIN pins }
  /\ stage' = "leases"
  /\ UNCHANGED <<files, local, level, unread, candidates, victim, doomed, sweeps, kills>>

CollectPins ==
  /\ stage = "pins"
  /\ kept' = kept \cup { pins[k] : k \in DOMAIN pins }
  /\ stage' = "leases"
  /\ UNCHANGED <<files, local, level, unread, candidates, victim, doomed, sweeps, kills>>

ListLeases ==
  /\ stage = "leases"
  /\ unread' = DOMAIN leases
  /\ stage' = "reading"
  /\ UNCHANGED <<files, local, level, kept, candidates, victim, doomed, sweeps, kills>>

(***************************************************************************)
(* The call ends, with an error or without: the lock is released, and the  *)
(* variables of the function are gone.                                     *)
(***************************************************************************)
Stops ==
  /\ stage' = "idle" /\ level' = FailedOnly
  /\ kept' = {} /\ unread' = {} /\ candidates' = {} /\ victim' = {} /\ doomed' = {}
  /\ exclusive' = FALSE

\* Mutant: the loop over the lease files does not advance.
ReadLeaseAgain(r) ==
  /\ stage = "reading" /\ r \in unread
  /\ unread' = unread
  /\ kept' = IF r \in DOMAIN leases /\ leases[r].fresh
             THEN kept \cup leases[r].protects ELSE kept
  /\ UNCHANGED <<files, local, stage, level, candidates, victim, doomed, sweeps, kills>>

(***************************************************************************)
(* A listed lease file whose run has ended meanwhile is skipped, or fails  *)
(* the call, depending on when it goes.                                    *)
(***************************************************************************)
ReadLease(r) ==
  /\ stage = "reading" /\ r \in unread
  /\ unread' = unread \ {r}
  /\ kept' = IF r \in DOMAIN leases /\ leases[r].fresh
             THEN kept \cup leases[r].protects ELSE kept
  /\ UNCHANGED <<files, local, stage, level, candidates, victim, doomed, sweeps, kills>>

LeaseGone(r) ==
  /\ stage = "reading" /\ r \in unread \ DOMAIN leases
  /\ Stops
  /\ UNCHANGED <<entries, links, staging, logs, idleLogs, leases, roots, pins, shared,
                 local, sweeps, kills>>

LeasesRead ==
  /\ stage = "reading" /\ unread = {}
  /\ stage' = "links"
  /\ UNCHANGED <<files, local, level, kept, unread, candidates, victim, doomed, sweeps, kills>>

(***************************************************************************)
(* Phase B, from the minimal level on: links to no entry directory go.     *)
(* Then the unrooted entries are listed.                                   *)
(***************************************************************************)
\* Mutant: links to entries that nothing keeps are taken for dangling.
DanglingUnkept == { k \in DOMAIN links : links[k] \notin kept }

Dangling == { k \in DOMAIN links : links[k] \notin DOMAIN entries }

Unlink(k) ==
  /\ stage = "links" /\ level >= Minimal /\ k \in Dangling
  /\ links' = Drop(links, {k})
  /\ UNCHANGED <<entries, staging, logs, idleLogs, leases, roots, pins, shared, exclusive,
                 local, collector>>

ListEntries ==
  /\ stage = "links" /\ (level >= Minimal => Dangling = {})
  /\ candidates' = DOMAIN entries \ kept
  /\ stage' = "evict"
  /\ UNCHANGED <<files, local, level, kept, unread, victim, doomed, sweeps, kills>>

-----------------------------------------------------------------------------
(***************************************************************************)
(* The logs of the key the manifest names go, the payload is made          *)
(* writable, and the directory is removed part by part.                    *)
(***************************************************************************)
Remove(oh) ==
  /\ victim = {} /\ victim' = {oh}
  /\ candidates' = candidates \ {oh}
  /\ doomed' = entries[oh].parts
  /\ entries' = [entries EXCEPT ![oh].sealed = FALSE]
  /\ logs' = { log \in logs : HasManifest(oh) => log[1] # entries[oh].key }
  /\ idleLogs' = { k \in idleLogs : HasManifest(oh) => k # entries[oh].key }
  /\ UNCHANGED <<links, staging, leases, roots, pins, shared, exclusive, local,
                 level, kept, unread, sweeps, kills>>

RemovePart(p) ==
  /\ \E oh \in victim :
       /\ p \in doomed \cup entries[oh].parts
       /\ entries' = [entries EXCEPT ![oh].parts = @ \ {p}]
  /\ doomed' = doomed \ {p}
  /\ UNCHANGED <<links, staging, logs, idleLogs, leases, roots, pins, shared, exclusive,
                 local, stage, level, kept, unread, candidates, victim, sweeps, kills>>

\* Mutant: the call gives the entry up before all its parts are deleted.
RemoveDirEarly ==
  /\ victim # {}
  /\ IF \A oh \in victim : entries[oh].parts = {}
     THEN /\ entries' = Drop(entries, victim)
          /\ victim' = {}
          /\ UNCHANGED <<exclusive, stage, level, kept, unread, candidates, doomed>>
     ELSE Stops /\ UNCHANGED entries
  /\ UNCHANGED <<links, staging, logs, idleLogs, leases, roots, pins, shared, local, sweeps, kills>>

(***************************************************************************)
(* A look-up may have written .atime into the directory after it was       *)
(* listed: then it is not empty, and the call fails.                       *)
(***************************************************************************)
RemoveDir ==
  /\ victim # {} /\ doomed = {}
  /\ IF \A oh \in victim : entries[oh].parts = {}
     THEN /\ entries' = Drop(entries, victim)
          /\ victim' = {}
          /\ UNCHANGED <<exclusive, stage, level, kept, unread, candidates, doomed>>
     ELSE Stops /\ UNCHANGED entries
  /\ UNCHANGED <<links, staging, logs, idleLogs, leases, roots, pins, shared, local, sweeps, kills>>

(***************************************************************************)
(* Phase C, from the minimal level on: the candidates with the evict       *)
(* marker.                                                                 *)
(***************************************************************************)
Evictable == { oh \in candidates : level >= Minimal /\ "evict" \in entries[oh].parts }

Evict(oh) == stage = "evict" /\ oh \in Evictable /\ Remove(oh) /\ UNCHANGED stage

Evicted ==
  /\ stage = "evict" /\ victim = {} /\ Evictable = {}
  /\ stage' = "trim"
  /\ UNCHANGED <<files, local, level, kept, unread, candidates, victim, doomed, sweeps, kills>>

(***************************************************************************)
(* Phase D: at the default level log directories, of whatever builds, and  *)
(* then any candidates, as the budget will have it; from the aggressive    *)
(* level on all candidates.                                                *)
(***************************************************************************)
Trim(log) ==
  /\ stage = "trim" /\ level = Default /\ log \in logs
  /\ logs' = logs \ {log}
  /\ UNCHANGED <<entries, links, staging, idleLogs, leases, roots, pins, shared, exclusive,
                 local, collector>>

Sweep(oh) ==
  /\ stage \in {"trim", "sweep"} /\ stage' = "sweep"
  /\ level >= Default /\ oh \in candidates
  /\ Remove(oh)

(***************************************************************************)
(* Phase E: logs of keys without a live entry that have been idle for the  *)
(* 30 minutes.  The lock is released.                                      *)
(***************************************************************************)
Orphaned == { k \in idleLogs : k \notin DOMAIN links \/ k \in Dangling }

Finish ==
  /\ stage \in {"trim", "sweep"} /\ victim = {}
  /\ level >= Aggressive => candidates = {}
  /\ logs' = { log \in logs : log[1] \notin Orphaned }
  /\ idleLogs' = idleLogs \ Orphaned
  /\ Stops
  /\ UNCHANGED <<entries, links, staging, leases, roots, pins, shared, local, sweeps, kills>>

(***************************************************************************)
(* The collector is killed: the lock goes with the process.                *)
(***************************************************************************)
Killed ==
  /\ stage # "idle" /\ kills < MaxKills
  /\ kills' = kills + 1
  /\ Stops
  /\ UNCHANGED <<entries, links, staging, logs, idleLogs, leases, roots, pins, shared,
                 local, sweeps>>

-----------------------------------------------------------------------------
Collects ==
  \/ Debris \/ CollectRoots \/ CollectPins \/ ListLeases
  \/ (\E r \in Runs : ReadLease(r) \/ LeaseGone(r)) \/ LeasesRead
  \/ (\E k \in Keys : Unlink(k)) \/ ListEntries
  \/ (\E oh \in Hashes : Evict(oh) \/ Sweep(oh)) \/ Evicted \/ (\E log \in logs : Trim(log))
  \/ (\E p \in Parts : RemovePart(p)) \/ RemoveDir
  \/ Finish

Stages == {"idle", "debris", "roots", "pins", "leases", "reading", "links", "evict", "trim",
           "sweep"}

CollectorOK ==
  /\ stage \in Stages /\ level \in FailedOnly .. Reset
  /\ kept \subseteq Hashes /\ unread \subseteq Runs /\ candidates \subseteq Hashes
  /\ victim \subseteq Hashes /\ doomed \subseteq Parts
  /\ sweeps \in 0 .. MaxSweeps /\ kills \in 0 .. MaxKills
=============================================================================
