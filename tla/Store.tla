-------------------------------- MODULE Store -------------------------------
(***************************************************************************)
(* Several runs and the garbage collector on one store.                    *)
(***************************************************************************)
EXTENDS Collector

CONSTANT Aging    \* runs whose lease, and keys whose logs, may go idle for 30 minutes

ASSUME AgingAssumption == Aging \subseteq Runs \cup Keys

VARIABLES
  steady,    \* history: the roots, pins and fresh leases there have been without
             \* a break while the collector read them
  unlinked,  \* history: keys whose link the collector has removed
  past       \* history: what links have led to, <<key, hash>>

history == <<steady, unlinked, past>>
vars == <<files, local, collector, history>>

Reading == {"debris", "roots", "pins", "leases", "reading"}

Init == NoFiles /\ NoRuns /\ NoCollector /\ steady = {} /\ unlinked = {} /\ past = {}

Remembers ==
  /\ steady' = IF stage = "idle" THEN IF exclusive' THEN Protections' ELSE {}
               ELSE IF stage' = "idle" THEN {}
               ELSE IF stage \in Reading THEN steady \cap Protections' ELSE steady
  /\ unlinked' = unlinked \cup (DOMAIN links \ DOMAIN links')
  /\ past' = past \cup { <<k, links'[k]>> : k \in DOMAIN links' }

TimePasses ==
  /\ (\E r \in Runs \cap Aging : LeaseAges(r)) \/ (\E k \in Keys \cap Aging : LogsAge(k))
  /\ UNCHANGED <<local, collector>>

Over == stage = "idle" /\ \A r \in Runs : phase[r] \in {"over", "dead"}

Steps ==
  \/ Publishes /\ UNCHANGED collector
  \/ (\E l \in Levels : Start(l)) \/ Collects \/ Killed
  \/ TimePasses

Next ==
  \/ Steps /\ Remembers
  \/ Over /\ UNCHANGED vars

(***************************************************************************)
(* Threads run, commands end, and whoever waits for gc.lock gets it in the *)
(* end; the collector runs when it has been started.  Nothing is assumed   *)
(* of new jobs, of new calls of the collector, of crashes or of time.      *)
(***************************************************************************)
Fairness ==
  /\ \A w \in Workers : WF_vars(Works(w) /\ UNCHANGED collector /\ Remembers)
  /\ WF_vars(Collects /\ Remembers)

Spec == Init /\ [][Next]_vars /\ Fairness

-----------------------------------------------------------------------------
(***************************************************************************)
(* Every directory, lock, local and cursor holds a value of its kind; in   *)
(* particular links and roots name hashes, and what is kept are hashes.    *)
(***************************************************************************)
TypeOK ==
  /\ FilesOK /\ LocalOK /\ CollectorOK
  /\ \A p \in steady : p[3] \in Hashes
  /\ unlinked \subseteq Keys /\ past \subseteq Keys \X Hashes

(***************************************************************************)
(* An entry is whole from the rename that puts it there until the          *)
(* collector removes it, and then it is removed altogether, whatever       *)
(* publishes, look-ups and kills of runs come between (compare             *)
(* tests/publish_crash.rs): each call of the collector that is killed      *)
(* leaves half of one entry at most.  What a look-up keeps alive by        *)
(* writing .atime while the parts are deleted holds nothing else.          *)
(***************************************************************************)
Half == { oh \in DOMAIN entries \ victim : ~Whole(oh) /\ entries[oh].parts # {"atime"} }

NoHalfEntry == IsFiniteSet(Half) /\ Cardinality(Half) <= kills

(***************************************************************************)
(* In a store that has not been collected, whatever a link leads to is     *)
(* there, whole and read-only, wherever in publish runs have been killed.  *)
(***************************************************************************)
LinkedIsPublished ==
  sweeps = 0 => \A k \in DOMAIN links : Whole(links[k]) /\ entries[links[k]].sealed

(***************************************************************************)
(* What a publisher has resolved under the shared lock is there until it   *)
(* has linked it: the collector cannot come between.                       *)
(***************************************************************************)
PublishProtected ==
  /\ exclusive => shared = {}
  /\ \A w \in Workers :
       /\ At(w) \in {"seal", "chmod"} => HasManifest(Made(w))
       /\ At(w) = "link" => Whole(Made(w)) /\ entries[Made(w)].sealed

(***************************************************************************)
(* The store implements a MemoTable: a link is made only to a whole entry  *)
(* and only where there is none, it never changes, it is removed only when *)
(* its entry is gone; and what completed jobs hold, links have said.       *)
(***************************************************************************)
Table == INSTANCE MemoTable WITH
  Readers <- Runs, table <- links, answers <- held,
  stored <- { oh \in DOMAIN entries : Whole(oh) }

Memoizes == Table!Spec

(***************************************************************************)
(* Determinism: completed jobs of one key have one output, in whatever     *)
(* runs and in whatever order they build it, unless the collector has      *)
(* taken the key off the table.                                            *)
(***************************************************************************)
OneOutputPerKey ==
  \A q, r \in Runs : \A g \in held[q], h \in held[r] :
    g[1] = h[1] /\ g[1] \notin unlinked => g[2] = h[2]

(***************************************************************************)
(* The collector removes nothing from an entry that a root, a pin or a     *)
(* fresh lease has kept from the time it took the lock until it had read   *)
(* them all, although it reads them one after the other while runs come    *)
(* and go.                                                                 *)
(***************************************************************************)
SteadySurvives ==
  [][\A p \in steady : LET oh == p[3] IN
       oh \in DOMAIN entries =>
         oh \in DOMAIN entries' /\ entries[oh].parts \subseteq entries'[oh].parts]_vars

(***************************************************************************)
(* The staging directory of a build in progress is never taken for debris. *)
(***************************************************************************)
StagingSurvives ==
  \A w \in Workers : At(w) \in {"build", "lock", "resolve"} => <<w, "current">> \in staging

(***************************************************************************)
(* Without the collector no job ever meets a store it cannot use, however  *)
(* many runs have been killed at whatever step of publish.                 *)
(***************************************************************************)
CrashSafe ==
  sweeps = 0 => \A w \in Workers : result[w] \notin {"corrupt", "nolog"}

(***************************************************************************)
(* Every job ends: a publisher that waits for gc.lock gets it, whatever    *)
(* becomes of the collector or of the other runs.  And every call of the   *)
(* collector ends and gives gc.lock back, also where what it has listed is *)
(* gone, or has grown, when it comes to it.                                *)
(***************************************************************************)
EverybodyEnds ==
  /\ \A w \in Workers : At(w) # "idle" ~> At(w) \in {"idle", "dead"}
  /\ stage # "idle" ~> stage = "idle"

-----------------------------------------------------------------------------
(***************************************************************************)
(* What documents and comments say of the store, and the code does not     *)
(* keep (see the findings).                                                *)
(***************************************************************************)

(***************************************************************************)
(* PPG3_DESIGN.md 7.3: "an evicted entry that is needed again is a cache   *)
(* miss and reruns".                                                       *)
(***************************************************************************)
CollectedIsMiss == \A w \in Workers : result[w] # "corrupt"

(***************************************************************************)
(* PPG3_DESIGN.md 11: "GC can never sweep between rename and root          *)
(* creation".                                                              *)
(***************************************************************************)
HeldSurvives ==
  \A r \in Runs : Alive(r) => \A h \in held[r] : Whole(h[2])
=============================================================================
