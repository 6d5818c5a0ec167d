-------------------------------- MODULE Pools -------------------------------
(***************************************************************************)
(* The named resource pools of a run (crates/ppg3-core/src/resources.rs).  *)
(* All pools live behind one mutex with one condition variable; a request  *)
(* names an amount of several pools and is granted whole or not at all.  A *)
(* step is one critical section of one worker thread.                      *)
(*                                                                         *)
(* A definition marked "Mutant" is a slip somebody could make in the       *)
(* definition after it; no specification uses it.                          *)
(***************************************************************************)
EXTENDS Naturals, FiniteSets

CONSTANTS
  Workers,    \* the threads that call acquire
  Pools,      \* pool names a request may mention
  Capacity,   \* configured pools: a function from some of Pools to Nat
  Requests,   \* the requests made: functions from some of Pools to Nat
  MaxJobs     \* bound: requests one worker makes

ASSUME CapacityAssumption ==
  DOMAIN Capacity \subseteq Pools /\ Capacity \in [DOMAIN Capacity -> Nat]
ASSUME RequestsAssumption ==
  \A r \in Requests : DOMAIN r \subseteq Pools /\ \A p \in DOMAIN r : r[p] \in Nat
ASSUME MaxJobsAssumption == MaxJobs \in Nat

VARIABLES
  available,  \* Inner.available
  pc,         \* where each worker is: outside, at the lock, asleep, holding
  want,       \* the request a worker is making, or the amounts of its Guard
  made        \* history: requests made so far, for the bound

vars == <<available, pc, want, made>>

Nothing == [ p \in {} |-> 0 ]

(***************************************************************************)
(* validate and can_satisfy.                                               *)
(***************************************************************************)
WellFormed(r) == \A p \in DOMAIN r : p \in DOMAIN Capacity /\ r[p] <= Capacity[p]

\* Mutant: one pool is looked at.
CanSatisfyAny(r) ==
  DOMAIN r # {} => \E p \in DOMAIN r : p \in DOMAIN available /\ available[p] >= r[p]

CanSatisfy(r) == \A p \in DOMAIN r : p \in DOMAIN available /\ available[p] >= r[p]

Units(r, p) == IF p \in DOMAIN r THEN r[p] ELSE 0

-----------------------------------------------------------------------------
Init ==
  /\ available = Capacity
  /\ pc = [ w \in Workers |-> "outside" ]
  /\ want = [ w \in Workers |-> Nothing ]
  /\ made = [ w \in Workers |-> 0 ]

(***************************************************************************)
(* acquire: a request that can never be met is refused before the lock is  *)
(* taken; any other goes to the lock.                                      *)
(***************************************************************************)
Ask(w, r) ==
  /\ pc[w] = "outside"
  /\ made[w] < MaxJobs
  /\ made' = [made EXCEPT ![w] = @ + 1]
  /\ IF WellFormed(r)
     THEN /\ pc' = [pc EXCEPT ![w] = "locking"]
          /\ want' = [want EXCEPT ![w] = r]
     ELSE UNCHANGED <<pc, want>>
  /\ UNCHANGED available

\* Mutant: the units of the request's pools are set aside even while it waits.
GrantPartly(w) ==
  /\ pc[w] = "locking"
  /\ available' = [ p \in DOMAIN available |->
                      IF available[p] >= Units(want[w], p)
                      THEN available[p] - Units(want[w], p) ELSE available[p] ]
  /\ pc' = [pc EXCEPT ![w] = IF CanSatisfy(want[w]) THEN "holding" ELSE "waiting"]
  /\ UNCHANGED <<want, made>>

(***************************************************************************)
(* One turn of the loop in acquire: take every unit of the request, or     *)
(* sleep without any.                                                      *)
(***************************************************************************)
Grant(w) ==
  /\ pc[w] = "locking"
  /\ CanSatisfy(want[w])
  /\ available' = [ p \in DOMAIN available |-> available[p] - Units(want[w], p) ]
  /\ pc' = [pc EXCEPT ![w] = "holding"]
  /\ UNCHANGED <<want, made>>

Sleep(w) ==
  /\ pc[w] = "locking"
  /\ ~CanSatisfy(want[w])
  /\ pc' = [pc EXCEPT ![w] = "waiting"]
  /\ UNCHANGED <<available, want, made>>

SpuriousWake(w) ==
  /\ pc[w] = "waiting"
  /\ pc' = [pc EXCEPT ![w] = "locking"]
  /\ UNCHANGED <<available, want, made>>

(***************************************************************************)
(* try_acquire: one look; no Guard when the units are not there.           *)
(***************************************************************************)
TryAcquire(w, r) ==
  /\ pc[w] = "outside"
  /\ made[w] < MaxJobs
  /\ WellFormed(r)
  /\ made' = [made EXCEPT ![w] = @ + 1]
  /\ IF CanSatisfy(r)
     THEN /\ available' = [ p \in DOMAIN available |-> available[p] - Units(r, p) ]
          /\ pc' = [pc EXCEPT ![w] = "holding"]
          /\ want' = [want EXCEPT ![w] = r]
     ELSE UNCHANGED <<available, pc, want>>

\* Mutant: whoever holds nothing afterwards is not told.
DropQuietly(w) ==
  /\ pc[w] = "holding"
  /\ available' = [ p \in DOMAIN available |-> available[p] + Units(want[w], p) ]
  /\ want' = [want EXCEPT ![w] = Nothing]
  /\ pc' = [pc EXCEPT ![w] = "outside"]
  /\ UNCHANGED made

(***************************************************************************)
(* Dropping a Guard gives the units back and wakes every sleeper; an empty *)
(* one touches nothing.                                                    *)
(***************************************************************************)
Drop(w) ==
  /\ pc[w] = "holding"
  /\ available' = [ p \in DOMAIN available |-> available[p] + Units(want[w], p) ]
  /\ want' = [want EXCEPT ![w] = Nothing]
  /\ pc' = [ v \in Workers |->
               IF v = w THEN "outside"
               ELSE IF pc[v] = "waiting" /\ DOMAIN want[w] # {} THEN "locking"
               ELSE pc[v] ]
  /\ UNCHANGED made

Done == \A w \in Workers : pc[w] = "outside" /\ made[w] = MaxJobs

Next ==
  \/ \E w \in Workers :
       \/ Grant(w) \/ Sleep(w) \/ SpuriousWake(w) \/ Drop(w)
       \/ \E r \in Requests : Ask(w, r) \/ TryAcquire(w, r)
  \/ Done /\ UNCHANGED vars

(***************************************************************************)
(* Threads run, and whoever holds units gives them back: the job ends.     *)
(***************************************************************************)
Fairness == \A w \in Workers : WF_vars(Grant(w) \/ Sleep(w)) /\ WF_vars(Drop(w))

Spec == Init /\ [][Next]_vars /\ Fairness

-----------------------------------------------------------------------------
(***************************************************************************)
(* No pool is ever overdrawn (its amounts are unsigned), and whoever waits *)
(* or holds asked for no more than there is.                               *)
(***************************************************************************)
TypeOK ==
  /\ available \in [DOMAIN Capacity -> Nat]
  /\ pc \in [Workers -> {"outside", "locking", "waiting", "holding"}]
  /\ want \in [Workers -> Requests \cup {Nothing}]
  /\ \A w \in Workers : WellFormed(want[w])
  /\ made \in [Workers -> 0 .. MaxJobs]

(***************************************************************************)
(* A worker sleeps only for a request that cannot be met: the Drop that    *)
(* could satisfy it has woken it.                                          *)
(***************************************************************************)
NoLostGrant == \A w \in Workers : pc[w] = "waiting" => ~CanSatisfy(want[w])

(***************************************************************************)
(* Every request that is not refused is granted in the end.  It rests on   *)
(* the run being finite: an endless stream of small requests may starve a  *)
(* large one, for the pools keep no queue.                                 *)
(***************************************************************************)
EveryRequestGranted ==
  \A w \in Workers : pc[w] = "locking" ~> pc[w] = "holding"
=============================================================================
