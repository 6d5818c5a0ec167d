----------------------------- MODULE PoolsProofs ----------------------------
(***************************************************************************)
(* Proofs about the pools of a run, for any capacities, requests and       *)
(* number of workers.                                                      *)
(***************************************************************************)
EXTENDS Pools, TLAPS

(***************************************************************************)
(* A request that is granted leaves no pool below zero.                    *)
(***************************************************************************)
LEMMA GrantFits ==
  ASSUME TypeOK, NEW r, \A p \in DOMAIN r : r[p] \in Nat, CanSatisfy(r)
  PROVE  [ p \in DOMAIN available |-> available[p] - Units(r, p) ] \in [DOMAIN Capacity -> Nat]
<1>1. available \in [DOMAIN Capacity -> Nat]
  BY DEF TypeOK
<1>2. \A p \in DOMAIN available : Units(r, p) \in Nat /\ Units(r, p) <= available[p]
  BY <1>1 DEF Units, CanSatisfy
<1>3. QED
  BY <1>1, <1>2

(***************************************************************************)
(* The amounts a worker asks for or holds are numbers, and so is what a    *)
(* Drop makes of a pool.                                                   *)
(***************************************************************************)
LEMMA WantedUnits ==
  ASSUME TypeOK, NEW w \in Workers
  PROVE  \A p \in DOMAIN want[w] : want[w][p] \in Nat
<1>1. want[w] \in Requests \cup {Nothing}
  BY DEF TypeOK
<1>2. QED
  BY <1>1, RequestsAssumption DEF Nothing

(***************************************************************************)
(* acquire, try_acquire and Guard::drop keep the types.                    *)
(***************************************************************************)
LEMMA StepTypes == TypeOK /\ [Next]_vars => TypeOK'
<1> SUFFICES ASSUME TypeOK, [Next]_vars PROVE TypeOK'
  OBVIOUS
<1>0. /\ available \in [DOMAIN Capacity -> Nat]
      /\ pc \in [Workers -> {"outside", "locking", "waiting", "holding"}]
      /\ want \in [Workers -> Requests \cup {Nothing}]
      /\ \A w \in Workers : WellFormed(want[w])
      /\ made \in [Workers -> 0 .. MaxJobs] /\ MaxJobs \in Nat
  BY MaxJobsAssumption DEF TypeOK
<1>1. ASSUME NEW w \in Workers, NEW r \in Requests, Ask(w, r) PROVE TypeOK'
  <2>1. made' \in [Workers -> 0 .. MaxJobs]
    BY <1>0, <1>1 DEF Ask
  <2>2. CASE WellFormed(r)
    <3>1. /\ pc' = [pc EXCEPT ![w] = "locking"] /\ want' = [want EXCEPT ![w] = r]
          /\ available' = available
      BY <1>1, <2>2 DEF Ask
    <3>2. /\ want' \in [Workers -> Requests \cup {Nothing}]
          /\ \A v \in Workers : WellFormed(want'[v])
      BY <1>0, <2>2, <3>1
    <3>3. QED
      BY <1>0, <2>1, <3>1, <3>2 DEF TypeOK, WellFormed
  <2>3. CASE ~WellFormed(r)
    BY <1>0, <1>1, <2>1, <2>3 DEF Ask, TypeOK, WellFormed
  <2>4. QED
    BY <2>2, <2>3
<1>2. ASSUME NEW w \in Workers, Grant(w) PROVE TypeOK'
  <2>1. available' \in [DOMAIN Capacity -> Nat]
    BY <1>2, WantedUnits, GrantFits DEF Grant
  <2>2. QED
    BY <1>0, <1>2, <2>1 DEF Grant, TypeOK, WellFormed
<1>3. ASSUME NEW w \in Workers, Sleep(w) \/ SpuriousWake(w) PROVE TypeOK'
  BY <1>0, <1>3 DEF Sleep, SpuriousWake, TypeOK, WellFormed
<1>4. ASSUME NEW w \in Workers, NEW r \in Requests, TryAcquire(w, r) PROVE TypeOK'
  <2>1. made' \in [Workers -> 0 .. MaxJobs]
    BY <1>0, <1>4 DEF TryAcquire
  <2>2. CASE CanSatisfy(r)
    <3>1. /\ available' \in [DOMAIN Capacity -> Nat]
          /\ pc' = [pc EXCEPT ![w] = "holding"] /\ want' = [want EXCEPT ![w] = r]
      BY <1>4, <2>2, RequestsAssumption, GrantFits DEF TryAcquire
    <3>2. /\ want' \in [Workers -> Requests \cup {Nothing}]
          /\ \A v \in Workers : WellFormed(want'[v])
      BY <1>0, <1>4, <3>1 DEF TryAcquire
    <3>3. QED
      BY <1>0, <2>1, <3>1, <3>2 DEF TypeOK, WellFormed
  <2>3. CASE ~CanSatisfy(r)
    BY <1>0, <1>4, <2>1, <2>3 DEF TryAcquire, TypeOK, WellFormed
  <2>4. QED
    BY <2>2, <2>3
<1>5. ASSUME NEW w \in Workers, Drop(w) PROVE TypeOK'
  <2>1. \A p \in DOMAIN available : Units(want[w], p) \in Nat
    BY WantedUnits DEF Units
  <2>2. available' \in [DOMAIN Capacity -> Nat]
    BY <1>0, <1>5, <2>1 DEF Drop
  <2>3. /\ want' \in [Workers -> Requests \cup {Nothing}]
        /\ \A v \in Workers : WellFormed(want'[v])
    BY <1>0, <1>5 DEF Drop, WellFormed, Nothing
  <2>4. pc' \in [Workers -> {"outside", "locking", "waiting", "holding"}]
    BY <1>0, <1>5 DEF Drop
  <2>5. QED
    BY <1>0, <1>5, <2>2, <2>3, <2>4 DEF Drop, TypeOK, WellFormed
<1>6. CASE UNCHANGED vars
  BY <1>0, <1>6 DEF vars, TypeOK, WellFormed
<1>7. QED
  BY <1>1, <1>2, <1>3, <1>4, <1>5, <1>6 DEF Next

(***************************************************************************)
(* The state of the pools is always well typed: no pool is ever overdrawn. *)
(***************************************************************************)
THEOREM TypeCorrect == Spec => []TypeOK
<1>1. Init => TypeOK
  BY CapacityAssumption, MaxJobsAssumption DEF Init, TypeOK, WellFormed, Nothing
<1>2. QED
  BY <1>1, StepTypes, PTL DEF Spec

(***************************************************************************)
(* Whoever sleeps in acquire asks for something that is not there: the     *)
(* Drop that could satisfy it has woken it.                                *)
(***************************************************************************)
THEOREM NoGrantLost == Spec => []NoLostGrant
<1>1. Init => NoLostGrant
  BY DEF Init, NoLostGrant
<1>2. TypeOK /\ NoLostGrant /\ [Next]_vars => NoLostGrant'
  <2> SUFFICES ASSUME TypeOK, NoLostGrant, [Next]_vars,
                      NEW v \in Workers, pc'[v] = "waiting"
               PROVE  ~CanSatisfy(want[v])'
    BY DEF NoLostGrant
  <2>0. /\ available \in [DOMAIN Capacity -> Nat]
        /\ pc \in [Workers -> {"outside", "locking", "waiting", "holding"}]
        /\ want \in [Workers -> Requests \cup {Nothing}]
        /\ pc[v] = "waiting" => ~CanSatisfy(want[v])
    BY DEF TypeOK, NoLostGrant
  <2>1. ASSUME NEW w \in Workers, NEW r \in Requests, Ask(w, r) PROVE ~CanSatisfy(want[v])'
    BY <2>0, <2>1 DEF Ask, CanSatisfy
  <2>2. ASSUME NEW w \in Workers, Grant(w) PROVE ~CanSatisfy(want[v])'
    <3>1. pc[v] = "waiting" /\ want' = want
      BY <2>0, <2>2 DEF Grant
    <3>2. \A p \in DOMAIN available : Units(want[w], p) \in Nat
      BY WantedUnits DEF Units
    <3>3. /\ DOMAIN available' = DOMAIN available
          /\ \A p \in DOMAIN available : available'[p] = available[p] - Units(want[w], p)
      BY <2>2 DEF Grant
    <3>4. \A p \in DOMAIN available : available'[p] <= available[p]
      BY <2>0, <3>2, <3>3
    <3>5. PICK p \in DOMAIN want[v] : ~(p \in DOMAIN available /\ available[p] >= want[v][p])
      BY <2>0, <3>1 DEF CanSatisfy
    <3>6. want[v][p] \in Nat
      BY WantedUnits
    <3>7. ~(p \in DOMAIN available' /\ available'[p] >= want'[v][p])
      BY <2>0, <3>1, <3>2, <3>3, <3>4, <3>5, <3>6
    <3>8. QED
      BY <3>1, <3>5, <3>7 DEF CanSatisfy
  <2>3. ASSUME NEW w \in Workers, Sleep(w) \/ SpuriousWake(w) PROVE ~CanSatisfy(want[v])'
    BY <2>0, <2>3 DEF Sleep, SpuriousWake, CanSatisfy
  <2>4. ASSUME NEW w \in Workers, NEW r \in Requests, TryAcquire(w, r)
        PROVE  ~CanSatisfy(want[v])'
    <3>1. CASE CanSatisfy(r)
      <4>1. /\ pc[v] = "waiting" /\ want'[v] = want[v]
            /\ DOMAIN available' = DOMAIN available
            /\ \A p \in DOMAIN available : available'[p] = available[p] - Units(r, p)
        BY <2>0, <2>4, <3>1 DEF TryAcquire
      <4>2. \A p \in DOMAIN available : Units(r, p) \in Nat
        BY RequestsAssumption DEF Units
      <4>3. PICK p \in DOMAIN want[v] : ~(p \in DOMAIN available /\ available[p] >= want[v][p])
        BY <2>0, <4>1 DEF CanSatisfy
      <4>4. want[v][p] \in Nat
        BY WantedUnits
      <4>5. ~(p \in DOMAIN available' /\ available'[p] >= want'[v][p])
        BY <2>0, <4>1, <4>2, <4>3, <4>4
      <4>6. QED
        BY <4>1, <4>3, <4>5 DEF CanSatisfy
    <3>2. CASE ~CanSatisfy(r)
      BY <2>0, <2>4, <3>2 DEF TryAcquire, CanSatisfy
    <3>3. QED
      BY <3>1, <3>2
  <2>5. ASSUME NEW w \in Workers, Drop(w) PROVE ~CanSatisfy(want[v])'
    <3>1. /\ pc[v] = "waiting" /\ v # w /\ DOMAIN want[w] = {}
      BY <2>0, <2>5 DEF Drop
    <3>2. \A p \in DOMAIN available : available'[p] = available[p] + 0
      BY <2>5, <3>1 DEF Drop, Units
    <3>3. available' = available /\ want'[v] = want[v]
      BY <2>0, <2>5, <3>1, <3>2 DEF Drop
    <3>4. QED
      BY <2>0, <3>1, <3>3 DEF CanSatisfy
  <2>6. CASE UNCHANGED vars
    BY <2>0, <2>6 DEF vars, CanSatisfy
  <2>7. QED
    BY <2>1, <2>2, <2>3, <2>4, <2>5, <2>6 DEF Next
<1>3. QED
  BY <1>1, <1>2, TypeCorrect, PTL DEF Spec
=============================================================================
