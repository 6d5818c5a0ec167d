----------------------------- MODULE KahnProofs -----------------------------
(***************************************************************************)
(* detect_cycle gives the right answer on every finite job graph.  The     *)
(* invariant says what indeg counts (the edges from jobs not yet visited), *)
(* what the queue holds (the jobs with no such edge that are not visited   *)
(* yet), and that no job of a cycle is ever visited.                       *)
(***************************************************************************)
EXTENDS Kahn, GraphLemmas

(***************************************************************************)
(* The inputs of c that refer to a job of the slice not visited yet.       *)
(***************************************************************************)
OpenInputs(js, seen, c) == { n \in Names : js[c].inputs[n] \in DOMAIN js \ seen }

Cyclic(js, S) == \A j \in S : ParentIds(js[j]) \cap S # {}

IInv ==
  /\ DOMAIN jobs \subseteq Ids
  /\ IsFiniteSet(DOMAIN jobs)
  /\ jobs \in [DOMAIN jobs -> JobDef]
  /\ indeg \in [DOMAIN jobs -> Nat]
  /\ queue \in Seq(DOMAIN jobs)
  /\ popped \in SUBSET DOMAIN jobs
  /\ visited = Cardinality(popped)
  /\ \A c \in DOMAIN jobs : indeg[c] = Cardinality(OpenInputs(jobs, popped, c))
  /\ \A c \in popped : indeg[c] = 0
  /\ ToSet(queue) = { c \in DOMAIN jobs \ popped : indeg[c] = 0 }
  /\ Distinct(queue)
  /\ \A S \in SUBSET DOMAIN jobs : Cyclic(jobs, S) => S \cap popped = {}

(***************************************************************************)
(* Open inputs are a finite set; visiting n closes exactly the edges       *)
(* from n.                                                                 *)
(***************************************************************************)
LEMMA OpenInputsFinite ==
  ASSUME NEW js, NEW seen, NEW c
  PROVE  /\ IsFiniteSet(OpenInputs(js, seen, c))
         /\ Cardinality(OpenInputs(js, seen, c)) \in Nat
         /\ Cardinality(OpenInputs(js, seen, c)) = 0 <=> OpenInputs(js, seen, c) = {}
<1>1. OpenInputs(js, seen, c) \in SUBSET Names
  BY DEF OpenInputs
<1>2. IsFiniteSet(OpenInputs(js, seen, c))
  BY <1>1, NamesAssumption, FS_Subset
<1>3. QED
  BY <1>2, FS_CardinalityType, FS_EmptySet

(***************************************************************************)
(* Taking a job off the queue (detect_cycle, the loop over the children)   *)
(* closes exactly its edges into each other job, counted with              *)
(* multiplicity.                                                           *)
(***************************************************************************)
LEMMA VisitCloses ==
  ASSUME NEW js, NEW seen, NEW c, NEW n \in DOMAIN js \ seen
  PROVE  /\ Cardinality(OpenInputs(js, seen \cup {n}, c))
              = Cardinality(OpenInputs(js, seen, c)) - Cardinality(Edges(js[c], n))
         /\ Edges(js[c], n) = {} => OpenInputs(js, seen \cup {n}, c) = OpenInputs(js, seen, c)
         /\ OpenInputs(js, seen, c) = {} =>
              Edges(js[c], n) = {} /\ OpenInputs(js, seen \cup {n}, c) = {}
<1> DEFINE O == OpenInputs(js, seen, c)
           E == Edges(js[c], n)
<1>1. /\ E \subseteq O
      /\ OpenInputs(js, seen \cup {n}, c) = O \ E
      /\ O \cap E = E
  BY DEF OpenInputs, Edges
<1>2. /\ IsFiniteSet(O) /\ Cardinality(O) \in Nat
      /\ Cardinality(OpenInputs(js, seen \cup {n}, c)) \in Nat
  BY OpenInputsFinite
<1>3. Cardinality(O \ E) = Cardinality(O) - Cardinality(O \cap E)
  BY <1>2, FS_Difference
<1>4. QED
  BY <1>1, <1>2, <1>3

(***************************************************************************)
(* The in-degrees and the queue detect_cycle starts with satisfy the       *)
(* invariant.                                                              *)
(***************************************************************************)
LEMMA InitIInv == Init => IInv
<1> SUFFICES ASSUME Init PROVE IInv
  OBVIOUS
<1>1. /\ DOMAIN jobs \subseteq Ids
      /\ IsFiniteSet(DOMAIN jobs)
      /\ jobs \in [DOMAIN jobs -> JobDef]
      /\ popped = {} /\ visited = 0
      /\ indeg = [ c \in DOMAIN jobs |-> InDegree(jobs, c) ]
      /\ queue \in SetToSeqs({ c \in DOMAIN jobs : indeg[c] = 0 })
  BY GraphsAssumption DEF Init
<1>2. \A c \in DOMAIN jobs : InDegree(jobs, c) = Cardinality(OpenInputs(jobs, {}, c))
  <2> SUFFICES ASSUME NEW c \in DOMAIN jobs
               PROVE  InDegree(jobs, c) = Cardinality(OpenInputs(jobs, {}, c))
    OBVIOUS
  <2>1. OpenInputs(jobs, {}, c) = { n \in Names : jobs[c].inputs[n] \in DOMAIN jobs }
    BY DEF OpenInputs
  <2>2. QED
    BY <2>1 DEF InDegree
<1>3. \A c \in DOMAIN jobs : indeg[c] = Cardinality(OpenInputs(jobs, popped, c))
  BY <1>1, <1>2
<1>4. indeg \in [DOMAIN jobs -> Nat]
  BY <1>1, <1>3, OpenInputsFinite
<1> DEFINE F == { c \in DOMAIN jobs : indeg[c] = 0 }
<1>5. IsFiniteSet(F)
  BY <1>1, FS_Subset
<1>6. queue \in Seq(F) /\ ToSet(queue) = F /\ Distinct(queue)
  BY <1>1, <1>5, EnumerationFacts
<1>7. queue \in Seq(DOMAIN jobs)
  BY <1>6, SeqMonotonic
<1>8. visited = Cardinality(popped)
  BY <1>1, FS_EmptySet
<1>9. QED
  BY <1>1, <1>3, <1>4, <1>6, <1>7, <1>8 DEF IInv

(***************************************************************************)
(* A turn of detect_cycle's loop keeps the invariant.                      *)
(***************************************************************************)
LEMMA VisitIInv == IInv /\ Visit => IInv'
<1> SUFFICES ASSUME IInv, Visit PROVE IInv'
  OBVIOUS
<1> DEFINE n    == Head(queue)
           left == [ c \in DOMAIN jobs |-> indeg[c] - Cardinality(Edges(jobs[c], n)) ]
           free == { c \in Children(n) : left[c] = 0 }
<1>1. /\ queue # << >> /\ jobs' = jobs /\ indeg' = left
      /\ popped' = popped \cup {n} /\ visited' = visited + 1
  BY DEF Visit
<1>2. PICK order \in SetToSeqs(free) : queue' = Tail(queue) \o order
  BY DEF Visit
<1>3. /\ n \in DOMAIN jobs \ popped /\ indeg[n] = 0
      /\ Tail(queue) \in Seq(DOMAIN jobs)
      /\ ToSet(Tail(queue)) = ToSet(queue) \ {n}
      /\ Distinct(Tail(queue))
  BY <1>1, TailFacts DEF IInv
<1>4. \A c \in DOMAIN jobs :
        /\ left[c] = Cardinality(OpenInputs(jobs, popped', c))
        /\ left[c] \in Nat
        /\ Edges(jobs[c], n) = {} => left[c] = indeg[c]
        /\ Edges(jobs[c], n) # {} => indeg[c] # 0
        /\ indeg[c] = 0 => left[c] = 0
  <2> SUFFICES ASSUME NEW c \in DOMAIN jobs
               PROVE  /\ left[c] = Cardinality(OpenInputs(jobs, popped', c))
                      /\ left[c] \in Nat
                      /\ Edges(jobs[c], n) = {} => left[c] = indeg[c]
                      /\ Edges(jobs[c], n) # {} => indeg[c] # 0
                      /\ indeg[c] = 0 => left[c] = 0
    OBVIOUS
  <2>1. indeg[c] = Cardinality(OpenInputs(jobs, popped, c))
    BY DEF IInv
  <2>2. indeg[c] = 0 <=> OpenInputs(jobs, popped, c) = {}
    BY <2>1, OpenInputsFinite
  <2>3. left[c] = indeg[c] - Cardinality(Edges(jobs[c], n))
    OBVIOUS
  <2> HIDE DEF left, n
  <2>4. /\ Cardinality(OpenInputs(jobs, popped \cup {n}, c))
            = Cardinality(OpenInputs(jobs, popped, c)) - Cardinality(Edges(jobs[c], n))
        /\ Edges(jobs[c], n) = {} =>
             OpenInputs(jobs, popped \cup {n}, c) = OpenInputs(jobs, popped, c)
        /\ OpenInputs(jobs, popped, c) = {} =>
             Edges(jobs[c], n) = {} /\ OpenInputs(jobs, popped \cup {n}, c) = {}
    BY <1>3, VisitCloses
  <2>5. left[c] = Cardinality(OpenInputs(jobs, popped', c))
    BY <1>1, <2>1, <2>3, <2>4
  <2>6. left[c] \in Nat /\ (OpenInputs(jobs, popped', c) = {} => left[c] = 0)
    BY <2>5, OpenInputsFinite
  <2>7. QED
    BY <1>1, <2>1, <2>2, <2>4, <2>5, <2>6
<1>5. free \subseteq DOMAIN jobs /\ IsFiniteSet(free)
  BY FS_Subset DEF IInv, Children
<1>6. order \in Seq(free) /\ ToSet(order) = free /\ Distinct(order)
  BY <1>2, <1>5, EnumerationFacts
<1>7. order \in Seq(DOMAIN jobs)
  BY <1>5, <1>6, SeqMonotonic
<1>8. \A c \in free : c \notin ToSet(queue) /\ c \notin popped /\ c # n
  BY <1>3, <1>4 DEF IInv, Children
<1>9. /\ queue' \in Seq(DOMAIN jobs)
      /\ ToSet(queue') = (ToSet(queue) \ {n}) \cup free
      /\ Distinct(queue')
  <2>1. ToSet(Tail(queue)) \cap ToSet(order) = {}
    BY <1>3, <1>6, <1>8
  <2> DEFINE q == Tail(queue)
  <2>2. /\ q \in Seq(DOMAIN jobs) /\ Distinct(q)
        /\ ToSet(q) = ToSet(queue) \ {n}
        /\ ToSet(q) \cap ToSet(order) = {}
    BY <1>3, <2>1
  <2> HIDE DEF q, n, free
  <2>3. /\ q \o order \in Seq(DOMAIN jobs)
        /\ ToSet(q \o order) = ToSet(q) \cup ToSet(order)
        /\ Distinct(q \o order)
    BY <1>6, <1>7, <2>2, ConcatFacts
  <2>4. queue' = q \o order
    BY <1>2 DEF q
  <2>5. QED
    BY <1>6, <2>2, <2>3, <2>4
<1>10. ToSet(queue') = { c \in DOMAIN jobs \ popped' : left[c] = 0 }
  <2>1. ASSUME NEW c \in (ToSet(queue) \ {n}) \cup free
        PROVE  c \in DOMAIN jobs \ popped' /\ left[c] = 0
    BY <1>1, <1>4, <1>5, <1>8 DEF IInv
  <2>2. ASSUME NEW c \in DOMAIN jobs \ popped', left[c] = 0
        PROVE  c \in (ToSet(queue) \ {n}) \cup free
    BY <1>1, <1>4, <2>2 DEF IInv, Children
  <2>3. QED
    BY <1>9, <2>1, <2>2
<1>11. visited' = Cardinality(popped')
  <2>1. IsFiniteSet(popped)
    BY FS_Subset DEF IInv
  <2>2. QED
    BY <1>1, <1>3, <2>1, FS_AddElement DEF IInv
<1>12. \A c \in popped' : left[c] = 0
  BY <1>1, <1>3, <1>4 DEF IInv
<1>13. ASSUME NEW S \in SUBSET DOMAIN jobs, Cyclic(jobs, S)
       PROVE  S \cap popped' = {}
  <2>1. S \cap popped = {}
    BY <1>13 DEF IInv
  <2>2. ASSUME n \in S PROVE FALSE
    <3>1. PICK p \in S : p \in ParentIds(jobs[n])
      BY <1>13, <2>2 DEF Cyclic
    <3>2. PICK m \in Names : jobs[n].inputs[m] = p
      BY <3>1 DEF ParentIds
    <3>3. p \in DOMAIN jobs \ popped
      BY <2>1
    <3>4. OpenInputs(jobs, popped, n) # {}
      BY <3>2, <3>3 DEF OpenInputs
    <3>5. QED
      BY <1>3, <3>4, OpenInputsFinite DEF IInv
  <2>3. QED
    BY <1>1, <2>1, <2>2
<1>14. left \in [DOMAIN jobs -> Nat]
  BY <1>4
<1>15. popped' \in SUBSET DOMAIN jobs
  BY <1>1, <1>3 DEF IInv
<1>16. QED
  <2>1. \A c \in DOMAIN jobs : left[c] = Cardinality(OpenInputs(jobs, popped', c))
    BY <1>4
  <2> HIDE DEF left, n
  <2>2. QED
    BY <1>1, <1>9, <1>10, <1>11, <1>12, <1>13, <1>14, <1>15, <2>1 DEF IInv

(***************************************************************************)
(* A graph and its verdict when the loop has ended.                        *)
(***************************************************************************)
LEMMA IInvVerdict == IInv => Verdict
<1> SUFFICES ASSUME IInv, Finished PROVE Accepted <=> Acyclic(jobs)
  BY DEF Verdict
<1>1. \A c \in DOMAIN jobs \ popped : indeg[c] # 0
  <2>1. ToSet(queue) = {}
    BY DEF Finished, ToSet
  <2>2. QED
    BY <2>1 DEF IInv
<1>2. Accepted <=> popped = DOMAIN jobs
  BY FS_Subset DEF Accepted, IInv
<1>3. ASSUME popped = DOMAIN jobs PROVE Acyclic(jobs)
  <2> SUFFICES ASSUME NEW S \in SUBSET DOMAIN jobs, Cyclic(jobs, S)
               PROVE  S = {}
    BY DEF Acyclic, Cyclic
  <2>1. S \cap popped = {}
    BY DEF IInv
  <2>2. QED
    BY <1>3, <2>1
<1>4. ASSUME Acyclic(jobs) PROVE popped = DOMAIN jobs
  <2> DEFINE S == DOMAIN jobs \ popped
  <2>1. ASSUME NEW j \in S PROVE ParentIds(jobs[j]) \cap S # {}
    <3>1. OpenInputs(jobs, popped, j) # {}
      BY <1>1, OpenInputsFinite DEF IInv
    <3>2. PICK m \in Names : jobs[j].inputs[m] \in S
      BY <3>1 DEF OpenInputs
    <3>3. jobs[j].inputs[m] # Leaf
      BY <3>2, LeafAssumption DEF IInv
    <3>4. QED
      BY <3>2, <3>3 DEF ParentIds
  <2>2. S = {}
    BY <1>4, <2>1 DEF Acyclic
  <2>3. QED
    BY <2>2 DEF IInv
<1>5. QED
  BY <1>2, <1>3, <1>4

(***************************************************************************)
(* The invariant holds from the first to the last turn of detect_cycle.    *)
(***************************************************************************)
LEMMA IInvAlways == Spec => []IInv
<1>1. IInv /\ UNCHANGED vars => IInv'
  BY DEF IInv, vars, OpenInputs, Cyclic, Distinct, ToSet
<1>2. IInv /\ [Next]_vars => IInv'
  BY <1>1, VisitIInv DEF Next
<1>3. QED
  BY <1>2, InitIInv, PTL DEF Spec

(***************************************************************************)
(* TypeOK of Kahn: no edge count is ever taken below zero, where the       *)
(* subtraction of the usize would panic, for every finite graph and every  *)
(* order of the sources: an edge is taken down only once, with its source. *)
(***************************************************************************)
THEOREM CountsStayNumbers == Spec => []TypeOK
<1>1. IInv => TypeOK
  <2> SUFFICES ASSUME IInv PROVE TypeOK
    OBVIOUS
  <2>1. visited \in Nat
    BY FS_Subset, FS_CardinalityType DEF IInv
  <2>2. QED
    BY <2>1 DEF IInv, TypeOK
<1>2. QED
  BY <1>1, IInvAlways, PTL

(***************************************************************************)
(* detect_cycle accepts exactly the acyclic slices, for every finite graph *)
(* and every order in which the HashMap yields the sources.                *)
(***************************************************************************)
THEOREM VerdictCorrect == Spec => []Verdict
  BY IInvAlways, IInvVerdict, PTL

(***************************************************************************)
(* The visited counter counts different jobs, whatever the multiplicity of *)
(* the edges between them.                                                 *)
(***************************************************************************)
THEOREM NeverTwice == Spec => []VisitedOnce
<1>1. IInv => VisitedOnce
  BY DEF IInv, VisitedOnce
<1>2. QED
  BY <1>1, IInvAlways, PTL
=============================================================================
