---------------------------- MODULE GraphLemmas -----------------------------
(***************************************************************************)
(* Facts about queues and job graphs.  Queues without duplicates: what     *)
(* taking the head off and appending an enumeration of a set does to the   *)
(* elements.  The operators of JobGraph: what a cascade of failures        *)
(* contains, and what inserting a validated list does to a job graph.      *)
(***************************************************************************)
EXTENDS JobGraph, SequencesExt, FiniteSetTheorems, SequenceTheorems, TLAPS

Distinct(q) == \A i, k \in DOMAIN q : q[i] = q[k] => i = k

(***************************************************************************)
(* An enumeration of a finite set holds each of its elements once.         *)
(***************************************************************************)
LEMMA EnumerationFacts ==
  ASSUME NEW F, IsFiniteSet(F), NEW order \in SetToSeqs(F)
  PROVE  /\ order \in Seq(F)
         /\ ToSet(order) = F
         /\ Distinct(order)
<1> DEFINE D == 1 .. Cardinality(F)
<1>1. Cardinality(F) \in Nat
  BY FS_CardinalityType
<1>2. /\ order \in [D -> F]
      /\ \A i, k \in D : i # k => order[i] # order[k]
  BY DEF SetToSeqs
<1>3. order \in Seq(F)
  BY <1>1, <1>2, SeqDef
<1>4. Distinct(order)
  BY <1>2 DEF Distinct
<1>5. ToSet(order) = F
  <2>1. order \in Injection(D, F)
    BY <1>2 DEF Injection, IsInjective
  <2>2. Cardinality(D) = Cardinality(F)
    BY <1>1, FS_Interval
  <2>3. order \in Surjection(D, F)
    BY <2>1, <2>2, FS_Injection
  <2>4. \A x \in F : \E i \in D : order[i] = x
    BY <2>3 DEF Surjection
  <2>5. DOMAIN order = D
    BY <1>2
  <2>6. QED
    BY <1>2, <2>4, <2>5 DEF ToSet
<1>6. QED
  BY <1>3, <1>4, <1>5

(***************************************************************************)
(* The tail of a queue without duplicates holds all but the head.          *)
(***************************************************************************)
LEMMA TailFacts ==
  ASSUME NEW S, NEW q \in Seq(S), q # << >>, Distinct(q)
  PROVE  /\ Head(q) \in S
         /\ Head(q) \in ToSet(q)
         /\ Tail(q) \in Seq(S)
         /\ ToSet(Tail(q)) = ToSet(q) \ {Head(q)}
         /\ Distinct(Tail(q))
<1>1. /\ Len(q) \in Nat /\ Len(q) > 0
      /\ DOMAIN q = 1 .. Len(q)
  BY EmptySeq, LenProperties
<1>2. /\ Head(q) = q[1]
      /\ Tail(q) \in Seq(S)
      /\ Len(Tail(q)) = Len(q) - 1
      /\ \A i \in 1 .. Len(Tail(q)) : Tail(q)[i] = q[i + 1]
  BY HeadTailProperties
<1>3. DOMAIN Tail(q) = 1 .. (Len(q) - 1)
  BY <1>2, LenProperties
<1>4. Head(q) \in S /\ Head(q) \in ToSet(q)
  BY <1>1, <1>2, ElementOfSeq DEF ToSet
<1>5. ToSet(Tail(q)) = ToSet(q) \ {Head(q)}
  <2>1. ASSUME NEW x \in ToSet(Tail(q)) PROVE x \in ToSet(q) \ {Head(q)}
    <3>1. PICK i \in 1 .. (Len(q) - 1) : x = q[i + 1]
      BY <1>2, <1>3 DEF ToSet
    <3>2. i + 1 \in DOMAIN q /\ i + 1 # 1 /\ 1 \in DOMAIN q
      BY <1>1, <3>1
    <3>3. QED
      BY <1>2, <3>1, <3>2 DEF ToSet, Distinct
  <2>2. ASSUME NEW x \in ToSet(q) \ {Head(q)} PROVE x \in ToSet(Tail(q))
    <3>1. PICK k \in DOMAIN q : x = q[k]
      BY DEF ToSet
    <3>2. k # 1 /\ k - 1 \in 1 .. (Len(q) - 1) /\ q[(k - 1) + 1] = q[k]
      BY <1>1, <1>2, <3>1
    <3>3. QED
      BY <1>2, <1>3, <3>1, <3>2 DEF ToSet
  <2>3. QED
    BY <2>1, <2>2
<1>6. Distinct(Tail(q))
  <2> SUFFICES ASSUME NEW i \in DOMAIN Tail(q), NEW k \in DOMAIN Tail(q),
                      Tail(q)[i] = Tail(q)[k]
               PROVE  i = k
    BY DEF Distinct
  <2>1. q[i + 1] = q[k + 1] /\ i + 1 \in DOMAIN q /\ k + 1 \in DOMAIN q
    BY <1>1, <1>2, <1>3
  <2>2. i + 1 = k + 1
    BY <2>1 DEF Distinct
  <2>3. QED
    BY <1>1, <1>3, <2>2
<1>7. QED
  BY <1>2, <1>4, <1>5, <1>6

(***************************************************************************)
(* Two queues without duplicates or common elements, one after the other.  *)
(***************************************************************************)
LEMMA ConcatFacts ==
  ASSUME NEW S, NEW q \in Seq(S), NEW r \in Seq(S)
  PROVE  /\ q \o r \in Seq(S)
         /\ ToSet(q \o r) = ToSet(q) \cup ToSet(r)
         /\ Distinct(q) /\ Distinct(r) /\ ToSet(q) \cap ToSet(r) = {}
              => Distinct(q \o r)
<1>1. /\ Len(q) \in Nat /\ Len(r) \in Nat
      /\ DOMAIN q = 1 .. Len(q) /\ DOMAIN r = 1 .. Len(r)
  BY LenProperties
<1>2. /\ q \o r \in Seq(S)
      /\ Len(q \o r) = Len(q) + Len(r)
      /\ \A i \in 1 .. Len(q) + Len(r) :
           (q \o r)[i] = IF i <= Len(q) THEN q[i] ELSE r[i - Len(q)]
  BY ConcatProperties
<1>3. DOMAIN (q \o r) = 1 .. Len(q) + Len(r)
  BY <1>2, LenProperties
<1>4. \A i \in DOMAIN (q \o r) :
        \/ i \in DOMAIN q /\ (q \o r)[i] = q[i]
        \/ i - Len(q) \in DOMAIN r /\ (q \o r)[i] = r[i - Len(q)]
  BY <1>1, <1>2, <1>3
<1>5. /\ \A i \in DOMAIN q : i \in DOMAIN (q \o r) /\ (q \o r)[i] = q[i]
      /\ \A i \in DOMAIN r : i + Len(q) \in DOMAIN (q \o r)
                              /\ (q \o r)[i + Len(q)] = r[i]
  BY <1>1, <1>2, <1>3
<1>6. ToSet(q \o r) = ToSet(q) \cup ToSet(r)
  <2>1. \A x \in ToSet(q \o r) : x \in ToSet(q) \cup ToSet(r)
    BY <1>4 DEF ToSet
  <2>2. \A x \in ToSet(q) \cup ToSet(r) : x \in ToSet(q \o r)
    BY <1>5 DEF ToSet
  <2>3. QED
    BY <2>1, <2>2
<1>7. ASSUME Distinct(q), Distinct(r), ToSet(q) \cap ToSet(r) = {}
      PROVE  Distinct(q \o r)
  <2> SUFFICES ASSUME NEW i \in DOMAIN (q \o r), NEW k \in DOMAIN (q \o r),
                      (q \o r)[i] = (q \o r)[k]
               PROVE  i = k
    BY DEF Distinct
  <2>1. i \in Nat /\ k \in Nat
    BY <1>1, <1>3
  <2>2. CASE i \in DOMAIN q /\ (q \o r)[i] = q[i] /\ k \in DOMAIN q /\ (q \o r)[k] = q[k]
    BY <1>7, <2>2 DEF Distinct
  <2>3. CASE /\ i - Len(q) \in DOMAIN r /\ (q \o r)[i] = r[i - Len(q)]
             /\ k - Len(q) \in DOMAIN r /\ (q \o r)[k] = r[k - Len(q)]
    <3>1. i - Len(q) = k - Len(q)
      BY <1>7, <2>3 DEF Distinct
    <3>2. QED
      BY <1>1, <2>1, <3>1
  <2>4. CASE /\ i \in DOMAIN q /\ (q \o r)[i] = q[i]
             /\ k - Len(q) \in DOMAIN r /\ (q \o r)[k] = r[k - Len(q)]
    BY <1>7, <2>4 DEF ToSet
  <2>5. CASE /\ k \in DOMAIN q /\ (q \o r)[k] = q[k]
             /\ i - Len(q) \in DOMAIN r /\ (q \o r)[i] = r[i - Len(q)]
    BY <1>7, <2>5 DEF ToSet
  <2>6. QED
    BY <1>4, <2>2, <2>3, <2>4, <2>5
<1>8. QED
  BY <1>2, <1>6, <1>7
-----------------------------------------------------------------------------
(***************************************************************************)
(* A cascade contains its seeds, is closed under fallible children, holds  *)
(* nothing else, and every member that is no seed has a parent in it.      *)
(***************************************************************************)
LEMMA CascadeFacts ==
  ASSUME NEW jobs, NEW seeds \in SUBSET DOMAIN jobs,
         NEW mayFall \in SUBSET DOMAIN jobs
  PROVE  LET C == Cascade(jobs, seeds, mayFall)
         IN  /\ C \in SUBSET DOMAIN jobs
             /\ seeds \subseteq C
             /\ C \subseteq seeds \cup mayFall
             /\ \A c \in mayFall : ParentIds(jobs[c]) \cap C # {} => c \in C
             /\ \A c \in C \ seeds : ParentIds(jobs[c]) \cap C # {}
<1> DEFINE C == Cascade(jobs, seeds, mayFall)
<1>1. C \in SUBSET DOMAIN jobs /\ seeds \subseteq C
  BY DEF Cascade, ClosedUnder
<1>2. C \subseteq seeds \cup mayFall
  <2>1. ClosedUnder(seeds \cup mayFall, jobs, seeds, mayFall)
    BY DEF ClosedUnder
  <2>2. QED
    BY <2>1 DEF Cascade
<1>3. ASSUME NEW c \in mayFall, ParentIds(jobs[c]) \cap C # {}
      PROVE  c \in C
  <2>1. PICK p \in C : p \in ParentIds(jobs[c])
    BY <1>3
  <2>2. ASSUME NEW T \in SUBSET DOMAIN jobs, ClosedUnder(T, jobs, seeds, mayFall)
        PROVE  c \in T
    <3>1. p \in T
      BY <2>1, <2>2 DEF Cascade
    <3>2. QED
      BY <2>1, <2>2, <3>1 DEF ClosedUnder
  <2>3. QED
    BY <2>2 DEF Cascade
<1>4. ASSUME NEW c \in C \ seeds, ParentIds(jobs[c]) \cap C = {}
      PROVE  FALSE
  <2>1. ClosedUnder(C \ {c}, jobs, seeds, mayFall)
    <3>1. seeds \subseteq C \ {c}
      BY <1>1, <1>4
    <3>2. ASSUME NEW d \in mayFall, ParentIds(jobs[d]) \cap (C \ {c}) # {}
          PROVE  d \in C \ {c}
      <4>1. d \in C
        BY <1>3, <3>2
      <4>2. d # c
        BY <1>4, <3>2
      <4>3. QED
        BY <4>1, <4>2
    <3>3. QED
      BY <3>1, <3>2 DEF ClosedUnder
  <2>2. c \in C \ {c}
    <3>1. C \ {c} \in SUBSET DOMAIN jobs
      BY <1>1
    <3>2. QED
      BY <1>4, <2>1, <3>1 DEF Cascade
  <2>3. QED
    BY <2>2
<1>5. QED
  <2> HIDE DEF C
  <2>1. /\ C \in SUBSET DOMAIN jobs
        /\ seeds \subseteq C
        /\ C \subseteq seeds \cup mayFall
        /\ \A c \in mayFall : ParentIds(jobs[c]) \cap C # {} => c \in C
        /\ \A c \in C \ seeds : ParentIds(jobs[c]) \cap C # {}
    BY <1>1, <1>2, <1>3, <1>4
  <2>2. QED
    BY <2>1 DEF C

-----------------------------------------------------------------------------
(***************************************************************************)
(* A list of fresh ids is indexed by DefsOf without losing a definition.   *)
(***************************************************************************)
LEMMA DefsOfFacts ==
  ASSUME NEW new \in Seq(JobDef)
  PROVE  /\ IdsOf(new) \subseteq Ids
         /\ IsFiniteSet(IdsOf(new))
         /\ DOMAIN DefsOf(new) = IdsOf(new)
         /\ \A j \in IdsOf(new) :
              \E i \in DOMAIN new : new[i].id = j /\ DefsOf(new)[j] = new[i]
         /\ DefsOf(new) \in [IdsOf(new) -> JobDef]
         /\ (\A i, k \in DOMAIN new : new[i].id = new[k].id => i = k)
              => Cardinality(IdsOf(new)) = Len(new)
<1>1. /\ Len(new) \in Nat /\ DOMAIN new = 1 .. Len(new)
      /\ new \in [1 .. Len(new) -> JobDef]
  BY LenProperties
<1>2. \A i \in DOMAIN new : new[i] \in JobDef /\ new[i].id \in Ids
  BY <1>1 DEF JobDef
<1>3. IdsOf(new) \subseteq Ids
  BY <1>2 DEF IdsOf
<1>4. IsFiniteSet(1 .. Len(new)) /\ Cardinality(1 .. Len(new)) = Len(new)
  BY <1>1, FS_Interval
<1> DEFINE f == [ i \in 1 .. Len(new) |-> new[i].id ]
<1>5. f \in Surjection(1 .. Len(new), IdsOf(new))
  BY <1>1 DEF Surjection, IdsOf
<1>6. /\ IsFiniteSet(IdsOf(new))
      /\ Cardinality(IdsOf(new)) = Len(new) <=> f \in Injection(1 .. Len(new), IdsOf(new))
  BY <1>4, <1>5, FS_Surjection
<1>7. \A j \in IdsOf(new) :
        \E i \in DOMAIN new : new[i].id = j /\ DefsOf(new)[j] = new[i]
  <2> SUFFICES ASSUME NEW j \in IdsOf(new)
               PROVE  \E i \in DOMAIN new : new[i].id = j /\ DefsOf(new)[j] = new[i]
    OBVIOUS
  <2> DEFINE k == CHOOSE i \in DOMAIN new : new[i].id = j
  <2>1. \E i \in DOMAIN new : new[i].id = j
    BY DEF IdsOf
  <2>2. k \in DOMAIN new /\ new[k].id = j
    BY <2>1
  <2>3. DefsOf(new)[j] = new[k]
    BY DEF DefsOf
  <2>4. QED
    BY <2>2, <2>3
<1>8. ASSUME \A i, k \in DOMAIN new : new[i].id = new[k].id => i = k
      PROVE  Cardinality(IdsOf(new)) = Len(new)
  <2>1. IsInjective(f)
    BY <1>1, <1>8 DEF IsInjective
  <2>2. f \in Injection(1 .. Len(new), IdsOf(new))
    BY <1>5, <2>1 DEF Injection, Surjection
  <2>3. QED
    BY <1>6, <2>2
<1>9. DOMAIN DefsOf(new) = IdsOf(new) /\ DefsOf(new) \in [IdsOf(new) -> JobDef]
  <2>1. \A j \in IdsOf(new) : DefsOf(new)[j] \in JobDef
    BY <1>2, <1>7
  <2>2. QED
    BY <2>1 DEF DefsOf
<1>10. QED
  BY <1>3, <1>6, <1>7, <1>8, <1>9

(***************************************************************************)
(* Merging keeps the jobs there are and adds the new ones.                 *)
(***************************************************************************)
LEMMA ExtendFacts ==
  ASSUME NEW f, NEW g
  PROVE  /\ DOMAIN Extend(f, g) = DOMAIN f \cup DOMAIN g
         /\ \A x \in DOMAIN f : Extend(f, g)[x] = f[x]
         /\ \A x \in DOMAIN g \ DOMAIN f : Extend(f, g)[x] = g[x]
  BY DEF Extend

(***************************************************************************)
(* In a sound graph every parent is known and publishes a store entry, and *)
(* there is no cycle.  Merging a valid list keeps it sound, and nobody in  *)
(* the merged graph has a job without an entry for a parent.               *)
(***************************************************************************)
Sound(jobs) ==
  /\ DOMAIN jobs \subseteq Ids /\ IsFiniteSet(DOMAIN jobs)
  /\ jobs \in [DOMAIN jobs -> JobDef]
  /\ \A j \in DOMAIN jobs : \A p \in ParentIds(jobs[j]) :
       p \in DOMAIN jobs /\ jobs[p].kind = "Argv"
  /\ Acyclic(jobs)

(***************************************************************************)
(* Merging a list that validate_and_index accepts keeps the graph sound.   *)
(***************************************************************************)
LEMMA MergeSound ==
  ASSUME NEW jobs, Sound(jobs), NEW new \in Seq(JobDef), Valid(new, jobs)
  PROVE  /\ Sound(Extend(jobs, DefsOf(new)))
         /\ IdsOf(new) \cap DOMAIN jobs = {}
         /\ Len(new) = Cardinality(IdsOf(new))
<1> DEFINE defs == DefsOf(new)
           js   == Extend(jobs, defs)
<1>1. /\ IdsOf(new) \subseteq Ids /\ IsFiniteSet(IdsOf(new))
      /\ DOMAIN defs = IdsOf(new)
      /\ \A j \in IdsOf(new) : \E i \in DOMAIN new : new[i].id = j /\ defs[j] = new[i]
      /\ defs \in [IdsOf(new) -> JobDef]
      /\ Len(new) = Cardinality(IdsOf(new))
  BY DefsOfFacts DEF Valid, FreshIds
<1>2. IdsOf(new) \cap DOMAIN jobs = {}
  BY DEF Valid, FreshIds
<1>3. /\ DOMAIN js = DOMAIN jobs \cup IdsOf(new)
      /\ \A j \in DOMAIN jobs : js[j] = jobs[j]
      /\ \A j \in IdsOf(new) : js[j] = defs[j]
  <2> HIDE DEF defs
  <2>1. /\ DOMAIN js = DOMAIN jobs \cup DOMAIN defs
        /\ \A j \in DOMAIN jobs : js[j] = jobs[j]
        /\ \A j \in DOMAIN defs \ DOMAIN jobs : js[j] = defs[j]
    BY ExtendFacts
  <2>2. QED
    BY <1>1, <1>2, <2>1
<1>4. DOMAIN js \subseteq Ids /\ IsFiniteSet(DOMAIN js) /\ js \in [DOMAIN js -> JobDef]
  <2>1. IsFiniteSet(DOMAIN jobs \cup IdsOf(new))
    BY <1>1, FS_Union DEF Sound
  <2>2. \A j \in DOMAIN js : js[j] \in JobDef
    BY <1>1, <1>3 DEF Sound
  <2>3. js = [ j \in DOMAIN js |-> js[j] ]
    BY DEF Extend
  <2>4. DOMAIN js \subseteq Ids /\ IsFiniteSet(DOMAIN js)
    BY <1>1, <1>3, <2>1 DEF Sound
  <2> HIDE DEF js
  <2>5. js \in [DOMAIN js -> JobDef]
    BY <2>2, <2>3
  <2>6. QED
    BY <2>4, <2>5
<1>5. ASSUME NEW j \in DOMAIN js, NEW p \in ParentIds(js[j])
      PROVE  p \in DOMAIN js /\ js[p].kind = "Argv"
  <2>1. CASE j \in DOMAIN jobs
    BY <1>3, <1>5, <2>1 DEF Sound
  <2>2. CASE j \in IdsOf(new)
    <3>1. PICK i \in DOMAIN new : defs[j] = new[i]
      BY <1>1, <2>2
    <3>2. p \in ParentIds(new[i])
      BY <1>3, <1>5, <2>2, <3>1
    <3>3. QED
      BY <1>3, <3>2 DEF Valid, ParentsUsable
  <2>3. QED
    BY <1>3, <2>1, <2>2
<1>6. Acyclic(js)
  <2> SUFFICES ASSUME NEW S \in SUBSET DOMAIN js,
                      \A j \in S : ParentIds(js[j]) \cap S # {}
               PROVE  S = {}
    BY DEF Acyclic
  <2>1. S \cap DOMAIN jobs = {}
    <3>1. \A j \in S \cap DOMAIN jobs :
            ParentIds(jobs[j]) \cap (S \cap DOMAIN jobs) # {}
      BY <1>3 DEF Sound
    <3>2. QED
      BY <3>1 DEF Sound, Acyclic
  <2>2. S \in SUBSET DOMAIN defs
    BY <1>1, <1>3, <2>1
  <2>3. \A j \in S : ParentIds(defs[j]) \cap S # {}
    BY <1>1, <1>3, <2>2
  <2>4. QED
    BY <2>2, <2>3 DEF Acyclic, Valid
<1>7. QED
  <2> HIDE DEF js, defs
  <2>1. Sound(js)
    BY <1>4, <1>5, <1>6 DEF Sound
  <2>2. QED
    BY <1>1, <1>2, <2>1 DEF js, defs
=============================================================================
