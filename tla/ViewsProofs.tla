---------------------------- MODULE ViewsProofs -----------------------------
(***************************************************************************)
(* What the scripts and the shell of a project can rely on, for any        *)
(* stores, views, budgets, bounds and processes killed.                    *)
(***************************************************************************)
EXTENDS Views, FiniteSetTheorems, WellFoundedInduction, TLAPS

(***************************************************************************)
(* The number of a generation is read before it is used, and nothing keeps *)
(* a second script from using it too, or a second shell from dropping what *)
(* the first has listed.  With one command at a time the directories are   *)
(* in order, however many scripts write; the roots need one script too.    *)
(***************************************************************************)
OneScript == \A p, q \in Scripts : p = q
OneShell  == \A p, q \in Shells : p = q

(***************************************************************************)
(* A bounded set of numbers has a largest element.                         *)
(***************************************************************************)
LEMMA LargestIs ==
  ASSUME NEW k \in Nat, NEW S \in SUBSET (1 .. k), S # {}
  PROVE  Largest(S) \in S /\ \A m \in S : m <= Largest(S)
<1> DEFINE Bounds == { b \in Nat : \A m \in S : m <= b }
<1>1. Bounds \subseteq Nat /\ k \in Bounds
  OBVIOUS
<1>2. \E b \in Bounds : \A c \in Bounds : ~ (<<c, b>> \in OpToRel(<, Nat))
  <2> HIDE DEF Bounds
  <2>1. Bounds # {}
    BY <1>1
  <2>2. QED
    BY <1>1, <2>1, WFMin, NatLessThanWellFounded, Zenon
<1>3. PICK b \in Bounds : \A c \in Bounds : b <= c
  <2> DEFINE Less == { ss \in Nat \X Nat : ss[1] < ss[2] }
  <2>1. Less = OpToRel(<, Nat)
    BY Zenon DEF OpToRel
  <2>2. \E b \in Bounds : \A c \in Bounds : ~ (<<c, b>> \in Less)
    BY <1>2, <2>1, Zenon
  <2>3. PICK b \in Bounds : \A c \in Bounds : ~ (<<c, b>> \in Less)
    BY <2>2
  <2>4. ASSUME NEW c \in Bounds PROVE b <= c
    <3>1. b \in Nat /\ c \in Nat /\ ~ (<<c, b>> \in Less)
      BY <2>3
    <3>2. <<c, b>> \in Nat \X Nat /\ <<c, b>>[1] = c /\ <<c, b>>[2] = b
      BY <3>1
    <3>3. ~ (c < b)
      BY <3>1, <3>2, Zenon
    <3>4. QED
      BY <3>1, <3>3
  <2>5. QED
    BY <2>3, <2>4
<1>4. b \in S
  <2> SUFFICES ASSUME b \notin S PROVE FALSE
    OBVIOUS
  <2>1. PICK s \in S : TRUE
    OBVIOUS
  <2>2. b \in Nat /\ s \in 1 .. k /\ s <= b /\ \A m \in S : m \in 1 .. k /\ m <= b
    BY <1>3, <2>1
  <2>3. b - 1 \in Nat /\ \A m \in S : m <= b - 1
    BY <2>2
  <2>4. b - 1 \in Bounds
    BY <2>3
  <2>5. QED
    BY <1>3, <2>2, <2>4
<1>5. \E n \in S : \A m \in S : m <= n
  BY <1>3, <1>4
<1>6. QED
  BY <1>5 DEF Largest

(***************************************************************************)
(* The inductive invariant.  A script is at the steps of a write and a     *)
(* shell is not.  Where no other script writes, the number of a write is   *)
(* above every directory there is, and the entries of its view are rooted  *)
(* but in the stores it has not come to.                                   *)
(***************************************************************************)
Holding == {"root", "build", "place"}

Pending(p) ==
  \A e \in Made(p) : e[1] \in Writable =>
    \/ <<e[1], N(p), e[2]>> \in roots
    \/ At(p) = "root" /\ e[1] \in job[p].left

Scripted(p) ==
  /\ At(p) \in {"idle"} \cup Writing
  /\ At(p) \in Writing => N(p) \in Numbers
  /\ At(p) = "root" => job[p].left \subseteq Writable
  /\ OneScript /\ At(p) \in Holding => (\A m \in DOMAIN gens : m < N(p)) /\ Pending(p)

(***************************************************************************)
(* A shell that drops a generation has its directory.                      *)
(***************************************************************************)
Commanded(p) ==
  /\ At(p) \notin Writing
  /\ At(p) = "repoint" => N(p) \in Numbers
  /\ At(p) \in Dropping => N(p) \in DOMAIN gens

Kept ==
  /\ TypeOK
  /\ \A p \in Scripts : Scripted(p)
  /\ \A p \in Shells : Commanded(p)
  /\ OneScript => RootsBeforeView
  /\ ListingWorks

LEMMA TaskType ==
  ASSUME NEW at \in Steps, NEW n \in Nat, NEW view \in View, NEW left \in SUBSET Stores,
         NEW todo \in (SUBSET Nat) \X (SUBSET Nat), NEW policy \in Policy
  PROVE  Task(at, n, view, left, todo, policy) \in Job
  BY DEF Task, Job

(***************************************************************************)
(* Kept holds at the start.                                                *)
(***************************************************************************)
LEMMA InitKept == Init => Kept
<1> SUFFICES ASSUME Init PROVE Kept
  OBVIOUS
<1>1. DOMAIN gens = {} /\ undone = {} /\ \A p \in Procs : job[p] = Idle /\ At(p) = "idle"
  BY DEF Init, At, Idle, Task
<1>2. Idle \in Job
  BY TaskType DEF Idle, Steps, None, NoView, Nothing, NoPolicy, View, Policy
<1>3. TypeOK
  BY <1>1, <1>2, ViewsAssumption DEF TypeOK, Init, None
<1>4. QED
  BY <1>1, <1>3 DEF Kept, Scripted, Commanded, Holding, Writing, Dropping, Procs,
     RootsBeforeView, ListingWorks

(***************************************************************************)
(* What a step does to the process that takes it, and to no other.         *)
(***************************************************************************)
LEMMA JobAfter ==
  ASSUME TypeOK, NEW p \in Procs, NEW new \in Job, Becomes(p, new)
  PROVE  /\ job' \in [Procs -> Job]
         /\ job'[p] = new /\ At(p)' = new.at /\ N(p)' = new.n
         /\ \A q \in Procs : q # p => job'[q] = job[q] /\ At(q)' = At(q) /\ N(q)' = N(q)
  BY DEF TypeOK, Becomes, At, N

LEMMA JobFields ==
  ASSUME TypeOK, NEW p \in Procs
  PROVE  /\ job[p] \in Job
         /\ At(p) \in Steps /\ N(p) \in Nat
         /\ job[p].view \in View /\ job[p].left \subseteq Stores
         /\ job[p].todo \in (SUBSET Nat) \X (SUBSET Nat) /\ job[p].policy \in Policy
         /\ \A step \in Steps : [job[p] EXCEPT !.at = step] \in Job
         /\ Idle \in Job
<1>1. job[p] \in Job
  BY DEF TypeOK
<1>2. Idle \in Job
  BY TaskType DEF Idle, Steps, None, NoView, Nothing, NoPolicy, View, Policy
<1>3. \A step \in Steps : [job[p] EXCEPT !.at = step] \in Job
  BY <1>1 DEF Job
<1>4. /\ job[p].at \in Steps /\ job[p].n \in Nat
      /\ job[p].view \in View /\ job[p].left \subseteq Stores
      /\ job[p].todo \in (SUBSET Nat) \X (SUBSET Nat) /\ job[p].policy \in Policy
  <2> DEFINE j == job[p]
  <2>1. j \in Job
    BY <1>1
  <2> HIDE DEF j
  <2>2. /\ j.at \in Steps /\ j.n \in Nat /\ j.view \in View /\ j.left \subseteq Stores
        /\ j.todo \in (SUBSET Nat) \X (SUBSET Nat) /\ j.policy \in Policy
    BY <2>1 DEF Job
  <2>3. QED
    BY <2>2 DEF j
<1>5. QED
  BY <1>1, <1>2, <1>3, <1>4 DEF At, N

(***************************************************************************)
(* A step that leaves the directories alone and removes no root disturbs   *)
(* nobody but the process that takes it.                                   *)
(***************************************************************************)
LEMMA OthersKept ==
  ASSUME Kept, NEW p \in Procs, NEW new \in Job, Becomes(p, new),
         UNCHANGED <<gens, undone>>, roots \subseteq roots',
         p \in Scripts => Scripted(p)', p \in Shells => Commanded(p)'
  PROVE  /\ \A q \in Scripts : Scripted(q)'
         /\ \A q \in Shells : Commanded(q)'
         /\ OneScript => RootsBeforeView'
         /\ ListingWorks'
<1>1. /\ job'[p] = new /\ At(p)' = new.at /\ N(p)' = new.n
      /\ \A q \in Procs : q # p => job'[q] = job[q] /\ At(q)' = At(q) /\ N(q)' = N(q)
  BY JobAfter DEF Kept
<1>2. ASSUME NEW q \in Scripts PROVE Scripted(q)'
  <2>1. CASE q = p
    BY <2>1
  <2>2. CASE q # p
    <3>1. /\ job'[q] = job[q] /\ At(q)' = At(q) /\ N(q)' = N(q) /\ Made(q)' = Made(q)
      BY <1>1, <2>2 DEF Procs, Made
    <3>2. Scripted(q)
      BY DEF Kept
    <3>3. Pending(q) => Pending(q)'
      BY <3>1 DEF Pending
    <3>4. QED
      BY <3>1, <3>2, <3>3 DEF Scripted
  <2>3. QED
    BY <2>1, <2>2
<1>3. ASSUME NEW q \in Shells PROVE Commanded(q)'
  BY <1>1, ViewsAssumption DEF Kept, Commanded, Procs
<1>4. (OneScript => RootsBeforeView') /\ ListingWorks'
  BY DEF Kept, RootsBeforeView, ListingWorks, Rooted
<1>5. QED
  BY <1>2, <1>3, <1>4

(***************************************************************************)
(* A process that returns, or is killed, leaves nothing anybody relies on. *)
(***************************************************************************)
LEMMA ReturnKept ==
  ASSUME Kept, NEW p \in Procs, Returns(p), UNCHANGED <<gens, roots, undone>>,
         crashes' \in 0 .. MaxCrashes,
         current' \in Numbers \cup {None}, outputs' \in {"missing", "other", "link"}
  PROVE  Kept'
<1>1. Idle \in Job /\ Becomes(p, Idle)
  BY JobFields DEF Kept, Returns
<1>2. Idle.at = "idle"
  BY DEF Idle, Task
<1>3. job' \in [Procs -> Job] /\ At(p)' = "idle"
  BY <1>1, <1>2, JobAfter DEF Kept
<1>4. TypeOK'
  BY <1>3 DEF Kept, TypeOK
<1>5. Scripted(p)' /\ Commanded(p)'
  BY <1>3 DEF Scripted, Commanded, Writing, Holding, Dropping
<1>6. QED
  BY <1>1, <1>4, <1>5, OthersKept DEF Kept

(***************************************************************************)
(* The steps of a write.                                                   *)
(***************************************************************************)
LEMMA WriteKept ==
  ASSUME Kept, NEW p \in Scripts, Write(p)
  PROVE  Kept'
<1>1. p \in Procs /\ p \notin Shells
  BY ViewsAssumption DEF Procs
<1>2. TypeOK /\ Scripted(p)
  BY DEF Kept
<1>3. /\ job[p] \in Job /\ N(p) \in Nat /\ Idle \in Job
      /\ job[p].view \in View /\ job[p].left \subseteq Stores
      /\ \A step \in Steps : [job[p] EXCEPT !.at = step] \in Job
  BY <1>1, <1>2, JobFields
<1>4. MaxGen \in Nat /\ DOMAIN gens \subseteq 1 .. MaxGen
  BY <1>2, ViewsAssumption DEF TypeOK, Numbers
<1>5. Writing \subseteq Steps
  BY DEF Writing, Steps
<1>6. ASSUME NEW view \in Offers, Number(p, view) PROVE Kept'
  <2> DEFINE new == Task("root", NextNumber, view, StoresOf(view[1]) \cap Writable,
                         Nothing, NoPolicy)
  <2>1. NextNumber \in Numbers /\ \A m \in DOMAIN gens : m < NextNumber
    <3>1. Largest(DOMAIN gens) \in Nat /\ \A m \in DOMAIN gens : m <= Largest(DOMAIN gens)
      <4>1. CASE DOMAIN gens = {}
        BY <4>1 DEF Largest
      <4>2. CASE DOMAIN gens # {}
        <5>1. DOMAIN gens \in SUBSET (1 .. MaxGen)
          BY <1>4
        <5>2. /\ Largest(DOMAIN gens) \in DOMAIN gens
              /\ \A m \in DOMAIN gens : m <= Largest(DOMAIN gens)
          BY <1>4, <4>2, <5>1, LargestIs, Zenon
        <5>3. QED
          BY <1>4, <5>2
      <4>3. QED
        BY <4>1, <4>2
    <3>2. NextNumber = Largest(DOMAIN gens) + 1 /\ NextNumber <= MaxGen
      BY <1>6 DEF Number, NextNumber
    <3>3. QED
      BY <1>4, <3>1, <3>2 DEF Numbers
  <2>2. view \in View /\ view[1] \subseteq Entries
    BY ViewsAssumption DEF Entries, View
  <2>3. new.at = "root" /\ new.n = NextNumber /\ new.view = view
        /\ new.left = StoresOf(view[1]) \cap Writable
    BY DEF Task
  <2>4. new \in Job
    BY <2>1, <2>2, TaskType DEF Steps, Writing, Nothing, NoPolicy, Policy, None, Numbers, StoresOf
  <2> HIDE DEF new
  <2>5. Becomes(p, new) /\ UNCHANGED <<gens, current, outputs, roots, undone, crashes>>
    BY <1>6 DEF Number, new
  <2>6. /\ job' \in [Procs -> Job]
        /\ At(p)' = "root" /\ N(p)' = NextNumber /\ Made(p)' = view[1]
        /\ job'[p].left = StoresOf(view[1]) \cap Writable
    BY <1>1, <1>2, <2>3, <2>4, <2>5, JobAfter DEF Made
  <2>7. TypeOK'
    BY <1>2, <2>5, <2>6 DEF TypeOK
  <2>8. Pending(p)'
    BY <2>2, <2>6 DEF Pending, StoresOf, Entries
  <2>9. Scripted(p)'
    BY <2>1, <2>5, <2>6, <2>8 DEF Scripted, Writing
  <2>10. QED
    BY <1>1, <2>4, <2>5, <2>7, <2>9, OthersKept DEF Kept
<1>7. ASSUME NEW s \in Stores, Register(p, s) PROVE Kept'
  <2> DEFINE new == [job[p] EXCEPT !.left = @ \ {s}]
  <2>1. /\ At(p) = "root" /\ s \in job[p].left /\ Becomes(p, new)
        /\ roots' = roots \cup RootsFor(Made(p), s, N(p))
        /\ UNCHANGED <<gens, current, outputs, undone, crashes>>
    BY <1>7 DEF Register
  <2>2. new \in Job /\ new.at = job[p].at /\ new.n = job[p].n /\ new.view = job[p].view
        /\ new.left = job[p].left \ {s}
    BY <1>3 DEF Job
  <2> HIDE DEF new
  <2>3. /\ job' \in [Procs -> Job]
        /\ At(p)' = "root" /\ N(p)' = N(p) /\ Made(p)' = Made(p)
        /\ job'[p].left = job[p].left \ {s}
    BY <1>1, <1>2, <2>1, <2>2, JobAfter DEF At, N, Made
  <2>4. /\ s \in Writable /\ N(p) \in Numbers
        /\ OneScript => Pending(p) /\ \A m \in DOMAIN gens : m < N(p)
    BY <1>2, <2>1 DEF Scripted, Holding, Writing
  <2>5. Made(p) \subseteq Entries
    BY <1>3 DEF Made, View
  <2>6. RootsFor(Made(p), s, N(p)) \subseteq Writable \X Numbers \X Hashes
    BY <2>4, <2>5 DEF RootsFor, Entries
  <2>7. TypeOK'
    BY <1>2, <2>1, <2>3, <2>6 DEF TypeOK
  <2>8. Pending(p) => Pending(p)'
    <3>1. \A e \in Made(p) : e[1] = s => <<e[1], N(p), e[2]>> \in RootsFor(Made(p), s, N(p))
      BY DEF RootsFor
    <3>2. QED
      BY <2>1, <2>3, <3>1 DEF Pending
  <2>9. Scripted(p)'
    BY <1>2, <2>1, <2>3, <2>4, <2>8 DEF Scripted, Writing
  <2>10. QED
    BY <1>1, <2>1, <2>2, <2>7, <2>9, OthersKept DEF Kept
<1>8. ASSUME NEW step \in Writing, Goes(p, step), UNCHANGED <<gens, roots, undone, crashes>>,
             current' \in Numbers \cup {None}, outputs' \in {"missing", "other", "link"},
             At(p) \in Writing,
             step \in Holding => At(p) = "build" \/ (At(p) = "root" /\ job[p].left = {}),
             step # "root"
      PROVE  Kept'
  <2> DEFINE new == [job[p] EXCEPT !.at = step]
  <2>1. new \in Job /\ new.at = step /\ new.n = job[p].n /\ new.view = job[p].view
        /\ new.left = job[p].left
    BY <1>3, <1>5 DEF Job
  <2>2. Becomes(p, new)
    BY <1>8 DEF Goes
  <2> HIDE DEF new
  <2>3. /\ job' \in [Procs -> Job]
        /\ At(p)' = step /\ N(p)' = N(p) /\ Made(p)' = Made(p)
    BY <1>1, <1>2, <2>1, <2>2, JobAfter DEF At, N, Made
  <2>4. TypeOK'
    BY <1>2, <1>8, <2>3 DEF TypeOK
  <2>5. Scripted(p)'
    BY <1>2, <1>8, <2>3 DEF Scripted, Pending, Holding, Writing
  <2>6. QED
    BY <1>1, <1>8, <2>1, <2>2, <2>4, <2>5, OthersKept DEF Kept
<1>9. ASSUME Returns(p), UNCHANGED <<gens, roots, undone>>, crashes' \in 0 .. MaxCrashes,
             current' \in Numbers \cup {None}, outputs' \in {"missing", "other", "link"}
      PROVE  Kept'
  BY <1>1, <1>9, ReturnKept
<1>10. ASSUME Registered(p) PROVE Kept'
  <2>1. /\ At(p) = "root" /\ job[p].left = {} /\ Goes(p, "build")
        /\ UNCHANGED <<gens, current, outputs, roots, undone, crashes>>
    BY <1>10 DEF Registered
  <2>2. "build" \in Writing /\ "root" \in Writing /\ "build" # "root"
    BY DEF Writing
  <2>3. QED
    BY <1>2, <1>8, <2>1, <2>2 DEF TypeOK
<1>11. ASSUME Build(p) PROVE Kept'
  <2>1. /\ At(p) = "build" /\ (Goes(p, "place") \/ Returns(p))
        /\ UNCHANGED <<gens, current, outputs, roots, undone, crashes>>
    BY <1>11 DEF Build
  <2>2. "place" \in Writing /\ "build" \in Writing /\ "place" # "root"
    BY DEF Writing
  <2>3. CASE Goes(p, "place")
    BY <1>2, <1>8, <2>1, <2>2, <2>3 DEF TypeOK
  <2>4. CASE Returns(p)
    BY <1>2, <1>9, <2>1, <2>4 DEF TypeOK
  <2>5. QED
    BY <2>1, <2>3, <2>4
<1>12. ASSUME Point(p) PROVE Kept'
  <2>1. /\ At(p) = "point" /\ Goes(p, "outputs") /\ current' = N(p)
        /\ UNCHANGED <<gens, outputs, roots, undone, crashes>>
    BY <1>12 DEF Point
  <2>2. "point" \in Writing /\ "outputs" \in Writing /\ "outputs" # "root"
        /\ "outputs" \notin Holding
    BY DEF Writing, Holding
  <2>3. N(p) \in Numbers
    BY <1>2, <2>1, <2>2 DEF Scripted
  <2>4. QED
    BY <1>2, <1>8, <2>1, <2>2, <2>3 DEF TypeOK
<1>13. ASSUME LinkOutputs(p) PROVE Kept'
  BY <1>2, <1>9, <1>13 DEF LinkOutputs, TypeOK
<1>14. ASSUME Place(p) PROVE Kept'
  <2>1. /\ At(p) = "place" /\ UNCHANGED <<current, outputs, roots, crashes>>
    BY <1>14 DEF Place
  <2>2. /\ N(p) \in Numbers
        /\ OneScript => N(p) \notin DOMAIN gens /\ Pending(p)
    BY <1>2, <1>3, <2>1 DEF Scripted, Writing, Holding
  <2>3. CASE Returns(p) /\ UNCHANGED <<gens, undone>>
    BY <1>2, <1>9, <2>1, <2>3 DEF TypeOK
  <2> DEFINE gen == [made |-> Made(p), dirty |-> Dirty(p), files |-> FilesOf(p)]
             new == [job[p] EXCEPT !.at = "point"]
  <2>4. CASE /\ DOMAIN gens' = DOMAIN gens \cup {N(p)} /\ gens'[N(p)] = gen
             /\ \A m \in DOMAIN gens : m # N(p) => gens'[m] = gens[m]
             /\ undone' = undone \ {N(p)} /\ Becomes(p, new)
    <3>1. gen \in Generation /\ gen.made = Made(p) /\ "meta" \in gen.files
      BY <1>3 DEF Generation, Made, Dirty, View, FilesOf, Files
    <3>2. new \in Job /\ new.at = "point" /\ new.n = N(p)
      BY <1>3, <1>5 DEF Job, Writing, N
    <3> HIDE DEF gen, new
    <3>3. /\ job' \in [Procs -> Job] /\ At(p)' = "point" /\ N(p)' = N(p)
          /\ \A q \in Procs : q # p => job'[q] = job[q] /\ At(q)' = At(q) /\ N(q)' = N(q)
      BY <1>1, <1>2, <2>4, <3>2, JobAfter
    <3>4. TypeOK'
      BY <1>2, <2>1, <2>2, <2>4, <3>1, <3>3 DEF TypeOK
    <3>5. ASSUME NEW q \in Scripts PROVE Scripted(q)'
      <4>1. CASE q = p
        BY <2>2, <3>3, <4>1 DEF Scripted, Writing, Holding
      <4>2. CASE q # p
        <5>1. job'[q] = job[q] /\ At(q)' = At(q) /\ N(q)' = N(q) /\ ~OneScript
          BY <3>3, <4>2 DEF Procs, OneScript
        <5>2. Scripted(q)
          BY DEF Kept
        <5>3. QED
          BY <5>1, <5>2 DEF Scripted
      <4>3. QED
        BY <4>1, <4>2
    <3>6. \A q \in Shells : Commanded(q)'
      BY <1>1, <2>4, <3>3 DEF Kept, Commanded, Procs
    <3>7. OneScript => RootsBeforeView'
      <4>1. OneScript => Rooted(N(p), Made(p))
        BY <2>1, <2>2 DEF Pending, Rooted
      <4>2. QED
        BY <2>1, <2>2, <2>4, <3>1, <4>1 DEF Kept, RootsBeforeView, Rooted
    <3>8. ListingWorks'
      BY <2>2, <2>4, <3>1 DEF Kept, ListingWorks
    <3>9. QED
      BY <3>4, <3>5, <3>6, <3>7, <3>8 DEF Kept
  <2>5. QED
    BY <1>14, <2>3, <2>4 DEF Place, Free, Goes
<1>15. QED
  BY <1>6, <1>7, <1>10, <1>11, <1>12, <1>13, <1>14 DEF Write

(***************************************************************************)
(* The steps of a command.                                                 *)
(***************************************************************************)
LEMMA CommandKept ==
  ASSUME Kept, OneShell, NEW p \in Shells, Command(p)
  PROVE  Kept'
<1>1. p \in Procs /\ p \notin Scripts
  BY ViewsAssumption DEF Procs
<1>2. TypeOK /\ Commanded(p)
  BY DEF Kept
<1>3. /\ job[p] \in Job /\ N(p) \in Nat /\ Idle \in Job
      /\ job[p].left \subseteq Stores /\ job[p].policy \in Policy
      /\ job[p].todo \in (SUBSET Nat) \X (SUBSET Nat)
      /\ \A step \in Steps : [job[p] EXCEPT !.at = step] \in Job
  BY <1>1, <1>2, JobFields
<1>4. DOMAIN gens \subseteq Numbers /\ Numbers \subseteq Nat /\ undone \subseteq DOMAIN gens
  BY <1>2 DEF TypeOK, Numbers
<1>5. {"repoint", "list", "check"} \cup Dropping \subseteq Steps
  BY DEF Steps
<1>6. ASSUME NEW new \in Job, Becomes(p, new),
             UNCHANGED <<gens, current, outputs, roots, undone, crashes>>,
             new.at \notin Writing, new.at = "repoint" => new.n \in Numbers,
             new.at \in Dropping => new.n \in DOMAIN gens
      PROVE  Kept'
  <2>1. job' \in [Procs -> Job] /\ At(p)' = new.at /\ N(p)' = new.n
    BY <1>1, <1>2, <1>6, JobAfter
  <2>2. TypeOK'
    BY <1>2, <1>6, <2>1 DEF TypeOK
  <2>3. Commanded(p)'
    BY <1>6, <2>1 DEF Commanded
  <2>4. QED
    BY <1>1, <1>6, <2>2, <2>3, OthersKept DEF Kept
<1>7. ASSUME Returns(p), UNCHANGED <<gens, roots, undone, crashes, outputs>>,
             current' \in Numbers \cup {None}
      PROVE  Kept'
  BY <1>1, <1>2, <1>7, ReturnKept DEF TypeOK
<1>8. ASSUME NEW n \in DOMAIN gens, Rollback(p, n) PROVE Kept'
  <2> DEFINE new == Task("repoint", n, NoView, {}, Nothing, NoPolicy)
  <2>1. new \in Job /\ new.at = "repoint" /\ new.n = n
    BY <1>4, <1>5, TaskType DEF NoView, View, Nothing, NoPolicy, Policy, None, Task
  <2> HIDE DEF new
  <2>2. Becomes(p, new) /\ UNCHANGED <<gens, current, outputs, roots, undone, crashes>>
    BY <1>8 DEF Rollback, new
  <2>3. QED
    BY <1>4, <1>6, <2>1, <2>2 DEF Writing, Dropping
<1>9. ASSUME NEW n, Rollback(p, n) PROVE Kept'
  BY <1>8, <1>9 DEF Rollback
<1>10. ASSUME Repoint(p) PROVE Kept'
  BY <1>2, <1>7, <1>10 DEF Repoint, Commanded
<1>11. ASSUME NEW n \in Numbers, Remove(p, n) PROVE Kept'
  <2> DEFINE new == Task("check", None, NoView, {}, <<{n}, {}>>, NoPolicy)
  <2>1. new \in Job /\ new.at = "check"
    BY <1>4, <1>5, TaskType DEF NoView, View, NoPolicy, Policy, None, Task
  <2> HIDE DEF new
  <2>2. Becomes(p, new) /\ UNCHANGED <<gens, current, outputs, roots, undone, crashes>>
    BY <1>11 DEF Remove, new
  <2>3. QED
    BY <1>6, <2>1, <2>2 DEF Writing, Dropping
<1>12. ASSUME NEW by \in {"keep", "explicit", "gc"}, NEW budget \in Budgets,
              Retain(p, by, budget)
       PROVE  Kept'
  <2> DEFINE new == Task("list", None, NoView, {}, Nothing, <<by, budget, current>>)
  <2>1. <<by, budget, current>> \in Policy
    BY <1>2, <1>4, ViewsAssumption DEF TypeOK, Policy, None
  <2>2. new \in Job /\ new.at = "list"
    BY <1>5, <2>1, TaskType DEF NoView, View, Nothing, None, Task
  <2> HIDE DEF new
  <2>3. Becomes(p, new) /\ UNCHANGED <<gens, current, outputs, roots, undone, crashes>>
    BY <1>12 DEF Retain, new
  <2>4. QED
    BY <1>6, <2>2, <2>3 DEF Writing, Dropping
<1>13. ASSUME List(p) PROVE Kept'
  <2> DEFINE new == Task("check", None, NoView, {}, OverBudget(p), job[p].policy)
  <2>1. CASE Returns(p)
    BY <1>2, <1>7, <1>13, <2>1 DEF List, TypeOK
  <2>2. CASE Becomes(p, new)
    <3>1. OverBudget(p) \in (SUBSET Nat) \X (SUBSET Nat)
      BY <1>4 DEF OverBudget, Oldest
    <3>2. new \in Job /\ new.at = "check"
      BY <1>3, <1>5, <3>1, TaskType DEF NoView, View, None, Task
    <3> HIDE DEF new
    <3>3. UNCHANGED <<gens, current, outputs, roots, undone, crashes>>
      BY <1>13 DEF List
    <3>4. QED
      BY <1>6, <2>2, <3>2, <3>3 DEF Writing, Dropping
  <2>3. QED
    BY <1>13, <2>1, <2>2 DEF List
<1>14. ASSUME Done(p) PROVE Kept'
  BY <1>2, <1>7, <1>14 DEF Done, TypeOK
<1>15. ASSUME NEW n \in Numbers, Check(p, n) PROVE Kept'
  <2> DEFINE todo == job[p].todo
             new == Task("unroot", n, NoView, StoresOf(gens[n].made) \cap Writable,
                         <<todo[1] \ {n}, todo[2] \ {n}>>, job[p].policy)
  <2>1. CASE Returns(p)
    BY <1>2, <1>7, <1>15, <2>1 DEF Check, TypeOK
  <2>2. CASE MayDrop(n) /\ Becomes(p, new)
    <3>1. n \in DOMAIN gens
      BY <2>2 DEF MayDrop
    <3>2. new \in Job /\ new.at = "unroot" /\ new.n = n
      BY <1>3, <1>4, <1>5, TaskType DEF NoView, View, Task, StoresOf, Dropping
    <3> HIDE DEF new
    <3>3. UNCHANGED <<gens, current, outputs, roots, undone, crashes>>
      BY <1>15 DEF Check
    <3>4. QED
      BY <1>6, <2>2, <3>1, <3>2, <3>3 DEF Writing
  <2>3. QED
    BY <1>15, <2>1, <2>2 DEF Check
<1>16. At(p) \in Dropping =>
         /\ N(p) \in DOMAIN gens
         /\ OneScript => \A q \in Scripts : At(q) \in Holding => N(q) # N(p)
  <2>1. OneScript =>
          \A q \in Scripts : At(q) \in Holding => \A m \in DOMAIN gens : m < N(q)
    BY DEF Kept, Scripted
  <2>2. ASSUME At(p) \in Dropping, OneScript, NEW q \in Scripts, At(q) \in Holding
        PROVE  N(q) # N(p)
    <3>1. N(p) \in DOMAIN gens /\ N(p) \in Nat /\ N(p) < N(q)
      BY <1>2, <1>3, <2>1, <2>2 DEF Commanded
    <3>2. QED
      BY <3>1
  <2>3. QED
    BY <1>2, <2>2 DEF Commanded
<1>17. ASSUME NEW s \in Stores, Unregister(p, s) PROVE Kept'
  <2> DEFINE new == [job[p] EXCEPT !.left = @ \ {s}]
  <2>1. /\ At(p) = "unroot" /\ Becomes(p, new)
        /\ roots' = { r \in roots : ~(r[1] = s /\ r[2] = N(p)) }
        /\ undone' = undone \cup {N(p)}
        /\ UNCHANGED <<gens, current, outputs, crashes>>
    BY <1>17 DEF Unregister
  <2>2. new \in Job /\ new.at = job[p].at /\ new.n = job[p].n
    BY <1>3 DEF Job
  <2> HIDE DEF new
  <2>3. /\ job' \in [Procs -> Job] /\ At(p)' = At(p) /\ N(p)' = N(p)
        /\ \A q \in Procs : q # p => job'[q] = job[q] /\ At(q)' = At(q) /\ N(q)' = N(q)
    BY <1>1, <1>2, <2>1, <2>2, JobAfter DEF At, N
  <2>4. /\ N(p) \in DOMAIN gens
        /\ OneScript => \A q \in Scripts : At(q) \in Holding => N(q) # N(p)
    BY <1>16, <2>1 DEF Dropping
  <2>5. TypeOK'
    BY <1>2, <2>1, <2>3, <2>4 DEF TypeOK
  <2>6. ASSUME NEW q \in Scripts PROVE Scripted(q)'
    <3>1. job'[q] = job[q] /\ At(q)' = At(q) /\ N(q)' = N(q) /\ Made(q)' = Made(q)
      BY <1>1, <2>3 DEF Procs, Made
    <3>2. Scripted(q)
      BY DEF Kept
    <3>3. OneScript /\ At(q) \in Holding /\ Pending(q) => Pending(q)'
      BY <2>1, <2>4, <3>1 DEF Pending
    <3>4. QED
      BY <2>1, <3>1, <3>2, <3>3 DEF Scripted
  <2>7. \A q \in Shells : Commanded(q)'
    BY <1>2, <2>1, <2>3 DEF Kept, Commanded, Procs
  <2>8. OneScript => RootsBeforeView'
    BY <2>1 DEF Kept, RootsBeforeView, Rooted
  <2>9. ListingWorks'
    BY <2>1 DEF Kept, ListingWorks
  <2>10. QED
    BY <2>5, <2>6, <2>7, <2>8, <2>9 DEF Kept
<1>18. ASSUME NEW step \in Dropping, Goes(p, step), At(p) \in Dropping,
              UNCHANGED <<gens, current, outputs, roots, undone, crashes>>
       PROVE  Kept'
  <2> DEFINE new == [job[p] EXCEPT !.at = step]
  <2>1. new \in Job /\ new.at = step /\ new.n = N(p)
    BY <1>3, <1>5 DEF Job, N
  <2> HIDE DEF new
  <2>2. Becomes(p, new)
    BY <1>18 DEF Goes, new
  <2>3. step \notin Writing /\ step # "repoint"
    BY DEF Dropping, Writing
  <2>4. QED
    BY <1>6, <1>16, <1>18, <2>1, <2>2, <2>3
<1>19. ASSUME Unregistered(p) PROVE Kept'
  BY <1>18, <1>19 DEF Unregistered, Dropping
<1>20. ASSUME Deleted(p) PROVE Kept'
  BY <1>2, <1>7, <1>18, <1>20 DEF Deleted, Dropping, TypeOK
<1>21. ASSUME NEW file \in Files, Delete(p, file) PROVE Kept'
  <2>1. /\ At(p) = "delete" /\ N(p) \in DOMAIN gens
        /\ gens' = [gens EXCEPT ![N(p)].files = @ \ {file}]
        /\ undone' = undone \cup {N(p)}
        /\ UNCHANGED <<current, outputs, roots, job, crashes>>
    BY <1>21 DEF Delete
  <2>2. DOMAIN gens' = DOMAIN gens /\ \A n \in DOMAIN gens : n # N(p) => gens'[n] = gens[n]
    BY <2>1
  <2>3. gens'[N(p)] \in Generation
    BY <1>2, <2>1 DEF TypeOK, Generation
  <2>4. TypeOK'
    BY <1>2, <2>1, <2>2, <2>3 DEF TypeOK
  <2>5. \A q \in Scripts : Scripted(q)'
    BY <2>1, <2>2 DEF Kept, Scripted, At, N, Made, Pending
  <2>6. \A q \in Shells : Commanded(q)'
    BY <2>1, <2>2 DEF Kept, Commanded, At, N
  <2>7. OneScript => RootsBeforeView'
    BY <2>1, <2>2 DEF Kept, RootsBeforeView, Rooted
  <2>8. ListingWorks'
    BY <2>1, <2>2 DEF Kept, ListingWorks
  <2>9. QED
    BY <2>4, <2>5, <2>6, <2>7, <2>8 DEF Kept
<1>22. ASSUME RemoveDir(p) PROVE Kept'
  <2>1. CASE Returns(p) /\ UNCHANGED <<gens, undone>>
    BY <1>2, <1>7, <1>22, <2>1 DEF RemoveDir, TypeOK
  <2>2. CASE /\ N(p) \in DOMAIN gens
             /\ gens' = [ m \in DOMAIN gens \ {N(p)} |-> gens[m] ]
             /\ undone' = undone \ {N(p)} /\ Goes(p, "check")
    <3> DEFINE new == [job[p] EXCEPT !.at = "check"]
    <3>1. new \in Job /\ new.at = "check" /\ Becomes(p, new)
      BY <1>3, <1>5, <2>2 DEF Goes, Job
    <3> HIDE DEF new
    <3>2. /\ job' \in [Procs -> Job] /\ At(p)' = "check"
          /\ \A q \in Procs : q # p => job'[q] = job[q] /\ At(q)' = At(q) /\ N(q)' = N(q)
      BY <1>1, <1>2, <3>1, JobAfter
    <3>3. UNCHANGED <<current, outputs, roots, crashes>>
      BY <1>22 DEF RemoveDir
    <3>4. /\ DOMAIN gens' \subseteq DOMAIN gens
          /\ \A n \in DOMAIN gens' : gens'[n] = gens[n]
          /\ undone' \subseteq DOMAIN gens'
          /\ DOMAIN gens' \ undone' \subseteq DOMAIN gens \ undone
      BY <1>4, <2>2
    <3>5. TypeOK'
      <4>1. DOMAIN gens' \subseteq Numbers /\ \A n \in DOMAIN gens' : gens'[n] \in Generation
        BY <1>2, <3>4 DEF TypeOK
      <4>2. QED
        BY <1>2, <3>2, <3>3, <3>4, <4>1 DEF TypeOK
    <3>6. ASSUME NEW q \in Scripts PROVE Scripted(q)'
      <4>1. job'[q] = job[q] /\ At(q)' = At(q) /\ N(q)' = N(q) /\ Made(q)' = Made(q)
        BY <1>1, <3>2 DEF Procs, Made
      <4>2. Scripted(q)
        BY DEF Kept
      <4>3. QED
        BY <3>3, <3>4, <4>1, <4>2 DEF Scripted, Pending
    <3>7. \A q \in Shells : Commanded(q)'
      BY <3>2 DEF OneShell, Commanded, Writing, Dropping
    <3>8. (OneScript => RootsBeforeView') /\ ListingWorks'
      BY <3>3, <3>4 DEF Kept, RootsBeforeView, ListingWorks, Rooted
    <3>9. QED
      BY <3>5, <3>6, <3>7, <3>8 DEF Kept
  <2>3. QED
    BY <1>22, <2>1, <2>2 DEF RemoveDir
<1>23. QED
  BY <1>9, <1>10, <1>11, <1>12, <1>13, <1>14, <1>15, <1>17, <1>19, <1>20, <1>21, <1>22
  DEF Command, Drop, RollbackPrevious

-----------------------------------------------------------------------------
(***************************************************************************)
(* Every step keeps the invariant.                                         *)
(***************************************************************************)
LEMMA StepKept ==
  ASSUME OneShell
  PROVE  Kept /\ [Next]_vars => Kept'
<1> SUFFICES ASSUME Kept, [Next]_vars PROVE Kept'
  OBVIOUS
<1>1. ASSUME NEW p \in Procs, Crash(p) PROVE Kept'
  <2>1. crashes' \in 0 .. MaxCrashes
    BY <1>1, ViewsAssumption DEF Crash, Kept, TypeOK
  <2>2. QED
    BY <1>1, <2>1, ReturnKept DEF Crash, Kept, TypeOK
<1>2. CASE UNCHANGED vars
  BY <1>2 DEF Kept, TypeOK, Scripted, Commanded, Pending, RootsBeforeView, ListingWorks,
     Rooted, At, N, Made, vars
<1>3. QED
  BY <1>1, <1>2, WriteKept, CommandKept DEF Next

(***************************************************************************)
(* The invariant holds in every reachable state.                           *)
(***************************************************************************)
LEMMA KeptAlways ==
  ASSUME OneShell
  PROVE  Spec => []Kept
<1>1. Kept /\ [Next]_vars => Kept'
  BY StepKept
<1>2. QED
  BY <1>1, InitKept, PTL DEF Spec

(***************************************************************************)
(* TypeOK of Views: with one shell at a time, however many scripts write,  *)
(* the files of a project are those the handlers write.                    *)
(***************************************************************************)
THEOREM TypeCorrect ==
  ASSUME OneShell
  PROVE  Spec => []TypeOK
<1>1. Kept => TypeOK
  BY DEF Kept
<1>2. QED
  BY <1>1, KeptAlways, PTL

(***************************************************************************)
(* ListingWorks of Views: with one shell at a time, however many scripts   *)
(* write, a listing fails only where a drop has begun.                     *)
(***************************************************************************)
THEOREM ListingsWork ==
  ASSUME OneShell
  PROVE  Spec => []ListingWorks
<1>1. Kept => ListingWorks
  BY DEF Kept
<1>2. QED
  BY <1>1, KeptAlways, PTL

(***************************************************************************)
(* RootsBeforeView of Views: with one script and one shell at a time,      *)
(* whatever a generation shows is rooted until somebody begins to drop it, *)
(* in every store that keeps roots, whatever is rolled back, dropped or    *)
(* killed.                                                                 *)
(***************************************************************************)
THEOREM Roots ==
  ASSUME OneScript, OneShell
  PROVE  Spec => []RootsBeforeView
<1>1. Kept => RootsBeforeView
  BY DEF Kept
<1>2. QED
  BY <1>1, KeptAlways, PTL

(***************************************************************************)
(* NumberFree of Views: a script that is alone finds the number it has     *)
(* chosen free when it renames its directory.                              *)
(***************************************************************************)
THEOREM NumbersAreFree ==
  ASSUME OneScript, OneShell
  PROVE  Spec => []NumberFree
<1>1. Kept => NumberFree
  <2> SUFFICES ASSUME Kept, NEW p \in Scripts, At(p) = "place" PROVE N(p) \notin DOMAIN gens
    BY DEF NumberFree
  <2>1. N(p) \in Numbers /\ \A m \in DOMAIN gens : m < N(p)
    BY DEF Kept, Scripted, Writing, Holding
  <2>2. QED
    BY <2>1 DEF Numbers
<1>2. QED
  BY <1>1, KeptAlways, PTL

-----------------------------------------------------------------------------
(***************************************************************************)
(* Why a command leaves what it should.  What it has listed and not yet    *)
(* dropped is there with its meta.json, was not current, and is in the     *)
(* bucket it was listed in; and so are at least as many younger ones of    *)
(* that bucket as the budget says, not counting the one being dropped.     *)
(* They stay: the oldest goes first, and what a script writes takes the    *)
(* place of none with a meta.json.                                         *)
(***************************************************************************)
InBucket(p, n, b) == n \in Counted(p) /\ "meta" \in gens[n].files /\ Bucket(p, n) = b

Younger(p, n, b) == { m \in DOMAIN gens \ {N(p)} : m > n /\ InBucket(p, m, b) }

Spared(p) ==
  \A b \in {1, 2} : \A n \in job[p].todo[b] :
    /\ n \notin {N(p), Seen(p)} /\ InBucket(p, n, b)
    /\ Cardinality(Younger(p, n, b)) >= job[p].policy[2][b]

Sparing(p) ==
  At(p) \in {"check"} \cup Dropping /\ job[p].policy[1] # "rm" => Spared(p)

(***************************************************************************)
(* Larger sets of generations have more elements.                          *)
(***************************************************************************)
LEMMA NumbersCount ==
  ASSUME NEW T \in SUBSET Numbers, NEW S \in SUBSET T
  PROVE  /\ Cardinality(S) \in Nat /\ Cardinality(T) \in Nat
         /\ Cardinality(S) <= Cardinality(T)
<1>1. IsFiniteSet(Numbers)
  BY ViewsAssumption, FS_Interval DEF Numbers
<1>2. IsFiniteSet(T)
  BY <1>1, FS_Subset
<1>3. IsFiniteSet(S) /\ Cardinality(S) <= Cardinality(T)
  BY <1>2, FS_Subset
<1>4. QED
  BY <1>2, <1>3, FS_CardinalityType

(***************************************************************************)
(* What is spared stays spared in a step that keeps every directory with a *)
(* meta.json but the one being dropped as it was.                          *)
(***************************************************************************)
LEMMA SparedStays ==
  ASSUME TypeOK, TypeOK', NEW p \in Shells, Spared(p),
         \A m \in DOMAIN gens \ {N(p)} :
           "meta" \in gens[m].files => m \in DOMAIN gens' /\ gens'[m] = gens[m],
         N(p)' = N(p), job'[p].policy = job[p].policy, job'[p].todo = job[p].todo
  PROVE  Spared(p)'
<1> SUFFICES ASSUME NEW b \in {1, 2}, NEW n \in job[p].todo[b]
             PROVE  /\ n \notin {N(p)', Seen(p)'} /\ InBucket(p, n, b)'
                    /\ Cardinality(Younger(p, n, b)') >= job'[p].policy[2][b]
  BY DEF Spared
<1>1. /\ n \notin {N(p), Seen(p)} /\ InBucket(p, n, b)
      /\ Cardinality(Younger(p, n, b)) >= job[p].policy[2][b]
  BY DEF Spared
<1>2. \A m \in DOMAIN gens \ {N(p)} : InBucket(p, m, b) => InBucket(p, m, b)'
  BY DEF InBucket, Counted, Bucket, Seen, OpLog, Ephemeral
<1>3. Younger(p, n, b) \subseteq Younger(p, n, b)'
  BY <1>2 DEF Younger, InBucket, Counted
<1>4. Younger(p, n, b)' \subseteq Numbers
  BY DEF Younger, TypeOK
<1>5. /\ Cardinality(Younger(p, n, b)) \in Nat /\ Cardinality(Younger(p, n, b)') \in Nat
      /\ Cardinality(Younger(p, n, b)) <= Cardinality(Younger(p, n, b)')
  BY <1>3, <1>4, NumbersCount
<1>6. job[p].policy[2][b] \in Nat
  <2>1. job[p].policy \in Policy
    BY JobFields DEF Procs
  <2>2. QED
    BY <2>1 DEF Policy
<1>7. QED
  BY <1>1, <1>2, <1>5, <1>6 DEF InBucket, Counted, Seen

(***************************************************************************)
(* What a command lists is over the budget of its bucket.                  *)
(***************************************************************************)
LEMMA Listed ==
  ASSUME NEW p \in Shells, job[p].policy[1] \in {"keep", "explicit", "gc"},
         NEW b \in {1, 2}, NEW n \in OverBudget(p)[b]
  PROVE  /\ n # Seen(p)
         /\ n \in Oldest({ m \in Counted(p) : Bucket(p, m) = b }, job[p].policy[2][b])
<1> DEFINE ns == { m \in Counted(p) : Bucket(p, m) = b }
<1>1. CASE job[p].policy[1] = "gc"
  <2>1. /\ \A m : m \in Counted(p) <=> m \in DOMAIN gens \ {Seen(p)}
        /\ \A m : Bucket(p, m) = IF OpLog(m) THEN 2 ELSE 1
    BY <1>1 DEF Counted, Bucket
  <2>2. OverBudget(p) =
          <<Oldest({ m \in DOMAIN gens \ {Seen(p)} : ~OpLog(m) }, job[p].policy[2][1]),
            Oldest({ m \in DOMAIN gens \ {Seen(p)} : OpLog(m) }, job[p].policy[2][2])>>
    BY <1>1 DEF OverBudget
  <2>3. CASE b = 1
    <3>1. ns = { m \in DOMAIN gens \ {Seen(p)} : ~OpLog(m) }
      BY <2>1, <2>3
    <3>2. n \in Oldest(ns, job[p].policy[2][b])
      BY <2>2, <2>3, <3>1
    <3>3. QED
      BY <2>1, <3>2 DEF Oldest
  <2>4. CASE b = 2
    <3>1. ns = { m \in DOMAIN gens \ {Seen(p)} : OpLog(m) }
      BY <2>1, <2>4
    <3>2. n \in Oldest(ns, job[p].policy[2][b])
      BY <2>2, <2>4, <3>1
    <3>3. QED
      BY <2>1, <3>2 DEF Oldest
  <2>5. QED
    BY <2>3, <2>4
<1>2. CASE job[p].policy[1] = "explicit"
  <2>1. OverBudget(p) =
          <<Oldest({ m \in DOMAIN gens : Ephemeral(m) }, job[p].policy[2][1]) \ {Seen(p)}, {}>>
    BY <1>2 DEF OverBudget
  <2>2. b = 1 /\ n \in Oldest({ m \in DOMAIN gens : Ephemeral(m) }, job[p].policy[2][1]) \ {Seen(p)}
    BY <2>1
  <2>3. ns = { m \in DOMAIN gens : Ephemeral(m) }
    BY <1>2, <2>2 DEF Counted, Bucket
  <2>4. QED
    BY <2>2, <2>3
<1>3. CASE job[p].policy[1] = "keep"
  <2>1. OverBudget(p) = <<Oldest(DOMAIN gens, job[p].policy[2][1]) \ {Seen(p)}, {}>>
    BY <1>3 DEF OverBudget
  <2>2. b = 1 /\ n \in Oldest(DOMAIN gens, job[p].policy[2][1]) \ {Seen(p)}
    BY <2>1
  <2>3. ns = DOMAIN gens
    BY <1>3, <2>2 DEF Counted, Bucket
  <2>4. QED
    BY <2>2, <2>3
<1>4. QED
  BY <1>1, <1>2, <1>3

LEMMA ListSparing ==
  ASSUME Kept, NEW p \in Shells, List(p)
  PROVE  Sparing(p)'
<1> DEFINE new == Task("check", None, NoView, {}, OverBudget(p), job[p].policy)
<1>1. p \in Procs /\ TypeOK /\ job[p] \in Job /\ Idle \in Job /\ job[p].policy \in Policy
  BY JobFields DEF Kept, Procs
<1>2. CASE Returns(p)
  <2>1. At(p)' = "idle"
    BY <1>1, <1>2, JobAfter DEF Returns, Idle, Task
  <2>2. QED
    BY <2>1 DEF Sparing, Dropping
<1>3. CASE /\ \A n \in DOMAIN gens : "meta" \in gens[n].files
           /\ Becomes(p, new)
  <2>1. SUFFICES ASSUME job'[p].policy[1] # "rm" PROVE Spared(p)'
    BY DEF Sparing
  <2>2. job' = [job EXCEPT ![p] = new] /\ job \in [Procs -> Job] /\ gens' = gens
    BY <1>1, <1>3 DEF Becomes, TypeOK, List
  <2>3. job'[p] = new
    BY <1>1, <2>2
  <2>4. /\ N(p)' = None /\ job'[p].policy = job[p].policy /\ Seen(p)' = Seen(p)
        /\ job'[p].todo = OverBudget(p)
    BY <2>3 DEF Task, N, Seen
  <2>5. job[p].policy[1] \in {"keep", "explicit", "gc"}
    BY <1>1, <2>1, <2>4 DEF Policy
  <2>6. \A m, b : InBucket(p, m, b)' <=> InBucket(p, m, b)
    BY <2>2, <2>4 DEF InBucket, Counted, Bucket, OpLog, Ephemeral
  <2>7. ASSUME NEW b \in {1, 2}, NEW n \in OverBudget(p)[b]
        PROVE  /\ n \notin {None, Seen(p)} /\ InBucket(p, n, b)
               /\ Cardinality(Younger(p, n, b)') >= job[p].policy[2][b]
    <3> DEFINE ns == { m \in Counted(p) : Bucket(p, m) = b }
    <3>1. n # Seen(p) /\ n \in ns /\ Cardinality({ m \in ns : m > n }) >= job[p].policy[2][b]
      BY <2>5, <2>7, Listed DEF Oldest
    <3>2. None \notin DOMAIN gens /\ ns \subseteq DOMAIN gens
      BY <1>1 DEF TypeOK, Numbers, None, Counted
    <3>3. \A m : InBucket(p, m, b) <=> m \in ns
      BY <1>3, <3>2 DEF InBucket
    <3> HIDE DEF ns
    <3>4. Younger(p, n, b)' = { m \in DOMAIN gens \ {None} : m > n /\ InBucket(p, m, b) }
      BY <2>2, <2>4, <2>6 DEF Younger
    <3>5. Younger(p, n, b)' = { m \in ns : m > n }
      BY <3>2, <3>3, <3>4
    <3>6. QED
      BY <3>1, <3>2, <3>3, <3>5
  <2>8. QED
    BY <2>4, <2>6, <2>7 DEF Spared
<1>4. QED
  BY <1>2, <1>3 DEF List

(***************************************************************************)
(* The next one to be dropped is older than what is left of its bucket,    *)
(* and of the other kind than what is left of the other bucket.            *)
(***************************************************************************)
LEMMA CheckSparing ==
  ASSUME Kept, Kept', NEW p \in Shells, Sparing(p), NEW n \in Numbers, Check(p, n)
  PROVE  Sparing(p)'
<1> DEFINE todo == job[p].todo
           new == Task("unroot", n, NoView, StoresOf(gens[n].made) \cap Writable,
                       <<todo[1] \ {n}, todo[2] \ {n}>>, job[p].policy)
<1>1. p \in Procs /\ TypeOK /\ job[p] \in Job /\ Idle \in Job
  BY JobFields DEF Kept, Procs
<1>2. CASE Returns(p)
  <2>1. At(p)' = "idle"
    BY <1>1, <1>2, JobAfter DEF Returns, Idle, Task
  <2>2. QED
    BY <2>1 DEF Sparing, Dropping
<1>3. CASE Becomes(p, new)
  <2>1. SUFFICES ASSUME job'[p].policy[1] # "rm" PROVE Spared(p)'
    BY DEF Sparing
  <2>2. job' = [job EXCEPT ![p] = new] /\ job \in [Procs -> Job] /\ gens' = gens
    BY <1>1, <1>3 DEF Becomes, TypeOK, Check
  <2>3. job'[p] = new
    BY <1>1, <2>2
  <2>4. /\ N(p)' = n /\ job'[p].policy = job[p].policy /\ Seen(p)' = Seen(p)
        /\ job'[p].todo = <<todo[1] \ {n}, todo[2] \ {n}>>
    BY <2>3 DEF Task, N, Seen
  <2>5. Spared(p) /\ IsNext(n, todo)
    BY <2>1, <2>4 DEF Sparing, Check
  <2>6. todo \in (SUBSET Nat) \X (SUBSET Nat) /\ job[p].policy \in Policy
    BY <1>1, JobFields
  <2>7. \A b \in {1, 2} : todo[b] \subseteq Nat /\ job[p].policy[2][b] \in Nat
    BY <2>6 DEF Policy
  <2>8. PICK c \in {1, 2} :
          n \in todo[c] /\ (\A m \in todo[c] : n <= m) /\ (c = 2 => todo[1] = {})
    BY <2>5 DEF IsNext
  <2> HIDE DEF todo, new
  <2>9. ASSUME NEW b \in {1, 2}, NEW m \in todo[b] \ {n}
        PROVE  /\ m \notin {n, Seen(p)} /\ InBucket(p, m, b)'
               /\ Cardinality(Younger(p, m, b)') >= job[p].policy[2][b]
    <3>1. m # Seen(p) /\ InBucket(p, m, b) /\ Cardinality(Younger(p, m, b)) >= job[p].policy[2][b]
      BY <2>5, <2>9 DEF Spared, todo
    <3>2. InBucket(p, n, c)
      BY <2>5, <2>8 DEF Spared, todo
    <3>3. \A x : InBucket(p, x, b) <=> InBucket(p, x, b)'
      BY <2>2, <2>4 DEF InBucket, Counted, Bucket, OpLog, Ephemeral
    <3>4. n \notin Younger(p, m, b)
      <4>1. CASE b = c
        <5>1. n <= m /\ n \in Nat /\ m \in Nat
          BY <2>7, <2>8, <2>9, <4>1
        <5>2. QED
          BY <5>1 DEF Younger
      <4>2. CASE b # c
        BY <2>8, <2>9, <3>2, <4>2 DEF Younger, InBucket
      <4>3. QED
        BY <4>1, <4>2
    <3>5. Younger(p, m, b) \subseteq Younger(p, m, b)'
      BY <2>2, <2>4, <3>3, <3>4 DEF Younger
    <3>6. Younger(p, m, b)' \subseteq Numbers
      BY <1>1, <2>2 DEF Younger, TypeOK
    <3>7. /\ Cardinality(Younger(p, m, b)) \in Nat /\ Cardinality(Younger(p, m, b)') \in Nat
          /\ Cardinality(Younger(p, m, b)) <= Cardinality(Younger(p, m, b)')
      BY <3>5, <3>6, NumbersCount
    <3>8. QED
      BY <2>7, <3>1, <3>3, <3>7
  <2>10. QED
    BY <2>4, <2>9 DEF Spared
<1>4. QED
  BY <1>2, <1>3 DEF Check

(***************************************************************************)
(* Every other step keeps what is spared.                                  *)
(***************************************************************************)
LEMMA SparingStep ==
  ASSUME OneShell, Kept, Kept', NEW p \in Shells, Sparing(p), [Next]_vars
  PROVE  Sparing(p)'
<1>1. p \in Procs /\ p \notin Scripts /\ TypeOK /\ TypeOK'
  BY ViewsAssumption DEF Kept, Procs
<1>2. /\ job \in [Procs -> Job] /\ job[p] \in Job /\ Idle \in Job
      /\ \A step \in Steps : [job[p] EXCEPT !.at = step] \in Job
      /\ job[p].left \subseteq Stores
  BY <1>1, JobFields DEF TypeOK
<1>3. CASE At(p)' \notin {"check"} \cup Dropping
  BY <1>3 DEF Sparing
<1>4. ASSUME /\ N(p)' = N(p) /\ job'[p].policy = job[p].policy /\ job'[p].todo = job[p].todo
             /\ At(p)' \in {"check"} \cup Dropping => At(p) \in {"check"} \cup Dropping
             /\ \A m \in DOMAIN gens \ {N(p)} :
                  "meta" \in gens[m].files => m \in DOMAIN gens' /\ gens'[m] = gens[m]
      PROVE  Sparing(p)'
  BY <1>1, <1>4, SparedStays DEF Sparing
<1>5. CASE job'[p] = job[p] /\ \A m \in DOMAIN gens \ {N(p)} :
             "meta" \in gens[m].files => m \in DOMAIN gens' /\ gens'[m] = gens[m]
  BY <1>4, <1>5 DEF At, N
<1>6. ASSUME NEW q \in Scripts, Write(q) PROVE Sparing(p)'
  <2>1. job'[p] = job[p]
    BY <1>1, <1>2, <1>6
    DEF Write, Number, Register, Registered, Build, Place, Point, LinkOutputs, Goes, Returns,
        Becomes
  <2>2. \A m \in DOMAIN gens : "meta" \in gens[m].files => m \in DOMAIN gens' /\ gens'[m] = gens[m]
    <3>1. CASE Place(q)
      BY <3>1 DEF Place, Free
    <3>2. CASE ~Place(q)
      BY <1>6, <3>2
      DEF Write, Number, Register, Registered, Build, Point, LinkOutputs
    <3>3. QED
      BY <3>1, <3>2
  <2>3. QED
    BY <1>5, <2>1, <2>2
<1>7. ASSUME NEW q \in Procs, Crash(q) PROVE Sparing(p)'
  <2>1. CASE q = p
    <3>1. At(p)' = "idle"
      BY <1>1, <1>2, <1>7, <2>1, JobAfter DEF Crash, Returns, Idle, Task
    <3>2. QED
      BY <1>3, <3>1 DEF Dropping
  <2>2. CASE q # p
    BY <1>1, <1>2, <1>5, <1>7, <2>2 DEF Crash, Returns, Becomes
  <2>3. QED
    BY <2>1, <2>2
<1>8. CASE UNCHANGED vars
  BY <1>5, <1>8 DEF vars
<1>9. ASSUME NEW at, NEW n, NEW view, NEW left, NEW todo, NEW policy,
             at \notin {"check"} \cup Dropping \/ policy[1] = "rm",
             Becomes(p, Task(at, n, view, left, todo, policy))
      PROVE  Sparing(p)'
  <2>1. At(p)' = at /\ job'[p].policy = policy
    BY <1>1, <1>2, <1>9 DEF Becomes, Task, At
  <2>2. QED
    BY <1>9, <2>1 DEF Sparing
<1>10. CASE Returns(p)
  BY <1>9, <1>10 DEF Returns, Idle, Dropping
<1>11. ASSUME NEW step \in Steps, Goes(p, step),
              At(p) \in {"check"} \cup Dropping \/ step \notin {"check"} \cup Dropping,
              \A m \in DOMAIN gens \ {N(p)} :
                "meta" \in gens[m].files => m \in DOMAIN gens' /\ gens'[m] = gens[m]
       PROVE  Sparing(p)'
  <2>1. job'[p] = [job[p] EXCEPT !.at = step]
    BY <1>1, <1>2, <1>11 DEF Goes, Becomes
  <2>2. /\ N(p)' = N(p) /\ job'[p].policy = job[p].policy /\ job'[p].todo = job[p].todo
        /\ At(p)' = step
    BY <1>2, <2>1 DEF Job, N, At
  <2>3. QED
    BY <1>4, <1>11, <2>2
<1>12. ASSUME Command(p) PROVE Sparing(p)'
  <2>1. ASSUME NEW n \in Nat, Rollback(p, n) PROVE Sparing(p)'
    BY <1>9, <2>1 DEF Rollback, Dropping
  <2>2. CASE RollbackPrevious(p)
    <3>1. PreviousExisting \in DOMAIN gens
      BY <2>2 DEF RollbackPrevious, Rollback
    <3>2. QED
      BY <1>1, <2>1, <2>2, <3>1 DEF RollbackPrevious, TypeOK, Numbers
  <2>3. CASE Repoint(p)
    BY <1>10, <2>3 DEF Repoint
  <2>4. ASSUME NEW n \in Numbers, Remove(p, n) PROVE Sparing(p)'
    BY <1>9, <2>4 DEF Remove, NoPolicy
  <2>5. ASSUME NEW by, NEW budget, Retain(p, by, budget) PROVE Sparing(p)'
    BY <1>9, <2>5 DEF Retain, Dropping
  <2>6. CASE List(p)
    BY <2>6, ListSparing
  <2>7. CASE Done(p)
    BY <1>10, <2>7 DEF Done
  <2>8. ASSUME NEW n \in Numbers, Check(p, n) PROVE Sparing(p)'
    BY <2>8, CheckSparing
  <2>9. ASSUME NEW s \in Stores, Unregister(p, s) PROVE Sparing(p)'
    <3>1. job'[p] = [job[p] EXCEPT !.left = @ \ {s}] /\ gens' = gens
      BY <1>1, <1>2, <2>9 DEF Unregister, Becomes
    <3>2. /\ N(p)' = N(p) /\ job'[p].policy = job[p].policy /\ job'[p].todo = job[p].todo
          /\ At(p)' = At(p)
      BY <1>2, <3>1 DEF Job, N, At
    <3>3. QED
      BY <1>4, <3>1, <3>2
  <2>10. CASE Unregistered(p)
    BY <1>11, <2>10 DEF Unregistered, Steps, Dropping
  <2>11. ASSUME NEW file \in Files, Delete(p, file) PROVE Sparing(p)'
    BY <1>5, <2>11 DEF Delete
  <2>12. CASE Deleted(p)
    BY <1>10, <1>11, <2>12 DEF Deleted, Steps, Dropping
  <2>13. CASE RemoveDir(p)
    <3>1. \A m \in DOMAIN gens \ {N(p)} : m \in DOMAIN gens' /\ gens'[m] = gens[m]
      BY <2>13 DEF RemoveDir
    <3>2. QED
      BY <1>10, <1>11, <2>13, <3>1 DEF RemoveDir, Steps, Dropping
  <2>14. QED
    BY <1>12, <2>1, <2>2, <2>3, <2>4, <2>5, <2>6, <2>7, <2>8, <2>9, <2>10, <2>11, <2>12, <2>13
    DEF Command, Drop, Numbers
<1>13. QED
  BY <1>6, <1>7, <1>8, <1>12 DEF Next, OneShell

(***************************************************************************)
(* RetentionKept of Views: with one shell at a time, however many scripts  *)
(* write meanwhile, what gc or generations keep begins to drop was not and *)
(* is not current, may be dropped, and has at least the budget of younger  *)
(* generations that count with it.                                         *)
(***************************************************************************)
THEOREM RetentionIsKept ==
  ASSUME OneShell
  PROVE  Spec => RetentionKept
<1> DEFINE Spares == \A p \in Shells : Sparing(p)
           Keeps(p) ==
             At(p) = "check" /\ job[p].policy[1] # "rm" /\ job'[p].at = "unroot" =>
               LET n == job'[p].n
               IN  /\ n \in Counted(p) \ {Seen(p), current}
                   /\ Cardinality({ m \in Counted(p) : m > n /\ Bucket(p, m) = Bucket(p, n) })
                        >= job[p].policy[2][Bucket(p, n)]
<1>1. Init => Spares
  BY DEF Init, Sparing, Dropping, At, Idle, Task, Procs
<1>2. Kept /\ Kept' /\ Spares /\ [Next]_vars => Spares'
  BY SparingStep
<1>3. ASSUME Kept, Spares, [Next]_vars, NEW p \in Shells PROVE Keeps(p)
  <2> SUFFICES ASSUME At(p) = "check", job[p].policy[1] # "rm", job'[p].at = "unroot"
               PROVE  Keeps(p)
    OBVIOUS
  <2>1. /\ p \in Procs /\ p \notin Scripts /\ TypeOK /\ job \in [Procs -> Job]
        /\ job[p].todo \in (SUBSET Nat) \X (SUBSET Nat) /\ job[p].policy \in Policy
    BY <1>3, ViewsAssumption, JobFields DEF Kept, Procs, TypeOK
  <2>2. PICK n \in Numbers : Check(p, n)
    <3>1. job'[p] # job[p]
      BY DEF At
    <3>2. ~ \E q \in Scripts : Write(q)
      BY <2>1, <3>1
      DEF Write, Number, Register, Registered, Build, Place, Point, LinkOutputs, Goes, Returns,
          Becomes
    <3>3. ~ \E q \in Procs : Crash(q)
      BY <2>1, <3>1 DEF Crash, Returns, Becomes, Idle, Task
    <3>4. Command(p)
      BY <1>3, <3>1, <3>2, <3>3 DEF Next, OneShell, vars
    <3>5. CASE Done(p)
      BY <2>1, <3>5 DEF Done, Returns, Becomes, Idle, Task
    <3>6. QED
      BY <3>4, <3>5
      DEF Command, Drop, Rollback, Remove, RollbackPrevious, Repoint, Retain, List, Unregister,
          Unregistered, Delete, Deleted, RemoveDir
  <2>3. job'[p].n = n /\ IsNext(n, job[p].todo) /\ n # current
    <3>1. CASE Returns(p)
      BY <2>1, <3>1 DEF Returns, Becomes, Idle, Task
    <3>2. QED
      BY <2>1, <2>2, <3>1 DEF Check, MayDrop, Becomes, Task
  <2>4. PICK b \in {1, 2} : n \in job[p].todo[b]
    BY <2>3 DEF IsNext
  <2>5. /\ n # Seen(p) /\ InBucket(p, n, b)
        /\ Cardinality(Younger(p, n, b)) >= job[p].policy[2][b]
    BY <1>3, <2>4 DEF Sparing, Spared
  <2> DEFINE ns == { m \in Counted(p) : m > n /\ Bucket(p, m) = b }
  <2>6. Younger(p, n, b) \subseteq ns
    BY DEF Younger, InBucket
  <2>7. ns \subseteq Numbers
    BY <2>1 DEF TypeOK, Counted
  <2>8. /\ Cardinality(Younger(p, n, b)) \in Nat /\ Cardinality(ns) \in Nat
        /\ Cardinality(Younger(p, n, b)) <= Cardinality(ns)
    BY <2>6, <2>7, NumbersCount
  <2>9. job[p].policy[2][b] \in Nat
    BY <2>1 DEF Policy
  <2>10. b = Bucket(p, n) /\ n \in Counted(p)
    BY <2>5 DEF InBucket
  <2> HIDE DEF ns
  <2>11. Cardinality(ns) >= job[p].policy[2][b]
    BY <2>5, <2>8, <2>9
  <2>12. QED
    BY <2>3, <2>5, <2>10, <2>11 DEF ns
<1>4. Kept /\ Spares /\ [Next]_vars => [\A p \in Shells : Keeps(p)]_vars
  BY <1>3
<1>5. QED
  BY <1>1, <1>2, <1>4, KeptAlways, PTL DEF Spec, RetentionKept

-----------------------------------------------------------------------------
(***************************************************************************)
(* However many scripts and shells there are, and whatever number two of   *)
(* them have chosen, a generation that has files on disk is never replaced *)
(* by another one: its meta.json says what it said, nothing is added to    *)
(* it, and its directory is there while a file is (the rename of           *)
(* write_generation, remove_dir_all of drop_generation).                   *)
(***************************************************************************)
KeepsPlaced ==
  \A n \in DOMAIN gens : gens[n].files # {} =>
    /\ n \in DOMAIN gens'
    /\ gens'[n].made = gens[n].made /\ gens'[n].dirty = gens[n].dirty
    /\ gens'[n].files \subseteq gens[n].files

\* A directory is what the rename has made of it, less what is deleted.
Shaped ==
  /\ gens = [ n \in DOMAIN gens |-> gens[n] ]
  /\ \A n \in DOMAIN gens :
       gens[n] = [made |-> gens[n].made, dirty |-> gens[n].dirty, files |-> gens[n].files]

(***************************************************************************)
(* Only three steps touch the directories, and none replaces one that has  *)
(* files.                                                                  *)
(***************************************************************************)
LEMMA PlacedStep ==
  ASSUME Shaped, [Next]_vars
  PROVE  Shaped' /\ KeepsPlaced
<1>1. CASE UNCHANGED gens
  BY <1>1 DEF Shaped, KeepsPlaced
<1>2. ASSUME NEW p, Place(p), gens' # gens PROVE Shaped' /\ KeepsPlaced
  <2> DEFINE new == [made |-> Made(p), dirty |-> Dirty(p), files |-> FilesOf(p)]
  <2>1. /\ Free(N(p))
        /\ gens' = [ m \in DOMAIN gens \cup {N(p)} |-> IF m = N(p) THEN new ELSE gens[m] ]
    BY <1>2 DEF Place
  <2>2. new = [made |-> new.made, dirty |-> new.dirty, files |-> new.files]
    OBVIOUS
  <2> HIDE DEF new
  <2>3. /\ DOMAIN gens' = DOMAIN gens \cup {N(p)} /\ gens'[N(p)] = new
        /\ \A m \in DOMAIN gens : m # N(p) => gens'[m] = gens[m]
    BY <2>1
  <2>4. gens' = [ n \in DOMAIN gens' |-> gens'[n] ]
    BY <2>1
  <2>5. ASSUME NEW n \in DOMAIN gens'
        PROVE  gens'[n] = [made |-> gens'[n].made, dirty |-> gens'[n].dirty,
                           files |-> gens'[n].files]
    <3>1. CASE n = N(p)
      BY <2>2, <2>3, <3>1
    <3>2. CASE n # N(p)
      BY <2>3, <2>5, <3>2 DEF Shaped
    <3>3. QED
      BY <3>1, <3>2
  <2>6. KeepsPlaced
    BY <2>1, <2>3 DEF KeepsPlaced, Free
  <2>7. QED
    BY <2>4, <2>5, <2>6 DEF Shaped
<1>3. ASSUME NEW p, NEW file, Delete(p, file) PROVE Shaped' /\ KeepsPlaced
  <2> DEFINE old == gens[N(p)]
             new == [made |-> old.made, dirty |-> old.dirty, files |-> old.files \ {file}]
  <2>1. /\ N(p) \in DOMAIN gens
        /\ gens' = [gens EXCEPT ![N(p)].files = @ \ {file}]
    BY <1>3 DEF Delete
  <2>2. old = [made |-> old.made, dirty |-> old.dirty, files |-> old.files]
    BY <2>1 DEF Shaped
  <2>3. [old EXCEPT !.files = @ \ {file}] = new
    BY <2>2
  <2>4. gens' = [gens EXCEPT ![N(p)] = new]
    BY <2>1, <2>3
  <2>5. /\ DOMAIN gens' = DOMAIN gens /\ gens'[N(p)] = new
        /\ \A m \in DOMAIN gens : m # N(p) => gens'[m] = gens[m]
    BY <2>1, <2>4 DEF Shaped
  <2>6. gens' = [ n \in DOMAIN gens' |-> gens'[n] ]
    BY <2>4
  <2>7. KeepsPlaced
    BY <2>5 DEF KeepsPlaced
  <2>8. \A n \in DOMAIN gens' :
          gens'[n] = [made |-> gens'[n].made, dirty |-> gens'[n].dirty, files |-> gens'[n].files]
    BY <2>5 DEF Shaped
  <2>9. QED
    BY <2>6, <2>7, <2>8 DEF Shaped
<1>4. ASSUME NEW p, RemoveDir(p), gens' # gens PROVE Shaped' /\ KeepsPlaced
  <2>1. /\ gens[N(p)].files = {}
        /\ gens' = [ m \in DOMAIN gens \ {N(p)} |-> gens[m] ]
    BY <1>4 DEF RemoveDir
  <2>2. /\ DOMAIN gens' = DOMAIN gens \ {N(p)}
        /\ \A m \in DOMAIN gens' : gens'[m] = gens[m]
    BY <2>1
  <2>3. gens' = [ n \in DOMAIN gens' |-> gens'[n] ]
    BY <2>1
  <2>4. QED
    BY <2>1, <2>2, <2>3 DEF Shaped, KeepsPlaced
<1>5. ASSUME gens' # gens
      PROVE  \E p : Place(p) \/ (\E file : Delete(p, file)) \/ RemoveDir(p)
  BY <1>5
  DEF Next, vars, Write, Number, Register, Registered, Build, Point, LinkOutputs, Command, Drop,
      Rollback, Remove, RollbackPrevious, Repoint, Retain, List, Done, Check, Unregister,
      Unregistered, Deleted, Crash
<1>6. QED
  BY <1>1, <1>2, <1>3, <1>4, <1>5

(***************************************************************************)
(* A generation that is placed is replaced by no other (KeepsPlaced), for  *)
(* any number of scripts and shells: the one of two scripts that comes     *)
(* second with a number loses its run, and not the first its generation.   *)
(***************************************************************************)
THEOREM PlacedIsKept == Spec => [][KeepsPlaced]_vars
<1>1. Init => Shaped
  BY DEF Init, Shaped
<1>2. Shaped /\ [Next]_vars => Shaped' /\ [KeepsPlaced]_vars
  BY PlacedStep
<1>3. QED
  BY <1>1, <1>2, PTL DEF Spec
=============================================================================
