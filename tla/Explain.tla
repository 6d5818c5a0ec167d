------------------------------- MODULE Explain ------------------------------
(***************************************************************************)
(* ppg3 explain: why the content at a path of the output tree is not what  *)
(* it was (explain.rs).  Nothing but the generations and the manifests of  *)
(* the entries they show is read.                                          *)
(***************************************************************************)
EXTENDS Project

CONSTANT MaxWhyDepth    \* how deep a chain of reasons is followed

ASSUME ExplainAssumption == MaxWhyDepth \in Nat

\* diff_object_field: the names that are new, gone or changed.
NameListDiff(a, b) ==
  [ added   |-> DOMAIN b \ DOMAIN a,
    removed |-> DOMAIN a \ DOMAIN b,
    changed |-> { n \in DOMAIN a \cap DOMAIN b : a[n] # b[n] } ]

\* Mutant: a value that changed is not looked at.
DiffOfNames(a, b) ==
  [ recipe_changed |-> a.job_recipe # b.job_recipe,
    inputs |-> [NameListDiff(a.inputs, b.inputs) EXCEPT !.changed = {}],
    env_changed |-> a.env # b.env,
    outputs_declared_changed |-> a.outputs_declared # b.outputs_declared ]

diff_key_documents(a, b) ==
  [ recipe_changed |-> a.job_recipe # b.job_recipe,
    inputs |-> NameListDiff(a.inputs, b.inputs),
    env_changed |-> a.env # b.env,
    outputs_declared_changed |-> a.outputs_declared # b.outputs_declared ]

Same == [added |-> {}, removed |-> {}, changed |-> {}]

is_empty(d) ==
  ~d.recipe_changed /\ ~d.env_changed /\ ~d.outputs_declared_changed /\ d.inputs = Same

\* find_manifest_any_store: only a whole entry is the value of an input, and
\* the first store that has it is read.
Found(hash) == \E s \in StoreNames : \E oh \in DOMAIN entries[s] : hash = <<"entry", oh>>

DocOf(oh) == entries[Stores[Min({ i \in DOMAIN Stores : oh \in DOMAIN entries[Stores[i]] })]][oh]

\* diff_entries: the files of two entries that are new, gone or changed.
diff_entries(oh1, oh2) == NameListDiff(oh1, oh2)

(***************************************************************************)
(* resolve_why_chain: the inputs that changed and are entries of jobs, and *)
(* what changed about those, and so on.  pairs[d] are the documents that   *)
(* are compared at depth d.                                                *)
(***************************************************************************)
Resolved(a, b) == { n \in diff_key_documents(a, b).inputs.changed :
                      Found(a.inputs[n]) /\ Found(b.inputs[n]) }

WhyStep(a, b, depth, n) ==
  LET oh_a == a.inputs[n][2]  oh_b == b.inputs[n][2] IN
  [ depth |-> depth + 1, input_name |-> n, oh_a |-> oh_a, oh_b |-> oh_b,
    diff |-> diff_key_documents(DocOf(oh_a), DocOf(oh_b)) ]

WhySteps(pairs) ==
  UNION { UNION { { WhyStep(p[1], p[2], d, n) : n \in Resolved(p[1], p[2]) } : p \in pairs[d] }
          : d \in 0 .. MaxWhyDepth - 1 }

resolve_why_chain(a, b) ==
  LET pairs[d \in 0 .. MaxWhyDepth] ==
        IF d = 0 THEN {<<a, b>>}
        ELSE UNION { { <<DocOf(p[1].inputs[n][2]), DocOf(p[2].inputs[n][2])>> :
                         n \in Resolved(p[1], p[2]) } : p \in pairs[d - 1] }
  IN  WhySteps(pairs)

\* explain_view_path: the last generation before the current one that has
\* the path.
Before(path) == { n \in DOMAIN gens : n < current /\ path \in DOMAIN gens[n] }

FirstAppearance(path) == Before(path) = {}

Previous(path) == gens[Max(Before(path))][path]

Manifest(e) == entries[e.store][e.oh]

explain_view_path(path) ==
  LET a == Manifest(Previous(path))  b == Manifest(gens[current][path]) IN
  [ diff |-> diff_key_documents(a, b), why_chain |-> resolve_why_chain(a, b) ]

\* The entries of generation n in the store are still protected by it.
Held(n, e) == <<e.store, n>> \notin rootless

(***************************************************************************)
(* A content that is not what it was differs in a file and has a reason,   *)
(* through deduplicated entries, links made for fetches, dropped           *)
(* generations and rollbacks, and so has each input in the chain that is   *)
(* given as one (explain_view_path, diff_entries).  (Of generations whose  *)
(* store was deleted, and of a job that read a file after it was edited,   *)
(* nothing is said.)                                                       *)
(***************************************************************************)
ExplainSees ==
  current # 0 =>
    \A path \in DOMAIN gens[current] :
      LET cur == gens[current][path] IN
      Held(current, cur) =>
      /\ cur.oh \in DOMAIN entries[cur.store]
      /\ ~FirstAppearance(path) /\ Held(Max(Before(path)), Previous(path)) =>
           LET prev == Previous(path)  e == explain_view_path(path) IN
           /\ prev.oh \in DOMAIN entries[prev.store]
           /\ prev.oh # cur.oh /\ {Manifest(prev), Manifest(cur)} \cap mixed = {} =>
                diff_entries(prev.oh, cur.oh) # Same /\ ~is_empty(e.diff)
           /\ \A step \in e.why_chain :
                {DocOf(step.oh_a), DocOf(step.oh_b)} \cap mixed = {} => ~is_empty(step.diff)
=============================================================================
