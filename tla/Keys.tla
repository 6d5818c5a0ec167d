-------------------------------- MODULE Keys --------------------------------
(***************************************************************************)
(* What a job is and what it is keyed by: JobDef, derive_key, the mounts   *)
(* and placeholders of dispatch_argv_job (scheduler.rs), and the manifest  *)
(* of an entry (manifest.rs).                                              *)
(*                                                                         *)
(* A hash stands for what was hashed, canonicalization and blake3 being    *)
(* injective on documents: the output hash of an entry is its content map, *)
(* and the input key of a job is its key document.                         *)
(***************************************************************************)
EXTENDS Integers, FiniteSets

CONSTANTS
  Values,        \* contents of a file
  Does(_, _, _, _) \* what a job writes: its recipe, env, an output, what it reads

(***************************************************************************)
(* A job: its recipe, which names the inputs its command line refers to    *)
(* and the outputs it writes; its inputs; its env, with which tools and    *)
(* runtime go; the outputs it declares; whether it is pinned; where each   *)
(* published output goes; and, for a fetch, the hash it must have.         *)
(*                                                                         *)
(* An input is a job, named outputs of a job, a file with the hash it had  *)
(* when the job was lowered, or a value.                                   *)
(***************************************************************************)
FromJob(id)          == [kind |-> "job", id |-> id]
FromSubset(id, outs) == [kind |-> "subset", id |-> id, names |-> outs]
FromFile(path)       == [kind |-> "file", source |-> path]
FromLeaf(value)      == [kind |-> "leaf", hash |-> value]

IsFetch(job) == job.recipe.does = "fetch"

ParentsOf(job) == { job.inputs[n].id : n \in { m \in DOMAIN job.inputs :
                                               job.inputs[m].kind \in {"job", "subset"} } }

\* The content of the one file, if there is one.
OnlyFile(content) == content[CHOOSE n \in DOMAIN content : TRUE]

-----------------------------------------------------------------------------
(***************************************************************************)
(* derive_key, of a job whose parents are in done.                         *)
(***************************************************************************)
\* A named output that the entry of the parent does not have is an error.
Underivable(job, done) ==
  \E n \in DOMAIN job.inputs :
    LET r == job.inputs[n] IN
    r.kind = "subset" /\ ~(r.names \subseteq DOMAIN done[r.id].oh)

\* Mutant: an input is keyed by what its parent was made from.
InputByKey(r, done) ==
  CASE r.kind = "job"    -> <<"key", done[r.id].ik>>
    [] r.kind = "subset" -> <<"key", done[r.id].ik>>
    [] OTHER             -> <<"value", r.hash>>

\* Mutant: a subset is keyed by the names it takes, not by their content.
InputByName(r, done) ==
  CASE r.kind = "job"    -> <<"entry", done[r.id].oh>>
    [] r.kind = "subset" -> <<"names", r.names>>
    [] OTHER             -> <<"value", r.hash>>

\* An input is keyed by content: early cutoff.
InputHash(r, done) ==
  CASE r.kind = "job"    -> <<"entry", done[r.id].oh>>
    [] r.kind = "subset" -> <<"files", [ n \in r.names |-> done[r.id].oh[n] ]>>
    [] OTHER             -> <<"value", r.hash>>

KeyDocument(job, done) ==
  [ job_recipe |-> job.recipe, env |-> job.env, outputs_declared |-> job.outputs,
    inputs |-> [ n \in DOMAIN job.inputs |-> InputHash(job.inputs[n], done) ] ]

-----------------------------------------------------------------------------
(***************************************************************************)
(* Running a job.  A single named output is mounted as that file, any      *)
(* other input from a job as the directory of its entry, and {in:NAME} is  *)
(* the file in it if there is only one.  A file is mounted as it is now.   *)
(***************************************************************************)
Reads(r, done, files) ==
  CASE r.kind = "file" -> <<"file", files[r.source]>>
    [] r.kind = "leaf" -> <<"value", r.hash>>
    [] r.kind = "subset" /\ Cardinality(r.names) = 1 ->
         <<"file", done[r.id].oh[CHOOSE n \in r.names : TRUE]>>
    [] OTHER ->
         LET content == done[r.id].oh IN
         IF Cardinality(DOMAIN content) = 1 THEN <<"file", OnlyFile(content)>>
                                            ELSE <<"directory", content>>

\* lower_argv: a placeholder for an input that there is not, or that has no
\* path.
Unlowerable(job) ==
  \E n \in job.recipe.reads : \/ n \notin DOMAIN job.inputs
                              \/ job.inputs[n].kind = "leaf"

Content(job, done, files) ==
  [ n \in job.recipe.writes |->
      Does(job.recipe, job.env, n,
           [ m \in DOMAIN job.inputs |-> Reads(job.inputs[m], done, files) ]) ]

\* missing_declared_outputs.
Lacks(job, content) == ~(job.outputs \subseteq DOMAIN content)
=============================================================================
