------------------------------ MODULE Templates -----------------------------
(***************************************************************************)
(* The warm template processes of the forkserver and their pipes: the      *)
(* loop of python/ppg3/_template.py and the reader thread the coordinator  *)
(* keeps for each (reader_loop of forkserver.rs).  A template reads "run"  *)
(* lines from its standard input, forks a child for each, and writes an    *)
(* "exited" line when it has reaped one.                                   *)
(*                                                                         *)
(* A child sends its own output elsewhere, so the standard output of a     *)
(* template ends when the template does.  It keeps the standard input,     *)
(* and is the leader of a session of its own: a child outlives a template  *)
(* that is killed, and holds the pipe open.                                *)
(***************************************************************************)
EXTENDS Integers, Sequences, FiniteSets

CONSTANTS
  Workers,      \* threads of the coordinator
  Jobs,         \* what they may be given
  ReadsStdin,   \* jobs that read their standard input
  MaxJobs,      \* bound: jobs one worker takes
  MaxTemplates, \* bound: templates spawned
  MaxDeaths     \* bound: templates that are killed from outside

ASSUME JobsAssumption == ReadsStdin \subseteq Jobs
ASSUME TemplateBounds == MaxJobs \in Nat /\ MaxTemplates \in Nat /\ MaxDeaths \in Nat

VARIABLES
  proc,     \* template -> "none" (not spawned), "live" or "dead"
  stdin,    \* template -> the "run" lines in its pipe
  running,  \* template -> its children that run
  zombies,  \* template -> exits it has not reaped
  stdout,   \* template -> "exited" lines the reader has not read
  waiters,  \* template -> ids some dispatcher waits for
  reader,   \* template -> "none", "reading" or "drained"
  mail,     \* worker -> what was sent to it: "none", "ok", "failed" or "died"
  stolen,   \* ids whose line a child has read
  deaths    \* templates killed from outside

Ids      == Workers \X (1 .. 2 * MaxJobs)      \* the worker, and its how manieth dispatch
Messages == [ id : Ids, job : Jobs, stage : Workers \X (1 .. MaxJobs) ]
Codes    == {"ok", "failed"}
Exits    == [ id : Ids, code : Codes ]
Template == 1 .. MaxTemplates

pipes == <<proc, stdin, running, zombies, stdout, waiters, reader, mail, stolen, deaths>>

Live(t) == proc[t] = "live"

NoTemplates ==
  /\ proc = [ t \in Template |-> "none" ]
  /\ stdin = [ t \in Template |-> <<>> ]
  /\ running = [ t \in Template |-> {} ]
  /\ zombies = [ t \in Template |-> {} ]
  /\ stdout = [ t \in Template |-> {} ]
  /\ waiters = [ t \in Template |-> {} ]
  /\ reader = [ t \in Template |-> "none" ]
  /\ mail = [ w \in Workers |-> "none" ]
  /\ stolen = {}
  /\ deaths = 0

PipesTypeOK ==
  /\ proc \in [Template -> {"none", "live", "dead"}]
  /\ stdin \in [Template -> Seq(Messages)]
  /\ running \in [Template -> SUBSET Messages]
  /\ zombies \in [Template -> SUBSET Exits]
  /\ stdout \in [Template -> SUBSET Exits]
  /\ waiters \in [Template -> SUBSET Ids]
  /\ reader \in [Template -> {"none", "reading", "drained"}]
  /\ mail \in [Workers -> {"none", "ok", "failed", "died"}]
  /\ stolen \subseteq Ids
  /\ deaths \in 0 .. MaxDeaths

-----------------------------------------------------------------------------
(***************************************************************************)
(* The template process.                                                   *)
(***************************************************************************)
\* _handle_run: the next line is read and a child forked.
Fork(t) ==
  /\ Live(t) /\ stdin[t] # <<>>
  /\ stdin' = [stdin EXCEPT ![t] = Tail(@)]
  /\ running' = [running EXCEPT ![t] = @ \cup {Head(stdin[t])}]
  /\ UNCHANGED <<proc, zombies, stdout, waiters, reader, mail, stolen, deaths>>

\* The job of a child is over.  Nobody hears of it when the template is dead.
ChildEnds(t, child, code) ==
  /\ child \in running[t]
  /\ running' = [running EXCEPT ![t] = @ \ {child}]
  /\ zombies' = IF Live(t) THEN [zombies EXCEPT ![t] = @ \cup {[id |-> child.id, code |-> code]}]
                           ELSE zombies
  /\ UNCHANGED <<proc, stdin, stdout, waiters, reader, mail, stolen, deaths>>

\* The standard input of a child is the template's pipe: what it reads there
\* is a line meant for the template.
ChildReads(t, child) ==
  /\ child \in running[t] /\ child.job \in ReadsStdin
  /\ stdin[t] # <<>>
  /\ stolen' = stolen \cup {Head(stdin[t]).id}
  /\ stdin' = [stdin EXCEPT ![t] = Tail(@)]
  /\ UNCHANGED <<proc, running, zombies, stdout, waiters, reader, mail, deaths>>

\* _reap and _emit: the exit is written, while somebody reads.
Reap(t, z) ==
  /\ Live(t) /\ z \in zombies[t]
  /\ zombies' = [zombies EXCEPT ![t] = @ \ {z}]
  /\ stdout' = [stdout EXCEPT ![t] = @ \cup {z}]
  /\ UNCHANGED <<proc, stdin, running, waiters, reader, mail, stolen, deaths>>

\* _emit raises when the coordinator is gone: the template ends at once, and
\* its children go on.
ReapUnheard(t) ==
  /\ Live(t) /\ zombies[t] # {}
  /\ proc' = [proc EXCEPT ![t] = "dead"]
  /\ zombies' = [zombies EXCEPT ![t] = {}]
  /\ UNCHANGED <<stdin, running, stdout, waiters, reader, mail, stolen, deaths>>

\* Mutant: the end of its input is not the end of the template.
IgnoreHangUp(t) ==
  /\ Live(t) /\ stdin[t] = <<>> /\ running[t] # {}
  /\ running' = [running EXCEPT ![t] = {}]
  /\ UNCHANGED <<proc, zombies, stdin, stdout, waiters, reader, mail, stolen, deaths>>

\* End of its standard input: it terminates its children and returns.
HangUp(t) ==
  /\ Live(t) /\ stdin[t] = <<>>
  /\ proc' = [proc EXCEPT ![t] = "dead"]
  /\ running' = [running EXCEPT ![t] = {}]
  /\ zombies' = [zombies EXCEPT ![t] = {}]
  /\ UNCHANGED <<stdin, stdout, waiters, reader, mail, stolen, deaths>>

\* It is killed: what it has not reaped is lost, its children run on.
Killed(t) ==
  /\ proc' = [proc EXCEPT ![t] = "dead"]
  /\ zombies' = [zombies EXCEPT ![t] = {}]
  /\ UNCHANGED <<stdin, running, stdout, waiters, reader, mail, stolen>>

\* Nobody is left at the other end of any pipe.
Unread ==
  /\ stdout' = [ t \in Template |-> {} ]
  /\ waiters' = [ t \in Template |-> {} ]
  /\ reader' = [ t \in Template |-> "none" ]
  /\ mail' = [ w \in Workers |-> "none" ]
  /\ UNCHANGED <<proc, stdin, running, zombies, stolen, deaths>>

Die(t) ==
  /\ Live(t) /\ deaths < MaxDeaths
  /\ deaths' = deaths + 1
  /\ Killed(t)

-----------------------------------------------------------------------------
(***************************************************************************)
(* reader_loop: an "exited" line goes to the dispatcher that waits for its *)
(* id, if there is one; at the end of the file, which comes after all that *)
(* was written, everyone who still waits is told that the template died.   *)
(***************************************************************************)
Route(t, z) ==
  /\ reader[t] = "reading" /\ z \in stdout[t]
  /\ stdout' = [stdout EXCEPT ![t] = @ \ {z}]
  /\ IF z.id \in waiters[t]
     THEN /\ waiters' = [waiters EXCEPT ![t] = @ \ {z.id}]
          /\ mail' = [mail EXCEPT ![z.id[1]] = z.code]
     ELSE UNCHANGED <<waiters, mail>>
  /\ UNCHANGED <<proc, stdin, running, zombies, reader, stolen, deaths>>

\* Mutant: the reader gives up as soon as the process is dead.
DrainUnread(t) ==
  /\ reader[t] = "reading" /\ proc[t] = "dead"
  /\ reader' = [reader EXCEPT ![t] = "drained"]
  /\ waiters' = [waiters EXCEPT ![t] = {}]
  /\ mail' = [ w \in Workers |-> IF \E id \in waiters[t] : id[1] = w THEN "died" ELSE mail[w] ]
  /\ UNCHANGED <<proc, stdin, running, zombies, stdout, stolen, deaths>>

\* Mutant: the reader ends without a word to those who wait.
DrainSilently(t) ==
  /\ reader[t] = "reading" /\ proc[t] = "dead" /\ stdout[t] = {}
  /\ reader' = [reader EXCEPT ![t] = "drained"]
  /\ UNCHANGED <<proc, stdin, running, zombies, stdout, waiters, mail, stolen, deaths>>

Drain(t) ==
  /\ reader[t] = "reading" /\ proc[t] = "dead" /\ stdout[t] = {}
  /\ reader' = [reader EXCEPT ![t] = "drained"]
  /\ waiters' = [waiters EXCEPT ![t] = {}]
  /\ mail' = [ w \in Workers |-> IF \E id \in waiters[t] : id[1] = w THEN "died" ELSE mail[w] ]
  /\ UNCHANGED <<proc, stdin, running, zombies, stdout, stolen, deaths>>
=============================================================================
