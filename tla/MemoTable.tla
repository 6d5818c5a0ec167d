------------------------------ MODULE MemoTable -----------------------------
(***************************************************************************)
(* What a store promises the runs that share it, without directories,      *)
(* locks, threads or crashes: a table from input keys to output hashes.  A *)
(* pair is recorded only while its content is stored, and never over       *)
(* another; it is forgotten only when the content is gone; and whatever a  *)
(* run is told of a key the table has said.  Store implements it           *)
(* (Store!Memoizes).                                                       *)
(***************************************************************************)
CONSTANTS Keys, Hashes, Readers

VARIABLES
  table,    \* key -> hash
  past,     \* the pairs the table has held
  stored,   \* hashes whose content is there
  answers   \* reader -> the pairs it has been told

vars == <<table, past, stored, answers>>

Init ==
  /\ table = << >> /\ past = {} /\ stored = {}
  /\ answers = [ r \in Readers |-> {} ]

Store(oh) ==
  /\ stored' = stored \cup {oh}
  /\ UNCHANGED <<table, past, answers>>

Discard(oh) ==
  /\ stored' = stored \ {oh}
  /\ UNCHANGED <<table, past, answers>>

Record(k, oh) ==
  /\ k \notin DOMAIN table /\ oh \in stored
  /\ table' = [ x \in DOMAIN table \cup {k} |-> IF x = k THEN oh ELSE table[x] ]
  /\ past' = past \cup {<<k, oh>>}
  /\ UNCHANGED <<stored, answers>>

Forget(k) ==
  /\ k \in DOMAIN table /\ table[k] \notin stored
  /\ table' = [ x \in DOMAIN table \ {k} |-> table[x] ]
  /\ UNCHANGED <<past, stored, answers>>

Answer(r, k, oh) ==
  /\ <<k, oh>> \in past
  /\ answers' = [answers EXCEPT ![r] = @ \cup {<<k, oh>>}]
  /\ UNCHANGED <<table, past, stored>>

Next ==
  \/ \E oh \in Hashes : Store(oh) \/ Discard(oh)
  \/ \E k \in Keys, oh \in Hashes : Record(k, oh) \/ \E r \in Readers : Answer(r, k, oh)
  \/ \E k \in Keys : Forget(k)

Spec == Init /\ [][Next]_vars
=============================================================================
