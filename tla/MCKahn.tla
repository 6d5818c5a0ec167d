------------------------------- MODULE MCKahn -------------------------------
(***************************************************************************)
(* Every assignment of two inputs to three jobs, each input a leaf, one of *)
(* the jobs (itself included) or a job outside the slice.                  *)
(***************************************************************************)
EXTENDS Kahn

CONSTANTS a, b, c, outside

MCIds == {a, b, c, outside}
MCCapacity == << >>
MCRequests == {<< >>}

MCSlice == {a, b, c}
MCGraphs ==
  { [ j \in MCSlice |-> [ id |-> j, inputs |-> ins[j], kind |-> "Argv",
                          resources |-> << >> ] ] :
      ins \in [MCSlice -> [Names -> MCIds \cup {Leaf}]] }
=============================================================================
