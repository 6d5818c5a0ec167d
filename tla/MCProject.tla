----------------------------- MODULE MCProject ------------------------------
(***************************************************************************)
(* Three scripts of one project: prep splits a file in two, use takes one  *)
(* of its outputs, get fetches, and sum takes what use and get have; then  *)
(* prep is made otherwise, with a twin that does the same, and outputs go  *)
(* elsewhere, one to another store; then jobs declare what they do not     *)
(* write, refer to an input that has no path, or name a store that is not  *)
(* written to.                                                             *)
(***************************************************************************)
EXTENDS Explain, TLC

Recipe(does, reads, writes) ==
  [does |-> does, reads |-> reads, writes |-> writes, url |-> "u", pin |-> <<"none">>]

Job(recipe, inputs, outputs, view) ==
  [recipe |-> recipe, inputs |-> inputs, env |-> 0, outputs |-> outputs, view |-> view,
   keep |-> "", store |-> ""]

\* low and high are the halves of a value; a recipe of its own gives the
\* same low half.
MCDoes(recipe, env, out, seen) ==
  CASE recipe.does = "split" -> IF out = "low" THEN seen["raw"][2] % 2 ELSE seen["raw"][2] \div 2
    [] recipe.does = "low"   -> IF out = "low" THEN seen["raw"][2] % 2 ELSE 0
    [] recipe.does = "copy"  -> seen["from"][2]
    [] recipe.does = "sum"   -> (seen["a"][2] + seen["b"][2]) % 3

Prep(does, path) == Job(Recipe(does, {"raw"}, {"low", "high"}), "raw" :> FromFile("f"),
                        {"low", "high"}, "high" :> path)
Use(path)  == Job(Recipe("copy", {"from"}, {"out"}), "from" :> FromSubset("prep", {"low"}),
                  {"out"}, "out" :> path)
Get == Job(Recipe("fetch", {}, {"file"}), "url" :> FromLeaf(9), {"file"}, "file" :> "get")
Sum == Job(Recipe("sum", {"a", "b"}, {"out"}),
           "a" :> FromJob("use") @@ "b" :> FromJob("get"), {"out"}, "out" :> "sum")

Base   == "prep" :> Prep("split", "high") @@ "use" :> Use("use") @@ "get" :> Get @@ "sum" :> Sum
Moved  == "prep" :> Prep("low", "high") @@ "use" :> Use("moved")
          @@ "twin" :> [Prep("low", "twin") EXCEPT !.store = "other"]
Faulty == "prep" :> Prep("split", "high")
          @@ "use" :> [Use("use") EXCEPT !.outputs = {"out", "other"}, !.keep = "pin"]
          @@ "odd" :> [Use("odd") EXCEPT !.inputs = "from" :> FromLeaf(1)]
          @@ "sum" :> [Use("sum") EXCEPT !.inputs = "from" :> FromJob("use")]
          @@ "lost" :> [Prep("low", "lost") EXCEPT !.store = "theirs"]

MCScripts == {Base, Moved, Faulty}

\* Another project has published what prep makes of a content the file
\* has after an edit.
Theirs ==
  LET doc == [job_recipe |-> Prep("split", "high").recipe, env |-> 0,
              outputs_declared |-> {"low", "high"}, inputs |-> "raw" :> <<"value", 1>>]
      oh  == "low" :> 1 @@ "high" :> 0
  IN  [links |-> doc :> oh, docs |-> oh :> doc]

MCPublished == {Theirs}
MCStores == <<"mine", "theirs", "other">>
=============================================================================
