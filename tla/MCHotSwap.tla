------------------------------ MODULE MCHotSwap ------------------------------
(* Small programs for HotSwap: one edit of each kind evaluate can meet.     *)
EXTENDS HotSwap, TLC

Fn(n, g) == [name |-> n, sig |-> g]

MCNames == {"f", "g"}
MCIds == {1, 2, 3}
MCSigs == {"a", "b"}
MCTypeNames == {"S", "U"}
MCLayouts == {"x", "y"}

Original == [fns |-> 1 :> Fn("f", "a") @@ 2 :> Fn("g", "a"), types |-> "S" :> "x"]
\* The two functions trade places in the source, and with it their ids.
Reordered == [fns |-> 1 :> Fn("g", "a") @@ 2 :> Fn("f", "a"), types |-> "S" :> "x"]
\* A type is added and g moves to a new id.
Grown == [fns |-> 1 :> Fn("f", "a") @@ 3 :> Fn("g", "a"), types |-> "S" :> "x" @@ "U" :> "y"]
\* The name f has become ambiguous and g has another signature.
Resigned == [fns |-> 1 :> Fn("f", "a") @@ 2 :> Fn("g", "b") @@ 3 :> Fn("f", "a"),
             types |-> "S" :> "x"]
Relaid == [fns |-> 1 :> Fn("f", "a") @@ 2 :> Fn("g", "a"), types |-> "S" :> "y"]

AllEdits == {Original, Reordered, Grown, Resigned, Relaid}

\* For the progress run: one accepted edit and one rejected one.
OneType == {"S"}
LiveEdits == {Original, Resigned}

SlotSymmetry == Permutations(Slots)
=============================================================================
