------------------------- MODULE MCProductionItems -------------------------
(* Instances of ProductionItems small enough for TLC. *)
EXTENDS ProductionItems, TLC

CONSTANTS i1, i2, i3, c1, c2, c3

OrderDef == <<i1, i2>>

Cmd(o, i, a) == [op |-> o, item |-> i, arg |-> a]

\* Two edges that close a cycle with the one that may be there, or with each
\* other; the end of an item they touch; a batch.
Mixed == {Cmd("add", i1, i2), Cmd("add", i2, i1), Cmd("add", i3, i1), Cmd("remove", i2, i3),
          Cmd("transition", i1, "completed"), Cmd("transition", i2, "completed"),
          Cmd("update", i2, i2), Cmd("batch", i1, i1)}

InReview == [i \in Items |-> IF i = i3 THEN "draft" ELSE "in_review"]

BoardsDef == {[status |-> InReview, edges |-> {}], [status |-> InReview, edges |-> {<<i2, i3>>}]}

Symmetry == Permutations(Calls)
=============================================================================
