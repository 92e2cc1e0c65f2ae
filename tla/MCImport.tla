------------------------------- MODULE MCImport -------------------------------
(* One street between two nodes, with every combination of small lane tags. *)
EXTENDS OsmImport

MCTags ==
    {<<[refs |-> <<1, 2>>, oneway |-> o, total |-> t, forward |-> f, backward |-> b]>> :
        o \in {"both", "forward", "reverse"}, t \in 0 .. 3, f \in 0 .. 2, b \in 0 .. 2}
MCWhole == {[inside |-> {1, 2}, crossed |-> {}]}
==============================================================================
