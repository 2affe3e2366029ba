----------------------------- MODULE MCDataPages -----------------------------
(* DataPages on pages of 76 bytes, which hold two small records and not two *)
(* large ones.                                                              *)
EXTENDS DataPages

MCNodeShapes == {[labels |-> <<>>, props |-> <<>>],
                 [labels |-> <<1>>, props |-> << <<0, <<"Int64", -2>>>> >>]}
MCEdgeShapes == {[type |-> 258, props |-> << <<1, <<"Array", << <<"Bool", TRUE>> >>>>>> >>]}
MCSubgraphs == {[anchor |-> <<-300>>, props |-> << <<2, <<"String", <<104, 105>>>>>> >>]}
MCHyperedges == {[type |-> 1, sources |-> <<<<"Node", 1>>>>, targets |-> <<<<"TemporalRef", 1, -1>>>>,
                  props |-> << <<0, <<"Float64", <<0, 0, 0, 0, 0, 0, 248, 63>>>>>> >>]}
MCLabels == {<<65>>}
===============================================================================
