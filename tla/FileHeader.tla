----------------------------- MODULE FileHeader -----------------------------
(***************************************************************************)
(* Page 0 of a database file (page/mod.rs) and the checks and migrations   *)
(* of open_database (page_manager.rs), for a build with every feature.     *)
(*                                                                         *)
(* The fields lie one after the other.  Each version of the format added   *)
(* some at the end; a file of an older version has zeros there, and what   *)
(* is read instead is the field's default.                                 *)
(***************************************************************************)
EXTENDS Records

Magic == 1129925716
FormatVersion == 7

TemporalCore == 1
Bits(n) == {i \in 0..30 : (n \div 2^i) % 2 = 1}
CompiledFeatureFlags == TemporalCore + 2 + 4 + 8

NumberField(name, size, since, default) == [name |-> name, size |-> size, since |-> since, default |-> default]

HeaderFields ==
    LET since1 == << <<"magic", 4>>, <<"version", 4>>, <<"page_count", 4>>, <<"root_node_page", 4>>,
                     <<"root_edge_page", 4>>, <<"next_node_id", 8>>, <<"next_edge_id", 8>> >>
        since6 == <<"catalog_page_id", "node_data_root_page", "edge_data_root_page">>
        since7 == <<"subgraph_data_root_page", "hyperedge_data_root_page", "version_data_root_page">>
    IN  [i \in 1..7 |-> NumberField(since1[i][1], since1[i][2], 1, 0)]
        \o << NumberField("version_store_root_page", 8, 2, 0),
              NumberField("feature_flags", 4, 3, TemporalCore),
              NumberField("subgraph_root_page", 8, 4, 0), NumberField("next_subgraph_id", 8, 4, 0),
              NumberField("hyperedge_root_page", 8, 5, 0), NumberField("next_hyperedge_id", 8, 5, 0) >>
        \o [i \in 1..3 |-> NumberField(since6[i], 4, 6, 0)]
        \o [i \in 1..3 |-> NumberField(since7[i], 4, 7, 0)]

FieldNames == {HeaderFields[i].name : i \in DOMAIN HeaderFields}
FieldAt(name) == CHOOSE i \in DOMAIN HeaderFields : HeaderFields[i].name = name

NewHeader == [name \in FieldNames |->
                CASE name = "magic" -> Magic
                  [] name = "version" -> FormatVersion
                  [] name = "page_count" -> 2
                  [] name = "feature_flags" -> CompiledFeatureFlags
                  [] name \in {"next_node_id", "next_edge_id", "next_subgraph_id", "next_hyperedge_id"} -> 1
                  [] OTHER -> 0]

ToPage(h) == FlattenSeq([i \in DOMAIN HeaderFields |-> Le(h[HeaderFields[i].name], HeaderFields[i].size)])

FromPage(page) ==
    LET numbers == Read(Fields([i \in DOMAIN HeaderFields |-> U(HeaderFields[i].size)]), page)[1]
        version == numbers[FieldAt("version")]
    IN  [name \in FieldNames |-> LET i == FieldAt(name)
                                 IN  IF version >= HeaderFields[i].since THEN numbers[i]
                                     ELSE HeaderFields[i].default]

\* What open_database makes of page 0, or None when it refuses the file.
OpenDatabase(page) ==
    LET h == FromPage(page)
    IN  IF /\ h.magic = Magic
           /\ h.version \in 1..FormatVersion
           /\ Bits(h.feature_flags) \subseteq Bits(CompiledFeatureFlags)
        THEN <<[h EXCEPT !.version = FormatVersion]>>
        ELSE None

\* Page 0 as a build of an older version, with none of the optional features, wrote it.
OldPage(version, nextNode) ==
    LET old == [NewHeader EXCEPT !.version = version, !.next_node_id = nextNode,
                                 !.feature_flags = TemporalCore, !.next_subgraph_id = 0, !.next_hyperedge_id = 0]
    IN  ToPage([name \in FieldNames |-> IF HeaderFields[FieldAt(name)].since > version THEN 0 ELSE old[name]])
===============================================================================
