------------------------------- MODULE Records -------------------------------
(***************************************************************************)
(* The bytes of the records of a database file and of the data pages they  *)
(* are packed into (record_serialization.rs, property_store.rs).           *)
(*                                                                         *)
(* Writing is concatenation; reading follows the layout of a kind of       *)
(* record, field by field, and fails on data that is too short.  A float   *)
(* is given as its eight bytes and a string as its bytes.  What is not     *)
(* written is left out of the records: a node's first edge, and an edge's  *)
(* direction, neighbours and subgraph marks, which reading sets to the     *)
(* values that create_edge gives them.                                     *)
(***************************************************************************)
EXTENDS Integers, Sequences, SequencesExt

CONSTANT PageSize
ASSUME PageSizeAssumption == PageSize \in Nat /\ PageSize > 12

HeaderSize == 12
-------------------------------------------------------------------------------
(* Numbers, least byte first: k bytes of any integer, and back. *)

RECURSIVE Le(_, _), Unsigned(_), Signed(_)
Le(n, k) == IF k = 0 THEN <<>> ELSE <<n % 256>> \o Le(n \div 256, k - 1)
Unsigned(b) == IF b = <<>> THEN 0 ELSE Head(b) + 256 * Unsigned(Tail(b))
Signed(b) == IF Len(b) = 1 THEN b[1] - (IF b[1] < 128 THEN 0 ELSE 256)
             ELSE Head(b) + 256 * Signed(Tail(b))

Left(d, k) == SubSeq(d, 1, k)
Past(d, k) == SubSeq(d, k + 1, Len(d))
-------------------------------------------------------------------------------
(* Writing *)

Each(Bytes(_), s) == FlattenSeq([i \in DOMAIN s |-> Bytes(s[i])])
Counted(Bytes(_), s) == Le(Len(s), 2) \o Each(Bytes, s)
Sized(b) == Le(Len(b), 2) \o b
Flag(b) == <<IF b THEN 1 ELSE 0>>

Types == <<"Null", "Bool", "Int64", "Float64", "String", "Bytes", "Array", "DateTime">>
Tag(v) == CHOOSE t \in 0..7 : Types[t + 1] = v[1]

\* bincode: four bytes of variant and eight of length.
ElementBytes(v) ==
    Le(Tag(v), 4) \o CASE v[1] \in {"String", "Bytes"} -> Le(Len(v[2]), 8) \o v[2]
                       [] v[1] \in {"Int64", "DateTime"} -> Le(v[2], 8)
                       [] v[1] = "Float64" -> v[2]
                       [] v[1] = "Bool" -> Flag(v[2])
                       [] v[1] = "Null" -> <<>>

ValueBytes(v) == CASE v[1] \in {"Int64", "DateTime"} -> Le(v[2], 8)
                   [] v[1] \in {"Float64", "String", "Bytes"} -> v[2]
                   [] v[1] = "Bool" -> Flag(v[2])
                   [] v[1] = "Null" -> <<>>
                   [] v[1] = "Array" -> Le(Len(v[2]), 8) \o Each(ElementBytes, v[2])

PropertyBytes(p) == Le(p[1], 4) \o <<Tag(p[2])>> \o ValueBytes(p[2])
Property(p) == Sized(PropertyBytes(p))
U32(n) == Le(n, 4)
U64(n) == Le(n, 8)

NodeBytes(r, deleted) == U64(r.id) \o Flag(deleted) \o Counted(U32, r.labels) \o Counted(Property, r.props)

EdgeBytes(r, deleted) == U64(r.id) \o U64(r.start) \o U64(r.end) \o U32(r.type) \o Flag(deleted)
                         \o Counted(Property, r.props)

NoAnchor == <<>>
SubgraphBytes(r) ==
    U64(r.id) \o Flag(FALSE) \o (IF r.anchor = NoAnchor THEN <<0>> ELSE <<1>> \o U64(r.anchor[1]))
    \o Counted(Property, r.props) \o Counted(U64, r.members)

EntityKinds == <<"Node", "Subgraph", "HyperEdge", "TemporalRef">>
EntityBytes(e) == <<(CHOOSE t \in 0..3 : EntityKinds[t + 1] = e[1])>> \o Each(U64, Tail(e))

HyperedgeBytes(r) == U64(r.id) \o Flag(FALSE) \o U32(r.type) \o Counted(EntityBytes, r.sources)
                     \o Counted(EntityBytes, r.targets) \o Counted(Property, r.props)

VersionBytes(r) == U64(r.id) \o U64(r.seq) \o
                   IF r.of[1] = "Node" THEN <<0>> \o Sized(NodeBytes(r.of[2], FALSE))
                   ELSE <<1>> \o Sized(EdgeBytes(r.of[2], FALSE))
-------------------------------------------------------------------------------
(* Reading: the value at the front of the data and the data past it, or    *)
(* None.                                                                   *)

None == <<>>

ReadNumber(d, k, Number(_)) == IF Len(d) < k THEN None ELSE <<Number(Left(d, k)), Past(d, k)>>

\* The fields of a layout.
U(k) == [field |-> "unsigned", size |-> k]
I64 == [field |-> "signed", size |-> 8]
Raw(k) == [field |-> "raw", size |-> k]
Blob == [field |-> "blob"]
Bit == [field |-> "bit"]
Optional(f) == [field |-> "optional", of |-> f]
Many(k, f) == [field |-> "many", size |-> k, of |-> f]
Slice(f) == [field |-> "slice", of |-> f]
Tagged(k, alternatives) == [field |-> "tagged", size |-> k, of |-> alternatives]
Fields(fs) == [field |-> "fields", of |-> fs]
Prop == [field |-> "property"]

Element == Tagged(4, << <<"Null">>, <<"Bool", Bit>>, <<"Int64", I64>>, <<"Float64", Raw(8)>>,
                        <<"String", Blob>>, <<"Bytes", Blob>>, <<"Array", Raw(0)>>, <<"DateTime", I64>> >>)

NodeFields == Fields(<<U(8), Bit, Many(2, U(4)), Many(2, Slice(Prop))>>)
EdgeFields == Fields(<<U(8), U(8), U(8), U(4), Bit, Many(2, Slice(Prop))>>)
SubgraphFields == Fields(<<U(8), Bit, Optional(I64), Many(2, Slice(Prop)), Many(2, U(8))>>)
EntityFields == Tagged(1, << <<"Node", U(8)>>, <<"Subgraph", U(8)>>, <<"HyperEdge", U(8)>>,
                             <<"TemporalRef", U(8), I64>> >>)
HyperedgeFields == Fields(<<U(8), Bit, U(4), Many(2, EntityFields), Many(2, EntityFields),
                            Many(2, Slice(Prop))>>)
VersionFields == Fields(<<U(8), U(8), Tagged(1, << <<"Node", Slice(NodeFields)>>,
                                                   <<"Relationship", Slice(EdgeFields)>> >>)>>)

Ascii(d) == \A i \in DOMAIN d : d[i] < 128

RECURSIVE Read(_, _), ReadAll(_, _)

\* deserialize_value, on the rest of the property's slice.
ReadValue(tag, d) ==
    CASE tag = 0 -> << <<"Null">> >>
      [] tag = 1 /\ d # <<>> -> << <<"Bool", Head(d) # 0>> >>
      [] tag \in {2, 7} /\ Len(d) >= 8 -> << <<Types[tag + 1], Signed(Left(d, 8))>> >>
      [] tag = 3 /\ Len(d) >= 8 -> << <<"Float64", Left(d, 8)>> >>
      [] tag = 4 /\ Ascii(d) -> << <<"String", d>> >>
      [] tag = 5 -> << <<"Bytes", d>> >>
      [] tag = 6 /\ Read(Many(8, Element), d) # None -> << <<"Array", Read(Many(8, Element), d)[1]>> >>
      [] OTHER -> None

ReadProperty(d) ==
    IF Len(d) < 5 \/ ReadValue(d[5], Past(d, 5)) = None THEN None
    ELSE << <<Unsigned(Left(d, 4)), ReadValue(d[5], Past(d, 5))[1]>>, <<>> >>

Read(f, d) ==
    CASE f.field = "unsigned" -> ReadNumber(d, f.size, Unsigned)
      [] f.field = "signed" -> ReadNumber(d, f.size, Signed)
      [] f.field = "raw" -> ReadNumber(d, f.size, LAMBDA b : b)
      [] f.field = "bit" -> ReadNumber(d, 1, LAMBDA b : b[1] % 2 = 1)
      [] f.field = "fields" -> ReadAll(f.of, d)
      [] f.field = "property" -> ReadProperty(d)
      [] OTHER ->
         LET first == Read(U(IF f.field = "blob" THEN 8 ELSE IF f.field = "slice" THEN 2
                             ELSE IF f.field = "optional" THEN 1 ELSE f.size), d)
             n == first[1]
             rest == first[2]
         IN  CASE first = None -> None
               [] f.field = "blob" -> Read(Raw(n), rest)
               [] f.field = "many" -> ReadAll([i \in 1..n |-> f.of], rest)
               [] f.field = "optional" -> IF n = 1 THEN ReadAll(<<f.of>>, rest) ELSE <<None, rest>>
               [] f.field = "tagged" ->
                  IF n >= Len(f.of) THEN None
                  ELSE LET x == ReadAll(Tail(f.of[n + 1]), rest)
                       IN  IF x = None THEN None ELSE <<<<f.of[n + 1][1]>> \o x[1], x[2]>>
               [] f.field = "slice" ->
                  LET x == Read(f.of, Left(rest, n))
                  IN  IF Len(rest) < n \/ x = None THEN None ELSE <<x[1], Past(rest, n)>>

ReadAll(fs, d) ==
    IF fs = <<>> THEN << <<>>, d>>
    ELSE LET x == Read(Head(fs), d)
             y == ReadAll(Tail(fs), x[2])
         IN  IF x = None \/ y = None THEN None ELSE << <<x[1]>> \o y[1], y[2]>>

\* A record from its fields, and whether it is a tombstone.
NodeOf(v) == [id |-> v[1], labels |-> v[3], props |-> v[4]]
EdgeOf(v) == [id |-> v[1], start |-> v[2], end |-> v[3], type |-> v[4], props |-> v[6]]
SubgraphOf(v) == [id |-> v[1], anchor |-> v[3], props |-> v[4], members |-> v[5]]
HyperedgeOf(v) == [id |-> v[1], type |-> v[3], sources |-> v[4], targets |-> v[5], props |-> v[6]]
VersionOf(v) == [id |-> v[1], seq |-> v[2],
                 of |-> <<v[3][1], IF v[3][1] = "Node" THEN NodeOf(v[3][2]) ELSE EdgeOf(v[3][2])>>]

Decoded(fields, Of(_), deletedAt, d) ==
    LET x == Read(fields, d)
    IN  IF x = None THEN None
        ELSE <<[record |-> Of(x[1]), deleted |-> deletedAt # 0 /\ x[1][deletedAt]]>>

ReadNode(d) == Decoded(NodeFields, NodeOf, 2, d)
ReadEdge(d) == Decoded(EdgeFields, EdgeOf, 5, d)
ReadSubgraph(d) == Decoded(SubgraphFields, SubgraphOf, 2, d)
ReadHyperedge(d) == Decoded(HyperedgeFields, HyperedgeOf, 2, d)
ReadVersion(d) == Decoded(VersionFields, VersionOf, 0, d)
-------------------------------------------------------------------------------
(* Pages *)

HeaderBytes(h) == <<h.type>> \o Le(h.count, 2) \o Le(h.free, 2) \o Le(h.next, 4) \o <<0, 0, 0>>
Header(page) == [type |-> page[1], count |-> Unsigned(SubSeq(page, 2, 3)),
                 free |-> Unsigned(SubSeq(page, 4, 5)), next |-> Unsigned(SubSeq(page, 6, 9))]

Zeros(k) == [i \in 1..k |-> 0]
Place(page, at, bytes) == Left(page, at) \o bytes \o Past(page, at + Len(bytes))
WithHeader(page, h) == Place(page, 0, HeaderBytes(h))
NewPage(type, next) ==
    WithHeader(Zeros(PageSize), [type |-> type, count |-> 0, free |-> HeaderSize, next |-> next])
SetNext(page, p) == WithHeader(page, [Header(page) EXCEPT !.next = p])

\* pack_record_into_page: the page is as it was when there is no room.
Fits(page, bytes) == PageSize - Header(page).free >= 2 + Len(bytes)
Pack(page, bytes) ==
    LET h == Header(page)
    IN  IF ~ Fits(page, bytes) THEN page
        ELSE WithHeader(Place(page, h.free, Sized(bytes)),
                        [h EXCEPT !.count = @ + 1, !.free = @ + 2 + Len(bytes)])

\* read_records_from_page: as many as the header says, up to the end of the page.
RECURSIVE Slices(_, _, _)
Slices(page, at, n) ==
    IF n = 0 \/ at + 2 > PageSize THEN <<>>
    ELSE LET size == Unsigned(SubSeq(page, at + 1, at + 2))
         IN  IF at + 2 + size > PageSize THEN <<>>
             ELSE <<SubSeq(page, at + 3, at + 2 + size)>> \o Slices(page, at + 2 + size, n - 1)
ReadRecords(page) == Slices(page, HeaderSize, Header(page).count)
===============================================================================
