--------------------------- MODULE ConstraintGraph ---------------------------
(***************************************************************************)
(* The joinable attributes of a database and the graph the rule search     *)
(* walks (marita_core/constraint_graph.py, and init of tgd_discovery.py).  *)
(*                                                                         *)
(* Tables and columns are numbered in name order, as AttributeMapper does. *)
(* An attribute is <<table, column>>, an indexed attribute                 *)
(* <<table, occurrence, column>>, a joinable pair (JIA) a sorted pair of   *)
(* indexed attributes.  A database is a record                             *)
(*   cols  columns per table          keys  primary-key columns per table  *)
(*   rows  set of tuples per table    fks   <<t, c, t2, c2>> as declared   *)
(*   type  type name per attribute                                         *)
(***************************************************************************)
EXTENDS Integers, Sequences, FiniteSets, SequencesExt

CONSTANT OverlapThreshold   \* threshold_overlap of is_compatible (350 in the code)

(* The total order of indexed attributes, and of the pairs made of them.   *)
IALess(a, b) == \E n \in 1..3 : a[n] < b[n] /\ \A m \in 1..(n - 1) : a[m] = b[m]
JIA(a, b)    == IF IALess(a, b) THEN <<a, b>> ELSE <<b, a>>
JIALess(p, q) == IALess(p[1], q[1]) \/ (p[1] = q[1] /\ IALess(p[2], q[2]))

(* The elements of a set in an order (the code sorts what it iterates).    *)
SortedBy(S, Less(_, _)) ==
    [n \in 1..Cardinality(S) |-> CHOOSE p \in S : Cardinality({q \in S : Less(q, p)}) = n - 1]
Sorted(S) == SortedBy(S, JIALess)

Occ(a)   == <<a[1], a[2]>>
Occs(p)  == {Occ(p[1]), Occ(p[2])}

(* AttributeMapper.attribute_to_indexed: an attribute at an occurrence.    *)
Indexed(a, j) == <<a[1], j, a[2]>>

Attributes(d) == {a \in (DOMAIN d.cols) \X (1..9) : a[2] <= d.cols[a[1]]}
AttributePairs(d) == Attributes(d) \X Attributes(d)

----------------------------------------------------------------------------
(* Compatibility.  The reflected keys whose target is missing are skipped. *)
ForeignKeys(d) ==
    {ab \in AttributePairs(d) : <<ab[1][1], ab[1][2], ab[2][1], ab[2][2]>> \in d.fks}

(* get_column_value_set drops what is falsy: missing values and zero.      *)
Values(d, a)      == {r[a[2]] : r \in d.rows[a[1]]} \ {0}
ManyInCommon(d, a, b) == Cardinality(Values(d, a) \cap Values(d, b)) > OverlapThreshold

(* Attribute.is_compatible with value overlap: a large overlap decides;    *)
(* the checks of type and kind that follow can only confirm a refusal,     *)
(* since the last one repeats the overlap test.                            *)
OverlapCompatible(d, a, b) ==
    \/ ManyInCommon(d, a, b)
    \/ /\ d.type[a] = d.type[b]
       /\ d.type[a] # "INTEGER"
       /\ ManyInCommon(d, a, b)

(* init: the keys of the metadata in fk mode, otherwise every unordered    *)
(* pair, an attribute with itself included.                                *)
CompatiblePairs(d, full) ==
    IF full
    THEN {ab \in AttributePairs(d) :
             /\ ab[1][1] < ab[2][1] \/ (ab[1][1] = ab[2][1] /\ ab[1][2] <= ab[2][2])
             /\ OverlapCompatible(d, ab[1], ab[2])}
    ELSE ForeignKeys(d)

(* init: every compatible pair at every pair of occurrences, unless the    *)
(* bound given for a column is below the occurrence.                       *)
JoinablePairs(d, full, walk, cap) ==
    {JIA(Indexed(x[1][1], x[2]), Indexed(x[1][2], x[3])) :
        x \in {y \in CompatiblePairs(d, full) \X (0..(walk - 1)) \X (0..(walk - 1)) :
                  cap[y[1][1]] >= y[2] /\ cap[y[1][2]] >= y[3]}}

----------------------------------------------------------------------------
(* from_jia_list: an edge from the smaller to the larger of two pairs that *)
(* share a table occurrence; all_neighbors looks at it from both ends.     *)
EdgesEndToEnd(nodes) == {e \in nodes \X nodes : JIALess(e[1], e[2]) /\ Occ(e[1][2]) = Occ(e[2][1])}
Edges(nodes) == {e \in nodes \X nodes : JIALess(e[1], e[2]) /\ Occs(e[1]) \cap Occs(e[2]) # {}}
AllNeighbours(nodes, p) == {q \in nodes : <<p, q>> \in Edges(nodes) \/ <<q, p>> \in Edges(nodes)}
=============================================================================
