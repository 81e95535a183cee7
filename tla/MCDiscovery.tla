---------------------------- MODULE MCDiscovery ----------------------------
(* Small databases and settings for the rule search.                       *)
EXTENDS Discovery

Ints(cols) == [a \in {<<t, c>> \in (DOMAIN cols) \X (1..9) : c <= cols[t]} |-> "INTEGER"]

(* child(id, parent_id), other(pid), parent(id); dangling references.      *)
TwoChildren ==
    LET cols == <<2, 1, 1>> IN
    [cols |-> cols, keys |-> <<{1}, {}, {1}>>, type |-> Ints(cols), odd |-> {},
     rows |-> <<{<<1, 1>>, <<2, 1>>}, {<<1>>, <<2>>}, {<<1>>}>>,
     fks  |-> {<<1, 2, 3, 1>>, <<2, 1, 3, 1>>}]

(* employee(id, manager) with a reference to itself.                       *)
Employees ==
    LET cols == <<2>> IN
    [cols |-> cols, keys |-> <<{1}>>, type |-> Ints(cols), odd |-> {},
     rows |-> <<{<<1, 2>>, <<2, 1>>, <<3, 3>>}>>,
     fks  |-> {<<1, 2, 1, 1>>}]

(* edge(src, dst) to node(id), a column of the edge with a comma.          *)
Graph ==
    LET cols == <<2, 1>> IN
    [cols |-> cols, keys |-> <<{1, 2}, {1}>>, type |-> Ints(cols), odd |-> {<<1, 2>>},
     rows |-> <<{<<1, 2>>, <<2, 1>>}, {<<1>>, <<2>>}>>,
     fks  |-> {<<1, 1, 2, 1>>, <<1, 2, 2, 1>>}]

Raw(walk, tables, nvars, disjoint, threshold) ==
    [walk |-> walk, recursivity |-> None, tables |-> tables, vars |-> nvars,
     disjoint |-> disjoint, full |-> FALSE, threshold |-> threshold, cap |-> <<>>]

MCDatabases == {TwoChildren, Employees, Graph}
(* One session searches wide under disjoint semantics, the other one      *)
(* narrow without, over the keys or over every pair that shares values;   *)
(* table 3 is numbered once, its column is capped at 0.                   *)
CONSTANT s1
MCRaw == [s \in Sessions |->
    IF s = s1
    THEN {[Raw(2, 3, 2, TRUE, 1) EXCEPT !.cap = (<<3, 1>> :> 0)], Raw(2, 3, 2, TRUE, 0)}
    ELSE {[Raw(0, 2, 2, FALSE, 2) EXCEPT !.recursivity = 1, !.cap = (<<3, 1>> :> 0)],
          [Raw(1, 2, 2, FALSE, 1) EXCEPT !.full = TRUE]}]
=============================================================================
