---- MODULE MCAuditRules ----
(* AuditRules on a link table (1) keyed by both columns, an entity table   *)
(* (2) and a table without a key (3).                                      *)
EXTENDS AuditRules, TLC

x == 1
y == 2
z == 3
Both(u, v) == 1 :> u @@ 2 :> v
Atom(table, occ, terms) == [table |-> table, occ |-> occ, terms |-> terms]
Rule(body, head) == [kind |-> "rule", body |-> body, head |-> head, sorted |-> TRUE]

MCRules ==
    {Rule(<<Atom(1, 0, Both(x, y))>>, <<Atom(2, 0, 1 :> x)>>),
     Rule(<<Atom(1, 0, 1 :> y)>>, <<Atom(2, 0, 1 :> y)>>),
     Rule(<<Atom(1, 0, Both(x, y)), Atom(1, 1, Both(y, x))>>, <<Atom(2, 0, 1 :> x)>>),
     Rule(<<Atom(1, 1, Both(y, x)), Atom(1, 0, Both(x, y))>>, <<Atom(2, 0, 1 :> y)>>),
     Rule(<<Atom(2, 0, 1 :> x)>>, <<Atom(1, 0, 1 :> x)>>),
     Rule(<<Atom(2, 0, 1 :> x)>>, <<Atom(1, 0, Both(x, x))>>),
     [Rule(<<Atom(2, 0, 1 :> x)>>, <<Atom(1, 0, Both(x, x))>>) EXCEPT !.sorted = FALSE],
     Rule(<<Atom(1, 0, Both(x, y))>>, <<Atom(1, 1, 1 :> x)>>),
     Rule(<<Atom(1, 0, Both(x, y)), Atom(1, 1, Both(x, y))>>, <<Atom(2, 0, 1 :> x)>>),
     Rule(<<Atom(1, 0, Both(x, y))>>, <<Atom(1, 1, Both(x, x))>>),
     Rule(<<Atom(1, 0, Both(x, x))>>, <<Atom(1, 1, Both(x, x))>>)}
MCOthers ==
    {Rule(<<Atom(2, 0, 1 :> x)>>, <<Atom(1, 0, Both(x, z))>>),
     Rule(<<Atom(1, 0, Both(x, y))>>, <<Atom(2, 0, 1 :> x), Atom(2, 1, 1 :> y)>>),
     Rule(<<Atom(3, 0, 1 :> x), Atom(3, 1, 1 :> x)>>, <<Atom(2, 0, 1 :> x)>>),
     Rule(<<Atom(1, 0, 1 :> x), Atom(2, 0, 1 :> y)>>, <<Atom(2, 1, 1 :> x)>>),
     Rule(<<Atom(1, 0, 1 :> x)>>, <<Atom(1, 1, 1 :> x)>>),
     Rule(<<Atom(9, 0, 1 :> x)>>, <<Atom(2, 0, 1 :> x)>>),
     [kind |-> "unparsed", native |-> TRUE], [kind |-> "unparsed", native |-> FALSE]}
MCAll == MCRules \cup MCOthers

MCSchema == 1 :> {1, 2} @@ 2 :> {1} @@ 3 :> {1}
MCPrimaryKey == 1 :> {1, 2} @@ 2 :> {1} @@ 3 :> {}
Content(links, entities) ==
    1 :> {Both(p[1], p[2]) : p \in links} @@ 2 :> {1 :> e : e \in entities} @@ 3 :> {1 :> 5}
MCNull == 0
MCDatabases ==
    {Nothing,
     Content({<<5, 5>>, <<5, 6>>, <<6, 6>>, <<6, 7>>, <<7, 6>>}, {5, 6}),
     Content({<<5, 6>>, <<6, 5>>, <<7, 8>>}, {5, 6}),
     Content({<<5, 5>>, <<5, 6>>, <<MCNull, 6>>}, {5, MCNull})}
MCForeignKeys == {<<<<1, 1>>, <<2, 1>>>>, <<<<1, 2>>, <<2, 1>>>>, <<<<1, 1>>, <<1, 2>>>>,
                  <<<<2, 1>>, <<3, 1>>>>, <<<<3, 1>>, <<3, 1>>>>}
=============================
