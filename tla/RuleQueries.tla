----------------------------- MODULE RuleQueries -----------------------------
(***************************************************************************)
(* The counting queries of database/query_utility.py and the result cache  *)
(* in front of them, and the measures of a rule that tgd_discovery.py      *)
(* computes with them.  A query is evaluated by its meaning: the ways to   *)
(* choose a row for every table occurrence.                                *)
(***************************************************************************)
EXTENDS CandidateRules

CONSTANT QueryCacheLimit    \* query_cache_limit

(* The rows a join lets through: the equality conditions hold and, under   *)
(* relation-disjoint semantics, two occurrences of a table differ in some  *)
(* primary-key column (never, when the table has no key).                  *)
Apart(d, f) ==
    \A o, q \in DOMAIN f :
        (o # q /\ o[1] = q[1]) => \E k \in d.keys[o[1]] : f[o][k] # f[q][k]

Witnesses(d, occs, eqs, disjoint) ==
    {f \in [occs -> UNION {d.rows[o[1]] : o \in occs}] :
        /\ \A o \in occs : f[o] \in d.rows[o[1]]
        /\ \A e \in eqs : f[Occ(e[1])][e[1][3]] = f[Occ(e[2])][e[2][3]]
        /\ disjoint => Apart(d, f)}

(* get_rule_count: the distinct values of the projected columns; without a *)
(* projection, the rows of the join.                                       *)
RuleCount(d, q) ==
    LET ws == Witnesses(d, q.occs, q.eqs, q.disjoint)
    IN  IF q.project = {}
        THEN Cardinality(ws)
        ELSE Cardinality({[a \in q.project |-> f[Occ(a)][a[3]]] : f \in ws})

(* check_threshold with threshold 0, as path_pruning uses it.              *)
HasWitness(d, q) == IF Witnesses(d, q.occs, q.eqs, q.disjoint) # {} THEN 1 ELSE 0

----------------------------------------------------------------------------
(* calculate_rule_metrics: the equalities star out from the first member   *)
(* of each class; the body query keeps those with both ends in the body.   *)
Stars(chains)   == UNION {{<<FirstOf(c), a>> : a \in c \ {FirstOf(c)}} : c \in chains}
Within(eqs, os) == {e \in eqs : Occs(e) \subseteq os}
Project(chains, os) ==
    {FirstOf({a \in c : Occ(a) \in os}) : c \in {k \in chains : ReadsFrom(k, os)}}

Query(occs, eqs, project, disjoint) ==
    [occs |-> occs, eqs |-> eqs, project |-> project, disjoint |-> disjoint]

(* The part of a query its cache key is made of: all of it.               *)
KeyWithoutSemantics(q) == [q EXCEPT !.disjoint = TRUE]
QueryKey(q) == q

SupportQuery(ch, body, head, disjoint) ==
    Query(body \cup {head}, Stars(ch), Project(ch, {head}), disjoint)
BodyQuery(ch, body, disjoint) ==
    Query(body, Within(Stars(ch), body), Project(ch, body), disjoint)
RuleQuery(ch, body, head, disjoint) ==
    Query(body \cup {head}, Stars(ch), Project(ch, body), disjoint)
PathQuery(cand, disjoint) == Query(Occurrences(cand), Range(cand), {}, disjoint)

----------------------------------------------------------------------------
(* An ordered dictionary used as a least-recently-used cache: a sequence   *)
(* of <<key, value>>, the next to be evicted first.  Ask returns what the  *)
(* caller gets for k when a miss computes v, and the cache afterwards.     *)
Answer(cache, k, v) ==
    IF \E n \in DOMAIN cache : cache[n][1] = k
    THEN cache[CHOOSE n \in DOMAIN cache : cache[n][1] = k][2]
    ELSE v

Renewed(cache, k, entry) ==
    IF \E n \in DOMAIN cache : cache[n][1] = k
    THEN Append(RemoveAt(cache, CHOOSE n \in DOMAIN cache : cache[n][1] = k), entry)
    ELSE Append(cache, entry)

Shortened(cache, limit) ==
    IF limit = 0 THEN <<>> ELSE IF Len(cache) > limit THEN Tail(cache) ELSE cache

Ask(cache, k, v, limit) ==
    LET got == Answer(cache, k, v)
    IN  [value |-> got, cache |-> Shortened(Renewed(cache, k, <<k, got>>), limit)]
=============================================================================
