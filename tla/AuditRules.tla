----------------------------- MODULE AuditRules -----------------------------
(***************************************************************************)
(* The audit of one competitor's rules on one database (audit/runner.py,   *)
(* _audit_rule; audit/matching.py, models.py and evaluator.py): every rule *)
(* is validated, bounded, tested for vacuity, evaluated on the database,   *)
(* put into one category and, when it is exact and in the target class,    *)
(* looked up among the target's rules, by canonical key, by homomorphism   *)
(* or by what both derive on the database.  A later command rematches the  *)
(* records it finds in the cache.                                          *)
(*                                                                         *)
(* Tables, columns, occurrences and variables are numbers, in the order of *)
(* their names; a tuple of a table is a function of its columns.  A rule   *)
(* is sorted when its head lists its columns in the order of their names:  *)
(* parse_popper_source lists them in the table's order.                    *)
(***************************************************************************)
EXTENDS Integers, FiniteSets, Sequences

CONSTANTS
    Dependencies,  \* what occurs in results files, unparsed ones among them
    Databases,     \* contents of the SQLite file: [table -> set of rows], or Nothing: no file
    Schema,        \* columns of each table
    PrimaryKey,    \* columns of each table's primary key, {} when there is none
    ForeignKeys,   \* pairs of <<table, column>>
    Null,          \* SQL's NULL in a column
    WalkLength, MaxTables, MaxVariables,    \* bounds of the target class
    FkOnly,        \* joinability = "fk"
    Thresholds,    \* confidence thresholds, in percent
    MinSupport,    \* support threshold
    Coverages,     \* subset of {"alpha", "subsumption", "instance"}
    MaxRules       \* bound: rules of the target and audited rules

VARIABLES
    db,        \* the database
    coverage,  \* --coverage
    threshold, \* --confidence-threshold
    targets,   \* the target's rules, in the order of its results file
    cache,     \* rows that a target rule derives, by canonical key
    records,   \* the competitor's records
    rematched  \* whether they have been through the cache

vars == <<db, coverage, threshold, targets, cache, records, rematched>>

Nothing == [kind |-> "none"]
Parsed(rule) == rule.kind = "rule"

-----------------------------------------------------------------------------
(* Rules *)

Columns(atom) == DOMAIN atom.terms
AtomVariables(atom) == {atom.terms[c] : c \in Columns(atom)}
Variables(atoms) == UNION {AtomVariables(atoms[i]) : i \in 1..Len(atoms)}
AllAtoms(rule) == rule.body \o rule.head

WellFormed(atoms) ==
    /\ atoms \in Seq({atoms[i] : i \in 1..Len(atoms)})
    /\ \A i \in 1..Len(atoms) : /\ {atoms[i].table, atoms[i].occ} \subseteq Nat
                               /\ Columns(atoms[i]) \subseteq Nat
                               /\ IsFiniteSet(Columns(atoms[i]))
                               /\ atoms[i].terms \in [Columns(atoms[i]) -> Nat]

(* Rules are well-formed, and a database has the tables of the schema.     *)
ASSUME RulesAssumption ==
    /\ {WalkLength, MaxTables, MaxVariables, MinSupport, MaxRules} \subseteq Nat
    /\ Thresholds \subseteq 0..100
    /\ Coverages \subseteq {"alpha", "subsumption", "instance"}
    /\ \A rule \in Dependencies : Parsed(rule) => WellFormed(rule.body) /\ WellFormed(rule.head)
    /\ IsFiniteSet(DOMAIN Schema)
    /\ \A d \in Databases : \/ d = Nothing
                            \/ DOMAIN d = DOMAIN Schema /\ \A t \in DOMAIN d : IsFiniteSet(d[t])

Existential(rule) == Variables(rule.head) \ Variables(rule.body)
Horn(rule) == Existential(rule) = {} /\ Len(rule.head) = 1

(* Python's order of tuples of numbers, of pairs here: an item of two.     *)
Less(p, q) == p[1] < q[1] \/ (p[1] = q[1] /\ p[2] < q[2])

Before(s, t) ==
    \E i \in 1..Len(t) : /\ \A j \in 1..i - 1 : j <= Len(s) /\ s[j] = t[j]
                         /\ i > Len(s) \/ Less(s[i], t[i])

(* The members of S in the order R.                                        *)
Place(S, R, i) == Cardinality({j \in S : <<j, i>> \in R})
InOrder(S, R) == [k \in 1..Cardinality(S) |-> CHOOSE i \in S : Place(S, R, i) = k - 1]

(* The terms of an atom, by column, as a sequence of pairs.                *)
TermSeq(atom) ==
    LET cols == InOrder(Columns(atom), {p \in Columns(atom) \X Columns(atom) : p[1] < p[2]})
    IN [k \in 1..Cardinality(Columns(atom)) |-> <<cols[k], atom.terms[cols[k]]>>]

(* The order in which canonical_key sorts atoms: table, occurrence, terms; *)
(* of two that are the same, the first.                                    *)
Rank(atom) == << <<atom.table, atom.occ>> >> \o TermSeq(atom)

Precedes(ranks) ==
    {p \in (DOMAIN ranks) \X (DOMAIN ranks) :
        \/ Before(ranks[p[1]], ranks[p[2]])
        \/ ranks[p[1]] = ranks[p[2]] /\ p[1] < p[2]}

Sorted(atoms) ==
    LET order == InOrder(1..Len(atoms), Precedes([i \in 1..Len(atoms) |-> Rank(atoms[i])]))
    IN [k \in 1..Len(atoms) |-> atoms[order[k]]]

(* Where a variable is read first, by atom and column.                     *)
Reads(atoms, v) ==
    UNION {{<<i, c>> : c \in {d \in Columns(atoms[i]) : atoms[i].terms[d] = v}} : i \in 1..Len(atoms)}
FirstRead(atoms, v) ==
    CHOOSE p \in Reads(atoms, v) : \A q \in Reads(atoms, v) : p = q \/ Less(p, q)

(* Variables are numbered as they come; the occurrence is left out.        *)
Normalized(atoms) ==
    LET first == [v \in Variables(atoms) |-> FirstRead(atoms, v)]
        firsts == {first[v] : v \in Variables(atoms)}
        number == [v \in Variables(atoms) |-> Cardinality({p \in firsts : Less(p, first[v])})]
    IN [i \in 1..Len(atoms) |->
           [table |-> atoms[i].table,
            terms |-> [c \in Columns(atoms[i]) |-> number[atoms[i].terms[c]]]]]

CanonicalKey(rule) == <<Len(rule.body), Normalized(Sorted(rule.body) \o Sorted(rule.head))>>

HeadKey(rule) == Normalized(rule.head)

(* Mutant: tables and columns are compared, variables are not.             *)
MapsColumns(h, general, specific) ==
    general.table = specific.table /\ Columns(general) \subseteq Columns(specific)

(* _extend_atom_mapping: h maps a more general atom into a specific one.   *)
MapsInto(h, general, specific) ==
    /\ general.table = specific.table
    /\ \A c \in Columns(general) : c \in Columns(specific) /\ h[general.terms[c]] = specific.terms[c]

(* The backtracking search finds a homomorphism when there is one.         *)
Subsumes(general, specific) ==
    \E h \in [Variables(AllAtoms(general)) -> Variables(AllAtoms(specific))] :
       /\ MapsInto(h, general.head[1], specific.head[1])
       /\ \A i \in 1..Len(general.body) :
             \E j \in 1..Len(specific.body) : MapsInto(h, general.body[i], specific.body[j])

AlphaEquivalent(left, right) ==
    Len(left.body) = Len(right.body) /\ Subsumes(left, right) /\ Subsumes(right, left)

-----------------------------------------------------------------------------
(* Evaluation *)

SameTable(atoms) ==
    {p \in (1..Len(atoms)) \X (1..Len(atoms)) : p[1] < p[2] /\ atoms[p[1]].table = atoms[p[2]].table}

(* The evaluator raises: a table or a column is unknown; or tuples of one  *)
(* table are to be told apart and it has no primary key.                   *)
Invalid(atoms) ==
    \E i \in 1..Len(atoms) : \/ atoms[i].table \notin DOMAIN Schema
                             \/ ~ Columns(atoms[i]) \subseteq Schema[atoms[i].table]
NoKey(atoms) == \E p \in SameTable(atoms) : PrimaryKey[atoms[p[1]].table] = {}

Evaluable(rule) == ~ Invalid(AllAtoms(rule)) /\ ~ NoKey(AllAtoms(rule))

(* A condition of SQL holds of values, never of NULL.                      *)
SqlEqual(u, v) == u = v /\ u # Null
SqlDiffers(u, v) == u # v /\ Null \notin {u, v}
NoNulls == \A t \in DOMAIN db : \A row \in db[t] : \A c \in Schema[t] : row[c] # Null

(* _relation_disjoint_conditions.                                          *)
Disjoint(atoms, m) ==
    \A p \in SameTable(atoms) : \E k \in PrimaryKey[atoms[p[1]].table] :
       SqlDiffers(m[p[1]][k], m[p[2]][k])

(* The SELECT: one tuple per atom, equal where atoms share a variable.     *)
Joins(atoms, disjoint) ==
    {m \in [1..Len(atoms) -> UNION {db[t] : t \in DOMAIN db}] :
       /\ \A i \in 1..Len(atoms) : m[i] \in db[atoms[i].table]
       /\ \A i, j \in 1..Len(atoms) : \A c \in Columns(atoms[i]), d \in Columns(atoms[j]) :
             atoms[i].terms[c] = atoms[j].terms[d] /\ <<i, c>> # <<j, d>> => SqlEqual(m[i][c], m[j][d])
       /\ disjoint => Disjoint(atoms, m)}

Binding(atoms, m, v) ==
    LET i == CHOOSE i \in 1..Len(atoms) : v \in AtomVariables(atoms[i])
    IN m[i][CHOOSE c \in Columns(atoms[i]) : atoms[i].terms[c] = v]

(* SELECT DISTINCT of the variables vs.                                    *)
Assignments(atoms, vs, disjoint) ==
    {[v \in vs |-> Binding(atoms, m, v)] : m \in Joins(atoms, disjoint)}

Predictions(rule, disjoint) == Cardinality(Assignments(rule.body, Variables(rule.body), disjoint))
Support(rule, disjoint) == Cardinality(Assignments(AllAtoms(rule), Variables(rule.body), disjoint))

Exact(rule) ==
    /\ 100 * Support(rule, TRUE) >= threshold * Predictions(rule, TRUE)
    /\ Support(rule, TRUE) >= MinSupport

(* projected_head_rows: the head tuples a rule derives, where they exist.  *)
HeadRows(rule) ==
    {[c \in Columns(rule.head[1]) |-> a[rule.head[1].terms[c]]] :
       a \in Assignments(AllAtoms(rule), Variables(rule.head), TRUE)}

-----------------------------------------------------------------------------
(* Scope and vacuity *)

(* No set of atoms is cut off from the others.                             *)
Connected(rule) ==
    LET atoms == AllAtoms(rule)
        all == 1..Len(atoms)
    IN \A S \in (SUBSET all) \ {{}, all} :
          \E i \in S, j \in all \ S : AtomVariables(atoms[i]) \cap AtomVariables(atoms[j]) # {}

FkJoinable(rule) ==
    LET atoms == AllAtoms(rule) IN
    \A i, j \in 1..Len(atoms) : i < j =>
       \A c \in Columns(atoms[i]), d \in Columns(atoms[j]) :
          atoms[i].terms[c] = atoms[j].terms[d] =>
             LET l == <<atoms[i].table, c>>
                 r == <<atoms[j].table, d>>
             IN <<l, r>> \in ForeignKeys \/ <<r, l>> \in ForeignKeys

InBounds(rule) ==
    /\ Len(AllAtoms(rule)) <= WalkLength
    /\ Cardinality({AllAtoms(rule)[i].table : i \in 1..Len(AllAtoms(rule))}) <= MaxTables
    /\ Cardinality(Variables(AllAtoms(rule))) <= MaxVariables

Structural(rule) == InBounds(rule) /\ Connected(rule) /\ (FkOnly => FkJoinable(rule))

HeadEntailed(rule) ==
    \A i \in 1..Len(rule.head) : \E j \in 1..Len(rule.body) :
       rule.head[i].table = rule.body[j].table /\ rule.head[i].terms = rule.body[j].terms

(* Mutant: one column of the key is enough.                                *)
SharesKeyColumn(rule) ==
    LET atoms == AllAtoms(rule) IN
    \E p \in SameTable(atoms) : \E k \in PrimaryKey[atoms[p[1]].table] :
       /\ k \in Columns(atoms[p[1]]) \cap Columns(atoms[p[2]])
       /\ atoms[p[1]].terms[k] = atoms[p[2]].terms[k]

(* Two atoms that must be one tuple: they agree on the whole key.          *)
ForcedSameTuple(rule) ==
    LET atoms == AllAtoms(rule) IN
    \E p \in SameTable(atoms) :
       /\ PrimaryKey[atoms[p[1]].table] # {}
       /\ \A k \in PrimaryKey[atoms[p[1]].table] :
             /\ k \in Columns(atoms[p[1]]) \cap Columns(atoms[p[2]])
             /\ atoms[p[1]].terms[k] = atoms[p[2]].terms[k]

NoEvidence(rule) ==
    \/ Predictions(rule, TRUE) = 0
    \/ Support(rule, FALSE) > 0 /\ Support(rule, TRUE) = 0

-----------------------------------------------------------------------------
(* One rule *)

(* The target's rules that satisfy something are given by their places.    *)
First(places) == CHOOSE i \in places : \A j \in places : i <= j

Candidates(rule) == {i \in 1..Len(targets) : HeadKey(targets[i]) = HeadKey(rule)}

(* _match_rule: the first target rule of the same key, or of those with    *)
(* the head the first that subsumes the rule.                              *)
Match(rule) ==
    LET alpha == {i \in 1..Len(targets) : CanonicalKey(targets[i]) = CanonicalKey(rule)}
        general == {i \in Candidates(rule) : Subsumes(targets[i], rule)}
    IN IF alpha # {} THEN <<"recalled_alpha", targets[First(alpha)]>>
       ELSE IF general # {} THEN <<"recalled_subsumed", targets[First(general)]>>
       ELSE <<"unmatched", Nothing>>

(* Mutant: the head's key.                                                 *)
CacheHeadKey(rule) == HeadKey(rule)

(* What a target rule derives is looked up by its key, and remembered.     *)
CacheKey(rule) == CanonicalKey(rule)

(* _same_head_shape, of heads with one key: the order of their columns.    *)
SameHeadShape(left, right) == left.sorted = right.sorted

(* The candidates that can be evaluated; the others are passed over.       *)
Able(rule) ==
    {i \in Candidates(rule) : SameHeadShape(rule, targets[i]) /\ Evaluable(targets[i])}

(* The cache after the candidates have been gone through: the first of a   *)
(* key is evaluated.                                                       *)
Remember(rule) ==
    [k \in DOMAIN cache \cup {CacheKey(targets[i]) : i \in Able(rule)} |->
        IF k \in DOMAIN cache THEN cache[k]
        ELSE HeadRows(targets[First({i \in Able(rule) : CacheKey(targets[i]) = k})])]

(* covered_on_instance; a rule that derives nothing is not covered.        *)
Covered(rule) ==
    /\ HeadRows(rule) # {}
    /\ HeadRows(rule) \subseteq UNION {Remember(rule)[CacheKey(targets[i])] : i \in Able(rule)}

Record(rule, class, category, evaluable, eligible, match) ==
    [rule |-> rule, class |-> class, category |-> category, evaluable |-> evaluable,
     eligible |-> eligible, status |-> match[1], matched |-> match[2]]

NotApplicable == <<"not_applicable", Nothing>>

(* _scope_status_for says in_target_class.                                 *)
InTargetClass(rule) == Existential(rule) = {} /\ Horn(rule) /\ Structural(rule)

Technical(rule, class) ==
    Record(rule, class, "technical_exclusion", FALSE, FALSE, NotApplicable)
Eligible(rule) == Horn(rule) /\ Structural(rule)

(* _audit_rule once the rule is known to be in bounds: it is evaluated, and *)
(* only an exact Horn rule is looked up.                                   *)
Evaluated(rule) ==
    LET record(class, category, eligible, match) ==
            Record(rule, class, category, TRUE, eligible, match)
        match == IF Match(rule)[1] = "unmatched" /\ coverage = "instance" /\ Covered(rule)
                 THEN <<"covered_on_instance", Nothing>> ELSE Match(rule)
    IN IF NoKey(AllAtoms(rule)) THEN Technical(rule, "out_of_scope")
       ELSE IF NoEvidence(rule) THEN record("vacuous", "vacuous", Eligible(rule), NotApplicable)
       ELSE IF ~ Exact(rule) THEN record("approximate", "non_exact", Eligible(rule), NotApplicable)
       ELSE IF Horn(rule) THEN record("comparable_true", "comparable_exact", TRUE, match)
       ELSE record("out_of_scope", "exact_non_horn_tgd", FALSE, NotApplicable)

(* _audit_rule, one return after the other.                                *)
Audit(rule) ==
    IF ~ Parsed(rule) THEN Technical(rule, IF rule.native THEN "out_of_scope" ELSE "parse_failed")
    ELSE IF db = Nothing \/ Invalid(AllAtoms(rule)) THEN Technical(rule, "out_of_scope")
    ELSE IF HeadEntailed(rule) \/ ForcedSameTuple(rule)
         THEN Record(rule, "vacuous", "vacuous", TRUE, Eligible(rule), NotApplicable)
    ELSE IF ~ Structural(rule)
         THEN Record(rule, "out_of_scope", "other_out_of_scope", TRUE, FALSE, NotApplicable)
    ELSE Evaluated(rule)

-----------------------------------------------------------------------------
(* The cache *)

(* parse_formula does not split the " & " of a canonical key.              *)
Reparses(rule) == Len(rule.body) = 1

(* _rematch_cached_record; only the confidence is compared again, and only *)
(* the class follows it.                                                   *)
Rematch(r) ==
    IF r.class \in {"parse_failed", "out_of_scope", "vacuous"} \/ ~ InTargetClass(r.rule)
    THEN [r EXCEPT !.status = "not_applicable", !.matched = Nothing]
    ELSE IF 100 * Support(r.rule, TRUE) < threshold * Predictions(r.rule, TRUE)
    THEN [r EXCEPT !.class = "approximate", !.status = "not_applicable", !.matched = Nothing]
    ELSE IF ~ Reparses(r.rule)
    THEN [r EXCEPT !.class = "parse_failed", !.status = "not_applicable", !.matched = Nothing]
    ELSE [r EXCEPT !.class = "comparable_true", !.status = Match(r.rule)[1], !.matched = Match(r.rule)[2]]

-----------------------------------------------------------------------------
(* The report's counts *)

InCategory(category) == Cardinality({i \in 1..Len(records) : records[i].category = category})
WithStatus(status) == Cardinality({i \in 1..Len(records) : records[i].status = status})

(* _partition_checks, of the counts of _exclusions_by_algorithm.           *)
CategoriesCheck ==
    InCategory("technical_exclusion") + InCategory("vacuous") + InCategory("non_exact")
        + InCategory("exact_non_horn_tgd") + InCategory("other_out_of_scope")
        + InCategory("comparable_exact") = Len(records)

MatchesCheck ==
    WithStatus("recalled_alpha") + WithStatus("recalled_subsumed") + WithStatus("unmatched")
        = InCategory("comparable_exact")

(* Mutant: the funnel counts every record of the class.                    *)
AboveAnyThreshold(r) == r.evaluable /\ r.eligible

(* _funnel_by_algorithm, the last stages.                                  *)
AboveThreshold(r) ==
    r.evaluable /\ r.eligible /\ r.category # "vacuous" /\ r.class = "comparable_true"
Funnel ==
    LET above == {i \in 1..Len(records) : AboveThreshold(records[i])}
        having(status) == Cardinality({i \in above : records[i].status = status})
    IN [above |-> Cardinality(above),
        exact |-> having("recalled_alpha"),
        general |-> having("recalled_subsumed"),
        unmatched |-> having("unmatched")]

(* _totals counts a dependency once, at its best record: of two as good,   *)
(* the first.                                                              *)
Priority == [recalled_alpha |-> 3, recalled_subsumed |-> 2, covered_on_instance |-> 1,
             unmatched |-> 0, not_applicable |-> -1]
Better(j, i) ==
    LET mine == Priority[records[i].status]
        other == Priority[records[j].status]
    IN other > mine \/ (other = mine /\ j < i)
Counts(i) ==
    /\ records[i].category = "comparable_exact"
    /\ ~ \E j \in 1..Len(records) :
          /\ records[j].category = "comparable_exact"
          /\ Better(j, i)
          /\ CanonicalKey(records[j].rule) = CanonicalKey(records[i].rule)
Totals ==
    LET chosen == {i \in 1..Len(records) : Counts(i)}
        having(statuses) == Cardinality({i \in chosen : records[i].status \in statuses})
        found == {"recalled_alpha", "recalled_subsumed"}
    IN [claims |-> Cardinality(chosen),
        uncovered |-> Cardinality(chosen) - having({"recalled_alpha"}),
        unsubsumed |-> Cardinality(chosen) - having(found),
        unmatched |-> having({"unmatched"}),
        instanceUncovered |-> Cardinality(chosen) - having(found \cup {"covered_on_instance"})]

-----------------------------------------------------------------------------
Init ==
    /\ db \in Databases
    /\ coverage \in Coverages
    /\ threshold \in Thresholds
    /\ targets = << >>
    /\ cache = << >>
    /\ records = << >>
    /\ rematched = FALSE

(* _build_target_rule_indexes keeps what is a Horn rule; parse_source_rule *)
(* sorts its columns.                                                      *)
LoadTarget(rule) ==
    /\ records = << >>
    /\ Len(targets) < MaxRules - 1
    /\ Parsed(rule) /\ Horn(rule) /\ rule.sorted
    /\ targets' = Append(targets, rule)
    /\ UNCHANGED <<db, coverage, threshold, cache, records, rematched>>

(* Instance coverage remembers what it had the candidates derive.          *)
AuditDependency(rule) ==
    LET record == Audit(rule) IN
    /\ Len(targets) + Len(records) < MaxRules
    /\ ~ rematched
    /\ records' = Append(records, record)
    /\ cache' = IF /\ coverage = "instance"
                   /\ record.status \in {"unmatched", "covered_on_instance"}
                   /\ HeadRows(rule) # {}
                THEN Remember(rule) ELSE cache
    /\ UNCHANGED <<db, coverage, threshold, targets, rematched>>

(* --reuse-cache, which does not support instance coverage.                *)
ReuseCache ==
    /\ records # << >>
    /\ ~ rematched
    /\ coverage # "instance"
    /\ records' = [i \in 1..Len(records) |-> Rematch(records[i])]
    /\ rematched' = TRUE
    /\ UNCHANGED <<db, coverage, threshold, targets, cache>>

Next ==
    \/ \E rule \in Dependencies : LoadTarget(rule) \/ AuditDependency(rule)
    \/ ReuseCache

Spec == Init /\ [][Next]_vars

-----------------------------------------------------------------------------
(* Properties *)

Recorded == {records[i] : i \in 1..Len(records)}

(* A rule that counts as recovered follows from the target rule it was     *)
(* matched with: by alpha-equivalence both ways, and by subsumption, on a  *)
(* database without NULLs, every ordinary match of the rule is supported   *)
(* when every one of the target's is (_match_rule, canonical_key, subsumes *)
(* against evaluate).                                                      *)
RecallIsSound ==
    \A r \in Recorded :
       /\ r.status = "recalled_alpha" => AlphaEquivalent(r.matched, r.rule)
       /\ r.status \in {"recalled_alpha", "recalled_subsumed"} =>
             /\ ~ Invalid(AllAtoms(r.matched))
             /\ NoNulls /\ Support(r.matched, FALSE) = Predictions(r.matched, FALSE)
                   => Support(r.rule, FALSE) = Predictions(r.rule, FALSE)

(* The category is what the database says: a rule set aside as vacuous     *)
(* without being run has no support by distinct tuples or, where there are *)
(* no NULLs, nothing to refute it; and what the body of a comparable rule  *)
(* binds by distinct tuples it also binds with a head tuple that is        *)
(* distinct too (_static_vacuity_reasons against _build_select_query).     *)
CategoryMatchesDatabase ==
    \A r \in Recorded :
       /\ r.category = "vacuous" /\ ~ NoKey(AllAtoms(r.rule)) =>
             \/ Support(r.rule, TRUE) = 0
             \/ NoNulls => Support(r.rule, FALSE) = Predictions(r.rule, FALSE)
       /\ r.category = "comparable_exact" /\ threshold = 100 =>
             \A m \in Joins(r.rule.body, TRUE) : \E n \in Joins(AllAtoms(r.rule), TRUE) :
                \A v \in Variables(r.rule.body) :
                   Binding(r.rule.body, m, v) = Binding(AllAtoms(r.rule), n, v)

(* An unmatched rule is covered on the instance when, and only when, the   *)
(* target's rules of its head, in the order of its columns, derive every   *)
(* head tuple it derives, whatever rules have used the cache of derived    *)
(* rows before (covered_on_instance).                                      *)
CoverageIsDerived ==
    \A r \in Recorded :
       coverage = "instance" /\ r.status \in {"covered_on_instance", "unmatched"} =>
          (r.status = "covered_on_instance" <=>
              /\ HeadRows(r.rule) # {}
              /\ \A row \in HeadRows(r.rule) : \E i \in 1..Len(targets) :
                    /\ Evaluable(targets[i]) /\ HeadKey(targets[i]) = HeadKey(r.rule)
                    /\ SameHeadShape(r.rule, targets[i])
                    /\ row \in HeadRows(targets[i]))

(* The tables of a report agree, of any coverage, before and after reuse   *)
(* of the cache.  The categories make up all records.  The funnel, which   *)
(* goes by class and match, ends in the numbers of matches.  As many rules *)
(* are comparable by category as have a match of the four kinds, and after *)
(* reuse the two differ at rules whose stored key does not parse or whose  *)
(* support is low, and at no others.  The report's own check of the        *)
(* matches adds up three of the four kinds: of an audit with instance      *)
(* coverage it fails although the tables agree, exactly when some rule is  *)
(* covered on the instance (runner.py:2091).  The totals count a rule once, and it *)
(* does not matter at which of its records: rules of one canonical key and *)
(* one order of columns have one verdict (_exclusions_by_algorithm,        *)
(* _partition_checks, _funnel_by_algorithm, _totals).                      *)
TablesAgree ==
    LET funnel == Funnel
        totals == Totals
        lookedUp == WithStatus("recalled_alpha") + WithStatus("recalled_subsumed")
                      + WithStatus("covered_on_instance") + WithStatus("unmatched")
    IN /\ CategoriesCheck
       /\ funnel.above = lookedUp
       /\ funnel.exact = WithStatus("recalled_alpha")
       /\ funnel.general = WithStatus("recalled_subsumed")
       /\ funnel.unmatched = WithStatus("unmatched")
       /\ ~ rematched => /\ InCategory("comparable_exact") = lookedUp
                         /\ MatchesCheck <=> WithStatus("covered_on_instance") = 0
       /\ \A r \in Recorded :
             \/ r.category = "comparable_exact" <=> r.status # "not_applicable"
             \/ rematched /\ (~ Reparses(r.rule) \/ Support(r.rule, TRUE) < MinSupport)
       /\ \A r, q \in Recorded :
             /\ Parsed(r.rule) /\ Parsed(q.rule)
             /\ \/ r.category # q.category
                \/ r.status # q.status /\ (coverage = "instance" => r.rule.sorted = q.rule.sorted)
             => CanonicalKey(r.rule) # CanonicalKey(q.rule)
       /\ totals.claims <= InCategory("comparable_exact")
       /\ ~ rematched => totals.unmatched = totals.instanceUncovered

(* Reuse of the cache recomputes the matching of stored evaluations, and   *)
(* nothing else: a stored rule that was comparable stays so                *)
(* (_rematch_cached_record).                                               *)
ReuseKeepsVerdict ==
    \A r \in Recorded : r.category = "comparable_exact" <=> r.class = "comparable_true"
=============================================================================
