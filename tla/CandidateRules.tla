--------------------------- MODULE CandidateRules ---------------------------
(***************************************************************************)
(* What the rule search asks of one candidate, a sequence of joinable      *)
(* pairs: its equality classes, the tests a further pair has to pass, its  *)
(* Horn splits and the canonical key of a split (candidate_rule_chains.py  *)
(* and the helpers of tgd_discovery.py).                                   *)
(*                                                                         *)
(* A class is a set of indexed attributes; the sorted tuples of the code   *)
(* only make such a set hashable and its order deterministic.              *)
(***************************************************************************)
EXTENDS ConstraintGraph

(* CandidateRuleChains: the classes of the transitive closure of the       *)
(* equalities.  What is equated with a member is in every set that has the *)
(* member and that no pair of the candidate leaves.                        *)
Members(cand) == UNION {{cand[n][1], cand[n][2]} : n \in DOMAIN cand}

ClosedSets(cand) ==
    {C \in SUBSET Members(cand) :
        \A n \in DOMAIN cand : cand[n][1] \in C <=> cand[n][2] \in C}

Chains(cand) ==
    LET closed == ClosedSets(cand)
    IN  {{b \in Members(cand) : \A C \in closed : a \in C => b \in C} : a \in Members(cand)}

Occurrences(cand) == UNION {Occs(cand[n]) : n \in DOMAIN cand}

FirstOf(chain) == CHOOSE a \in chain : \A b \in chain \ {a} : IALess(a, b)
ReadsFrom(chain, occs) == \E a \in chain : Occ(a) \in occs

(* The columns a table occurrence contributes, without its number.         *)
Signature(chains, o) == {<<a[1], a[3]>> : a \in {b \in UNION chains : Occ(b) = o}}

----------------------------------------------------------------------------
(* next_node_test.                                                         *)
ConsecutiveOccurrences(cand) ==
    \A o \in Occurrences(cand) : \A j \in 0..(o[2] - 1) : <<o[1], j>> \in Occurrences(cand)

(* check_minimal_candidate_rule: no pair closes a cycle of equalities.     *)
Minimal(cand) ==
    \A n \in DOMAIN cand :
        /\ cand[n][1] # cand[n][2]
        /\ ~ \E c \in Chains(SubSeq(cand, 1, n - 1)) : {cand[n][1], cand[n][2]} \subseteq c

FewTables(cand, maxTables) == Cardinality(Occurrences(cand)) <= maxTables

ShapeAllows(cand, maxTables) ==
    ConsecutiveOccurrences(cand) /\ Minimal(cand) /\ FewTables(cand, maxTables)

FewVariables(chains, maxVars) == Cardinality(chains) <= maxVars

----------------------------------------------------------------------------
(* _iter_dfs_horn_splits: one occurrence is the head; of two that use the  *)
(* same columns only the higher-numbered one.                              *)
HornHeads(cand) ==
    LET occs == Occurrences(cand)
        ch   == Chains(cand)
    IN  {h \in occs :
            /\ occs # {h}
            /\ \A o \in occs : (o[1] = h[1] /\ h[2] < o[2]) => Signature(ch, o) # Signature(ch, h)}

HeadLess(g, h) == g[1] < h[1] \/ (g[1] = h[1] /\ g[2] < h[2])

(* is_safe_split: every head variable occurs in the body.                  *)
Safe(chains, body, head) ==
    \A c \in chains : ReadsFrom(c, {head}) => ReadsFrom(c, body)

(* horn_rule_key: the least signature over all renumberings of repeated    *)
(* occurrences that give the head number 0.  Two rules have the same least *)
(* signature exactly when they have the same set of signatures, which is   *)
(* the key here.                                                           *)
Renumberings(occs, head) ==
    {f \in [occs -> 0..(Cardinality(occs) - 1)] :
        /\ f[head] = 0
        /\ \A o \in occs : /\ f[o] < Cardinality({q \in occs : q[1] = o[1]})
                           /\ \A q \in occs : (q # o /\ q[1] = o[1]) => f[q] # f[o]}

HornKey(chains, occs, head) ==
    {[head   |-> head[1],
      chains |-> {{<<a[1], f[Occ(a)], a[3]>> : a \in c} : c \in chains}] :
        f \in Renumberings(occs, head)}
=============================================================================
