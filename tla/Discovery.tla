------------------------------ MODULE Discovery ------------------------------
(***************************************************************************)
(* The rule search: MARITA.discover_rules (algorithms/marita.py) around    *)
(* init and dfs (marita_core/tgd_discovery.py).                            *)
(*                                                                         *)
(* discover_rules is a generator: it stops at every rule it yields, and    *)
(* the consumer takes the next one, closes it, or asks it to stop.  A      *)
(* session is one such generator.  Sessions share the module globals       *)
(* APPLY_DISJOINT, SUPPORT_THRESHOLD and APPLY_FULL_JOINABILITY, and the   *)
(* query cache of the database they read.                                  *)
(***************************************************************************)
EXTENDS RuleQueries

CONSTANTS
    Sessions, None,
    Databases,            \* the databases a run may be given
    RawSettings,          \* the settings each session may be given
    AnalysisCacheLimit,   \* CandidateAnalysisCache.limit
    Overlap,              \* may a session start while another one is suspended
    MaxSqlErrors          \* queries that may fail

ASSUME DiscoveryAssumption ==
    /\ \A d \in Databases : /\ d.cols \in Seq(Nat)
                            /\ \A t \in DOMAIN d.cols : IsFiniteSet(d.rows[t])
    /\ \A s \in Sessions : \A raw \in RawSettings[s] :
          /\ {raw.walk, raw.tables, raw.vars, raw.threshold} \subseteq Int
          /\ raw.recursivity = None \/ raw.recursivity \in Int
          /\ {raw.disjoint, raw.full} \subseteq BOOLEAN

VARIABLES
    db,        \* the database
    core,      \* [disjoint, threshold, full]: the globals of tgd_discovery
    queries,   \* QueryUtility._query_result_cache
    sqlErrors, \* queries that failed so far
    ses        \* one record per session

vars == <<db, core, queries, sqlErrors, ses>>

CoreDefaults == [disjoint |-> TRUE, threshold |-> 1, full |-> FALSE]

Fresh == [pc |-> "idle", settings |-> None, saved |-> None, nodes |-> {}, candidate |-> <<>>,
          frames |-> <<>>, seen |-> {}, analyses |-> <<>>, emitted |-> {}, pending |-> None,
          returned |-> {}, failures |-> 0]

Init ==
    /\ db \in Databases
    /\ core = CoreDefaults
    /\ queries = <<>>
    /\ sqlErrors = 0
    /\ ses = [s \in Sessions |-> Fresh]

Live(s) == ses[s].pc \in {"ready", "search", "yielded", "out"}

----------------------------------------------------------------------------
(* The settings a call works with: numbers that are not positive fall back *)
(* to the defaults, recursivity overrides walk_length.                     *)
CoercePositive(v, fallback) == IF v > 0 THEN v ELSE fallback
Effective(raw) ==
    [walk      |-> IF raw.recursivity # None THEN Max({1, raw.recursivity + 1})
                   ELSE CoercePositive(raw.walk, 4),
     tables    |-> CoercePositive(raw.tables, 100),
     vars      |-> CoercePositive(raw.vars, 100),
     disjoint  |-> raw.disjoint,
     full      |-> raw.full,
     threshold |-> raw.threshold,
     cap       |-> raw.cap]

(* The start of discover_rules: a threshold below 1 is an error; otherwise *)
(* the globals are kept for the finally clause and overwritten.            *)
Start(s) ==
    /\ ses[s].pc = "idle"
    /\ Overlap \/ \A r \in Sessions : ~Live(r)
    /\ \E raw \in RawSettings[s] :
         IF raw.threshold < 1
         THEN /\ ses' = [ses EXCEPT ![s].pc = "raised"]
              /\ UNCHANGED core
         ELSE LET e == Effective(raw) IN
              /\ ses' = [ses EXCEPT ![s].pc = "ready", ![s].settings = e, ![s].saved = core]
              /\ core' = [disjoint |-> e.disjoint, threshold |-> e.threshold, full |-> e.full]
    /\ UNCHANGED <<db, queries, sqlErrors>>

LeaveUnlessClosed(s, how) ==
    /\ ses' = [ses EXCEPT ![s] = [Fresh EXCEPT
                  !.pc = how, !.settings = ses[s].settings, !.nodes = ses[s].nodes,
                  !.emitted = ses[s].emitted, !.returned = ses[s].returned]]
    /\ core' = IF how = "closed" THEN core ELSE ses[s].saved

(* The finally clause, on every way out of the try; the locals of dfs go   *)
(* with the generator.                                                     *)
Leave(s, how) ==
    /\ ses' = [ses EXCEPT ![s] = [Fresh EXCEPT
                  !.pc = how, !.settings = ses[s].settings, !.nodes = ses[s].nodes,
                  !.emitted = ses[s].emitted, !.returned = ses[s].returned]]
    /\ core' = ses[s].saved

(* should_stop, or the timeout, before the search begins.                  *)
StopEarly(s) ==
    /\ ses[s].pc = "ready"
    /\ Leave(s, "stopped")
    /\ UNCHANGED <<db, queries, sqlErrors>>

(* A frame of dfs: the heads still to be tried and the pairs still to be   *)
(* visited.                                                                *)
Frame(heads, next) == [heads |-> heads, next |-> next]

(* init: the joinable pairs and their graph.  An error on the way, or no   *)
(* pair at all, ends the search with no rule and no error.                 *)
Initialise(s) ==
    /\ ses[s].pc = "ready"
    /\ \E failed \in {0, 1} :
         LET e     == ses[s].settings
             nodes == JoinablePairs(db, core.full, e.walk, [a \in Attributes(db) |->
                                        IF a \in DOMAIN e.cap THEN e.cap[a] ELSE e.walk])
         IN  /\ sqlErrors + failed <= MaxSqlErrors
             /\ sqlErrors' = sqlErrors + failed
             /\ IF failed = 1 \/ nodes = {}
                THEN Leave(s, "done")
                ELSE /\ ses' = [ses EXCEPT ![s].pc = "search", ![s].nodes = nodes,
                                           ![s].frames = <<Frame(<<>>, Sorted(nodes))>>]
                     /\ UNCHANGED core
    /\ UNCHANGED <<db, queries>>

----------------------------------------------------------------------------
(* The top frame of a session, and the stack with another one in its place.*)
Top(s)        == Last(ses[s].frames)
WithTop(s, f) == Append(Front(ses[s].frames), f)

(* The loop of dfs takes its next pair.                                    *)
PutBack(s) == WithTop(s, Frame(<<>>, Append(Tail(Top(s).next), Head(Top(s).next))))
TakeNext(s) == WithTop(s, Frame(<<>>, Tail(Top(s).next)))

(* CandidateAnalysisCache.get: keyed by the pairs, whatever their order.   *)
Analyse(cache, cand) == Ask(cache, Range(cand), Chains(cand), AnalysisCacheLimit)

(* A neighbour of any pair of the candidate that is not part of it, in     *)
(* order.  visited holds exactly the pairs of the candidate.               *)
Frontier(s, cand) ==
    Sorted(UNION {AllNeighbours(ses[s].nodes, cand[n]) : n \in DOMAIN cand} \ Range(cand))

(* dfs takes the next pair; next_node_test refuses it.                     *)
Refuse(s) ==
    /\ ses[s].pc = "search" /\ Top(s).heads = <<>> /\ Top(s).next # <<>>
    /\ LET cand == Append(ses[s].candidate, Head(Top(s).next))
           got  == Analyse(ses[s].analyses, cand)
           fits == ShapeAllows(cand, ses[s].settings.tables)
       IN  /\ ~(fits /\ FewVariables(got.value, ses[s].settings.vars))
           /\ ses' = [ses EXCEPT ![s].frames = TakeNext(s), ![s].analyses = IF fits THEN got.cache ELSE @]
    /\ UNCHANGED <<db, core, queries, sqlErrors>>

(* dfs enters the next pair.  A candidate with an equality relation seen   *)
(* before, or with no witness, is left at once; otherwise its splits and   *)
(* then its neighbours are worked off.  The witness query may raise, and   *)
(* ends the run then.                                                      *)
Enter(s) ==
    /\ ses[s].pc = "search" /\ Top(s).heads = <<>> /\ Top(s).next # <<>>
    /\ LET cand  == Append(ses[s].candidate, Head(Top(s).next))
           got   == Analyse(ses[s].analyses, cand)
           ch    == got.value
           again == ch \in ses[s].seen
           q     == PathQuery(cand, core.disjoint)
           asked == Ask(queries, <<"threshold", cand, core.disjoint>>, HasWitness(db, q),
                        QueryCacheLimit)
       IN  /\ ShapeAllows(cand, ses[s].settings.tables)
           /\ FewVariables(ch, ses[s].settings.vars)
           /\ \/ /\ ses' = [ses EXCEPT
                     ![s].candidate = cand,
                     ![s].analyses  = got.cache,
                     ![s].seen      = @ \cup {ch},
                     ![s].frames    = Append(TakeNext(s),
                         IF again \/ asked.value = 0
                         THEN Frame(<<>>, <<>>)
                         ELSE Frame(SortedBy(HornHeads(cand), HeadLess), Frontier(s, cand)))]
                 /\ queries' = IF again THEN queries ELSE asked.cache
                 /\ UNCHANGED <<core, sqlErrors>>
              \/ /\ ~again
                 /\ sqlErrors < MaxSqlErrors
                 /\ sqlErrors' = sqlErrors + 1
                 /\ Leave(s, "raised")
                 /\ UNCHANGED queries
    /\ UNCHANGED db

(* The key under which a rule counts as emitted.                           *)
ExactKey(ch, occs, head)    == [head |-> head, chains |-> ch]
EmissionKey(ch, occs, head) == HornKey(ch, occs, head)

(* split_pruning keeps a split with enough support.                        *)
Frequent(support) == support >= core.threshold

(* instantiate_tgd: a rule is its classes, one variable each, its head and *)
(* its measures.                                                           *)
Instantiate(ch, head, supp, num, den) ==
    [chains |-> ch, head |-> head, support |-> supp,
     confidence |-> IF den = 0 THEN <<0, 1>> ELSE <<num, den>>]

(* dfs tries a split: an unsafe one, one whose support is too small, and   *)
(* one equivalent to a rule emitted before yield nothing.  A count whose   *)
(* query fails is 0 and is not cached.                                     *)
TrySplit(s) ==
    /\ ses[s].pc = "search" /\ Top(s).heads # <<>>
    /\ \E broken \in {{}} \cup {{n} : n \in 1..3} :
         LET cand == ses[s].candidate
             head == Head(Top(s).heads)
             body == Occurrences(cand) \ {head}
             ch   == Chains(cand)
             key  == EmissionKey(ch, body \cup {head}, head)
             safe == Safe(ch, body, head)
             Count(c, n, q) ==
                 IF n \in broken THEN [value |-> 0, cache |-> c]
                 ELSE Ask(c, <<"rule_count", QueryKey(q)>>, RuleCount(db, q), QueryCacheLimit)
             supp == Count(queries, 1, SupportQuery(ch, body, head, core.disjoint))
             den  == Count(supp.cache, 2, BodyQuery(ch, body, core.disjoint))
             num  == Count(den.cache, 3, RuleQuery(ch, body, head, core.disjoint))
             emit == safe /\ Frequent(supp.value) /\ key \notin ses[s].emitted
         IN  /\ sqlErrors + Cardinality(broken) <= MaxSqlErrors
             /\ broken # {} => safe
             /\ sqlErrors' = sqlErrors + Cardinality(broken)
             /\ queries' = IF safe THEN num.cache ELSE queries
             /\ ses' = [ses EXCEPT
                   ![s].frames  = WithTop(s, Frame(Tail(Top(s).heads), Top(s).next)),
                   ![s].pc      = IF emit THEN "yielded" ELSE @,
                   ![s].emitted = IF emit THEN @ \cup {key} ELSE @,
                   ![s].pending = IF emit
                                  THEN Instantiate(ch, head, supp.value, num.value, den.value)
                                  ELSE @]
    /\ UNCHANGED <<db, core>>

(* dfs returns; its caller takes the pair back.  The loop over the root    *)
(* pairs ends the search, and conversion failures are reported then.       *)
Return(s) ==
    /\ ses[s].pc = "search" /\ Top(s).heads = <<>> /\ Top(s).next = <<>>
    /\ IF Len(ses[s].frames) = 1
       THEN Leave(s, IF ses[s].failures > 0 THEN "raised" ELSE "done")
       ELSE /\ ses' = [ses EXCEPT ![s].frames = Front(@), ![s].candidate = Front(@)]
            /\ UNCHANGED core
    /\ UNCHANGED <<db, queries, sqlErrors>>

----------------------------------------------------------------------------
(* The text of a rule lists every equated column of an atom, and the       *)
(* factory makes one predicate of each; a comma in a column name breaks it.*)
Columns(rule, o) == {a \in UNION rule.chains : Occ(a) = o}
Unreadable(rule) == \E a \in UNION rule.chains : <<a[1], a[3]>> \in db.odd

(* discover_rules takes what dfs yields: stop or time out, convert it,     *)
(* count a failure, or leave out a rule whose head is not one predicate.   *)
Convert(s) ==
    /\ ses[s].pc = "yielded"
    /\ LET rule == ses[s].pending IN
         \/ /\ Leave(s, "stopped")
         \/ /\ Unreadable(rule)
            /\ ses' = [ses EXCEPT ![s].failures = @ + 1, ![s].pc = "search", ![s].pending = None]
            /\ UNCHANGED core
         \/ /\ ~Unreadable(rule)
            /\ Cardinality(Columns(rule, rule.head)) # 1
            /\ ses' = [ses EXCEPT ![s].pc = "search", ![s].pending = None]
            /\ UNCHANGED core
         \/ /\ ~Unreadable(rule)
            /\ Cardinality(Columns(rule, rule.head)) = 1
            /\ ses' = [ses EXCEPT ![s].pc = "out", ![s].returned = @ \cup {rule},
                                  ![s].pending = None]
            /\ UNCHANGED core
    /\ UNCHANGED <<db, queries, sqlErrors>>

(* The consumer asks for the next rule, or closes the generator.           *)
Resume(s) ==
    /\ ses[s].pc = "out"
    /\ ses' = [ses EXCEPT ![s].pc = "search"]
    /\ UNCHANGED <<db, core, queries, sqlErrors>>

CloseGenerator(s) ==
    /\ ses[s].pc = "out"
    /\ Leave(s, "closed")
    /\ UNCHANGED <<db, queries, sqlErrors>>

Step(s) ==
    \/ Start(s) \/ StopEarly(s) \/ Initialise(s) \/ Refuse(s) \/ Enter(s) \/ TrySplit(s)
    \/ Return(s) \/ Convert(s) \/ Resume(s) \/ CloseGenerator(s)

Finished == /\ \A s \in Sessions : ses[s].pc # "idle" /\ ~Live(s)
            /\ UNCHANGED vars

Next == Finished \/ \E s \in Sessions : Step(s)

(* A generator that is live keeps moving.  It is weak fairness of Step(s)  *)
(* as long as a live session can step, which the search for deadlocks      *)
(* shows; ENABLED would evaluate every query once more.                    *)
Fairness == \A s \in Sessions : <>[]Live(s) => []<><<TRUE>>_(ses[s])

Spec == Init /\ [][Next]_vars /\ Fairness

----------------------------------------------------------------------------
(* What the search promises, stated without the order in which it works.   *)

(* An in-scope candidate: a non-empty set of joinable pairs whose          *)
(* equalities are acyclic, joined up by shared occurrences, with           *)
(* occurrences numbered from 0, and within the bounds.                     *)
Connected(ps) ==
    \A part \in (SUBSET ps) \ {{}, ps} :
        \E p \in part, q \in ps \ part : Occs(p) \cap Occs(q) # {}

InScope(e, nodes) ==
    {ps \in SUBSET nodes :
        /\ ps # {} /\ Connected(ps)
        /\ ShapeAllows(Sorted(ps), e.tables)
        /\ FewVariables(Chains(Sorted(ps)), e.vars)}

(* The support of a rule, from its classes alone: the head assignments     *)
(* that some choice of rows for all its occurrences makes.                 *)
TrueSupport(d, ch, head, disjoint) ==
    LET occs == {Occ(a) : a \in UNION ch}
        pick == {f \in [occs -> UNION {d.rows[o[1]] : o \in occs}] :
                    /\ \A o \in occs : f[o] \in d.rows[o[1]]
                    /\ \A c \in ch : Cardinality({f[Occ(a)][a[3]] : a \in c}) = 1
                    /\ disjoint => Apart(d, f)}
    IN  Cardinality({{<<a[3], f[head][a[3]]>> : a \in {b \in UNION ch : Occ(b) = head}} :
                        f \in pick})

(* The Horn rules of an in-scope candidate that hold often enough, as keys.*)
RulesInScope(e, nodes) ==
    UNION {LET ch   == Chains(Sorted(ps))
               occs == Occurrences(Sorted(ps))
           IN  {HornKey(ch, occs, h) : h \in {g \in occs :
                    /\ occs # {g} /\ Safe(ch, occs \ {g}, g)
                    /\ TrueSupport(db, ch, g, e.disjoint) >= e.threshold}} :
               ps \in InScope(e, nodes)}

(* A search that ran to its end has emitted every rule in scope, and no    *)
(* other, up to the numbering of repeated occurrences: neither the pruning *)
(* by equality relations seen before nor the choice of one head among      *)
(* interchangeable occurrences loses a rule (dfs, _iter_dfs_horn_splits).  *)
SearchIsExhaustive ==
    \A s \in Sessions :
        (ses[s].pc = "done" /\ sqlErrors = 0) =>
            ses[s].emitted = RulesInScope(ses[s].settings, ses[s].nodes)

(* The support of every rule handed to the consumer is the number of head  *)
(* assignments with a witness under the semantics this session was given,  *)
(* whatever is in the query cache and whatever other sessions did          *)
(* (calculate_rule_metrics, get_rule_count).                               *)
SupportIsExact ==
    \A s \in Sessions : \A r \in ses[s].returned :
        /\ r.support = TrueSupport(db, r.chains, r.head, ses[s].settings.disjoint)
        /\ r.support >= ses[s].settings.threshold

(* Two rules of one session are never the same up to renumbering (dfs,     *)
(* horn_rule_key), although the session emits under many candidates.       *)
RulesAreDistinct ==
    \A s \in Sessions : \A r, q \in ses[s].returned :
        r # q => HornKey(r.chains, {Occ(a) : a \in UNION r.chains}, r.head)
                 # HornKey(q.chains, {Occ(a) : a \in UNION q.chains}, q.head)

(* When no session is live the globals have their defaults again, however  *)
(* the sessions ended: exhausted, stopped, closed at a yield, or raised    *)
(* (the finally clause of discover_rules).                                 *)
GlobalsRestored == (\A s \in Sessions : ~Live(s)) => core = CoreDefaults

(* Every session that starts comes to an end (dfs).                        *)
SearchEnds == \A s \in Sessions : Live(s) ~> ~Live(s)
=============================================================================
