-------------------------- MODULE AuditFlow_proofs --------------------------
(***************************************************************************)
(* The audit command on one machine, for any plan, pool size, options and  *)
(* run records, and any number of commands, changes, failures and kills:   *)
(* its pool stays contained, its report covers the target's successes, and *)
(* the rows it reuses are of its inputs but for those of a torn cache or a *)
(* resumed command.                                                        *)
(*                                                                         *)
(* The last is the subtle one.  A signature is taken before the shard it   *)
(* vouches for is evaluated, and the database may be replaced in between,  *)
(* so a cached row may be of a newer database than its manifest says.  It  *)
(* is never of an older one (Vouched), and a row is never newer than the   *)
(* database (RowsInPast): when a later command's signature equals the      *)
(* manifest's, the row lies between two equal versions.                    *)
(***************************************************************************)
EXTENDS AuditFlow, TLAPS

RowRecord == [kind : {"row"}, src : Nat, base : Nat, scope : Scopes,
              legacy : BOOLEAN, torn : BOOLEAN, resumed : BOOLEAN]
Rows == [Shard -> RowRecord \cup {None}]

AuditableShards == {s \in Shard : Auditable(s[2])}

HasRules == pc \notin {"off", "load"}
HasSignatures == pc \notin {"off", "load", "sign"}

TypeOK ==
    /\ source \in [Shard -> Nat]
    /\ base \in [Database -> Nat]
    /\ tracked \in BOOLEAN
    /\ progress \in [Database -> RunRecord \cup {None}]
    /\ summary \in [Database -> RunRecord \cup {None}]
    /\ written \in [Database -> Nat]
    /\ state \in [Shard -> {"none", "pending", "running", "completed", "failed", "interrupted"}]
    /\ csv \in Rows
    /\ report \in [kind : {"report"}, rows : Rows] \cup {None}
    /\ cache \in Rows
    /\ pc \in {"off", "load", "sign", "reuse", "state", "pool", "drain", "report", "cache"}
    /\ cfg \in Config \cup {None}
    /\ pc # "off" => cfg \in Config /\ (cfg.status => ~ cfg.reset)
    /\ HasRules => loaded \in [AuditableShards -> Nat]
    /\ HasSignatures => sig \in [AuditableShards -> Nat \X Nat]
    /\ remaining \subseteq Shard
    /\ running \subseteq Shard
    /\ ended \subseteq Shard
    /\ rows \in Rows
    /\ count \in [runs : Nat, changes : Nat, stops : Nat, kills : Nat]

(* What is in flight is of the plan, and its databases are marked busy.    *)
Contained ==
    /\ InFlight # {} => pc \in {"pool", "drain"}
    /\ remaining # {} => pc \in {"pool", "drain", "cache"}
    /\ InFlight \cup remaining \subseteq Planned
    /\ pc = "pool" => \A s \in InFlight : s[2] \in active
    /\ \A s, t \in InFlight : s[2] = t[2] => s = t
    /\ running \cap ended = {}
    /\ \A s \in Shard : state[s] = "running" => s \in running \/ count.kills > 0

(* No planned shard is lost between the plan and the rows.                 *)
Covered ==
    /\ \A s \in Shard : state[s] = "completed" => csv[s] # None
    /\ pc = "pool" => \A s \in Planned : s \in remaining \cup InFlight \/ state[s] = "completed"
    /\ Writing => \A s \in Shard : rows[s] # None <=> s \in Planned

(* What a state file says completed was evaluated in its manifest's scope. *)
StateSigned ==
    /\ stateFp = None => \A s \in Shard : state[s] = "none"
    /\ pc \in {"pool", "drain"} => stateFp = StateFp
    /\ \A s \in Shard : state[s] = "completed" => csv[s].scope = stateFp.scope

(* No row is of a database that is yet to come.                            *)
RowsInPast ==
    /\ report # None => \A s \in Shard : report.rows[s] # None => report.rows[s].base <= base[s[2]]
    /\ \A s \in Shard : /\ csv[s] # None => csv[s].base <= base[s[2]]
                        /\ cache[s] # None => cache[s].base <= base[s[2]]
                        /\ rows[s] # None => rows[s].base <= base[s[2]]
    /\ HasSignatures => \A s \in Planned : sig[s][2] <= base[s[2]]
    /\ pc = "reuse" => \A s \in Planned : cache[s] # None => cache[s].base <= sig[s][2]

(* The row is of the scope, and of the version of the database or of a     *)
(* later one.                                                              *)
Vouched(row, scope, version) ==
    \/ row.legacy
    \/ row.torn
    \/ row.scope = scope /\ (row.resumed \/ row.base >= version)

RowsVouched ==
    /\ pc = "pool" /\ ~ cfg.resume =>
          \A s \in Planned : state[s] = "completed" => csv[s].base >= sig[s][2]
    /\ Writing => \A s \in Planned : Vouched(rows[s], cfg.scope, sig[s][2])
    /\ cacheFp # None =>
          \A s \in Shard : s \in DOMAIN cacheFp.sigs /\ cache[s] # None =>
              Vouched(cache[s], cacheFp.scope, cacheFp.sigs[s][2])
    /\ pc = "cache" => \A s \in Planned :
          s \in remaining \/ cache[s] = [rows[s] EXCEPT !.torn = TRUE]

ReusedMatch ==
    /\ reused # {} => Writing
    /\ reused \subseteq Planned
    /\ OnlyTornOrResumedMislead

FlowOK == TypeOK /\ Contained /\ Covered /\ StateSigned /\ RowsInPast /\ RowsVouched /\ ReusedMatch

-----------------------------------------------------------------------------
USE DEF target, inputs, disk, pool, vars

LEMMA NoneFacts == /\ None \notin RowRecord
                   /\ None \notin RunRecord
                   /\ StateFp # None /\ EvaluationFp # None
                   /\ \A r : [kind |-> "report", rows |-> r] # None
  BY DEF None, RowRecord, RunRecord, StateFp, EvaluationFp

LEMMA InitOK == Init => FlowOK
  <1> SUFFICES ASSUME Init
               PROVE  FlowOK
    OBVIOUS
  <1>1. PICK t \in Targets : /\ tracked = t.tracked /\ written = t.written
                            /\ progress = t.progress /\ summary = t.summary
    BY DEF Init
  <1>2. /\ tracked \in BOOLEAN /\ written \in [Database -> Nat]
        /\ progress \in [Database -> RunRecord \cup {None}]
        /\ summary \in [Database -> RunRecord \cup {None}]
    BY <1>1, FlowAssumption
  <1>3. TypeOK
    BY <1>2, NoneFacts DEF Init, TypeOK, Rows, NoRows, HasRules, HasSignatures
  <1>4. QED
    BY <1>3, NoneFacts DEF Init, FlowOK, Contained, Covered, StateSigned, RowsInPast, RowsVouched,
       ReusedMatch, OnlyTornOrResumedMislead, Writing, InFlight, HasSignatures, NoRows

-----------------------------------------------------------------------------
(* The types.                                                              *)
LEMMA RowTyped ==
    ASSUME TypeOK, HasRules, NEW s \in AuditableShards, NEW c \in Config
    PROVE  Row(s, c) \in RowRecord
  <1>1. loaded[s] \in Nat /\ base[s[2]] \in Nat /\ c.scope \in Scopes
    BY DEF TypeOK, AuditableShards, Database, Config
  <1>2. QED
    BY <1>1 DEF Row, RowRecord

LEMMA Remarked ==
    ASSUME NEW r \in RowRecord, NEW b \in BOOLEAN
    PROVE  /\ [r EXCEPT !.torn = b] \in RowRecord
           /\ [r EXCEPT !.resumed = b] \in RowRecord
           /\ [r EXCEPT !.legacy = b] \in RowRecord
  BY DEF RowRecord

(* The plan is what the run records say, and these are not replaced.       *)
LEMMA PlanIsFixed == [Next]_vars => AuditableShards' = AuditableShards
  <1> SUFFICES ASSUME [Next]_vars
               PROVE  AuditableShards' = AuditableShards
    OBVIOUS
  <1>1. UNCHANGED target
    BY DEF Next, Launch, Command, Worker, LoadRules, SignInputs, RefuseState, PrepareState,
       ShowStatus, Submit, Drained, Collect, LoadCache, LoadLegacy, Reuse, RefuseCache, WriteReport,
       WriteCacheRows, WriteCacheManifest, TakeResult, BeginShard, CompleteShard, FailShard,
       ReplaceResults, ReplaceDatabase, Interrupt, Kill
  <1>2. QED
    BY <1>1 DEF AuditableShards, Auditable, Candidates, Latest, CountAgrees

LEMMA SpendFacts ==
    ASSUME TypeOK, NEW what \in {"runs", "changes", "stops", "kills"}, NEW bound, Spend(what, bound)
    PROVE  /\ count' \in [runs : Nat, changes : Nat, stops : Nat, kills : Nat]
           /\ count.kills > 0 => count'.kills > 0
           /\ what = "kills" => count'.kills > 0
  BY DEF TypeOK, Spend

LEMMA LeaveFacts ==
    ASSUME Leave
    PROVE  /\ pc' = "off" /\ cfg' \in Config \cup {None}
           /\ ~ HasRules' /\ ~ HasSignatures'
           /\ remaining' \subseteq Shard /\ ended' \subseteq Shard
           /\ rows' \in Rows /\ \A s \in Shard : rows'[s] = None
           /\ reused' = {}
  BY DEF Leave, NoRows, Rows, HasRules, HasSignatures

LEMMA PlanTyped ==
    ASSUME TypeOK, HasRules
    PROVE  /\ Planned = AuditableShards /\ Planned \subseteq Shard
           /\ \A s \in Planned : loaded[s] \in Nat /\ base[s[2]] \in Nat
           /\ HasSignatures => \A s \in Planned : sig[s][1] \in Nat /\ sig[s][2] \in Nat
  BY DEF TypeOK, Planned, AuditableShards, Database

LEMMA StateTyped ==
    ASSUME TypeOK, NEW kept, InitializeState(kept), kept = state \/ kept = [s \in Shard |-> "none"]
    PROVE  state' \in [Shard -> {"none", "pending", "running", "completed", "failed", "interrupted"}]
  BY DEF TypeOK, InitializeState

(* What the three ways to fill rows leave in them.                         *)
LEMMA RowFacts ==
    ASSUME TypeOK, HasRules, pc # "off", NEW s \in Planned
    PROVE  /\ Row(s, cfg) \in RowRecord /\ Row(s, cfg) # None
           /\ Row(s, cfg).src = loaded[s]
           /\ Row(s, cfg).base = base[s[2]] /\ base[s[2]] \in Nat
           /\ Row(s, cfg).scope = cfg.scope
           /\ ~ Row(s, cfg).torn /\ ~ Row(s, cfg).resumed
  <1>1. Row(s, cfg) \in RowRecord /\ base[s[2]] \in Nat
    BY PlanTyped, RowTyped DEF TypeOK
  <1>2. QED
    BY <1>1, NoneFacts DEF Row

LEMMA ReuseFacts ==
    ASSUME TypeOK, HasRules, pc # "off", NEW from \in Rows, NEW legacy \in BOOLEAN,
           Reuse(from, legacy)
    PROVE  /\ rows' \in Rows
           /\ \A s \in Reusable(from) :
                 /\ from[s] \in RowRecord /\ from[s] # None
                 /\ rows'[s] \in RowRecord /\ rows'[s] # None
                 /\ rows'[s].src = loaded[s] /\ rows'[s].base = from[s].base
                 /\ rows'[s].scope = from[s].scope /\ rows'[s].torn = from[s].torn
                 /\ rows'[s].resumed = from[s].resumed
                 /\ rows'[s].legacy = (from[s].legacy \/ legacy)
           /\ \A s \in Planned \ Reusable(from) :
                 /\ rows'[s] # None
                 /\ rows'[s].base = base[s[2]] /\ base[s[2]] \in Nat
                 /\ rows'[s].scope = cfg.scope
           /\ \A s \in Shard : rows'[s] # None <=> s \in Planned
  <1>1. Reusable(from) \subseteq Planned /\ Planned \subseteq Shard
    BY PlanTyped DEF Reusable
  <1>2. ASSUME NEW s \in Reusable(from)
        PROVE  /\ from[s] \in RowRecord /\ from[s] # None /\ from[s].src = loaded[s]
               /\ rows'[s] = [from[s] EXCEPT !.legacy = @ \/ legacy]
               /\ from[s].legacy \/ legacy \in BOOLEAN
    <2>1. from[s] \in RowRecord /\ from[s] # None /\ from[s].src = loaded[s]
      BY <1>1 DEF Reusable, MatchesShard, Rows
    <2>2. QED
      BY <1>1, <2>1 DEF Reuse, RowRecord
  <1>3. ASSUME NEW s \in Reusable(from)
        PROVE  /\ rows'[s] \in RowRecord
               /\ rows'[s].src = loaded[s] /\ rows'[s].base = from[s].base
               /\ rows'[s].scope = from[s].scope /\ rows'[s].torn = from[s].torn
               /\ rows'[s].resumed = from[s].resumed
               /\ rows'[s].legacy = (from[s].legacy \/ legacy)
    <2>1. /\ from[s] \in RowRecord /\ from[s].src = loaded[s]
          /\ rows'[s] = [from[s] EXCEPT !.legacy = from[s].legacy \/ legacy]
          /\ (from[s].legacy \/ legacy) \in BOOLEAN
      BY <1>2
    <2>2. QED
      BY <2>1, Remarked DEF RowRecord
  <1>4. \A s \in Planned \ Reusable(from) : rows'[s] = Row(s, cfg)
    BY <1>1 DEF Reuse
  <1>5. \A s \in Shard \ Planned : rows'[s] = None
    BY <1>1 DEF Reuse
  <1>6. ASSUME NEW s \in Shard
        PROVE  rows'[s] \in RowRecord \cup {None}
    BY <1>3, <1>4, <1>5, RowFacts
  <1>7. rows' = [s \in Shard |-> rows'[s]]
    BY DEF Reuse
  <1>8. rows' \in Rows
    BY <1>6, <1>7 DEF Rows
  <1>9. \A s \in Planned \ Reusable(from) :
           /\ rows'[s] # None
           /\ rows'[s].base = base[s[2]] /\ base[s[2]] \in Nat
           /\ rows'[s].scope = cfg.scope
    BY <1>4, RowFacts
  <1>10. \A s \in Reusable(from) : rows'[s] # None
    BY <1>3, NoneFacts
  <1>11. \A s \in Shard : rows'[s] # None <=> s \in Planned
    BY <1>1, <1>5, <1>9, <1>10
  <1>12. QED
    BY <1>2, <1>3, <1>8, <1>9, <1>10, <1>11

LEMMA ReuseInPast ==
    ASSUME TypeOK, HasRules, pc # "off", NEW from \in Rows, NEW legacy \in BOOLEAN,
           Reuse(from, legacy),
           NEW s \in Shard, from[s] # None => from[s].base <= base[s[2]], rows'[s] # None
    PROVE  rows'[s].base <= base[s[2]]
  <1>1. s \in Planned
    BY ReuseFacts
  <1>2. CASE s \in Reusable(from)
    <2>1. from[s] # None /\ rows'[s].base = from[s].base
      BY <1>2, ReuseFacts
    <2>2. QED
      BY <2>1
  <1>3. CASE s \notin Reusable(from)
    <2>1. s \in Planned \ Reusable(from)
      BY <1>1, <1>3
    <2>2. rows'[s].base = base[s[2]] /\ base[s[2]] \in Nat
      BY <2>1, ReuseFacts
    <2>3. QED
      BY <2>2
  <1>4. QED
    BY <1>2, <1>3

LEMMA CollectFacts ==
    ASSUME TypeOK, Collect, NEW s \in Shard
    PROVE  /\ s \in Planned /\ csv[s] # None =>
                 /\ csv[s] \in RowRecord /\ rows'[s] \in RowRecord /\ rows'[s] # None
                 /\ rows'[s].base = csv[s].base /\ rows'[s].scope = csv[s].scope
                 /\ rows'[s].torn = csv[s].torn /\ rows'[s].resumed = cfg.resume
           /\ s \notin Planned \/ csv[s] = None => rows'[s] = None
  <1>1. CASE s \in Planned /\ csv[s] # None
    <2>1. csv[s] \in RowRecord /\ cfg.resume \in BOOLEAN
      BY <1>1 DEF Collect, TypeOK, Rows, Config
    <2>2. rows'[s] = [csv[s] EXCEPT !.resumed = cfg.resume]
      BY <1>1 DEF Collect
    <2>3. rows'[s] \in RowRecord
      BY <2>1, <2>2, Remarked
    <2>4. QED
      BY <1>1, <2>1, <2>2, <2>3, NoneFacts DEF RowRecord
  <1>2. CASE ~ (s \in Planned /\ csv[s] # None)
    BY <1>2 DEF Collect
  <1>3. QED
    BY <1>1, <1>2

LEMMA TypeNext == TypeOK /\ Contained /\ Covered /\ [Next]_vars => TypeOK'
  <1> SUFFICES ASSUME TypeOK, Contained, Covered, [Next]_vars
               PROVE  TypeOK'
    OBVIOUS
  <1>0. AuditableShards' = AuditableShards
    BY PlanIsFixed
  <1> USE DEF TypeOK, HasRules, HasSignatures
  <1>1. ASSUME NEW c \in Config, Launch(c)
        PROVE  TypeOK'
    BY <1>0, <1>1, SpendFacts DEF Launch
  <1>2. CASE LoadRules
    BY <1>0, <1>2 DEF LoadRules, AuditableShards
  <1>3. CASE SignInputs
    BY <1>0, <1>3, PlanTyped DEF SignInputs
  <1>4. CASE RefuseState
    BY <1>0, <1>4, LeaveFacts DEF RefuseState
  <1>5. CASE PrepareState
    BY <1>0, <1>5, PlanTyped, StateTyped DEF PrepareState
  <1>6. CASE ShowStatus
    BY <1>0, <1>6, LeaveFacts, StateTyped DEF ShowStatus
  <1>7. CASE Submit
    BY <1>0, <1>7 DEF Submit, FirstOf, Submittable
  <1>8. ASSUME NEW s \in Shard, TakeResult(s)
        PROVE  TypeOK'
    BY <1>0, <1>8 DEF TakeResult
  <1>9. CASE Drained
    BY <1>0, <1>9, LeaveFacts DEF Drained
  <1>10. CASE Collect
    <2>1. \A s \in Shard : rows'[s] \in RowRecord \cup {None}
      BY <1>10, CollectFacts
    <2>2. rows' \in Rows
      BY <1>10, <2>1 DEF Collect, Rows
    <2>3. QED
      BY <1>0, <1>10, <2>2 DEF Collect
  <1>11. CASE LoadCache
    BY <1>0, <1>11, ReuseFacts DEF LoadCache, Reuse
  <1>12. CASE LoadLegacy
    BY <1>0, <1>12, ReuseFacts, NoneFacts DEF LoadLegacy, Reuse
  <1>13. CASE RefuseCache
    BY <1>0, <1>13, LeaveFacts DEF RefuseCache
  <1>14. CASE WriteReport
    BY <1>0, <1>14, PlanTyped DEF WriteReport
  <1>15. CASE WriteCacheRows
    <2>1. PICK s \in remaining :
             cache' = [cache EXCEPT ![s] = IF rows[s] = None THEN None
                                           ELSE [rows[s] EXCEPT !.torn = TRUE]]
      BY <1>15 DEF WriteCacheRows, FirstOf
    <2>2. rows[s] # None => [rows[s] EXCEPT !.torn = TRUE] \in RowRecord
      BY Remarked DEF Rows
    <2>3. cache' \in Rows
      BY <2>1, <2>2 DEF Rows
    <2>4. remaining' \subseteq Shard
      BY <1>15 DEF WriteCacheRows
    <2>5. QED
      BY <1>0, <1>15, <2>3, <2>4 DEF WriteCacheRows
  <1>16. CASE WriteCacheManifest
    <2>1. ASSUME NEW s \in Shard, s \in Planned, cache[s] # None
          PROVE  [cache[s] EXCEPT !.torn = rows[s].torn] \in RowRecord
      <3>1. rows[s] \in RowRecord /\ cache[s] \in RowRecord
        BY <1>16, <2>1 DEF WriteCacheManifest, Covered, Writing, Rows
      <3>2. rows[s].torn \in BOOLEAN
        BY <3>1 DEF RowRecord
      <3>3. QED
        BY <3>1, <3>2, Remarked
    <2>2. cache' \in Rows
      BY <1>16, <2>1 DEF WriteCacheManifest, Rows
    <2>3. QED
      BY <1>0, <1>16, <2>2, LeaveFacts DEF WriteCacheManifest
  <1>17. ASSUME NEW s \in Shard, BeginShard(s)
        PROVE  TypeOK'
    BY <1>0, <1>17 DEF BeginShard
  <1>18. ASSUME NEW s \in Shard, CompleteShard(s)
        PROVE  TypeOK'
    <2>1. pc \in {"pool", "drain"} /\ s \in Planned
      BY <1>18 DEF CompleteShard, Contained, InFlight
    <2>2. Row(s, cfg) \in RowRecord
      BY <2>1, PlanTyped, RowTyped
    <2>3. QED
      BY <1>0, <1>18, <2>2 DEF CompleteShard, Rows
  <1>19. ASSUME NEW s \in Shard, FailShard(s)
        PROVE  TypeOK'
    BY <1>0, <1>19, SpendFacts DEF FailShard
  <1>20. ASSUME NEW s \in Shard, ReplaceResults(s)
        PROVE  TypeOK'
    BY <1>0, <1>20, SpendFacts DEF ReplaceResults
  <1>21. ASSUME NEW d \in Database, ReplaceDatabase(d)
        PROVE  TypeOK'
    BY <1>0, <1>21, SpendFacts DEF ReplaceDatabase
  <1>22. CASE Interrupt
    BY <1>0, <1>22, SpendFacts DEF Interrupt, InFlight
  <1>23. CASE Kill
    BY <1>0, <1>23, LeaveFacts, SpendFacts DEF Kill
  <1>24. CASE UNCHANGED vars
    BY <1>0, <1>24
  <1>25. QED
    BY <1>1, <1>2, <1>3, <1>4, <1>5, <1>6, <1>7, <1>8, <1>9, <1>10, <1>11, <1>12, <1>13, <1>14, <1>15, <1>16, <1>17, <1>18, <1>19, <1>20, <1>21, <1>22, <1>23, <1>24 DEF Next, Command, Worker

-----------------------------------------------------------------------------
(* The pool.                                                               *)

LEMMA ContainedNext == TypeOK /\ Contained /\ [Next]_vars => Contained'
  <1> SUFFICES ASSUME TypeOK, Contained, [Next]_vars
               PROVE  Contained'
    OBVIOUS
  <1> USE DEF TypeOK, Contained, InFlight, Planned
  <1>1. ASSUME NEW c \in Config, Launch(c)
        PROVE  Contained'
    BY <1>1, SpendFacts DEF Launch
  <1>2. CASE LoadRules
    BY <1>2 DEF LoadRules
  <1>3. CASE SignInputs
    BY <1>3 DEF SignInputs
  <1>4. CASE RefuseState
    BY <1>4 DEF RefuseState, Leave
  <1>5. CASE PrepareState
    BY <1>5 DEF PrepareState, InitializeState
  <1>6. CASE ShowStatus
    BY <1>6 DEF ShowStatus, InitializeState, Leave
  <1>7. CASE Submit
    BY <1>7 DEF Submit, FirstOf, Submittable
  <1>8. ASSUME NEW s \in Shard, TakeResult(s)
        PROVE  Contained'
    BY <1>8 DEF TakeResult, Release
  <1>9. CASE Drained
    BY <1>9 DEF Drained, PoolIdle, Leave
  <1>10. CASE Collect
    BY <1>10 DEF Collect
  <1>11. CASE LoadCache
    BY <1>11 DEF LoadCache, Reuse
  <1>12. CASE LoadLegacy
    BY <1>12 DEF LoadLegacy, Reuse
  <1>13. CASE RefuseCache
    BY <1>13 DEF RefuseCache, Leave
  <1>14. CASE WriteReport
    BY <1>14 DEF WriteReport
  <1>15. CASE WriteCacheRows
    BY <1>15 DEF WriteCacheRows, FirstOf
  <1>16. CASE WriteCacheManifest
    BY <1>16 DEF WriteCacheManifest, Leave
  <1>17. ASSUME NEW s \in Shard, BeginShard(s)
        PROVE  Contained'
    BY <1>17 DEF BeginShard
  <1>18. ASSUME NEW s \in Shard, CompleteShard(s)
        PROVE  Contained'
    BY <1>18 DEF CompleteShard
  <1>19. ASSUME NEW s \in Shard, FailShard(s)
        PROVE  Contained'
    BY <1>19, SpendFacts DEF FailShard
  <1>20. ASSUME NEW s \in Shard, ReplaceResults(s)
        PROVE  Contained'
    BY <1>20, SpendFacts DEF ReplaceResults
  <1>21. ASSUME NEW d \in Database, ReplaceDatabase(d)
        PROVE  Contained'
    BY <1>21, SpendFacts DEF ReplaceDatabase
  <1>22. CASE Interrupt
    BY <1>22, SpendFacts DEF Interrupt
  <1>23. CASE Kill
    BY <1>23, SpendFacts DEF Kill, Leave
  <1>24. CASE UNCHANGED vars
    BY <1>24
  <1>25. QED
    BY <1>1, <1>2, <1>3, <1>4, <1>5, <1>6, <1>7, <1>8, <1>9, <1>10, <1>11, <1>12, <1>13,
       <1>14, <1>15, <1>16, <1>17, <1>18, <1>19, <1>20, <1>21, <1>22, <1>23, <1>24 DEF
       Next, Command, Worker

-----------------------------------------------------------------------------
(* The report and the cache.                                               *)

LEMMA CoveredNext == TypeOK /\ Contained /\ Covered /\ [Next]_vars => Covered'
  <1> SUFFICES ASSUME TypeOK, Contained, Covered, [Next]_vars
               PROVE  Covered'
    OBVIOUS
  <1> USE DEF TypeOK, Contained, Covered, InFlight, Planned, Writing
  <1>1. ASSUME NEW c \in Config, Launch(c)
        PROVE  Covered'
    BY <1>1, SpendFacts DEF Launch
  <1>2. CASE LoadRules
    BY <1>2 DEF LoadRules
  <1>3. CASE SignInputs
    BY <1>3 DEF SignInputs
  <1>4. CASE RefuseState
    BY <1>4, LeaveFacts DEF RefuseState
  <1>5. CASE PrepareState
    BY <1>5 DEF PrepareState, InitializeState
  <1>6. CASE ShowStatus
    BY <1>6, LeaveFacts DEF ShowStatus, InitializeState, Leave
  <1>7. CASE Submit
    BY <1>7 DEF Submit, FirstOf, Submittable
  <1>8. ASSUME NEW s \in Shard, TakeResult(s)
        PROVE  Covered'
    BY <1>8 DEF TakeResult, Raises
  <1>9. CASE Drained
    BY <1>9, LeaveFacts DEF Drained, PoolIdle, Leave
  <1>10. CASE Collect
    BY <1>10, CollectFacts DEF Collect
  <1>11. CASE LoadCache
    <2>1. \A s \in Shard : rows'[s] # None <=> s \in Planned
      <3>1. pc = "reuse" /\ HasRules /\ cache \in Rows /\ Reuse(cache, FALSE)
        BY <1>11 DEF LoadCache, HasRules
      <3> HIDE DEF TypeOK, Planned
      <3>2. QED
        BY <3>1, ReuseFacts
    <2>2. QED
      BY <1>11, <2>1 DEF LoadCache, Reuse
  <1>12. CASE LoadLegacy
    <2>1. report.rows \in Rows
      BY <1>12 DEF LoadLegacy
    <2>2. \A s \in Shard : rows'[s] # None <=> s \in Planned
      <3>1. pc = "reuse" /\ HasRules /\ Reuse(report.rows, TRUE)
        BY <1>12 DEF LoadLegacy, HasRules
      <3> HIDE DEF TypeOK, Planned
      <3>2. QED
        BY <2>1, <3>1, ReuseFacts
    <2>3. QED
      BY <1>12, <2>2 DEF LoadLegacy, Reuse
  <1>13. CASE RefuseCache
    BY <1>13, LeaveFacts DEF RefuseCache
  <1>14. CASE WriteReport
    BY <1>14 DEF WriteReport
  <1>15. CASE WriteCacheRows
    BY <1>15 DEF WriteCacheRows, FirstOf
  <1>16. CASE WriteCacheManifest
    BY <1>16, LeaveFacts DEF WriteCacheManifest
  <1>17. ASSUME NEW s \in Shard, BeginShard(s)
        PROVE  Covered'
    BY <1>17 DEF BeginShard
  <1>18. ASSUME NEW s \in Shard, CompleteShard(s)
        PROVE  Covered'
    BY <1>18 DEF CompleteShard, Row, Rows, None
  <1>19. ASSUME NEW s \in Shard, FailShard(s)
        PROVE  Covered'
    BY <1>19, SpendFacts DEF FailShard
  <1>20. ASSUME NEW s \in Shard, ReplaceResults(s)
        PROVE  Covered'
    BY <1>20, SpendFacts DEF ReplaceResults
  <1>21. ASSUME NEW d \in Database, ReplaceDatabase(d)
        PROVE  Covered'
    BY <1>21, SpendFacts DEF ReplaceDatabase
  <1>22. CASE Interrupt
    BY <1>22, SpendFacts DEF Interrupt
  <1>23. CASE Kill
    BY <1>23, LeaveFacts, SpendFacts DEF Kill, Leave
  <1>24. CASE UNCHANGED vars
    BY <1>24
  <1>25. QED
    BY <1>1, <1>2, <1>3, <1>4, <1>5, <1>6, <1>7, <1>8, <1>9, <1>10, <1>11, <1>12, <1>13,
       <1>14, <1>15, <1>16, <1>17, <1>18, <1>19, <1>20, <1>21, <1>22, <1>23, <1>24 DEF
       Next, Command, Worker

LEMMA StateSignedNext == TypeOK /\ Contained /\ Covered /\ StateSigned /\ [Next]_vars => StateSigned'
  <1> SUFFICES ASSUME TypeOK, Contained, Covered, StateSigned, [Next]_vars
               PROVE  StateSigned'
    OBVIOUS
  <1> USE DEF TypeOK, Contained, StateSigned, InFlight, StateFp, Planned
  <1>1. ASSUME NEW c \in Config, Launch(c)
        PROVE  StateSigned'
    BY <1>1, SpendFacts DEF Launch
  <1>2. CASE LoadRules
    BY <1>2 DEF LoadRules
  <1>3. CASE SignInputs
    BY <1>3 DEF SignInputs
  <1>4. CASE RefuseState
    BY <1>4, LeaveFacts DEF RefuseState
  <1>5. CASE PrepareState
    BY <1>5, NoneFacts DEF PrepareState, InitializeState, Refused
  <1>6. CASE ShowStatus
    <2>1. /\ stateFp' = StateFp /\ pc' = "off" /\ csv' = csv
          /\ \A s \in Shard : state'[s] = "completed" => state[s] = "completed"
          /\ stateFp = None \/ stateFp = StateFp
      BY <1>6 DEF ShowStatus, InitializeState, Refused, Leave
    <2>2. stateFp' # None
      BY <2>1, NoneFacts
    <2>3. stateFp # None => stateFp' = stateFp
      BY <2>1
    <2> HIDE DEF StateFp
    <2>4. QED
      BY <2>1, <2>2, <2>3
  <1>7. CASE Submit
    BY <1>7 DEF Submit, FirstOf, Submittable
  <1>8. ASSUME NEW s \in Shard, TakeResult(s)
        PROVE  StateSigned'
    BY <1>8 DEF TakeResult, Raises
  <1>9. CASE Drained
    BY <1>9, LeaveFacts DEF Drained, PoolIdle, Leave
  <1>10. CASE Collect
    BY <1>10, CollectFacts DEF Collect
  <1>11. CASE LoadCache
    BY <1>11, ReuseFacts DEF LoadCache, Reuse
  <1>12. CASE LoadLegacy
    BY <1>12, ReuseFacts DEF LoadLegacy, Reuse
  <1>13. CASE RefuseCache
    BY <1>13, LeaveFacts DEF RefuseCache
  <1>14. CASE WriteReport
    BY <1>14 DEF WriteReport
  <1>15. CASE WriteCacheRows
    BY <1>15 DEF WriteCacheRows, FirstOf
  <1>16. CASE WriteCacheManifest
    BY <1>16, LeaveFacts DEF WriteCacheManifest
  <1>17. ASSUME NEW s \in Shard, BeginShard(s)
        PROVE  StateSigned'
    <2>1. stateFp # None
      BY <1>17, NoneFacts DEF BeginShard
    <2>2. QED
      BY <1>17, <2>1 DEF BeginShard
  <1>18. ASSUME NEW s \in Shard, CompleteShard(s)
        PROVE  StateSigned'
    <2>1. pc \in {"pool", "drain"} /\ stateFp = StateFp /\ s \in Planned
      BY <1>18 DEF CompleteShard
    <2>2. csv'[s].scope = cfg.scope
      BY <1>18, <2>1, RowFacts DEF CompleteShard, HasRules, Rows
    <2>3. stateFp # None /\ stateFp.scope = cfg.scope
      BY <2>1, NoneFacts
    <2>4. /\ state'[s] = "completed"
          /\ \A t \in Shard \ {s} : state'[t] = state[t] /\ csv'[t] = csv[t]
          /\ UNCHANGED <<stateFp, pc, cfg, sig, loaded>>
      BY <1>18 DEF CompleteShard
    <2>5. QED
      BY <2>1, <2>2, <2>3, <2>4
  <1>19. ASSUME NEW s \in Shard, FailShard(s)
        PROVE  StateSigned'
    BY <1>19, SpendFacts DEF FailShard
  <1>20. ASSUME NEW s \in Shard, ReplaceResults(s)
        PROVE  StateSigned'
    BY <1>20, SpendFacts DEF ReplaceResults
  <1>21. ASSUME NEW d \in Database, ReplaceDatabase(d)
        PROVE  StateSigned'
    BY <1>21, SpendFacts DEF ReplaceDatabase
  <1>22. CASE Interrupt
    BY <1>22, SpendFacts DEF Interrupt
  <1>23. CASE Kill
    BY <1>23, LeaveFacts, SpendFacts DEF Kill, Leave
  <1>24. CASE UNCHANGED vars
    BY <1>24
  <1>25. QED
    BY <1>1, <1>2, <1>3, <1>4, <1>5, <1>6, <1>7, <1>8, <1>9, <1>10, <1>11, <1>12, <1>13,
       <1>14, <1>15, <1>16, <1>17, <1>18, <1>19, <1>20, <1>21, <1>22, <1>23, <1>24 DEF
       Next, Command, Worker

LEMMA RowsInPastNext == TypeOK /\ Contained /\ Covered /\ RowsInPast /\ [Next]_vars => RowsInPast'
  <1> SUFFICES ASSUME TypeOK, Contained, Covered, RowsInPast, [Next]_vars
               PROVE  RowsInPast'
    OBVIOUS
  <1> USE DEF TypeOK, Contained, RowsInPast, InFlight, Planned, HasRules, HasSignatures
  <1>1. ASSUME NEW c \in Config, Launch(c)
        PROVE  RowsInPast'
    BY <1>1, SpendFacts DEF Launch
  <1>2. CASE LoadRules
    BY <1>2 DEF LoadRules
  <1>3. CASE SignInputs
    <2>1. \A s \in Planned : sig'[s][2] = base[s[2]] /\ base[s[2]] \in Nat
      BY <1>3, PlanTyped DEF SignInputs
    <2>2. QED
      BY <1>3, <2>1, PlanTyped DEF SignInputs, Planned
  <1>4. CASE RefuseState
    BY <1>4, LeaveFacts DEF RefuseState
  <1>5. CASE PrepareState
    BY <1>5 DEF PrepareState, InitializeState
  <1>6. CASE ShowStatus
    BY <1>6, LeaveFacts DEF ShowStatus, InitializeState, Leave
  <1>7. CASE Submit
    BY <1>7 DEF Submit, FirstOf, Submittable
  <1>8. ASSUME NEW s \in Shard, TakeResult(s)
        PROVE  RowsInPast'
    BY <1>8 DEF TakeResult, Raises
  <1>9. CASE Drained
    BY <1>9, LeaveFacts DEF Drained, PoolIdle, Leave
  <1>10. CASE Collect
    BY <1>10, CollectFacts DEF Collect
  <1>11. CASE LoadCache
    <2>1. ASSUME NEW s \in Shard, rows'[s] # None
          PROVE  rows'[s].base <= base[s[2]]
      <3>1. pc = "reuse" /\ HasRules /\ cache \in Rows /\ Reuse(cache, FALSE)
        BY <1>11 DEF LoadCache
      <3>2. \A t \in Shard : cache[t] # None => cache[t].base <= base[t[2]]
        BY <1>11 DEF LoadCache
      <3> HIDE DEF TypeOK, Planned, HasRules
      <3>3. QED
        BY <2>1, <3>1, <3>2, ReuseInPast
    <2>2. QED
      BY <1>11, <2>1 DEF LoadCache, Reuse, Planned
  <1>12. CASE LoadLegacy
    <2>1. ASSUME NEW s \in Shard, rows'[s] # None
          PROVE  rows'[s].base <= base[s[2]]
      <3>1. pc = "reuse" /\ HasRules /\ report.rows \in Rows /\ Reuse(report.rows, TRUE)
        BY <1>12 DEF LoadLegacy
      <3>2. \A t \in Shard : report.rows[t] # None => report.rows[t].base <= base[t[2]]
        BY <1>12 DEF LoadLegacy
      <3> HIDE DEF TypeOK, Planned, HasRules
      <3>3. QED
        BY <2>1, <3>1, <3>2, ReuseInPast
    <2>2. QED
      BY <1>12, <2>1 DEF LoadLegacy, Reuse, Planned
  <1>13. CASE RefuseCache
    BY <1>13, LeaveFacts DEF RefuseCache
  <1>14. CASE WriteReport
    BY <1>14 DEF WriteReport
  <1>15. CASE WriteCacheRows
    BY <1>15 DEF WriteCacheRows, FirstOf
  <1>16. CASE WriteCacheManifest
    BY <1>16, LeaveFacts DEF WriteCacheManifest
  <1>17. ASSUME NEW s \in Shard, BeginShard(s)
        PROVE  RowsInPast'
    BY <1>17 DEF BeginShard
  <1>18. ASSUME NEW s \in Shard, CompleteShard(s)
        PROVE  RowsInPast'
    <2>1. pc \in {"pool", "drain"} /\ s \in Planned
      BY <1>18 DEF CompleteShard
    <2>2. csv'[s].base = base[s[2]] /\ base[s[2]] \in Nat
      BY <1>18, <2>1, RowFacts DEF CompleteShard, Rows
    <2>3. QED
      BY <1>18, <2>2 DEF CompleteShard, Planned
  <1>19. ASSUME NEW s \in Shard, FailShard(s)
        PROVE  RowsInPast'
    BY <1>19, SpendFacts DEF FailShard
  <1>20. ASSUME NEW s \in Shard, ReplaceResults(s)
        PROVE  RowsInPast'
    BY <1>20, SpendFacts DEF ReplaceResults
  <1>21. ASSUME NEW d \in Database, ReplaceDatabase(d)
        PROVE  RowsInPast'
    <2>1. \A s \in Shard : base[s[2]] \in Nat /\ base'[s[2]] \in Nat /\ base'[s[2]] >= base[s[2]]
      BY <1>21 DEF ReplaceDatabase, Database
    <2>2. \A r \in RowRecord : r.base \in Nat
      BY DEF RowRecord
    <2>3. QED
      BY <1>21, <2>1, <2>2, PlanTyped DEF ReplaceDatabase, Planned, Rows
  <1>22. CASE Interrupt
    BY <1>22, SpendFacts DEF Interrupt
  <1>23. CASE Kill
    BY <1>23, LeaveFacts, SpendFacts DEF Kill, Leave
  <1>24. CASE UNCHANGED vars
    BY <1>24
  <1>25. QED
    BY <1>1, <1>2, <1>3, <1>4, <1>5, <1>6, <1>7, <1>8, <1>9, <1>10, <1>11, <1>12, <1>13,
       <1>14, <1>15, <1>16, <1>17, <1>18, <1>19, <1>20, <1>21, <1>22, <1>23, <1>24 DEF
       Next, Command, Worker

(* Everything reused lies between two equal versions.                      *)
LEMMA ReuseMatches ==
    ASSUME TypeOK, RowsInPast, RowsVouched, LoadCache \/ LoadLegacy
    PROVE  /\ \A s \in Planned : Vouched(rows'[s], cfg.scope, sig[s][2])
           /\ \A s \in reused' :
                 /\ s \in Planned
                 /\ rows'[s].src = loaded[s]
                 /\ rows'[s].legacy \/ rows'[s].torn \/ rows'[s].scope = cfg.scope
                 /\ rows'[s].legacy \/ rows'[s].torn \/ rows'[s].resumed \/ rows'[s].base = sig[s][2]
  <1>0. PICK from \in Rows, legacy \in BOOLEAN :
           /\ Reuse(from, legacy)
           /\ legacy \/ (LoadCache /\ from = cache)
    <2>1. CASE LoadCache
      BY <2>1 DEF LoadCache, TypeOK
    <2>2. CASE LoadLegacy
      <3>1. report.rows \in Rows /\ Reuse(report.rows, TRUE)
        BY <2>2 DEF LoadLegacy, TypeOK
      <3>2. QED
        BY <3>1
    <2>3. QED
      BY <2>1, <2>2
  <1>1. pc = "reuse" /\ HasRules /\ HasSignatures /\ pc # "off"
    BY DEF LoadCache, LoadLegacy, HasRules, HasSignatures
  <1>2. /\ reused' = Reusable(from) /\ Reusable(from) \subseteq Planned
        /\ Planned = AuditableShards /\ Planned \subseteq Shard
    BY <1>0, <1>1, PlanTyped DEF Reuse, Reusable
  <1>3. \A s \in Planned : sig[s][2] \in Nat /\ base[s[2]] \in Nat /\ sig[s][2] <= base[s[2]]
    BY <1>1, PlanTyped DEF RowsInPast
  <1>4. ASSUME NEW s \in Planned \ Reusable(from)
        PROVE  Vouched(rows'[s], cfg.scope, sig[s][2])
    <2>1. rows'[s].base = base[s[2]] /\ rows'[s].scope = cfg.scope
      BY <1>0, <1>1, <1>4, ReuseFacts
    <2>2. QED
      BY <1>3, <1>4, <2>1 DEF Vouched
  <1>5. ASSUME NEW s \in Reusable(from)
        PROVE  /\ Vouched(rows'[s], cfg.scope, sig[s][2])
               /\ rows'[s].src = loaded[s]
               /\ rows'[s].legacy \/ rows'[s].torn \/ rows'[s].scope = cfg.scope
               /\ rows'[s].legacy \/ rows'[s].torn \/ rows'[s].resumed \/ rows'[s].base = sig[s][2]
    <2>1. /\ from[s] \in RowRecord /\ from[s] # None
          /\ rows'[s].src = loaded[s] /\ rows'[s].base = from[s].base
          /\ rows'[s].scope = from[s].scope /\ rows'[s].torn = from[s].torn
          /\ rows'[s].resumed = from[s].resumed
          /\ rows'[s].legacy = (from[s].legacy \/ legacy)
      BY <1>0, <1>1, ReuseFacts
    <2>2. CASE legacy
      <3>1. rows'[s].legacy
        BY <2>1, <2>2
      <3>2. QED
        BY <2>1, <3>1 DEF Vouched
    <2>3. CASE LoadCache /\ from = cache
      <3>1. s \in Planned /\ s \in Shard
        BY <1>2
      <3>2. cacheFp # None /\ cacheFp.scope = cfg.scope /\ cacheFp.sigs = sig
        BY <2>3 DEF LoadCache, EvaluationFp
      <3>3. DOMAIN sig = AuditableShards
        BY <1>1 DEF TypeOK
      <3>4. Vouched(cache[s], cfg.scope, sig[s][2])
        BY <1>2, <2>1, <2>3, <3>1, <3>2, <3>3 DEF RowsVouched
      <3>5. cache[s].base <= sig[s][2] /\ cache[s].base \in Nat
        BY <1>1, <2>1, <2>3, <3>1 DEF RowsInPast, RowRecord
      <3>6. cache[s].legacy => rows'[s].legacy
        BY <2>1, <2>3
      <3>7. QED
        BY <1>3, <2>1, <2>3, <3>1, <3>4, <3>5, <3>6 DEF Vouched
    <2>4. QED
      BY <1>0, <2>2, <2>3
  <1>6. QED
    BY <1>2, <1>4, <1>5

LEMMA RowsVouchedNext == TypeOK /\ Contained /\ Covered /\ StateSigned /\ RowsInPast /\ RowsVouched /\ [Next]_vars => RowsVouched'
  <1> SUFFICES ASSUME TypeOK, Contained, Covered, StateSigned, RowsInPast, RowsVouched, [Next]_vars
               PROVE  RowsVouched'
    OBVIOUS
  <1> USE DEF TypeOK, RowsVouched, Writing, Planned, HasRules, HasSignatures
  <1>1. ASSUME NEW c \in Config, Launch(c)
        PROVE  RowsVouched'
    BY <1>1, SpendFacts DEF Launch
  <1>2. CASE LoadRules
    BY <1>2 DEF LoadRules
  <1>3. CASE SignInputs
    BY <1>3 DEF SignInputs
  <1>4. CASE RefuseState
    BY <1>4, LeaveFacts DEF RefuseState
  <1>5. CASE PrepareState
    <2>1. /\ pc' = "pool" /\ cfg \in Config
          /\ UNCHANGED <<cfg, sig, loaded, csv, cache, cacheFp>>
      BY <1>5 DEF PrepareState
    <2>2. ASSUME ~ cfg.resume, NEW s \in Shard, state'[s] = "completed"
          PROVE  FALSE
      <3>1. CASE cfg.reset
        BY <1>5, <2>2, <3>1 DEF PrepareState, InitializeState
      <3>2. CASE ~ cfg.reset
        <4>1. stateFp = None
          BY <1>5, <2>2, <3>2 DEF PrepareState, Refused
        <4>2. state[s] = "none"
          BY <4>1 DEF StateSigned
        <4>3. QED
          BY <1>5, <2>2, <3>2, <4>2 DEF PrepareState, InitializeState
      <3>3. QED
        BY <3>1, <3>2
    <2>3. Planned \subseteq Shard
      BY <1>5, PlanTyped DEF PrepareState
    <2>4. QED
      BY <2>1, <2>2, <2>3
  <1>6. CASE ShowStatus
    BY <1>6, LeaveFacts DEF ShowStatus, InitializeState, Leave
  <1>7. CASE Submit
    BY <1>7 DEF Submit, FirstOf, Submittable
  <1>8. ASSUME NEW s \in Shard, TakeResult(s)
        PROVE  RowsVouched'
    BY <1>8 DEF TakeResult
  <1>9. CASE Drained
    BY <1>9, LeaveFacts DEF Drained, PoolIdle, Leave
  <1>10. CASE Collect
    <2>1. ASSUME NEW s \in Planned
          PROVE  Vouched(rows'[s], cfg.scope, sig[s][2])
      <3>1. pc = "pool" /\ s \in Shard /\ state[s] = "completed" /\ csv[s] # None
        BY <1>10, PlanTyped DEF Collect, Contained, Covered
      <3>2. csv[s].scope = cfg.scope
        BY <3>1 DEF StateSigned, StateFp
      <3>3. rows'[s].base = csv[s].base /\ rows'[s].scope = csv[s].scope /\ rows'[s].resumed = cfg.resume
        BY <1>10, <2>1, <3>1, CollectFacts
      <3>4. cfg.resume \/ csv[s].base >= sig[s][2]
        BY <2>1, <3>1
      <3>5. QED
        BY <3>2, <3>3, <3>4 DEF Vouched
    <2>2. QED
      BY <1>10, <2>1 DEF Collect
  <1>11. CASE LoadCache
    <2>1. \A s \in Planned : Vouched(rows'[s], cfg.scope, sig[s][2])
      <3> HIDE DEF TypeOK, RowsVouched, Planned
      <3>1. QED
        BY <1>11, ReuseMatches
    <2>2. QED
      BY <1>11, <2>1 DEF LoadCache, Reuse
  <1>12. CASE LoadLegacy
    <2>1. \A s \in Planned : Vouched(rows'[s], cfg.scope, sig[s][2])
      <3> HIDE DEF TypeOK, RowsVouched, Planned
      <3>1. QED
        BY <1>12, ReuseMatches
    <2>2. QED
      BY <1>12, <2>1 DEF LoadLegacy, Reuse
  <1>13. CASE RefuseCache
    BY <1>13, LeaveFacts DEF RefuseCache
  <1>14. CASE WriteReport
    BY <1>14 DEF WriteReport
  <1>15. CASE WriteCacheRows
    <2>1. PICK s \in remaining :
             /\ cache' = [cache EXCEPT ![s] = IF rows[s] = None THEN None
                                              ELSE [rows[s] EXCEPT !.torn = TRUE]]
             /\ remaining' = remaining \ {s}
      BY <1>15 DEF WriteCacheRows, FirstOf
    <2>2. /\ pc = "cache" /\ s \in Planned /\ s \in Shard /\ rows[s] # None /\ rows[s] \in RowRecord
      BY <1>15 DEF WriteCacheRows, Contained, Covered, Rows
    <2>3. /\ cache'[s] = [rows[s] EXCEPT !.torn = TRUE] /\ cache'[s].torn
          /\ \A t \in Shard \ {s} : cache'[t] = cache[t]
      BY <2>1, <2>2 DEF Rows, RowRecord
    <2>4. /\ UNCHANGED <<pc, rows, loaded, cfg, sig, cacheFp>>
          /\ pc # "pool" /\ Planned \subseteq Shard
      BY <1>15, PlanTyped DEF WriteCacheRows
    <2>5. QED
      BY <2>1, <2>2, <2>3, <2>4 DEF Vouched
  <1>16. CASE WriteCacheManifest
    <2>1. /\ pc = "cache" /\ remaining = {} /\ pc' = "off"
          /\ cacheFp' = EvaluationFp
      BY <1>16, LeaveFacts DEF WriteCacheManifest
    <2>2. cacheFp'.scope = cfg.scope /\ cacheFp'.sigs = sig /\ DOMAIN sig = Planned /\ Planned \subseteq Shard
      BY <2>1, PlanTyped DEF EvaluationFp
    <2>3. ASSUME NEW s \in Planned
          PROVE  Vouched(cache'[s], cfg.scope, sig[s][2])
      <3>1. s \in Shard /\ rows[s] # None /\ rows[s] \in RowRecord /\ cache[s] = [rows[s] EXCEPT !.torn = TRUE]
        BY <2>1, <2>2 DEF Covered, Rows
      <3>2. cache[s] \in RowRecord /\ cache[s] # None
        <4>1. cache[s] \in RowRecord
          BY <3>1 DEF RowRecord
        <4>2. QED
          BY <4>1, NoneFacts
      <3>3. cache'[s] = [cache[s] EXCEPT !.torn = rows[s].torn]
        BY <1>16, <3>1, <3>2 DEF WriteCacheManifest
      <3>4. /\ cache'[s].scope = rows[s].scope /\ cache'[s].resumed = rows[s].resumed
            /\ cache'[s].base = rows[s].base /\ cache'[s].legacy = rows[s].legacy
            /\ cache'[s].torn = rows[s].torn
        BY <3>1, <3>2, <3>3 DEF RowRecord
      <3>5. Vouched(rows[s], cfg.scope, sig[s][2])
        BY <2>1
      <3>6. QED
        BY <3>4, <3>5 DEF Vouched
    <2>4. QED
      BY <2>1, <2>2, <2>3
  <1>17. ASSUME NEW s \in Shard, BeginShard(s)
        PROVE  RowsVouched'
    BY <1>17 DEF BeginShard
  <1>18. ASSUME NEW s \in Shard, CompleteShard(s)
        PROVE  RowsVouched'
    <2>1. pc \in {"pool", "drain"} /\ s \in Planned
      BY <1>18 DEF CompleteShard, Contained, InFlight
    <2>2. csv'[s].base = base[s[2]] /\ base[s[2]] \in Nat /\ sig[s][2] <= base[s[2]] /\ sig[s][2] \in Nat
      BY <1>18, <2>1, RowFacts, PlanTyped DEF CompleteShard, Rows, RowsInPast
    <2>3. /\ \A t \in Shard \ {s} : csv'[t] = csv[t] /\ state'[t] = state[t]
          /\ UNCHANGED <<pc, cfg, sig, loaded, rows, cache, cacheFp, remaining>>
      BY <1>18 DEF CompleteShard
    <2>4. QED
      BY <2>1, <2>2, <2>3, PlanTyped
  <1>19. ASSUME NEW s \in Shard, FailShard(s)
        PROVE  RowsVouched'
    BY <1>19, SpendFacts DEF FailShard
  <1>20. ASSUME NEW s \in Shard, ReplaceResults(s)
        PROVE  RowsVouched'
    BY <1>20, SpendFacts DEF ReplaceResults
  <1>21. ASSUME NEW d \in Database, ReplaceDatabase(d)
        PROVE  RowsVouched'
    BY <1>21, SpendFacts DEF ReplaceDatabase
  <1>22. CASE Interrupt
    BY <1>22, SpendFacts DEF Interrupt
  <1>23. CASE Kill
    BY <1>23, LeaveFacts, SpendFacts DEF Kill, Leave
  <1>24. CASE UNCHANGED vars
    BY <1>24
  <1>25. QED
    BY <1>1, <1>2, <1>3, <1>4, <1>5, <1>6, <1>7, <1>8, <1>9, <1>10, <1>11, <1>12, <1>13,
       <1>14, <1>15, <1>16, <1>17, <1>18, <1>19, <1>20, <1>21, <1>22, <1>23, <1>24 DEF
       Next, Command, Worker

LEMMA ReusedMatchNext == TypeOK /\ RowsInPast /\ RowsVouched /\ ReusedMatch /\ [Next]_vars => ReusedMatch'
  <1> SUFFICES ASSUME TypeOK, RowsInPast, RowsVouched, ReusedMatch, [Next]_vars
               PROVE  ReusedMatch'
    OBVIOUS
  <1> USE DEF TypeOK, ReusedMatch, OnlyTornOrResumedMislead, Writing, Planned, HasRules, HasSignatures
  <1>1. ASSUME NEW c \in Config, Launch(c)
        PROVE  ReusedMatch'
    BY <1>1, SpendFacts DEF Launch
  <1>2. CASE LoadRules
    BY <1>2 DEF LoadRules
  <1>3. CASE SignInputs
    BY <1>3 DEF SignInputs
  <1>4. CASE RefuseState
    BY <1>4, LeaveFacts DEF RefuseState
  <1>5. CASE PrepareState
    BY <1>5 DEF PrepareState, InitializeState, Refused
  <1>6. CASE ShowStatus
    BY <1>6, LeaveFacts DEF ShowStatus, InitializeState, Leave
  <1>7. CASE Submit
    BY <1>7 DEF Submit, FirstOf, Submittable
  <1>8. ASSUME NEW s \in Shard, TakeResult(s)
        PROVE  ReusedMatch'
    BY <1>8 DEF TakeResult
  <1>9. CASE Drained
    BY <1>9, LeaveFacts DEF Drained, PoolIdle, Leave
  <1>10. CASE Collect
    BY <1>10, CollectFacts DEF Collect
  <1>11. CASE LoadCache
    <2>1. \A s \in reused' :
             /\ s \in Planned
             /\ rows'[s].src = loaded[s]
             /\ rows'[s].legacy \/ rows'[s].torn \/ rows'[s].scope = cfg.scope
             /\ rows'[s].legacy \/ rows'[s].torn \/ rows'[s].resumed \/ rows'[s].base = sig[s][2]
      <3> HIDE DEF TypeOK, RowsVouched, Planned
      <3>1. QED
        BY <1>11, ReuseMatches
    <2>2. QED
      <3>1. pc' = "report" /\ UNCHANGED <<loaded, cfg, sig>>
        BY <1>11 DEF LoadCache, Reuse
      <3>2. QED
        BY <2>1, <3>1
  <1>12. CASE LoadLegacy
    <2>1. \A s \in reused' :
             /\ s \in Planned
             /\ rows'[s].src = loaded[s]
             /\ rows'[s].legacy \/ rows'[s].torn \/ rows'[s].scope = cfg.scope
             /\ rows'[s].legacy \/ rows'[s].torn \/ rows'[s].resumed \/ rows'[s].base = sig[s][2]
      <3> HIDE DEF TypeOK, RowsVouched, Planned
      <3>1. QED
        BY <1>12, ReuseMatches
    <2>2. QED
      <3>1. pc' = "report" /\ UNCHANGED <<loaded, cfg, sig>>
        BY <1>12 DEF LoadLegacy, Reuse
      <3>2. QED
        BY <2>1, <3>1
  <1>13. CASE RefuseCache
    BY <1>13, LeaveFacts DEF RefuseCache
  <1>14. CASE WriteReport
    BY <1>14 DEF WriteReport
  <1>15. CASE WriteCacheRows
    BY <1>15 DEF WriteCacheRows, FirstOf
  <1>16. CASE WriteCacheManifest
    BY <1>16, LeaveFacts DEF WriteCacheManifest
  <1>17. ASSUME NEW s \in Shard, BeginShard(s)
        PROVE  ReusedMatch'
    BY <1>17 DEF BeginShard
  <1>18. ASSUME NEW s \in Shard, CompleteShard(s)
        PROVE  ReusedMatch'
    BY <1>18 DEF CompleteShard
  <1>19. ASSUME NEW s \in Shard, FailShard(s)
        PROVE  ReusedMatch'
    BY <1>19, SpendFacts DEF FailShard
  <1>20. ASSUME NEW s \in Shard, ReplaceResults(s)
        PROVE  ReusedMatch'
    BY <1>20, SpendFacts DEF ReplaceResults
  <1>21. ASSUME NEW d \in Database, ReplaceDatabase(d)
        PROVE  ReusedMatch'
    BY <1>21, SpendFacts DEF ReplaceDatabase
  <1>22. CASE Interrupt
    BY <1>22, SpendFacts DEF Interrupt
  <1>23. CASE Kill
    BY <1>23, LeaveFacts, SpendFacts DEF Kill, Leave
  <1>24. CASE UNCHANGED vars
    BY <1>24
  <1>25. QED
    BY <1>1, <1>2, <1>3, <1>4, <1>5, <1>6, <1>7, <1>8, <1>9, <1>10, <1>11, <1>12, <1>13,
       <1>14, <1>15, <1>16, <1>17, <1>18, <1>19, <1>20, <1>21, <1>22, <1>23, <1>24 DEF
       Next, Command, Worker

-----------------------------------------------------------------------------
LEMMA CandidatesAre ==
    ASSUME NEW d, NEW c
    PROVE  c \in Candidates(d) <=> \/ progress[d] # None /\ c = <<progress[d], 1>>
                                   \/ summary[d] # None /\ c = <<summary[d], 0>>
  BY DEF Candidates

(* A database is audited if its newest record, the progress file before a  *)
(* summary as old, is of a complete success, or nothing is recorded.       *)
LEMMA AuditableMeans ==
    ASSUME TypeOK, NEW d \in Database
    PROVE  LET p == progress[d]
               q == summary[d]
           IN Auditable(d) <=> \/ ~ tracked
                               \/ Complete(p, d) /\ (q # None => q.at <= p.at)
                               \/ Complete(q, d) /\ (p # None => p.at < q.at)
  <1> DEFINE p == progress[d]
             q == summary[d]
             Newest(c) == \A e \in Candidates(d) :
                              e[1].at < c[1].at \/ (e[1].at = c[1].at /\ e[2] <= c[2])
             cp == <<p, 1>>
             cq == <<q, 0>>
  <1>0. (p # None => p.at \in Nat) /\ (q # None => q.at \in Nat)
    BY DEF TypeOK, RunRecord
  <1>1. Candidates(d) = {} <=> p = None /\ q = None
    BY CandidatesAre
  <1>2. ASSUME NEW c \in Candidates(d), Newest(c), \A e \in Candidates(d) : Newest(e) => e = c
        PROVE  Latest(d) = c[1]
    BY <1>2 DEF Latest
  <1>3. CASE ~ tracked
    BY <1>3 DEF Auditable
  <1>4. CASE p = None /\ q = None
    BY <1>1, <1>4 DEF Auditable, Complete
  <1>5. CASE p # None /\ (q = None \/ q.at <= p.at)
    <2>1. cp \in Candidates(d) /\ Newest(cp) /\ \A e \in Candidates(d) : Newest(e) => e = cp
      BY <1>0, <1>5, CandidatesAre
    <2>2. Latest(d) = p
      BY <1>2, <2>1
    <2>3. Auditable(d) <=> (tracked => Complete(p, d))
      BY <1>1, <1>5, <2>2 DEF Auditable, Complete, CountAgrees
    <2>4. ~ (Complete(q, d) /\ (p # None => p.at < q.at))
      BY <1>0, <1>5 DEF Complete
    <2>5. q # None => q.at <= p.at
      BY <1>5
    <2>6. QED
      BY <2>3, <2>4, <2>5
  <1>6. CASE q # None /\ (p = None \/ p.at < q.at)
    <2>1. cq \in Candidates(d) /\ Newest(cq) /\ \A e \in Candidates(d) : Newest(e) => e = cq
      BY <1>0, <1>6, CandidatesAre
    <2>2. Latest(d) = q
      BY <1>2, <2>1
    <2>3. Auditable(d) <=> (tracked => Complete(q, d))
      BY <1>1, <1>6, <2>2 DEF Auditable, Complete, CountAgrees
    <2>4. QED
      BY <1>0, <1>6, <2>3 DEF p, q, Complete
  <1>7. QED
    BY <1>0, <1>3, <1>4, <1>5, <1>6

LEMMA FlowNext == FlowOK /\ [Next]_vars => FlowOK'
  BY TypeNext, ContainedNext, CoveredNext, StateSignedNext, RowsInPastNext, RowsVouchedNext,
     ReusedMatchNext DEF FlowOK

(* The inductive invariant: what the files and the memory of the command   *)
(* tell of each other, at every step of any sequence of commands.          *)
THEOREM FlowKept == Spec => []FlowOK
  <1>1. Init => FlowOK
    BY InitOK
  <1>2. FlowOK /\ [Next]_vars => FlowOK'
    BY FlowNext
  <1>3. QED
    BY <1>1, <1>2, PTL DEF Spec

(* No pool process outlives its command, no two processes are at one       *)
(* database, and a state file says running of nothing else unless a        *)
(* command was killed (_execute_shards).                                   *)
THEOREM PoolStaysContained == Spec => []PoolIsContained
  <1>1. FlowOK => PoolIsContained
    BY DEF FlowOK, Contained, PoolIsContained, InFlight
  <1>2. QED
    BY FlowKept, <1>1, PTL

(* Only a torn cache and a resumed command mislead: any other row that is  *)
(* reused without the user's word is of the rules, the database and the    *)
(* options of now, and every one is of these rules                         *)
(* (_load_reusable_records).                                               *)
THEOREM OnlyThoseMislead == Spec => []OnlyTornOrResumedMislead
  <1>1. FlowOK => OnlyTornOrResumedMislead
    BY DEF FlowOK, ReusedMatch
  <1>2. QED
    BY FlowKept, <1>1, PTL

(* The report has rows for exactly the shards of the databases whose       *)
(* newest run record is of a complete success (run_audit,                  *)
(* _execute_shards, _load_benchmark_run_statuses).                         *)
THEOREM ReportIsComplete == Spec => []ReportCoversSuccesses
  <1>1. FlowOK => ReportCoversSuccesses
    <2> SUFFICES ASSUME FlowOK, Writing, NEW s \in Shard
                 PROVE  rows[s] # None <=> Auditable(s[2])
      BY AuditableMeans DEF FlowOK, ReportCoversSuccesses, Database
    <2>1. HasRules
      BY DEF Writing, HasRules
    <2>2. QED
      BY <2>1, PlanTyped DEF FlowOK, Covered, AuditableShards
  <1>2. QED
    BY FlowKept, <1>1, PTL

=============================================================================
