----------------------------- MODULE AuditFlow -----------------------------
(***************************************************************************)
(* The audit command on one machine (audit/runner.py, run_audit): it       *)
(* plans shards from the results and from the benchmark's run records,     *)
(* evaluates them in a pool of processes, at most one at a time per        *)
(* database, collects their rows, writes the report and then an            *)
(* evaluation cache: the shards' rows first, the manifest that vouches for *)
(* them last.  A later command may resume the state of a stopped one, or   *)
(* reuse the cache (or, told to trust it, an old report) and evaluate only *)
(* what is missing.  Meanwhile the benchmark may replace its inputs, and   *)
(* the command may be interrupted or killed.  What a worker does within a  *)
(* shard is AuditShard; the audit of one rule is AuditRules.               *)
(***************************************************************************)
EXTENDS Integers, Sequences, FiniteSets

CONSTANTS
    Shards,        \* sequence of <<algorithm, database>>, in plan order
    MaxWorkers,    \* config.workers
    Scopes,        \* values of the options that decide what a rule evaluates to
    Targets,       \* what the target left: set of [tracked, progress, summary, written]
    MaxRuns,       \* bound: commands started
    MaxChanges,    \* bound: inputs replaced
    MaxStops,      \* bound: shards that fail and interrupts
    MaxKills       \* bound: kills

None == [kind |-> "none"]
Shard == {Shards[i] : i \in 1..Len(Shards)}
Database == {s[2] : s \in Shard}

(* A run record has a time, an outcome ("success", "partial", ...) and a   *)
(* number of rules, as a set that is empty when it gives none.             *)
RunRecord == [kind : {"run"}, at : Nat, outcome : STRING, rules : SUBSET Nat]

ASSUME FlowAssumption ==
    /\ Shards \in Seq(STRING \X STRING)
    /\ \A t \in Targets : /\ t.tracked \in BOOLEAN
                          /\ {t.progress, t.summary} \subseteq [Database -> RunRecord \cup {None}]
                          /\ t.written \in [Database -> Nat]
    /\ MaxWorkers \in Nat \ {0}
    /\ {MaxRuns, MaxChanges, MaxStops, MaxKills} \subseteq Nat

VARIABLES
    source,    \* version of each shard's results file
    base,      \* version of each database
    tracked,   \* there is a progress/ directory or a summary, whatever is in it
    progress,  \* the target's record of a database in progress/, or None
    summary,   \* the target's record of a database in a summary, or None
    written,   \* how many rules the target's results of a database have
    state,     \* status in each shard's state file, or "none"
    stateFp,   \* fingerprint in the state's manifest, or None
    csv,       \* row in the shard's own audit_rules.csv, or None
    report,    \* rows of the report's audit_rules.csv, or None: not written
    cache,     \* rows in the cache's CSV files
    cacheFp,   \* fingerprint in the cache's manifest, or None
    pc,        \* what the command is at
    cfg,       \* its options
    loaded,    \* version of the rules it has read, per shard of the plan
    sig,       \* signatures it has taken: [shard -> <<results, database>>]
    remaining, \* shards to submit
    active,    \* databases with a shard in flight
    running,   \* shards a pool process is at
    ended,     \* shards whose future is done, not yet seen by the command
    rows,      \* records in memory
    reused,    \* shards whose rows come from the cache or the old report
    count      \* what has been spent of the bounds

target == <<tracked, progress, summary, written>>
inputs == <<source, base, target>>
disk == <<state, stateFp, csv, report, cache, cacheFp>>
pool == <<remaining, active, running, ended>>
vars == <<inputs, disk, pc, cfg, loaded, sig, pool, rows, reused, count>>

NoRows == [s \in Shard |-> None]

(* A row is known by what it was evaluated from.  "legacy" follows a row   *)
(* taken from a report without provenance, "resumed" one that was reported *)
(* by a resumed command, "torn" one of a cache whose writing was cut short *)
(* (the code keeps none of the three).                                     *)
Row(s, c) == [kind |-> "row", src |-> loaded[s], base |-> base[s[2]], scope |-> c.scope,
              legacy |-> FALSE, torn |-> FALSE, resumed |-> FALSE]

Config == [reuse : BOOLEAN, trust : BOOLEAN, resume : BOOLEAN, reset : BOOLEAN,
           status : BOOLEAN, scope : Scopes]

-----------------------------------------------------------------------------
(* The plan *)

(* The candidates of _load_benchmark_run_statuses, with the progress       *)
(* files' priority over the summaries.                                     *)
Candidates(d) == {<<r, 1>> : r \in {progress[d]} \ {None}}
                     \cup {<<r, 0>> : r \in {summary[d]} \ {None}}

(* The newest candidate stands; of two as old, the progress file.          *)
Latest(d) ==
    LET c == CHOOSE c \in Candidates(d) : \A e \in Candidates(d) :
                 e[1].at < c[1].at \/ (e[1].at = c[1].at /\ e[2] <= c[2])
    IN c[1]

(* Mutant: the number of rules is not looked at.                           *)
AnyCount(r, d) == TRUE

(* The record has no number of rules, or that of the target's results.     *)
CountAgrees(r, d) == r.rules \subseteq {written[d]}

(* _target_run_is_auditable.                                               *)
Auditable(d) ==
    tracked => /\ Candidates(d) # {}
               /\ Latest(d).outcome = "success"
               /\ CountAgrees(Latest(d), d)

Planned == DOMAIN loaded

(* _evaluation_manifest, and _build_manifest, which leaves the databases'  *)
(* signatures out.                                                         *)
(* Mutant: the databases are not signed.                                   *)
UnsignedFp == [kind |-> "fp", scope |-> cfg.scope, sigs |-> [s \in Planned |-> <<sig[s][1], 0>>]]

EvaluationFp == [kind |-> "fp", scope |-> cfg.scope, sigs |-> sig]
StateFp == [kind |-> "fp", scope |-> cfg.scope, sigs |-> [s \in Planned |-> sig[s][1]]]

-----------------------------------------------------------------------------
Init ==
    /\ source = [s \in Shard |-> 0]
    /\ base = [d \in Database |-> 0]
    /\ \E t \in Targets : /\ tracked = t.tracked
                         /\ progress = t.progress
                         /\ summary = t.summary
                         /\ written = t.written
    /\ state = [s \in Shard |-> "none"]
    /\ stateFp = None
    /\ csv = NoRows
    /\ report = None
    /\ cache = NoRows
    /\ cacheFp = None
    /\ pc = "off"
    /\ cfg = None
    /\ loaded = << >>
    /\ sig = << >>
    /\ remaining = {}
    /\ active = {}
    /\ running = {}
    /\ ended = {}
    /\ rows = NoRows
    /\ reused = {}
    /\ count = [runs |-> 0, changes |-> 0, stops |-> 0, kills |-> 0]

Spend(what, bound) == count[what] < bound /\ count' = [count EXCEPT ![what] = @ + 1]

(* The benchmark writes a results file, or a database, again.              *)
ReplaceResults(s) ==
    /\ Spend("changes", MaxChanges)
    /\ source' = [source EXCEPT ![s] = @ + 1]
    /\ UNCHANGED <<base, target, disk, pc, cfg, loaded, sig, pool, rows, reused>>

ReplaceDatabase(d) ==
    /\ Spend("changes", MaxChanges)
    /\ base' = [base EXCEPT ![d] = @ + 1]
    /\ UNCHANGED <<source, target, disk, pc, cfg, loaded, sig, pool, rows, reused>>

Launch(c) ==
    /\ pc = "off"
    /\ Spend("runs", MaxRuns)
    /\ ~ (c.resume /\ c.reset)
    /\ c.trust => c.reuse
    /\ c.status => ~ (c.reuse \/ c.resume \/ c.reset)
    /\ cfg' = c
    /\ pc' = "load"
    /\ UNCHANGED <<inputs, disk, loaded, sig, pool, rows, reused>>

(* build_audit_plan reads the rules of the auditable databases ...         *)
LoadRules ==
    /\ pc = "load"
    /\ loaded' = [s \in {t \in Shard : Auditable(t[2])} |-> source[s]]
    /\ pc' = "sign"
    /\ UNCHANGED <<inputs, disk, cfg, sig, pool, rows, reused, count>>

(* ... and then takes the signatures of the files.                         *)
SignInputs ==
    /\ pc = "sign"
    /\ sig' = [s \in Planned |-> <<source[s], base[s[2]]>>]
    /\ pc' = IF cfg.reuse THEN "reuse" ELSE "state"
    /\ UNCHANGED <<inputs, disk, cfg, loaded, pool, rows, reused, count>>

-----------------------------------------------------------------------------
(* A run that evaluates *)

Leave ==
    /\ pc' = "off"
    /\ cfg' = None
    /\ rows' = NoRows
    /\ reused' = {}
    /\ loaded' = << >>
    /\ sig' = << >>
    /\ remaining' = {}
    /\ active' = {}
    /\ ended' = {}

(* Existing state needs --resume or --reset-state, and resumed state must  *)
(* be of the same inputs.                                                  *)
Refused == stateFp # None /\ ~ cfg.reset /\ (cfg.resume \/ cfg.status => stateFp # StateFp)

RefuseState ==
    /\ pc = "state"
    /\ Refused
    /\ Leave
    /\ UNCHANGED <<inputs, disk, running, count>>

InitializeState(kept) ==
    /\ state' = [s \in Shard |-> IF s \in Planned /\ kept[s] = "none" THEN "pending" ELSE kept[s]]
    /\ stateFp' = StateFp

PrepareState ==
    /\ pc = "state"
    /\ ~ Refused
    /\ ~ cfg.status
    /\ InitializeState(IF cfg.reset THEN [s \in Shard |-> "none"] ELSE state)
    /\ remaining' = {s \in Planned : state'[s] # "completed"}
    /\ pc' = "pool"
    /\ UNCHANGED <<inputs, csv, report, cache, cacheFp, cfg, loaded, sig, active, running, ended,
                   rows, reused, count>>

(* --status creates the state it shows, if there is none.                  *)
ShowStatus ==
    /\ pc = "state"
    /\ ~ Refused
    /\ cfg.status
    /\ InitializeState(state)
    /\ Leave
    /\ UNCHANGED <<inputs, csv, report, cache, cacheFp, running, count>>

InFlight == running \cup ended

(* The shards of S that come first in the order of the plan.               *)
FirstOf(S) == {s \in S : \E i \in 1..Len(Shards) :
                   s = Shards[i] /\ \A j \in 1..i - 1 : Shards[j] \notin S}

(* The first shard whose database is idle.                                 *)
Submittable == {s \in remaining : s[2] \notin active}

Submit ==
    /\ pc = "pool"
    /\ Cardinality(InFlight) < MaxWorkers
    /\ \E s \in FirstOf(Submittable) :
          /\ running' = running \cup {s}
          /\ active' = active \cup {s[2]}
          /\ remaining' = remaining \ {s}
    /\ UNCHANGED <<inputs, disk, pc, cfg, loaded, sig, ended, rows, reused, count>>

(* A pool process: the state file says running, then the shard ends.       *)
BeginShard(s) ==
    /\ s \in running
    /\ state[s] # "running"
    /\ state' = [state EXCEPT ![s] = "running"]
    /\ UNCHANGED <<inputs, stateFp, csv, report, cache, cacheFp, pc, cfg, loaded, sig, pool, rows,
                   reused, count>>

CompleteShard(s) ==
    /\ s \in running
    /\ state[s] = "running"
    /\ csv' = [csv EXCEPT ![s] = Row(s, cfg)]
    /\ state' = [state EXCEPT ![s] = "completed"]
    /\ running' = running \ {s}
    /\ ended' = ended \cup {s}
    /\ UNCHANGED <<inputs, stateFp, report, cache, cacheFp, pc, cfg, loaded, sig, remaining, active,
                   rows, reused, count>>

FailShard(s) ==
    /\ s \in running
    /\ state[s] = "running"
    /\ Spend("stops", MaxStops)
    /\ state' = [state EXCEPT ![s] = "failed"]
    /\ running' = running \ {s}
    /\ ended' = ended \cup {s}
    /\ UNCHANGED <<inputs, stateFp, csv, report, cache, cacheFp, pc, cfg, loaded, sig, remaining,
                   active, rows, reused>>

(* Ctrl-C reaches the command and its pool: a shard that had begun is      *)
(* marked, the command waits for its processes and exits with 130.         *)
Interrupt ==
    /\ pc = "pool"
    /\ Spend("stops", MaxStops)
    /\ state' = [s \in Shard |-> IF s \in running /\ state[s] = "running" THEN "interrupted"
                                 ELSE state[s]]
    /\ running' = {}
    /\ ended' = InFlight
    /\ pc' = "drain"
    /\ UNCHANGED <<inputs, stateFp, csv, report, cache, cacheFp, cfg, loaded, sig, remaining,
                   active, rows, reused>>

(* Mutant: the shard's database stays marked as busy.                      *)
KeepBusy(s) == active
Release(s) == active \ {s[2]}

(* Mutant: the result is not asked for.                                    *)
NeverRaises(s) == FALSE

(* future.result() of a failed shard raises.                               *)
Raises(s) == state[s] # "completed"

TakeResult(s) ==
    /\ pc = "pool"
    /\ s \in ended
    /\ ended' = ended \ {s}
    /\ active' = Release(s)
    /\ pc' = IF Raises(s) THEN "drain" ELSE "pool"
    /\ UNCHANGED <<inputs, disk, cfg, loaded, sig, remaining, running, rows, reused, count>>

(* Mutant: the executor is left without waiting.                           *)
AnyPool == TRUE

(* Leaving the executor waits for what it is running.                      *)
PoolIdle == running = {}

Drained ==
    /\ pc = "drain"
    /\ PoolIdle
    /\ Leave
    /\ UNCHANGED <<inputs, disk, running, count>>

(* _collect_records takes the CSV files that exist.                        *)
Collect ==
    /\ pc = "pool"
    /\ remaining = {}
    /\ InFlight = {}
    /\ rows' = [s \in Shard |-> IF s \in Planned /\ csv[s] # None
                                THEN [csv[s] EXCEPT !.resumed = cfg.resume] ELSE None]
    /\ pc' = "report"
    /\ UNCHANGED <<inputs, disk, cfg, loaded, sig, pool, reused, count>>

-----------------------------------------------------------------------------
(* A run that reuses *)

(* Mutant: a row is taken as it is.                                        *)
AnyRow(row, s) == row # None

(* _cache_records_match_shard compares the rows with the rules just read.  *)
MatchesShard(row, s) == row # None /\ row.src = loaded[s]

Reusable(from) == {s \in Planned : MatchesShard(from[s], s)}

(* Rows that match are rematched, the other shards are evaluated.          *)
Reuse(from, legacy) ==
    /\ reused' = Reusable(from)
    /\ rows' = [s \in Shard |->
                  IF s \in Reusable(from)
                  THEN [from[s] EXCEPT !.legacy = @ \/ legacy]
                  ELSE IF s \in Planned THEN Row(s, cfg) ELSE None]
    /\ pc' = "report"
    /\ UNCHANGED <<inputs, disk, cfg, loaded, sig, pool, count>>

LoadCache == pc = "reuse" /\ cacheFp # None /\ cacheFp = EvaluationFp /\ Reuse(cache, FALSE)

LoadLegacy == pc = "reuse" /\ cacheFp = None /\ cfg.trust /\ report # None /\ Reuse(report.rows, TRUE)

RefuseCache ==
    /\ pc = "reuse"
    /\ IF cacheFp # None THEN cacheFp # EvaluationFp ELSE ~ cfg.trust \/ report = None
    /\ Leave
    /\ UNCHANGED <<inputs, disk, running, count>>

-----------------------------------------------------------------------------
(* What both write *)

(* _write_outputs.                                                         *)
WriteReport ==
    /\ pc = "report"
    /\ report' = [kind |-> "report", rows |-> rows]
    /\ pc' = "cache"
    /\ remaining' = Planned
    /\ UNCHANGED <<inputs, state, stateFp, csv, cache, cacheFp, cfg, loaded, sig, active, running,
                   ended, rows, reused, count>>

(* The cache's CSV files, one after the other ...                          *)
WriteCacheRows ==
    /\ pc = "cache"
    /\ \E s \in FirstOf(remaining) :
          /\ cache' = [cache EXCEPT ![s] = IF rows[s] = None THEN None
                                           ELSE [rows[s] EXCEPT !.torn = TRUE]]
          /\ remaining' = remaining \ {s}
    /\ UNCHANGED <<inputs, state, stateFp, csv, report, cacheFp, pc, cfg, loaded, sig, active,
                   running, ended, rows, reused, count>>

(* ... and the manifest, which makes them count.                           *)
WriteCacheManifest ==
    /\ pc = "cache"
    /\ remaining = {}
    /\ cacheFp' = EvaluationFp
    /\ cache' = [s \in Shard |-> IF s \in Planned /\ cache[s] # None
                                 THEN [cache[s] EXCEPT !.torn = rows[s].torn] ELSE cache[s]]
    /\ Leave
    /\ UNCHANGED <<inputs, state, stateFp, csv, report, running, count>>

(* The machine stops.                                                      *)
Kill ==
    /\ pc # "off"
    /\ Spend("kills", MaxKills)
    /\ Leave
    /\ running' = {}
    /\ UNCHANGED <<inputs, disk>>

-----------------------------------------------------------------------------
Worker(s) == BeginShard(s) \/ CompleteShard(s) \/ FailShard(s)

Command ==
    \/ LoadRules \/ SignInputs \/ RefuseState \/ PrepareState \/ ShowStatus
    \/ Submit \/ Drained \/ Collect
    \/ LoadCache \/ LoadLegacy \/ RefuseCache \/ WriteReport \/ WriteCacheRows
    \/ WriteCacheManifest
    \/ \E s \in Shard : TakeResult(s)

Next ==
    \/ \E c \in Config : Launch(c)
    \/ Command
    \/ \E s \in Shard : Worker(s)
    \/ \E s \in Shard : ReplaceResults(s)
    \/ \E d \in Database : ReplaceDatabase(d)
    \/ Interrupt
    \/ Kill

(* The command runs on, and so does the evaluation of a shard.             *)
Spec ==
    /\ Init
    /\ [][Next]_vars
    /\ WF_vars(Command)
    /\ \A s \in Shard : WF_vars(Worker(s))

-----------------------------------------------------------------------------
(* Properties *)

Writing == pc \in {"report", "cache"}

(* A record of a run that succeeded, all of whose rules are there.         *)
Complete(r, d) == r # None /\ r.outcome = "success" /\ r.rules \subseteq {written[d]}

(* What is reported covers exactly the databases whose newest target       *)
(* record, a progress file before a summary as old, is of a complete       *)
(* success (docs/rule-audit.md, "partial runs are omitted"), and all of    *)
(* them when nothing is recorded; whether or not shards failed, were       *)
(* interrupted or were left over by an earlier command, no shard of theirs *)
(* is missing (run_audit, _execute_shards, _load_benchmark_run_statuses).  *)
ReportCoversSuccesses ==
    Writing =>
        \A s \in Shard :
            LET p == progress[s[2]]
                q == summary[s[2]]
            IN rows[s] # None <=>
                  \/ ~ tracked
                  \/ Complete(p, s[2]) /\ (q # None => q.at <= p.at)
                  \/ Complete(q, s[2]) /\ (p # None => p.at < q.at)

(* docs/rule-audit.md:102, "It validates source, database, target-result,  *)
(* and scope signatures before reusing a shard".  A row that is reused is  *)
(* of the rules that were just read, whatever its file went through; and   *)
(* it is of the scope and the database of now, although signatures are     *)
(* taken after the rules are read and before the database is, which may be *)
(* replaced at any time - except in three cases, which are all there are:  *)
(* the user trusts an old report; a command was killed among the cache's   *)
(* files, whose old manifest does not vouch for its new rows (torn); or a  *)
(* command was resumed after the database had been replaced, whose state   *)
(* manifest has no signature of it, and put rows evaluated before under    *)
(* signatures taken anew (resumed) (_load_reusable_records).               *)
OnlyTornOrResumedMislead ==
    Writing =>
        \A s \in reused :
            /\ rows[s].src = loaded[s]
            /\ \/ rows[s].legacy \/ rows[s].torn
               \/ rows[s].scope = cfg.scope /\ (rows[s].resumed \/ rows[s].base = sig[s][2])

(* The command never ends with a pool process at work, two processes never *)
(* have the same database open, and a state file says running only while a *)
(* process is at the shard or after a kill (_execute_shards).              *)
PoolIsContained ==
    /\ pc = "off" => running = {}
    /\ \A s, t \in running : s[2] = t[2] => s = t
    /\ \A s \in Shard : state[s] = "running" => s \in running \/ count.kills > 0

(* Every command that is started ends, whatever shards share a database or *)
(* fail (_execute_shards).                                                 *)
CommandEnds == pc # "off" ~> pc = "off"
=============================================================================
