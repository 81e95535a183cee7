# MARITA: a TLA+ model of rule discovery, its benchmark and its audit

MARITA (`src/src/marita`) discovers tuple-generating dependencies in relational
databases and compares itself with other rule miners. Around the sequential discovery it
has a good deal of machinery that runs in several processes and on several hosts at once,
with a shared directory as the only means of communication: the distributed rule audit,
the paper pipeline, the paper benchmark. This project models that machinery, whose
mistakes are made of interleavings, crashes and old files that no test of the repository
produces, and the algorithms it runs: the rule search with its prunings and caches, and
what the audit decides of one rule. Paths below are relative to `src/`; `distributed.py`
and `runner.py` are in `src/marita/audit/`.

## 1. Inventory

| Component | State | Operations | Talks to |
|---|---|---|---|
| Audit job queue, `audit/distributed.py` | files in `pending/ running/ done/ failed/`, heartbeats, `.recover.lock`, `.init.lock`, `ready`, manifest | `initialise_queue`, `claim_job`, `LeaseHeartbeat`, `recover_stale_jobs`, `update_lease`, `finish_job`, `read_queue_jobs`, `_retry_failed_job` | every worker of every host, by file operations |
| Distributed audit run, `audit/runner.py` | per shard `audit_rules.csv` and state file, `finalize.lock`, `finalized.json`, reports | `run_audit`, `_distributed_worker_loop`, `_run_audit_shard`, `_finalize_distributed`, `_execute_shards` | the queue; the evaluation |
| Plan, cache, classification (`runner.py`, `audit/models.py`) | evaluation cache, records | `build_audit_plan`, `_load_reusable_records`, `_audit_rule`, funnel and totals | evaluation, discovery results |
| Audit rule evaluation (`evaluator.py`, `matching.py`, `parsing.py`, `amie_translation.py`) | SQLite connections | parse, translate, evaluate, match | databases |
| Paper pipeline, `cli/paper_pipeline.py` | one queue per stage, heartbeats, init and aggregate locks, `pipeline.complete` | `initialise_queue`, `run_stage`, `claim_job`, `run_job`, `finish_job`, `recover_stale_jobs`, `wait_for_stage_complete`, `aggregate_pipeline` | hosts through files; paper benchmark |
| Paper benchmark, `cli/paper_benchmark.py` | child processes, progress files, one summary and one e-mail per host | shares, workers, signal handlers, `_run_command` with its memory monitor and time-out, `_terminate`, summaries | child processes, signals |
| Batch and processors, `cli/batch.py`, `cli/processors.py` | timers, artifacts | `run_database`, `benchmark_timeout`, `discover_rules` | discovery, SIGALRM |
| Rule discovery, `algorithms/marita.py`, `algorithms/marita_core/` | constraint graph, DFS stack, LRU cache, canonical keys | `init`, `dfs`, `prune`, `split`, minimality tests | database inspector |
| Database access, `database/` | connections, LRU caches of counts | SQL generation and execution, import and conversion | SQLite |
| Datasets, `evaluation/datasets/` | files | download, dump, convert | network, disk |
| Baselines, `evaluation/baselines/`, `utils/run_cmd.py` | child processes | run, monitor, terminate | external programs |

What is hard, and what must hold:

* **Audit job queue.** Every operation is a sequence of reads, rewrites and renames on a
  directory that others use at the same time; each worker goes on with what it read
  before. Workers die between any two operations. A lease is taken for abandoned by its
  age. Must hold: no job is lost, a job has one file and one owner, its attempts are
  counted, jobs of dead workers are finished by others, finished jobs stay finished, no
  worker falls over a file that went away, idle workers leave only when nothing is left.
* **Distributed audit run.** Hosts race for the final reports; a host dies between lock,
  reports and marker; an owner dies between a row and its checkpoint and another one
  resumes; an owner is overtaken. Must hold: one writer at a time, reports of complete
  runs only, every rule in order in a completed shard, none skipped, and none twice except
  where an owner died between a row and its checkpoint.
* **Starting and restarting.** The first host fills the queue while others wait; hosts die
  while they start; `--resume` goes through a queue in use. Must hold: nobody works on
  half a queue, no job gets a second file.
* **Paper pipeline.** As the queue, but with in-place writes, one heartbeat per job and
  stages that wait for each other. Must hold: a stage begins when the previous one is
  over, a job has one outcome, no host waits for ever.
* **Benchmark, batch.** A time-out races a result, a memory limit races an exit, a signal
  races a summary. Must hold: one status per run, and the right one; no child outlives its
  run; a summary keeps what earlier launches wrote.
* **The audit on one machine.** Inputs are replaced while they are read, a command is killed
  between cache and manifest, a cache is read by a command with other options. Must hold: a
  reused row is of the current inputs and options, the report covers what it says it covers.
* **What the audit decides of a rule.** Must hold: the category is what the database says, a
  rule counted as recovered follows from what it is matched with, the tables agree.
* **Discovery.** A depth-first search over shared mutable state whose result must not
  depend on the order: each canonical rule once, pruning sound for support, caches within
  their limit.

All the hazards, with their lines, are in `PROJECT.json`, each with the properties that
cover it or the reason why none does.

## 2. Plan

| Order | Module | Composes | State | Proofs in |
|---|---|---|---|---|
| 1 | `AuditQueue`, its abstract service `AuditJobs` | - | done | `AuditQueue_proofs`: types, five invariants, the refinement |
| 2 | `AuditRun` (finalisation) | EXTENDS `AuditQueue` | done | `AuditHosts_proofs`: both invariants |
| 3 | `AuditStart` (initialise, restart, `--resume`) | EXTENDS `AuditQueue` | done | `AuditHosts_proofs`: both invariants |
| 4 | `AuditShard` (rows and checkpoints) | EXTENDS `AuditJobs` | done | `AuditWork_proofs`: both invariants, the action property |
| 5 | `PaperPipeline` (stages over a second queue) | - | done | `PaperPipeline_proofs`: the four invariants |
| 6 | `CommandRun` (a command, its monitors, time-outs, alarms and external tools) | - | done | `CommandRun_proofs`: the invariant, the action property |
| 7 | `PaperBenchmark` (controllers of several hosts) | takes a command as what `CommandRun` models | done | `PaperBenchmark_proofs`: both invariants, the action property |
| 8 | `ConstraintGraph`, `CandidateRules`, `RuleQueries`, `Discovery` (the rule search) | each EXTENDS the one before | done | `Discovery_proofs`: three of the four invariants |
| 9 | `AuditFlow` (the audit command on one machine: plan, pool, state, report, cache) | takes a shard as what `AuditShard` models | done | `AuditFlow_proofs`: the three invariants |
| 10 | `AuditRules` (one rule: category, matching, coverage, totals, rematch) | - | done | `AuditWork_proofs`: the four invariants |

Theorems still worth proving: the bound of the query cache (`RuleQueries`).

## 3. The models

Those of the queues and commands model files and processes, one action per file system
operation (or per block between two operations that others can observe). Contents are
abstracted to what decisions are made on: attempt counter, age, token, status, number of
processed rules. An age is a flag, "older than `stale_after`", that a write clears and time
sets. Those of the search and of the audit of a rule compute what the code computes, on
small databases. A definition preceded by a comment that calls it a mutant, or used by
nothing else, is a plausible mistake in the definition after it: putting it in that place
must break a property of a run (`mutants` in `PROJECT.json`).

### AuditQueue (`distributed.py`; loop: `runner.py`, `_distributed_worker_loop`)

| State | Code |
|---|---|
| `pending`, `done`, `failed` | `<dir>/<job>.json`, a function of the job |
| `lease` | `running/<job>__<host>__<pid>__<token>.json`; a path is a pair of job and claim number, because each claim draws a new token |
| file: `attempt`, `old`, `signed` | the payload's `attempt`; whether its mtime is older than `stale_after`; whether its `lease_token` is the one of its own path |
| `beat` | the heartbeat file next to a lease: none, fresh or stale |
| `locked` | leases with a `.recover.lock` directory |
| `pc`, `path`, `copy`, `seen`, `due`, `cand`, `verdict` | the worker's place in its loop and its local variables: the payload it has read and will write back, the rest of the listings it goes through (of `read_queue_jobs` too), the leases that were stale when it noted the time |
| `claims`, `wasted` | history: the claims of a job, and the attempts that were counted by a recovery that did not requeue it |

`Recover` is `recover_stale_jobs` (list, lock, read, judge, rewrite, move, unlink the
heartbeat, unlock), `ClaimJob` is `claim_job` (list, rename, read, sign), `Work` the audit of
the job's shards seen from outside, `Finish` is `update_lease`, `finish_job` and the stop of
the heartbeat, with their branches for a file that went away. The drain test `read_queue_jobs` lists `pending/` and
`running/` and reads each listed file in a step of its own (`Scan`). `Beat` is the heartbeat's
thread. `TimePasses` ages files, `Crash` kills a process, and leaves its recovery lock;
`BreakOffRecovery` is an interrupt or error inside the lock, whose `finally` frees it: between
rewrite and move the attempt has been counted for nobody (`wasted`), as the code has it.

Three constants say what the environment does. `Timely`: a live worker renews its heartbeat,
starts it after a claim, and requeues a lease it has judged, within `stale_after` - this is
what `--stale-after-seconds` and `--heartbeat-seconds` are for. `QueueAges`: files may wait in
`pending/` for longer than `stale_after`. `CrashInRecovery`: a kill may hit a worker that holds
a recovery lock. *The regime the queue is written for* is `Timely` without `QueueAges`.

### AuditJobs

What the queue is for: jobs that wait, run for one owner, end, or are taken back from an owner
that is gone, at most `MaxAttempts` times. `AuditQueue!Service` maps directories to phases,
live holders of an existing lease to owners, claims and wasted attempts to starts. `WriteOff`
is such an attempt seen from outside: used up without an owner.

### AuditRun (`runner.py`, `run_audit` after the loop)

Adds the main process of each host to `AuditQueue`: `queue_has_failures`, `queue_is_complete`
(four listings one after the other, and the files of each read one by one, `listed`),
`_finalize_distributed` (marker, lock, reports, marker, release), its exceptions and kills. `late`
is history: the hosts that had seen no marker, and had no lock yet, when the marker was made. A host has one worker here, so it is identified
with it.

### AuditStart (`initialise_queue`, `_retry_failed_job`, `_find_job_path`, `_create_job`)

Adds the start of a host: ready file, `.init.lock`, the loop over the jobs with the four lookups
of `_find_job_path`, `ready`, release; waiting hosts and their time-out. Hosts are killed at any
step (`CrashStart`, the lock stays) or broken off by an interrupt or error (`BreakOffStart`, the
`finally` frees the lock) and started again, with `--resume` or without, side by side with hosts
that work, as `docs/rule-audit.md:31` and `:60` tell the user to. `slipped` is history: a job
returned to `pending/` after a starting host had looked there for it and not found it.

### AuditShard (`_run_audit_shard`)

What an owner does, on top of the abstract `AuditJobs`: per shard the state file and
`audit_rules.csv`, the lease assertions, row and checkpoint as two steps, failures, interrupts,
kills, restarts, `--resume`. `Revoke` takes the lease from a live owner, as happens outside the
regime. `revoked`, `stray` and `cuts` are history variables: databases whose lease was taken, rows
appended without one, attempts that ended between a row and its checkpoint since the file was last
truncated. The state files exist from the start.

### PaperPipeline (`cli/paper_pipeline.py`)

| State | Code |
|---|---|
| `host` | per process: where it is in `main`, `run_stage`, `recover_stale_jobs`, `wait_for_stage_complete`, `aggregate_pipeline`, with its listings and the job it holds |
| `pending`, `attempts`, `running`, `beats`, `verdicts` | the files of `queue/<stage>/`: jobs, the attempts they carry, leases, heartbeats, done and failed files |
| `torn` | files that are truncated and not yet written: `_write_json` writes in place |
| `rewritten`, `aged` | why a lease may look older than `stale_after`: its mtime is that of the pending file until it is rewritten, or its process is dead and time has passed |
| `locks`, `ready`, `complete`, `summary` | `.init.lock`, `.aggregate.lock`, `pipeline.ready`, `pipeline.complete`, `summary_pipeline.json` |

`plan_jobs` is `StageJobs`. A process has one worker (`workers = 1`), a command takes less than
`stale_after` (its time limit is 3600 s, `stale_after` 4200 s, both defaults): `run_job` writes the heartbeat
once, before the command (`cli/paper_pipeline.py:545`), and does not renew it, so this is what keeps
a running job from being taken for abandoned. Hence an owner is taken for abandoned only when it is dead, or in the
moment between its claim and its first write, if the job had waited in `pending/` for long
(`LateStages`). `robbed` is a history variable that marks the jobs to which that happened. A
process that is started again is another member of `Hosts`. `Kill` leaves the lock directories of
a process behind; `BreakOff`, an interrupt or exception, removes them as the `finally` clauses do.

### CommandRun (`cli/paper_benchmark.py`, `cli/processors.py`, `cli/batch.py`, `utils/run_cmd.py`, `utils/monitor.py`)

One run of one algorithm on one database by `marita run`, `marita benchmark` or a worker of the
batch command. Actors: the caller's thread in `_run_command` (launch, wait, time-out, terminate,
kill, collect) and its memory monitor; the command with its `ResourceMonitor`, its signal
handlers or its `SIGALRM`; an external tool with `run_cmd`'s monitor. Time is `clock`: before the
limit, at it, after the grace period; memory is `high`. `rules`, `saved`, `metrics`, `status` and
`progress` are what was found, written to the results and metrics files, and reported. A failure to
write the metrics is only logged (`NotWritten`): they stay as they were or are cut short, and the run
goes on. `StraySignal` is a SIGTERM from outside the project's processes, to which `marita run`
answers with the exit code 0; `strayed`, `ownLimit` and `swallowed` are history.

### PaperBenchmark (`cli/paper_benchmark.py`)

One controller per host: set-up, dry run, the share of the databases (`_shard_databases`), the
algorithms one after the other, each in a pool when it has several workers, merge and write of
`summary_<host>.json`, the e-mail and the exit code; signals at every place where the handlers
act differently; kill and relaunch; an earlier launch's summary. A command ends with one of
`Statuses`, or `_run_command` raises in its thread (`CommandRaises`: no process, no progress file),
which `main` catches after the other commands have ended. Reading and writing the summary may raise
(`SummaryFails`), and between the write and the return of `_run_specs` an interrupt gives 130 with a
full summary (place "written"). The lists of hosts, databases and algorithms have
no repetitions (`Distinct`); a database that is named twice on the command line is not modelled.

### ConstraintGraph, CandidateRules, RuleQueries, Discovery (`algorithms/marita.py`, `algorithms/marita_core/`, `database/query_utility.py`)

`ConstraintGraph` holds compatible attributes, joinable indexed attributes and the graph's
neighbours; `CandidateRules` the equality classes of a candidate, its canonical keys and its
splits into body and head; `RuleQueries` what the counting query of a rule returns - row choices,
distinct head assignments, the disjoint semantics by primary key - and the bounded LRU cache
`Ask`; `Discovery` the generator `discover_rules` with the globals it overwrites and restores,
`dfs` as a stack of frames with its bounds, its minimality and relation prunings, the analysis
cache, the split loop and the rules yielded one by one to a consumer that may close the
generator. A failed SQL query counts as 0 and is not cached, as in the code
(`query_utility.py:325`). Abstracted: the code computes the equality classes with a union-find,
the model states what that computes, the classes of the transitive closure of the pairs
(`Chains`): the least non-empty sets closed under them.

### AuditFlow (`runner.py`, `run_audit` without `--distributed-dir`)

The plan from the benchmark's records (`_load_benchmark_run_statuses`, `_target_run_is_auditable`),
signatures, state and its manifest, the pool of `_execute_shards`
(at most `workers` shards, one per database), workers' state files, collection, report, cache
rows and cache manifest, `--reuse-evaluation-cache`, the trust of an old report, `--resume`,
`--reset-state`, `--status`; inputs replaced at any time, a failed shard, Ctrl-C, a kill of the
whole machine. A shard has one row that stands for its records and says what it was evaluated
from. A member of `Targets` is what a benchmark left: whether it keeps records at all
(`tracked`, `runner.py:1246`), per database the records in `progress/` and in the summaries, with
their times, outcomes and numbers of rules, and the number of rules really written; a run is audited
if its newest record is a success and that number agrees (`CountAgrees`, `runner.py:1303`).
Abstracted: the state directory exists when some manifest does, the version of the
target's results is folded into the shards', the report is one write, the serial path is the
pool with one worker, what a cache lacks is evaluated at once.

### AuditRules (`runner.py`, `_audit_rule`, `_rematch_cached_record`, `_build_funnel`, `_exclusion_counts`; `audit/matching.py`, `models.py`, `evaluator.py`)

A state is a database, a list of target rules and the list of records of the rules audited so
far; `AuditDependency` appends what `Audit` makes of one (a member of `Dependencies`, what occurs
in results files), `_audit_rule` with every step and early return: validation, bounds, vacuity,
counts by the meaning of the SQL, confidence, category, and the lookup by canonical key, by
subsumption (homomorphism with a head mapping) or by what both derive on the database.
`LoadTarget` reads one target rule more, `ReuseCache` rematches all records. Equality and inequality
are SQL's: neither holds of a NULL (`SqlEqual`, `SqlDiffers`). A POPPER head keeps its columns in the
order of the table (`sorted` is false), and `_same_head_shape` then passes it over. Subsumption and
static vacuity reason about databases without NULLs, which is what the paper assumes
(`docs/marita-paper-conformance.md:60-62`): those halves of `RecallIsSound` and
`CategoryMatchesDatabase` are stated for such databases, the others for all.

## 4. The runs

| Run | Question | Bounds |
|---|---|---|
| `AuditQueue` | safety of the queue in its regime, workers killed anywhere, also in recovery; it implements `AuditJobs` | 2 jobs, 3 workers, 2 attempts, 3 claims |
| `AuditQueue_hostile` | no job is lost whatever is slow, old or killed | 1 job, 2 workers, 2 attempts, 3 claims |
| `AuditRun` | finalisation by three hosts, two of which may die; progress of queue and reports | 1 job, 3 hosts, 3 attempts |
| `AuditStart` | starting, dying, restarting, resuming on both hosts | 1 job, 2 hosts, 2 launches each, 2 attempts |
| `AuditShard` | rows and checkpoints over attempts that are killed, interrupted, resumed, redone and overtaken | 1 database, 2 shards, 2 rules, 2 workers, 3 attempts |
| `PaperPipeline` | commands, verdicts, stage barrier and completion over late jobs and a kill | 2 stages of 1 job, a host and 2 coordinators, 1 kill of the host or of one coordinator |
| `CommandRun` | status, files and processes of one run under all limits and signals | the 3 kinds of command, at most 2 external calls |
| `PaperBenchmark` | exit code, e-mail and summary of hosts that are signalled or killed, with an earlier launch's results or none | 2 hosts, 3 databases, 2 algorithms (2 workers and 1), 1 launch each, 2 faults on one host |
| `Discovery` | the search finds each rule once with its exact support, and restores the globals | 3 databases, 2 sessions one after the other, caches of 12 and 2 entries, 1 failed query |
| `AuditFlow` | report and cache of successive commands over changing inputs | 3 shards on 2 databases, 5 targets, 2 pool processes, 2 scopes, 2 commands, 1 change, 1 failure or interrupt, 1 kill |
| `AuditRules` | categories, matches and tables | 4 databases, one of them missing and one with NULLs, up to 3 of 19 rules in every role and order, 2 thresholds, 2 coverages |
| `AuditRules_reuse` | a violation, see below | the same rules and databases, 1 threshold, 1 coverage |

Why these are enough to be interesting. *Queue*: three workers are an owner, a recoverer and one
more that recovers or claims at the same time; a job hides from a listing only when one owner is
dead, a second worker requeues and a third one looks. Two jobs let a worker hold one while its
old listing names the other. Two attempts reach both outcomes of a recovery (requeue, give up).
`MaxClaims` is above `MaxAttempts`, so the bound on claims does not hide a claim too many. In
`AuditShard` two rules make "first row" and "row after a checkpoint" different, two shards make
an attempt with one completed shard and one that is not, three attempts let two cut-short ones
precede the last. *Pipeline*: two stages are one barrier; a process that dies, one that takes the
job over and one that waits are three, and two coordinators are needed for the aggregation lock.
*Benchmark*: with three databases and two hosts one host has two commands in flight when the
signal comes, and a second signal or kill can follow. *Search*: the databases have two children
of one table, a reference to itself (occurrences of one table that are interchangeable) and an
edge table with two references to one table; the bounds are such that a rule has up to three
occurrences, and both caches are smaller than what the search asks, so entries are evicted.
*AuditFlow*: two shards on one database and one on another, with two processes, make a shard
wait for its database while another overtakes it; the second command sees what the first left.
*AuditRules*: the rules differ in one respect each - order of atoms, numbering of occurrences,
repeated variables, a missing table, an existential head, two heads, the order of the head's columns,
no join, unparsed - and the
databases make them exact, approximate, vacuous or missing, one of them by its NULLs. Every pair of a target rule and an
audited one occurs, and every set of two audited ones, from which the totals are made.

Deadlock is checked in the runs of the queue, where `Terminated` and its like say where the
system may stop. The other runs end when commands, sessions or rules are used up, so the search
for deadlocks is off there; that nothing stops too early is what their liveness properties say
(`Completes`, `EverythingEnds`, `ControllersEnd`, `SearchEnds`, `CommandEnds`).

`ReportsComplete` is stated for at most one killed worker. That is a limit of the property: each
death can hide one requeued job from one pair of listings, and a host that is to report too
early must be deceived twice, by its worker's drain test and by `queue_is_complete`. Four hosts,
which it would take to show that, are beyond the run's bounds.

Fairness. `AuditRun`: weak, for each live process' next step, since each is an operating system
process that only waits for files, and for ageing, since time goes on; not for kills, not for
`WriteFails`. `RunMakesProgress` has an escape, "or all workers have stopped": an idle worker can
drain in the moment a requeue hides the last job from it, and if the one that requeued it dies
then, nobody is left. `PaperPipeline`: the same, `Work` and `Age` of each process; `Start` is not
fair (a coordinator that is never started never aggregates), and `Orphaned` lists the ends the
code itself leaves no way out of. `CommandRun`: the caller's thread, time, the alarm, and the
acts of a process that has been signalled; nothing of the search, the tool or the memory
monitors, which may hang or be late. `PaperBenchmark`: each controller's `Step`, which includes
the end of a command (that is `EverythingEnds` of `CommandRun`). `Discovery`: a session that is
live keeps moving. `AuditFlow`: the command, and each pool process' shard.

### Where the code and its documentation differ

One run expects a violation.

* `AuditRules_reuse`. `docs/rule-audit.md:72` says that a reused cache keeps the stored evaluation of
  each rule and recomputes only matching and reports. A record is rematched by parsing its stored
  canonical rule, whose atoms are joined with ` & `, with a parser that splits at the conjunction
  sign: a rule with two body atoms becomes `parse_failed`, is no longer matched, and keeps its
  category (`runner.py:431`).

Elsewhere a property says exactly in which case the code does not keep what the documentation
promises, and that there is no other one. The case is real: without it TLC finds the property
violated.

* `ReportsComplete`, against "written once" of `docs/rule-audit.md:62`. The marker is tested before
  the lock is taken and not again (`runner.py:716-726`): a host that is slow between the two (`late`)
  writes the final reports again after another has written them, marked them and freed the lock.
  Nobody else does, and never two at a time.
* `RowsComplete`, against `docs/rule-audit.md:199`, `audit_rules.csv` contains one row per audited
  competitor rule. The row is appended and then counted in the state file (`runner.py:874-876`): an
  attempt that is cut short in between (`cuts`) leaves a row that a resumed audit appends again. The
  file of a completed shard has exactly that many rows more than rules, each beside the one it repeats,
  and none is missing.
* `StartsKeepOneFile`, against `docs/rule-audit.md:31-33` and `:60`, one job per database and the same
  command with `--resume` on every server. `_find_job_path` looks into one directory after the other
  (`distributed.py:294`): a stale lease requeued between two lookups (`slipped`) is in none of them,
  the job is created a second time, and two workers own it. Hosts that start while others work do no
  other harm.
* `OnlyTornOrResumedMislead`, against `docs/rule-audit.md:102-105`, signatures are validated before
  reuse. The cache's rows are written before its manifest (`runner.py:1849`): killed in between, a
  command of another scope leaves its rows under the old manifest (`torn`). The state's manifest has
  no signature of the databases (`runner.py:1009-1043`): a database that is replaced before
  `--resume` has its old rows reported, cached under the new signature, and reused (`resumed`).
* `TablesAgree`, against `docs/rule-audit.md:189`, partition-invariant checks. With `--coverage
  instance` a rule that is covered on the instance is comparable and counts as none of the three
  matches that `_partition_checks` adds up (`runner.py:2091-2093`): the check is False, and the report
  then says that no paper claim is supported (`runner.py:2278`), although the tables agree.
* `SuccessIsBacked`, against `docs/rule-audit.md:66-68`, a success is complete. MARITA's own time limit
  ends the search with a partial result and the status success (`ownLimit`,
  `algorithms/marita.py:310`); the batch alarm may be taken for a failed query (`swallowed`); a SIGTERM
  from outside makes `marita run` exit with 0, which the benchmark records as a success (`strayed`,
  `cli/run.py:35-41`). A success may lack its metrics.
* `Completes` of `PaperPipeline`: `Orphaned` lists what nobody clears away. A verdict that a killed
  process left half written makes the aggregation raise; an initialisation or an aggregation that
  raised gives its lock back, but those who had found it taken wait for ever.
* `StageBarrier`, `VerdictOnce` and `CompleteMeansAll`: the pipeline's claim keeps the old mtime of a
  pending file (`LateStages`), so a job can be taken from its live claimer (`robbed`) and may run
  beside the next stage.

Constants rule out the following, and changing them shows it:

* `QueueAges = TRUE` in `AuditQueue`: a job that waited in `pending/` longer than `stale_after` can
  get two owners, since the claim's rename keeps the old mtime (`distributed.py:127`) and until the
  lease is rewritten it looks abandoned. In `AuditStart` this matters more than elsewhere: a queue that
  is resumed the next day has old files in `pending/`. What the runs and theorems of the regime say
  then holds only of jobs whose files have been written since.
* `CrashInRecovery = TRUE` with `RunMakesProgress`: a worker killed inside `recover_stale_jobs` leaves
  the recovery lock, and that lease is never recovered.
* `Timely = FALSE`: a worker that is slower than `stale_after` shares its job. `NoJobLost` still
  holds then (`NoJobIsLost`).
* `Overlap = TRUE` in `Discovery`: two suspended sessions restore each other's globals.

And two things no property says: the search keeps no rule whose head has two or more joined columns
(`algorithms/marita.py:331`), which `SearchIsExhaustive` leaves out; and an invalid number of workers
ends a benchmark without an e-mail (`cli/paper_benchmark.py:347`, outside of `try`), although
`docs/cli.md:189` promises an attempt on uncaught exceptions: `MailTellsOutcome` says "at most one".

## 5. What is proved

The theorems hold for every value of the constants that their modules' `ASSUME`s admit: any
number of jobs, workers, hosts, shards, rules, stages, databases, commands and kills, kills at
any step included. The assumptions are `AttemptsAssumption`, `EnvironmentAssumption` and
`NoneAssumption` (`AuditQueue`), `NoOwnerAssumption` (`AuditJobs`), `StartAssumption`
(`AuditStart`), `ShardAssumption`, `PipelineAssumption`, `BenchmarkAssumption`,
`CommandAssumption`, `FlowAssumption`, `DiscoveryAssumption` and `RulesAssumption`. They say of
what kind each constant is, and no more than that except: `MaxAttempts` is positive and `MaxClaims`
not below it, there are hosts and lists have no repetitions in the benchmark, a database has
finitely many tables with finitely many rows, a rule that has been parsed is a list of atoms with
finitely many columns (`WellFormed`), and an absent value is none of those it stands beside.

| Theorem | Says | Assumes besides |
|---|---|---|
| *AuditQueue_proofs* | | |
| `TypeCorrect` | `[]TypeOK` | - |
| `NoJobIsLost` | `[]NoJobLost` | - |
| `OwnershipKept`, `AccountKept` | the two inductive invariants | `Timely`, not `QueueAges` |
| `OneFileEach`, `OwnersExclusive`, `LoopsDoNotRaise` | `[]OneFile`, `[]OneOwner`, `[]NeverRaised` | the same |
| `ClaimsBounded` | `[]AttemptsBounded` | the same |
| `QueueImplementsService` | `ImplementsService`: the queue refines `AuditJobs` | the same |
| *AuditHosts_proofs* | | |
| `MarkerIsHonest` | `[]MarkerMeansReports` | - |
| `RunKept`, `ReportsAreComplete` | the inductive invariant, `[]ReportsComplete` | `Timely`, not `QueueAges` |
| `StartKept`, `ReadyIsComplete` | the inductive invariant, `[]ReadyMeansComplete` | - |
| `RestartKept`, `StartsKeepFiles` | the inductive invariant, `[]StartsKeepOneFile` | `Timely`, not `QueueAges` |
| *AuditWork_proofs* | | |
| `ShardsKept` | the inductive invariant | - |
| `RowsAreComplete`, `CheckpointsAreCovered` | `[]RowsComplete`, `[]CheckpointCovered` | - |
| `CompletedStays` | `CompletedForGood`, an action property | - |
| `KeySays`, `SupportTransfers`, `SameVerdict` | what a canonical key tells, that subsumption is sound, that a key has one verdict | - |
| `RulesKept` | the inductive invariant | - |
| `RecallsAreSound`, `CategoriesAreRight`, `CoverageIsKept`, `TablesAlwaysAgree` | `[]RecallIsSound`, `[]CategoryMatchesDatabase`, `[]CoverageIsDerived`, `[]TablesAgree` | - |
| *PaperPipeline_proofs* | | |
| `PipelineKept` | the inductive invariant | - |
| `CommandsRunOnce`, `StagesKeepApart`, `VerdictsAgree`, `CompleteIsAll` | `[]JobRunsOnce`, `[]StageBarrier`, `[]VerdictOnce`, `[]CompleteMeansAll` | - |
| *PaperBenchmark_proofs* | | |
| `BenchmarkKept` | the inductive invariant | - |
| `CodesAreKept`, `MailIsTrue` | `[]CompletedMeansAll`, `[]MailTellsOutcome` | - |
| `RunsAreKept` | `SummaryKeeps`, an action property | - |
| *AuditFlow_proofs* | | |
| `FlowKept` | the inductive invariant | - |
| `PoolStaysContained`, `OnlyThoseMislead`, `ReportIsComplete` | `[]PoolIsContained`, `[]OnlyTornOrResumedMislead`, `[]ReportCoversSuccesses` | - |
| *CommandRun_proofs* | | |
| `CommandKept` | the inductive invariant | - |
| `SuccessesAreBacked` | `[]SuccessIsBacked` | - |
| `ResultsAreLast` | `ResultIsLast`, an action property | - |
| *Discovery_proofs* | | |
| `TypesKept` | `[]TypeOK`: the types, what the caches hold, the stack | - |
| `NoRuleTwice` | `[]RulesAreDistinct` | - |
| `GlobalsAlwaysRestored`, `SupportsAreExact` | `[]GlobalsRestored`, `[]SupportIsExact` | not `Overlap` |

Each inductive invariant was first model-checked on the instance of its component's run.
`AuditWork_proofs` is about two modules, `AuditShard` and `AuditRules`: the work on a shard, and on
a rule of it.

*AuditQueue: types* need `LocalOK`: where a worker's place in the loop says that it uses a path,
a copy or a verdict, it has one of the right kind.

*No job lost* holds in any regime, because no single operation takes a job's last file away:
`DirectoriesKept` is proved of each write, move and rename, and `NextKept` of each step.

*Ownership.* `OneOwner` is not inductive. A recoverer decides on an old reading and acts later; a
holder writes back what it read earlier. `Ownership` adds what nothing can take back. A lease that
was stale when a worker noted the time has no live holder (`Abandoned`): a live holder's lease has a
fresh heartbeat, or none and a fresh file (`Holding`), and a lease never gets a new holder because
every claim has a new token (`TokensNew`). A recoverer has the lease's lock (`Locking`), so from its
judgement to its move the file stays (`Recovering`). Hence a file that is rewritten exists, and the
rewrite makes no second one (`WriteOneFile`, `MoveOneFile`). Files in `pending/` are young
(`PendingYoung`), which is exactly what `QueueAges` takes away, and the copies that
holders write back carry their token (`CopySigned`). One lemma per part of the loop shows that its
steps preserve all of that.

*Attempts.* The attempt in a file is at least the number of attempts of its job that are used up, by a
claim or by a recovery that was broken off (`Used`), and more than that in `pending/` and in whatever
is about to go there, the recoverer's copy included (`Attempts`). A claim therefore never exceeds the
attempt it reads.

*The queue implements its service.* Each step of the queue is a step of `AuditJobs` or a stutter;
the one that needs an argument is giving up, which the service allows only after `MaxAttempts`
starts. For that, attempts must not run ahead of what is used up either (`Level`): only a lease that its
recoverer is about to move, or died before moving, carries the attempt of the next claim, and that
lease is locked; an interrupt that frees the lock uses the attempt up, which is `WriteOff`.

*AuditRun.* The first half of `ReportsComplete`, one writer at a time, and the marker's honesty
are `MainOK`: who writes or marks holds the lock. Reports that nobody holds the lock for have their
marker, and after the marker only late hosts get to the lock (`Once`). The second half counts. Every claim but the last
has cost a worker its life (`Toll`), and `Unseen` says what a host knows of a job by the listings
in which it has not seen it: to miss it in the drain test it must have been requeued once, to miss
it again in `queue_is_complete` a second time, and that makes two dead workers.

*AuditStart.* `Locked` and `GoneThrough` give `ReadyMeansComplete` in any regime. For restarts
(`RestartOK`) a host's four lookups are not atomic, and others go on working meanwhile: what it has
found out must still hold when it creates the file (`Found`). A job moves in the direction in which
the lookups go, but for a requeue, and that is `slipped`, until which the invariant of the queue holds.
`Account` keeps the attempts of failed jobs, which `--resume` advances.

*AuditShard.* `FileOK(c, p, m)` says of the rows `c` and a checkpoint `p`: each of the first `p`
rules has a row, rows go on or repeat, the last one is at most one ahead, and exactly `m` rows are
repetitions or ahead; `m` is the number of attempts that were cut short after a row (`cuts`), and one
more for a worker that is between a row and its checkpoint now (`Between`). Who works on a job that
was not taken from it is its owner and the reverse (`WorkersOwn`, `OwnersWork`), so the files a
worker has read are still as it left them (`OthersOK`, `HereOK`) and between row and checkpoint
exactly one row is ahead. Proved for the abstract `AuditJobs`, which the queue implements.

*AuditRules.* The invariant (`RulesOK`) is short: a record is the verdict on its rule in the
database and the target of now (`Verdicts`), and the cache holds under a key what the target rules
of that key derive (`CacheOK`). It is kept because the target is complete before the first record,
and because a cache that holds no more than it should changes no verdict (`AuditStable`). The work
is in what a verdict is. Rules of one canonical key are `Alike`: one becomes the other by moving
atoms and renaming variables. For that the sort of `canonical_key` must be a permutation, which it
is if its order is a strict total one (`PrecedesOrders`, `SortedPermutes`), and numbering variables
by where they are read first must not mix them up (`NumbersDiffer`, `NormalizedSays`). Alike rules
pass the same tests, and matches of one, moved, are matches of the other with as many different
assignments (`MovedJoin`, `AsManyAssignments`); so they derive the same rows, are matched with the
same target rule and have one verdict (`SameVerdict`; under instance coverage if their heads list the
columns in one order), which is why the cache may be keyed by the key and the totals may count any
record of a rule. Without NULLs (`Clean`) support and predictions are equal when every match of the
body extends to the head (`CountsSay`): a subsumed rule's match is pulled back along
the homomorphism (`PulledBack`), extended there, and the head tuple fits (`WithHead`); a head that
is in the body extends by itself (`EntailedSupported`), and atoms forced to be one tuple have no
match by distinct ones (`ForcedJoinsNothing`).

*PaperPipeline.* One process at a time has a claim on a job, counting those that take it over
(`OneClaimer`); what is taken over is of a process that is gone, unless the job was robbed, as
jobs of `LateStages` may be (`TakenOver`, `Written`); a job is in `pending/`, leased or judged (`Kept`); a stage that
somebody has left is judged, and none of its jobs is running (`Settled`). A process has no
invariant of the directories it lists one after the other; what holds is that jobs of a stage
never return to `pending/` once it is empty.

*AuditFlow.* A shard in flight is of the plan and marks its database busy, and no two are of one
database (`Contained`); a planned shard is waiting, in flight or completed (`Covered`); completed
state is of its manifest's scope (`StateSigned`). Versions only grow, and every row is of a
version that was there when it was made (`RowsInPast`). The cache manifest vouches that a row is not
older than its signature (`RowsVouched`), unless it is torn or of a resumed command, and a reuse
requires that to be the current signature: so the row is of that very version (`ReusedMatch`).
`ReportCoversSuccesses` follows from what the plan admits (`AuditableMeans`).

*PaperBenchmark.* The shares of the hosts are disjoint and cover the databases, by index modulo
the number of hosts (`ShardsDisjoint`, `ShardsCover`). A controller's results are, at every place,
those of the algorithms behind it and of the finished commands of the current one (`Accounted`),
and what it writes holds them (`Holds`); that the counts compared in the e-mail agree exactly when
the sets do is shown by a bijection (`Mailed`).

*CommandRun.* The hazard is an exit code 0 that is not one: a command that is told to stop ends
orderly with whatever it has. `Condemned` is why it is not taken for a success: whoever sends
SIGTERM has first noted that where the outcome is decided, unless it came from outside (`strayed`).
`Found`, `CodeBacked` and `StatusBacked` follow result, files and code from the search to the status,
`MetricsAgree` that metrics which tell of another outcome are only written by a command that has it;
`ToolContained` that no external tool outlives a command that succeeds.

*Discovery.* The types say of each cache that it holds true answers only. The analysis cache
returns the classes of a candidate with the same pairs in another order, which is right because
the classes depend on the set of pairs (`SamePairsSameClasses`); a failed query yields 0, which is
not cached and never reaches a threshold of at least 1. `NoRuleTwice` follows the keys from `emitted`
to the rules handed out, and `GlobalsOK` the globals through the sessions; both go by the six kinds
of steps a session has (`Kinds`). For `SupportsAreExact` the count of the generated SQL must be the number of head rows it
stands for: the SQL counts distinct combinations of one column per equality class of the head,
under equalities with one member of each class, and `SupportCounts` shows that neither
loses a distinction, by a bijection (`SameCount`).

Only model-checked:

* liveness under fairness (`RunMakesProgress`, `Completes`, `EverythingEnds`, `ControllersEnd`,
  `SearchEnds`, `CommandEnds`), which is out of the prover's reach;
* `SearchIsExhaustive`: that the depth-first search leaves out no rule is an induction over
  candidates, which the provers cannot do.

## 6. What is not modelled

* Queue and distributed run: the manifest and the fingerprints `--resume` compares; `--reset-state`
  and the `--status` views of a distributed run; the heartbeat thread that outlives the join in
  `stop`; torn reads (the queue's writes are atomic renames); `_initialize_state`, which tests for a
  state file and then writes it, and may reset one that another host has just advanced; plan and
  configuration errors before the queue is touched; the wall clock, beyond the ages above.
* Audit on one machine: combinations of `--status` with other options, the Markdown report's wording,
  samples and JSON views.
* Rule evaluation: how displayed rules are parsed and AMIE's triples translated; only whether a rule
  parses is modelled. It is string processing without state.
* Pipeline and benchmark: configuration files, the numbers of the tables, the text of e-mails; more
  than one worker thread per pipeline process.
* Batch: the loop over databases around one run, reports and charts.
* Search: selection of compatible attributes by overlap statistics beyond a threshold on shared values,
  existential dependencies, persistence of the graph on disk.
* Database access: connections, drivers, import and conversion; datasets; what each baseline's wrapper
  writes for its tool and reads from it. Sequential I/O: what the models need of it is that it
  succeeds or raises, and both happen in `AuditShard` and `CommandRun`.
