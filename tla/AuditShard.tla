----------------------------- MODULE AuditShard -----------------------------
(***************************************************************************)
(* What a worker does with the database it owns (audit/runner.py,          *)
(* _run_audit_shard): for every competitor shard of the database it audits *)
(* the rules one by one, appends a row to the shard's audit_rules.csv and  *)
(* then checkpoints the number of processed rules in the shard's state     *)
(* file.  The job service underneath is AuditJobs, which AuditQueue        *)
(* implements; a lease assertion holds iff the service says so.            *)
(***************************************************************************)
EXTENDS AuditJobs, Sequences, FiniteSets

CONSTANTS
    Shards,        \* competitor shards per database, audited in this order: 1 .. Shards
    Rules,         \* rules per shard, in source order: 1 .. Rules
    ResumeModes,   \* whether hosts run with --resume
    Mortal,        \* the workers that may be killed or interrupted
    Revocable,     \* the lease of a slow worker may be given to another one
    MaxStray       \* bound: rows without a lease counted per attempt

ASSUME ShardAssumption == /\ Shards \in Nat \ {0}
                          /\ Rules \in Nat
                          /\ ResumeModes \subseteq BOOLEAN
                          /\ Mortal \subseteq Worker
                          /\ Revocable \in BOOLEAN
                          /\ MaxStray \in Nat \ {0}

Shard == Job \X (1 .. Shards)

VARIABLES
    csv,      \* the rows of each shard's audit_rules.csv
    state,    \* each shard's state file: status and processed_rules
    at,       \* where each worker is
    job,      \* the database it works on
    nth,      \* which shard of it
    pos,      \* its processed_rules
    resume,   \* its config.resume
    revoked,  \* databases of which a live worker has lost the lease
    stray,    \* rows it appended in this attempt after it had lost its lease
    cuts      \* history: attempts on a shard's file that ended between a row and its checkpoint

wvars == <<csv, state, at, job, nth, pos, resume, revoked, stray, cuts>>
svars == <<jvars, wvars>>

At == {"idle", "shard", "state", "open", "init", "before", "audit", "append",
       "checkpoint", "outputs", "complete", "fail", "over", "finish", "dead"}
Status == {"pending", "running", "completed", "failed", "interrupted"}

Cur(w) == <<job[w], nth[w]>>

(* _assert_lease_owned.                                                    *)
OwnsJob(w) == owner[job[w]] = w

LeaseAsserted(w) == OwnsJob(w)

MoveTo(w, label) == at' = [at EXCEPT ![w] = label]

WriteState(w, status, processed) ==
    state' = [state EXCEPT ![Cur(w)] = [status |-> status, processed |-> processed]]

ShardInit ==
    /\ JobsInit
    /\ csv = [s \in Shard |-> <<>>]
    /\ state = [s \in Shard |-> [status |-> "pending", processed |-> 0]]
    /\ at = [w \in Worker |-> "idle"]
    /\ job = [w \in Worker |-> None]
    /\ nth = [w \in Worker |-> 1]
    /\ pos = [w \in Worker |-> 0]
    /\ resume = [w \in Worker |-> FALSE]
    /\ revoked = {}
    /\ stray = [w \in Worker |-> 0]
    /\ cuts = [s \in Shard |-> 0]

-----------------------------------------------------------------------------
(* A worker of a host that was or was not started with --resume gets a job.*)
Begin(w, j) ==
    /\ at[w] = "idle"
    /\ Start(w, j)
    /\ job' = [job EXCEPT ![w] = j]
    /\ nth' = [nth EXCEPT ![w] = 1]
    /\ \E r \in ResumeModes : resume' = [resume EXCEPT ![w] = r]
    /\ stray' = [stray EXCEPT ![w] = 0]
    /\ MoveTo(w, "shard")
    /\ UNCHANGED <<csv, state, pos, revoked, cuts>>

(* The assertion before each shard, and the one after the last.            *)
NextShard(w) ==
    /\ at[w] = "shard"
    /\ MoveTo(w, CASE ~ LeaseAsserted(w) -> "over"
                   [] LeaseAsserted(w) /\ nth[w] > Shards -> "finish"
                   [] OTHER -> "state")
    /\ UNCHANGED <<jvars, csv, state, job, nth, pos, resume, revoked, stray, cuts>>

(* Mutant: without --resume a completed shard is audited again.            *)
SkipsWhenResumed(w) == state[Cur(w)].status = "completed" /\ resume[w]

SkipsShard(w) == state[Cur(w)].status = "completed"

StartIndex(w) == IF resume[w] THEN state[Cur(w)].processed ELSE 0

(* Read the state file: skip a completed shard, else find where to start.  *)
ReadState(w) ==
    /\ at[w] = "state"
    /\ IF SkipsShard(w)
       THEN /\ nth' = [nth EXCEPT ![w] = @ + 1]
            /\ MoveTo(w, "shard")
            /\ UNCHANGED pos
       ELSE /\ pos' = [pos EXCEPT ![w] = StartIndex(w)]
            /\ MoveTo(w, "open")
            /\ UNCHANGED nth
    /\ UNCHANGED <<jvars, csv, state, job, resume, revoked, stray, cuts>>

OpenShard(w) ==
    /\ at[w] = "open"
    /\ WriteState(w, "running", pos[w])
    /\ MoveTo(w, IF pos[w] = 0 THEN "init" ELSE "before")
    /\ UNCHANGED <<jvars, csv, job, nth, pos, resume, revoked, stray, cuts>>

(* Mutant: the rows of an earlier attempt are kept.                        *)
KeepRows(w) == UNCHANGED csv

(* _initialize_rules_csv truncates the file.                               *)
TruncateRows(w) == csv' = [csv EXCEPT ![Cur(w)] = <<>>]

InitRules(w) ==
    /\ at[w] = "init"
    /\ TruncateRows(w)
    /\ MoveTo(w, "before")
    /\ cuts' = [cuts EXCEPT ![Cur(w)] = 0]
    /\ UNCHANGED <<jvars, state, job, nth, pos, resume, revoked, stray>>

AllAudited(w) == pos[w] >= Rules

(* The loop over the rules from the start position, and its first          *)
(* assertion.                                                              *)
NextRule(w) ==
    /\ at[w] = "before"
    /\ MoveTo(w, CASE AllAudited(w) -> "outputs"
                   [] ~ AllAudited(w) /\ LeaseAsserted(w) -> "audit"
                   [] OTHER -> "fail")
    /\ UNCHANGED <<jvars, csv, state, job, nth, pos, resume, revoked, stray, cuts>>

(* Evaluating the rule may raise; then the second assertion.               *)
AuditRule(w) ==
    /\ at[w] = "audit"
    /\ \/ LeaseAsserted(w) /\ MoveTo(w, "append")
       \/ MoveTo(w, "fail")
    /\ UNCHANGED <<jvars, csv, state, job, nth, pos, resume, revoked, stray, cuts>>

AppendRecord(w) ==
    /\ at[w] = "append"
    /\ csv' = [csv EXCEPT ![Cur(w)] = Append(@, pos[w] + 1)]
    /\ stray' = IF OwnsJob(w) \/ stray[w] = MaxStray THEN stray
                ELSE [stray EXCEPT ![w] = @ + 1]
    /\ MoveTo(w, "checkpoint")
    /\ UNCHANGED <<jvars, state, job, nth, pos, resume, revoked, cuts>>

(* Mutant: the checkpoint runs ahead of the row.                           *)
AheadOf(p) == p + 2

After(p) == p + 1

Checkpoint(w) ==
    /\ at[w] = "checkpoint"
    /\ pos' = [pos EXCEPT ![w] = After(@)]
    /\ WriteState(w, "running", After(pos[w]))
    /\ MoveTo(w, "before")
    /\ UNCHANGED <<jvars, csv, job, nth, resume, revoked, stray, cuts>>

(* Load the rows, write the shard's reports (or raise), mark it completed. *)
WriteShardOutputs(w) ==
    /\ at[w] = "outputs"
    /\ MoveTo(w, "complete") \/ MoveTo(w, "fail")
    /\ UNCHANGED <<jvars, csv, state, job, nth, pos, resume, revoked, stray, cuts>>

CompleteShard(w) ==
    /\ at[w] = "complete"
    /\ WriteState(w, "completed", pos[w])
    /\ nth' = [nth EXCEPT ![w] = @ + 1]
    /\ MoveTo(w, "shard")
    /\ UNCHANGED <<jvars, csv, job, pos, resume, revoked, stray, cuts>>

(* The handler of Exception.                                               *)
FailShard(w) ==
    /\ at[w] = "fail"
    /\ WriteState(w, "failed", pos[w])
    /\ MoveTo(w, "over")
    /\ UNCHANGED <<jvars, csv, job, nth, pos, resume, revoked, stray, cuts>>

CutShort(w) ==
    cuts' = IF at[w] = "checkpoint" THEN [cuts EXCEPT ![Cur(w)] = @ + 1] ELSE cuts

(* The handler of KeyboardInterrupt, which may come between any two steps. *)
InterruptShard(w) ==
    /\ w \in Mortal
    /\ at[w] \in {"open", "init", "before", "audit", "append", "checkpoint", "outputs", "complete"}
    /\ WriteState(w, "interrupted", pos[w])
    /\ CutShort(w)
    /\ MoveTo(w, "over")
    /\ UNCHANGED <<jvars, csv, job, nth, pos, resume, revoked, stray>>

(* finish_job; it leaves a lease that is not the worker's own alone.       *)
FinishJob(w) ==
    /\ at[w] \in {"over", "finish"}
    /\ IF OwnsJob(w)
       THEN /\ End(w, job[w])
            /\ phase'[job[w]] = IF at[w] = "finish" THEN "done" ELSE "failed"
       ELSE UNCHANGED jvars
    /\ MoveTo(w, "idle")
    /\ job' = [job EXCEPT ![w] = None]
    /\ pos' = [pos EXCEPT ![w] = 0]
    /\ resume' = [resume EXCEPT ![w] = FALSE]
    /\ nth' = [nth EXCEPT ![w] = 1]
    /\ UNCHANGED <<csv, state, revoked, stray, cuts>>

-----------------------------------------------------------------------------
Kill(w) ==
    /\ w \in Mortal
    /\ at[w] \notin {"idle", "dead"}
    /\ IF OwnsJob(w) THEN Die(w, job[w]) ELSE UNCHANGED jvars
    /\ CutShort(w)
    /\ MoveTo(w, "dead")
    /\ UNCHANGED <<csv, state, job, nth, pos, resume, revoked, stray>>

(* The host is started again.                                              *)
Restart(w) ==
    /\ at[w] = "dead"
    /\ MoveTo(w, "idle")
    /\ job' = [job EXCEPT ![w] = None]
    /\ pos' = [pos EXCEPT ![w] = 0]
    /\ resume' = [resume EXCEPT ![w] = FALSE]
    /\ nth' = [nth EXCEPT ![w] = 1]
    /\ UNCHANGED <<jvars, csv, state, revoked, stray, cuts>>

(* _retry_failed_job, when a host is started with --resume.                *)
RetryFailed(j) ==
    /\ TRUE \in ResumeModes
    /\ phase[j] = "failed"
    /\ starts[j] < MaxAttempts
    /\ phase' = [phase EXCEPT ![j] = "waiting"]
    /\ UNCHANGED <<owner, starts>>

(* The lease of a live worker is found stale and requeued.                 *)
Revoke(j) ==
    /\ Revocable
    /\ owner[j] # None
    /\ phase' = [phase EXCEPT ![j] = IF starts[j] < MaxAttempts THEN "waiting" ELSE "failed"]
    /\ owner' = [owner EXCEPT ![j] = None]
    /\ revoked' = revoked \union {j}
    /\ UNCHANGED <<starts, csv, state, at, job, nth, pos, resume, stray, cuts>>

AuditStep(w) == \/ NextShard(w) \/ ReadState(w) \/ OpenShard(w) \/ InitRules(w)
                \/ NextRule(w) \/ AuditRule(w) \/ AppendRecord(w) \/ Checkpoint(w)
                \/ WriteShardOutputs(w) \/ CompleteShard(w) \/ FailShard(w)
                \/ FinishJob(w)

ServiceStep(j) == (Reclaim(j) \/ WriteOff(j) \/ RetryFailed(j)) /\ UNCHANGED wvars

ShardTerminated == /\ \A w \in Worker : at[w] \in {"idle", "dead"}
                   /\ \A j \in Job : phase[j] \in {"done", "failed"}
                   /\ UNCHANGED svars

ShardNext == \/ \E w \in Worker : \/ \E j \in Job : Begin(w, j)
                                  \/ AuditStep(w) \/ InterruptShard(w)
                                  \/ Kill(w) \/ Restart(w)
             \/ \E j \in Job : ServiceStep(j) \/ Revoke(j)
             \/ ShardTerminated

ShardSpec == ShardInit /\ [][ShardNext]_svars

-----------------------------------------------------------------------------
Completed(s) == state[s].status = "completed"

(* The shards of databases that no two workers have ever worked on at once.*)
Undisturbed == {s \in Shard : s[1] \notin revoked}

(* However attempts end and are resumed or redone, the file of a completed *)
(* shard, and every file of a job that is done, leaves no rule out and is  *)
(* in order.  It is not always what docs/rule-audit.md:199 says of it,     *)
(* "one row per audited competitor rule": the code appends the row and     *)
(* counts it in two steps, and each attempt that was cut short just in     *)
(* between, and whose rows the next one kept, has left exactly one row     *)
(* too many; nothing else does, so that a file none was cut short in is    *)
(* what the document says.  A worker that was overtaken adds no more than  *)
(* the row it was about to append when it last made sure of its lease.     *)
RowsComplete ==
    /\ \A s \in Undisturbed : Completed(s) \/ phase[s[1]] = "done" =>
          /\ \A i \in 1 .. Rules : \E k \in DOMAIN csv[s] : csv[s][k] = i
          /\ \A k \in 1 .. Len(csv[s]) - 1 : csv[s][k + 1] - csv[s][k] \in {0, 1}
          /\ Len(csv[s]) = Rules + cuts[s]
    /\ \A w \in Worker : stray[w] <= 1

(* A checkpoint never counts a rule whose row is not in the file, so that  *)
(* resuming from it is safe.                                               *)
CheckpointCovered == \A s \in Undisturbed :
    \A i \in 1 .. state[s].processed : \E k \in DOMAIN csv[s] : csv[s][k] = i

(* A completed shard stays so: no later owner of its database, with or     *)
(* without --resume, redoes it.                                            *)
CompletedForGood ==
    [][\A s \in Undisturbed : Completed(s) => Completed(s)' /\ csv'[s] = csv[s]]_svars
=============================================================================
