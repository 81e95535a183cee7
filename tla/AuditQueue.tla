----------------------------- MODULE AuditQueue -----------------------------
(***************************************************************************)
(* The shared-directory job queue of the distributed audit                 *)
(* (src/marita/audit/distributed.py) and the loop that every worker        *)
(* process runs on it (audit/runner.py, _distributed_worker_loop).         *)
(*                                                                         *)
(* A job is one database.  Its file is in pending/, in running/ (then      *)
(* named after the claim that took it, and called a lease), in done/ or in *)
(* failed/.  There is no server: workers on several hosts claim, renew,    *)
(* recover and finish jobs by reading, rewriting and renaming these files, *)
(* so one action below is one file system operation, and everything a      *)
(* worker keeps between two of them may be stale.  Initially the queue has *)
(* just been initialised (initialise_queue, modelled by AuditInit): every  *)
(* job is pending, attempt 1.                                              *)
(***************************************************************************)
EXTENDS Integers, FiniteSets

CONSTANTS
    Job,              \* queue jobs, one per database
    Worker,           \* worker processes, on all the hosts
    MaxAttempts,      \* --max-attempts
    MaxClaims,        \* bound: claims of one job that a behaviour may contain
    None,             \* no file, no lease
    Mortal,           \* the workers that may be killed or interrupted
    Timely,           \* a live worker keeps its files younger than stale_after
    QueueAges,        \* files may stay in pending/ longer than stale_after
    CrashInRecovery   \* a worker may be killed while it recovers a lease

(* The k-th claim of job j names a lease path of its own (the uuid token). *)
Claim == Job \X (1 .. MaxClaims)

JobOf(t) == t[1]

(* A queue file: its attempt counter, whether its mtime is older than      *)
(* stale_after, and whether its lease_token is the one in its own path.    *)
File == [attempt : 1 .. MaxAttempts, old : BOOLEAN, signed : BOOLEAN]

ASSUME AttemptsAssumption == /\ MaxAttempts \in Nat \ {0}
                             /\ MaxClaims \in Nat
                             /\ MaxClaims >= MaxAttempts
ASSUME EnvironmentAssumption == /\ Mortal \subseteq Worker
                                /\ Timely \in BOOLEAN
                                /\ QueueAges \in BOOLEAN
                                /\ CrashInRecovery \in BOOLEAN
ASSUME NoneAssumption == None \notin File /\ None \notin Claim /\ None \notin Worker

VARIABLES
    pending,    \* pending/<job>.json
    lease,      \* running/<job>__<host>__<pid>__<token>.json
    done,       \* done/<job>.json
    failed,     \* failed/<job>.json
    beat,       \* the heartbeat file next to a lease: none, fresh or stale
    locked,     \* leases with a .recover.lock directory
    claims,     \* claims of each job so far (names the next token)
    wasted,     \* history: attempts of each job that were counted without a claim
    pc,         \* where each worker is in its loop
    path,       \* the lease path a worker works on: its own, or the one it recovers
    copy,       \* the payload it read and will write back
    seen,       \* rest of its listing of running/, in recover_stale_jobs or read_queue_jobs
    due,        \* the listed leases whose marker was stale when it noted the time
    cand,       \* rest of its listing of pending/, in claim_job or read_queue_jobs
    verdict     \* the directory its file is to be moved to, or how its loop will end

files == <<pending, lease, done, failed, beat, locked, claims, wasted>>
locals == <<path, copy, seen, due, cand, verdict>>
vars == <<files, pc, locals>>

RecoverPC == {"peek", "judge", "rewrite", "move", "unmark"}
HoldPC == {"sign", "resign", "start", "work", "uexists", "uread", "uwrite",
           "fexists", "fread", "fwrite", "fmove", "stop"}
Stopped == {"off", "drained", "raised", "interrupted", "dead"}
PC == RecoverPC \union HoldPC \union Stopped
        \union {"list", "sweep", "claim", "scanpending", "readpending",
                "scanrunning", "readrunning"}
BeatingPC == HoldPC \ {"sign", "resign", "start"}

Verdict == {"none", "pending", "done", "failed", "interrupted", "raise"}

Goto(w, label) == pc' = [pc EXCEPT ![w] = label]

(* Every file of job j that the queue directory holds.                     *)
LeasesOf(j) == {t \in Claim : JobOf(t) = j /\ lease[t] # None}

Finished(j) == j \in done \/ failed[j] # None

(* A live worker that has claimed t and has not yet given it back.         *)
Holds(w, t) == pc[w] \in HoldPC /\ path[w] = t
Held(t) == \E w \in Worker : Holds(w, t)

-----------------------------------------------------------------------------
Init == /\ pending = [j \in Job |-> [attempt |-> 1, old |-> FALSE, signed |-> FALSE]]
        /\ lease = [t \in Claim |-> None]
        /\ done = {}
        /\ failed = [j \in Job |-> None]
        /\ beat = [t \in Claim |-> "none"]
        /\ locked = {}
        /\ claims = [j \in Job |-> 0]
        /\ wasted = [j \in Job |-> 0]
        /\ pc = [w \in Worker |-> "list"]
        /\ path = [w \in Worker |-> None]
        /\ copy = [w \in Worker |-> None]
        /\ seen = [w \in Worker |-> {}]
        /\ due = [w \in Worker |-> {}]
        /\ cand = [w \in Worker |-> {}]
        /\ verdict = [w \in Worker |-> "none"]

-----------------------------------------------------------------------------
(* recover_stale_jobs: list running/, then for each lease take its lock,   *)
(* read it, judge its age, rewrite it, move it, drop its heartbeat.        *)

(* Mutant: a heartbeat does not protect the lease.                         *)
LeaseIsStale(t) == lease[t] # None /\ lease[t].old

(* The marker is the heartbeat file if there is one, else the lease.       *)
MarkerIsStale(t) == IF beat[t] # "none" THEN beat[t] = "stale"
                    ELSE lease[t] # None /\ lease[t].old

(* The time is noted once, then running/ is listed (without heartbeats):   *)
(* a lease can be found stale only if its marker is stale by then.         *)
ListRunning(w) ==
    /\ pc[w] = "list"
    /\ seen' = [seen EXCEPT ![w] = {t \in Claim : lease[t] # None}]
    /\ due' = [due EXCEPT ![w] = {t \in seen'[w] : MarkerIsStale(t)}]
    /\ Goto(w, "sweep")
    /\ UNCHANGED <<files, path, copy, cand, verdict>>

(* Mutant: the lock is taken without looking.                              *)
IsNeverLocked(t) == FALSE

IsLocked(t) == t \in locked

(* mkdir of the recovery lock of one listed lease; a lease that is already *)
(* locked is skipped.                                                      *)
LockLease(w) ==
    /\ pc[w] = "sweep"
    /\ \E t \in seen[w] :
          /\ seen' = [seen EXCEPT ![w] = @ \ {t}]
          /\ \/ /\ IsLocked(t)
                /\ UNCHANGED <<locked, pc, path>>
             \/ /\ ~ IsLocked(t)
                /\ locked' = locked \union {t}
                /\ path' = [path EXCEPT ![w] = t]
                /\ Goto(w, "peek")
    /\ UNCHANGED <<pending, lease, done, failed, beat, claims, wasted, copy, due, cand, verdict>>

(* Mutant: a lease that is left alone stays locked.                        *)
SkipLeaseLocked(w) ==
    /\ path' = [path EXCEPT ![w] = None]
    /\ copy' = [copy EXCEPT ![w] = None]
    /\ Goto(w, "sweep")
    /\ UNCHANGED locked

(* The worker leaves the lease it was looking at alone.                    *)
SkipLease(w) ==
    /\ locked' = locked \ {path[w]}
    /\ path' = [path EXCEPT ![w] = None]
    /\ copy' = [copy EXCEPT ![w] = None]
    /\ Goto(w, "sweep")

(* read_json of the lease.                                                 *)
PeekPayload(w) ==
    /\ pc[w] = "peek"
    /\ \/ /\ lease[path[w]] = None
          /\ SkipLease(w)
       \/ /\ lease[path[w]] # None
          /\ copy' = [copy EXCEPT ![w] = lease[path[w]]]
          /\ Goto(w, "judge")
          /\ UNCHANGED <<locked, path>>
    /\ UNCHANGED <<pending, lease, done, failed, beat, claims, wasted, seen, due, cand, verdict>>

(* Mutants: the counter is not advanced, or without limit.                 *)
SameAttempt(file) == file.attempt
OneMoreAttempt(file) == file.attempt + 1

(* A lease whose last attempt this was fails, any other is requeued.       *)
ExhaustedAttempt(file) == file.attempt >= MaxAttempts

NextAttempt(file) == IF ExhaustedAttempt(file) THEN file.attempt ELSE file.attempt + 1

(* The marker's mtime is at least stale_after before the noted time.       *)
FoundStale(w) == path[w] \in due[w] /\ MarkerIsStale(path[w])

(* Compare the marker's age with stale_after and prepare the new payload.  *)
JudgeLease(w) ==
    /\ pc[w] = "judge"
    /\ \/ /\ ~ FoundStale(w)
          /\ SkipLease(w)
          /\ UNCHANGED verdict
       \/ /\ FoundStale(w)
          /\ verdict' = [verdict EXCEPT ![w] = IF ExhaustedAttempt(copy[w]) THEN "failed"
                                               ELSE "pending"]
          /\ copy' = [copy EXCEPT ![w].attempt = NextAttempt(copy[w])]
          /\ Goto(w, "rewrite")
          /\ UNCHANGED <<locked, path>>
    /\ UNCHANGED <<pending, lease, done, failed, beat, claims, wasted, seen, due, cand>>

(* write_json_atomic replaces path t, or creates it anew if it was moved.  *)
WriteLease(t, file) == lease' = [lease EXCEPT ![t] = [file EXCEPT !.old = FALSE]]

RewriteLease(w) ==
    /\ pc[w] = "rewrite"
    /\ WriteLease(path[w], copy[w])
    /\ copy' = [copy EXCEPT ![w] = None]
    /\ Goto(w, "move")
    /\ UNCHANGED <<pending, done, failed, beat, locked, claims, wasted, path, seen, due, cand, verdict>>

(* Mutant: the target is not written.                                      *)
NotReceived(f, t) == f

(* The file of lease t, as it is now, under its job's name in directory f. *)
Received(f, t) == [f EXCEPT ![JobOf(t)] = [lease[t] EXCEPT !.signed = FALSE]]

(* Path.replace of lease t into another directory.                         *)
MoveLease(t, dir) ==
    /\ lease' = [lease EXCEPT ![t] = None]
    /\ pending' = IF dir = "pending" THEN Received(pending, t) ELSE pending
    /\ done' = IF dir = "done" THEN done \union {JobOf(t)} ELSE done
    /\ failed' = IF dir = "failed" THEN Received(failed, t) ELSE failed

(* The move of a recovered lease.  If the path is gone the exception goes  *)
(* through the finally clause and out of the worker's loop.                *)
RequeueLease(w) ==
    /\ pc[w] = "move"
    /\ \/ /\ lease[path[w]] # None
          /\ MoveLease(path[w], verdict[w])
          /\ Goto(w, "unmark")
          /\ UNCHANGED <<locked, path, seen, due>>
       \/ /\ lease[path[w]] = None
          /\ locked' = locked \ {path[w]}
          /\ path' = [path EXCEPT ![w] = None]
          /\ seen' = [seen EXCEPT ![w] = {}]
          /\ due' = [due EXCEPT ![w] = {}]
          /\ Goto(w, "raised")
          /\ UNCHANGED <<pending, lease, done, failed>>
    /\ verdict' = [verdict EXCEPT ![w] = "none"]
    /\ UNCHANGED <<beat, claims, wasted, copy, cand>>

(* Unlink the recovered lease's heartbeat and remove the lock.             *)
UnmarkLease(w) ==
    /\ pc[w] = "unmark"
    /\ beat' = [beat EXCEPT ![path[w]] = "none"]
    /\ SkipLease(w)
    /\ UNCHANGED <<pending, lease, done, failed, claims, wasted, seen, due, cand, verdict>>

(* An interrupt, or an OSError, while the lock is held: the finally clause *)
(* frees it and the loop ends.  If the lease has been rewritten but not    *)
(* moved, its attempt is counted although nobody gets the job: the next    *)
(* recovery counts on from there.                                          *)
BreakOffRecovery(w) ==
    /\ w \in Mortal
    /\ pc[w] \in RecoverPC
    /\ locked' = locked \ {path[w]}
    /\ wasted' = IF pc[w] = "move" /\ verdict[w] = "pending"
                 THEN [wasted EXCEPT ![JobOf(path[w])] = @ + 1]
                 ELSE wasted
    /\ path' = [path EXCEPT ![w] = None]
    /\ copy' = [copy EXCEPT ![w] = None]
    /\ seen' = [seen EXCEPT ![w] = {}]
    /\ due' = [due EXCEPT ![w] = {}]
    /\ verdict' = [verdict EXCEPT ![w] = "none"]
    /\ Goto(w, "interrupted")
    /\ UNCHANGED <<pending, lease, done, failed, beat, claims, cand>>

-----------------------------------------------------------------------------
(* claim_job: list pending/, rename the first file that is still there to  *)
(* a fresh lease path, read it, sign it.                                   *)

ListPending(w) ==
    /\ pc[w] = "sweep"
    /\ seen[w] = {}
    /\ due' = [due EXCEPT ![w] = {}]
    /\ cand' = [cand EXCEPT ![w] = {j \in Job : pending[j] # None}]
    /\ Goto(w, IF cand'[w] = {} THEN "scanpending" ELSE "claim")
    /\ UNCHANGED <<files, path, copy, seen, verdict>>

(* Mutant: the pending file is copied, not renamed.                        *)
CopyToLease(j, t) ==
    /\ lease' = [lease EXCEPT ![t] = pending[j]]
    /\ claims' = [claims EXCEPT ![j] = @ + 1]
    /\ UNCHANGED pending

(* The lease keeps the mtime of the pending file.                          *)
RenameToLease(j, t) ==
    /\ lease' = [lease EXCEPT ![t] = pending[j]]
    /\ pending' = [pending EXCEPT ![j] = None]
    /\ claims' = [claims EXCEPT ![j] = @ + 1]

ClaimRename(w) ==
    /\ pc[w] = "claim"
    /\ \E j \in cand[w] :
          \/ /\ pending[j] = None
             /\ cand' = [cand EXCEPT ![w] = @ \ {j}]
             /\ Goto(w, IF cand'[w] = {} THEN "scanpending" ELSE "claim")
             /\ UNCHANGED <<pending, lease, claims, path>>
          \/ /\ pending[j] # None
             /\ claims[j] < MaxClaims
             /\ RenameToLease(j, <<j, claims[j] + 1>>)
             /\ path' = [path EXCEPT ![w] = <<j, claims[j] + 1>>]
             /\ cand' = [cand EXCEPT ![w] = {}]
             /\ Goto(w, "sign")
    /\ UNCHANGED <<done, failed, beat, locked, wasted, copy, seen, due, verdict>>

(* A worker's loop ends by an exception that nothing handles.              *)
Raise(w) ==
    /\ path' = [path EXCEPT ![w] = None]
    /\ copy' = [copy EXCEPT ![w] = None]
    /\ Goto(w, "raised")

(* read_json of the new lease; no handler catches FileNotFoundError.       *)
ClaimRead(w) ==
    /\ pc[w] = "sign"
    /\ \/ /\ lease[path[w]] = None
          /\ Raise(w)
       \/ /\ lease[path[w]] # None
          /\ copy' = [copy EXCEPT ![w] = [lease[path[w]] EXCEPT !.signed = TRUE]]
          /\ Goto(w, "resign")
          /\ UNCHANGED path
    /\ UNCHANGED <<files, seen, due, cand, verdict>>

ClaimWrite(w) ==
    /\ pc[w] = "resign"
    /\ WriteLease(path[w], copy[w])
    /\ copy' = [copy EXCEPT ![w] = None]
    /\ Goto(w, "start")
    /\ UNCHANGED <<pending, done, failed, beat, locked, claims, wasted, path, seen, due, cand, verdict>>

(* LeaseHeartbeat.start writes the heartbeat, then starts its thread.      *)
StartHeartbeat(w) ==
    /\ pc[w] = "start"
    /\ beat' = [beat EXCEPT ![path[w]] = "fresh"]
    /\ Goto(w, "work")
    /\ UNCHANGED <<pending, lease, done, failed, locked, claims, wasted, locals>>

-----------------------------------------------------------------------------
(* The audit of the job's shards.  What it writes is modelled by           *)
(* AuditShard; here it ends, and its lease assertions see the lease.       *)

OwnsLease(w) == lease[path[w]] # None /\ lease[path[w]].signed

(* All shards done, and the last _assert_lease_owned passes.               *)
WorkSucceeds(w) ==
    /\ pc[w] = "work"
    /\ OwnsLease(w)
    /\ verdict' = [verdict EXCEPT ![w] = "done"]
    /\ Goto(w, "uexists")
    /\ UNCHANGED <<files, path, copy, seen, due, cand>>

(* A shard raises, or a lease assertion does.                              *)
WorkFails(w) ==
    /\ pc[w] = "work"
    /\ verdict' = [verdict EXCEPT ![w] = "failed"]
    /\ Goto(w, "uexists")
    /\ UNCHANGED <<files, path, copy, seen, due, cand>>

WorkInterrupted(w) ==
    /\ pc[w] = "work"
    /\ w \in Mortal
    /\ verdict' = [verdict EXCEPT ![w] = "interrupted"]
    /\ Goto(w, "uexists")
    /\ UNCHANGED <<files, path, copy, seen, due, cand>>

(* update_lease: exists, read, compare the token, write back.              *)
UpdateExists(w) ==
    /\ pc[w] = "uexists"
    /\ Goto(w, IF lease[path[w]] # None THEN "uread" ELSE "fexists")
    /\ UNCHANGED <<files, locals>>

(* If the file went away after the existence test, the exception of the    *)
(* read replaces whatever was being raised, and the job is to fail.        *)
UpdateRead(w) ==
    /\ pc[w] = "uread"
    /\ \/ /\ lease[path[w]] = None
          /\ verdict' = [verdict EXCEPT ![w] = "failed"]
          /\ Goto(w, "fexists")
          /\ UNCHANGED copy
       \/ /\ lease[path[w]] # None
          /\ ~ OwnsLease(w)
          /\ Goto(w, "fexists")
          /\ UNCHANGED <<copy, verdict>>
       \/ /\ OwnsLease(w)
          /\ copy' = [copy EXCEPT ![w] = lease[path[w]]]
          /\ Goto(w, "uwrite")
          /\ UNCHANGED verdict
    /\ UNCHANGED <<files, path, seen, due, cand>>

UpdateWrite(w) ==
    /\ pc[w] = "uwrite"
    /\ WriteLease(path[w], copy[w])
    /\ copy' = [copy EXCEPT ![w] = None]
    /\ Goto(w, "fexists")
    /\ UNCHANGED <<pending, done, failed, beat, locked, claims, wasted, path, seen, due, cand, verdict>>

(* finish_job: exists, read, compare the token, write back, move.          *)
FinishExists(w) ==
    /\ pc[w] = "fexists"
    /\ Goto(w, IF lease[path[w]] # None THEN "fread" ELSE "stop")
    /\ UNCHANGED <<files, locals>>

(* The file vanished under finish_job.  Finishing as "done" is inside the  *)
(* try: the job is finished again, as "failed".  Finishing as "failed" is  *)
(* inside a handler: the exception ends the loop.                          *)
FinishVanished(w) ==
    /\ verdict' = [verdict EXCEPT ![w] = IF @ = "done" THEN "failed" ELSE "raise"]
    /\ Goto(w, IF verdict[w] = "done" THEN "fexists" ELSE "stop")

FinishRead(w) ==
    /\ pc[w] = "fread"
    /\ \/ /\ lease[path[w]] = None
          /\ FinishVanished(w)
          /\ UNCHANGED copy
       \/ /\ lease[path[w]] # None
          /\ ~ OwnsLease(w)
          /\ Goto(w, "stop")
          /\ UNCHANGED <<copy, verdict>>
       \/ /\ OwnsLease(w)
          /\ copy' = [copy EXCEPT ![w] = lease[path[w]]]
          /\ Goto(w, "fwrite")
          /\ UNCHANGED verdict
    /\ UNCHANGED <<files, path, seen, due, cand>>

FinishWrite(w) ==
    /\ pc[w] = "fwrite"
    /\ WriteLease(path[w], copy[w])
    /\ copy' = [copy EXCEPT ![w] = None]
    /\ Goto(w, "fmove")
    /\ UNCHANGED <<pending, done, failed, beat, locked, claims, wasted, path, seen, due, cand, verdict>>

FinishMove(w) ==
    /\ pc[w] = "fmove"
    /\ \/ /\ lease[path[w]] # None
          /\ MoveLease(path[w], IF verdict[w] = "done" THEN "done" ELSE "failed")
          /\ Goto(w, "stop")
          /\ UNCHANGED verdict
       \/ /\ lease[path[w]] = None
          /\ FinishVanished(w)
          /\ UNCHANGED <<pending, lease, done, failed>>
    /\ UNCHANGED <<beat, locked, claims, wasted, path, copy, seen, due, cand>>

(* The heartbeat is stopped and unlinked; the loop goes on or ends.        *)
StopHeartbeat(w) ==
    /\ pc[w] = "stop"
    /\ beat' = [beat EXCEPT ![path[w]] = "none"]
    /\ path' = [path EXCEPT ![w] = None]
    /\ verdict' = [verdict EXCEPT ![w] = "none"]
    /\ Goto(w, CASE verdict[w] = "raise" -> "raised"
                 [] verdict[w] = "interrupted" -> "interrupted"
                 [] OTHER -> "list")
    /\ UNCHANGED <<pending, lease, done, failed, locked, claims, wasted, copy, seen, due, cand>>

-----------------------------------------------------------------------------
(* read_queue_jobs, as the idle worker uses it: pending/ is listed and its *)
(* files are read one by one, then running/; a file that is gone when it   *)
(* is to be read is skipped.  The worker leaves its loop when it has read  *)
(* none.                                                                   *)

ScanPending(w) ==
    /\ pc[w] = "scanpending"
    /\ cand' = [cand EXCEPT ![w] = {j \in Job : pending[j] # None}]
    /\ Goto(w, IF cand'[w] = {} THEN "scanrunning" ELSE "readpending")
    /\ UNCHANGED <<files, path, copy, seen, due, verdict>>

ReadPending(w) ==
    /\ pc[w] = "readpending"
    /\ \E j \in cand[w] :
          \/ /\ pending[j] # None
             /\ cand' = [cand EXCEPT ![w] = {}]
             /\ Goto(w, "list")
          \/ /\ pending[j] = None
             /\ cand' = [cand EXCEPT ![w] = @ \ {j}]
             /\ Goto(w, IF cand'[w] = {} THEN "scanrunning" ELSE "readpending")
    /\ UNCHANGED <<files, path, copy, seen, due, verdict>>

ScanRunning(w) ==
    /\ pc[w] = "scanrunning"
    /\ seen' = [seen EXCEPT ![w] = {t \in Claim : lease[t] # None}]
    /\ Goto(w, IF seen'[w] = {} THEN "drained" ELSE "readrunning")
    /\ UNCHANGED <<files, path, copy, due, cand, verdict>>

ReadRunning(w) ==
    /\ pc[w] = "readrunning"
    /\ \E t \in seen[w] :
          \/ /\ lease[t] # None
             /\ seen' = [seen EXCEPT ![w] = {}]
             /\ Goto(w, "list")
          \/ /\ lease[t] = None
             /\ seen' = [seen EXCEPT ![w] = @ \ {t}]
             /\ Goto(w, IF seen'[w] = {} THEN "drained" ELSE "readrunning")
    /\ UNCHANGED <<files, path, copy, due, cand, verdict>>

-----------------------------------------------------------------------------
(* The heartbeat thread of a live owner.                                   *)
Beat(w) ==
    /\ pc[w] \in BeatingPC
    /\ beat[path[w]] # "fresh"
    /\ beat' = [beat EXCEPT ![path[w]] = "fresh"]
    /\ UNCHANGED <<pending, lease, done, failed, locked, claims, wasted, pc, locals>>

(* Time passes.  Timely is what the choice of stale_after and of           *)
(* heartbeat_seconds is meant to give: a live worker renews its heartbeat, *)
(* starts it after a claim and requeues a lease faster than stale_after.   *)
AgeBeat(t) ==
    /\ beat[t] = "fresh"
    /\ Timely => ~ Held(t)
    /\ beat' = [beat EXCEPT ![t] = "stale"]
    /\ UNCHANGED <<pending, lease, done, failed, locked, claims, wasted, pc, locals>>

InTransit(t) == \E w \in Worker : /\ path[w] = t
                                  /\ pc[w] \in {"sign", "resign", "start", "rewrite", "move"}

AgeLease(t) ==
    /\ lease[t] # None
    /\ ~ lease[t].old
    /\ Timely => ~ InTransit(t)
    /\ lease' = [lease EXCEPT ![t].old = TRUE]
    /\ UNCHANGED <<pending, done, failed, beat, locked, claims, wasted, pc, locals>>

AgePending(j) ==
    /\ QueueAges
    /\ pending[j] # None
    /\ ~ pending[j].old
    /\ pending' = [pending EXCEPT ![j].old = TRUE]
    /\ UNCHANGED <<lease, done, failed, beat, locked, claims, wasted, pc, locals>>

(* The process is killed; its files stay as they are.                      *)
Crash(w) ==
    /\ w \in Mortal
    /\ pc[w] \notin Stopped
    /\ pc[w] \in RecoverPC => CrashInRecovery
    /\ Goto(w, "dead")
    /\ path' = [path EXCEPT ![w] = None]
    /\ copy' = [copy EXCEPT ![w] = None]
    /\ seen' = [seen EXCEPT ![w] = {}]
    /\ due' = [due EXCEPT ![w] = {}]
    /\ cand' = [cand EXCEPT ![w] = {}]
    /\ verdict' = [verdict EXCEPT ![w] = "none"]
    /\ UNCHANGED files

-----------------------------------------------------------------------------
Recover(w) == \/ ListRunning(w) \/ LockLease(w) \/ PeekPayload(w) \/ JudgeLease(w)
              \/ RewriteLease(w) \/ RequeueLease(w) \/ UnmarkLease(w)

ClaimJob(w) == ListPending(w) \/ ClaimRename(w) \/ ClaimRead(w) \/ ClaimWrite(w)

Work(w) == StartHeartbeat(w) \/ WorkSucceeds(w) \/ WorkFails(w) \/ WorkInterrupted(w)

Finish(w) == \/ UpdateExists(w) \/ UpdateRead(w) \/ UpdateWrite(w)
             \/ FinishExists(w) \/ FinishRead(w) \/ FinishWrite(w) \/ FinishMove(w)
             \/ StopHeartbeat(w)

Scan(w) == ScanPending(w) \/ ReadPending(w) \/ ScanRunning(w) \/ ReadRunning(w)

(* One step of _distributed_worker_loop.                                   *)
WorkerStep(w) == Recover(w) \/ ClaimJob(w) \/ Work(w) \/ Finish(w) \/ Scan(w)

TimePasses == \/ \E t \in Claim : AgeBeat(t) \/ AgeLease(t)
              \/ \E j \in Job : AgePending(j)

QueueStep == \/ \E w \in Worker : WorkerStep(w) \/ Beat(w) \/ BreakOffRecovery(w) \/ Crash(w)
             \/ TimePasses

(* The bound on claims keeps w from going on.                              *)
OutOfClaims(w) == /\ pc[w] = "claim"
                  /\ \A j \in cand[w] : pending[j] # None /\ claims[j] = MaxClaims

(* Every worker process has ended (or is kept from going on by the bound). *)
Terminated == /\ \A w \in Worker : pc[w] \in Stopped \/ OutOfClaims(w)
              /\ UNCHANGED vars

Next == QueueStep \/ Terminated

Spec == Init /\ [][Next]_vars

(* Every live process is scheduled, and unattended files get old.          *)
Fairness == /\ \A w \in Worker : WF_vars(WorkerStep(w))
            /\ \A t \in Claim : WF_vars(AgeBeat(t)) /\ WF_vars(AgeLease(t))

FairSpec == Spec /\ Fairness
-----------------------------------------------------------------------------
(* Properties.  The ones about the queue's promise assume the regime the   *)
(* code is written for (Timely and no QueueAges); NoJobLost holds in any.  *)

(* The variables have their types.                                         *)
TypeOK ==
    /\ pending \in [Job -> File \union {None}]
    /\ lease \in [Claim -> File \union {None}]
    /\ done \subseteq Job
    /\ failed \in [Job -> File \union {None}]
    /\ beat \in [Claim -> {"none", "fresh", "stale"}]
    /\ locked \subseteq Claim
    /\ claims \in [Job -> 0 .. MaxClaims]
    /\ wasted \in [Job -> Nat]
    /\ pc \in [Worker -> PC]
    /\ path \in [Worker -> Claim \union {None}]
    /\ copy \in [Worker -> File \union {None}]
    /\ seen \in [Worker -> SUBSET Claim]
    /\ due \in [Worker -> SUBSET Claim]
    /\ cand \in [Worker -> SUBSET Job]
    /\ verdict \in [Worker -> Verdict]

(* Whatever is slow, killed or raced, every job always has a file in one   *)
(* of the four directories: the renames hand it over, they never drop it.  *)
NoJobLost == \A j \in Job : pending[j] # None \/ LeasesOf(j) # {} \/ Finished(j)

(* A job has one file, in one directory: rewriting a lease that somebody   *)
(* else has just moved would make a second one.                            *)
OneFile == \A j \in Job :
    /\ \A s, t \in LeasesOf(j) : s = t
    /\ pending[j] # None => LeasesOf(j) = {} /\ ~ Finished(j)
    /\ LeasesOf(j) # {} => ~ Finished(j)
    /\ ~ (j \in done /\ failed[j] # None)

(* docs/rule-audit.md:33, "Each queue job owns one database, so competitor *)
(* shards for one database are processed sequentially": no two workers     *)
(* audit shards of one database at a time.                                 *)
OneOwner == \A v, w \in Worker :
    /\ pc[v] = "work"
    /\ pc[w] = "work"
    /\ JobOf(path[v]) = JobOf(path[w])
    => v = w

(* docs/rule-audit.md:59, "A stale lease is requeued until --max-attempts  *)
(* is reached": a job is never claimed more often than that, and an        *)
(* attempt that a broken-off recovery has counted is used up as well.      *)
AttemptsBounded == \A j \in Job : claims[j] + wasted[j] <= MaxAttempts

(* No file a live worker relies on disappears under it, so no worker's     *)
(* loop ends by an unhandled FileNotFoundError.                            *)
NeverRaised == \A w \in Worker : pc[w] # "raised"

(* Every job is eventually finished as long as somebody is left to do it.  *)
(* (If one worker drains in the moment between two directory listings in   *)
(* which another requeues a stale job, and that other one then dies, the   *)
(* job stays pending and nobody is left.)                                  *)
FinishedOrAbandoned ==
    \A j \in Job : <>(Finished(j) \/ \A w \in Worker : pc[w] \in Stopped)

(* docs/rule-audit.md:59: the lease of a job whose worker is gone does not *)
(* stay in running/ as long as another worker is in its loop.              *)
StaleLeaseLeaves ==
    \A t \in Claim : (lease[t] # None /\ ~ Held(t)) ~>
        (lease[t] = None \/ \A w \in Worker : pc[w] \in Stopped)

(* The queue implements the job service it is meant to be.                 *)
PhaseOf(j) == CASE j \in done -> "done"
                [] failed[j] # None -> "failed"
                [] pending[j] # None -> "waiting"
                [] OTHER -> "running"

OwnersOf(j) == {w \in Worker : /\ pc[w] \in HoldPC
                               /\ JobOf(path[w]) = j
                               /\ lease[path[w]] # None}

OwnerIn(owners) == IF owners = {} THEN None ELSE CHOOSE w \in owners : TRUE

Service == INSTANCE AuditJobs WITH
    phase <- [j \in Job |-> PhaseOf(j)],
    owner <- [j \in Job |-> OwnerIn(OwnersOf(j))],
    starts <- [j \in Job |-> claims[j] + wasted[j]]

ImplementsService == Service!JobsSpec
=============================================================================
