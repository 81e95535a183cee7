----------------------------- MODULE AuditStart -----------------------------
(***************************************************************************)
(* Starting and restarting hosts of a distributed audit                    *)
(* (audit/distributed.py, initialise_queue): the first host creates the    *)
(* jobs' files under .init.lock, the others wait for it; a host started    *)
(* with --resume goes through the jobs again, moves failed ones back to    *)
(* pending/ and recreates those it does not find, while other hosts may    *)
(* already be at work.  The queue itself is AuditQueue; a host runs one    *)
(* worker here.                                                            *)
(***************************************************************************)
EXTENDS AuditQueue

CONSTANTS
    Resumes,       \* whether hosts are started with --resume
    MaxLaunches    \* bound: how often a host is started

ASSUME StartAssumption == Resumes \subseteq BOOLEAN

VARIABLES
    ready,      \* queue/ready exists
    initlock,   \* .init.lock exists
    start,      \* where each host is in its start
    todo,       \* the jobs it has not gone through yet
    current,    \* the job it is at
    retry,      \* its --resume flag
    launches,   \* how often it was started
    slipped     \* history: a lease was requeued while a host looked for its job

startvars == <<ready, initlock, start, todo, current, retry, launches, slipped>>
svars == <<vars, startvars>>

StartPC == {"off", "ready", "lock", "waiting", "jobs", "retry", "requeue", "findpending",
            "findrunning", "finddone", "findfailed", "create", "markready",
            "unlock", "loop", "gone"}

(* The host has no process, or the process only runs its worker loop.      *)
AtRest == {"off", "loop", "gone"}

(* A job that is new to the queue: attempt 1.                              *)
FreshFile == [attempt |-> 1, old |-> FALSE, signed |-> FALSE]

To(h, label) == start' = [start EXCEPT ![h] = label]

(* initialise_queue returns: the worker loop starts.                       *)
EnterLoop(h) == To(h, "loop") /\ Goto(h, "list")

StartInit ==
    /\ pending = [j \in Job |-> None]
    /\ lease = [t \in Claim |-> None]
    /\ done = {}
    /\ failed = [j \in Job |-> None]
    /\ beat = [t \in Claim |-> "none"]
    /\ locked = {}
    /\ claims = [j \in Job |-> 0]
    /\ wasted = [j \in Job |-> 0]
    /\ pc = [h \in Worker |-> "off"]
    /\ path = [h \in Worker |-> None]
    /\ copy = [h \in Worker |-> None]
    /\ seen = [h \in Worker |-> {}]
    /\ due = [h \in Worker |-> {}]
    /\ cand = [h \in Worker |-> {}]
    /\ verdict = [h \in Worker |-> "none"]
    /\ ready = FALSE
    /\ initlock = FALSE
    /\ start = [h \in Worker |-> "off"]
    /\ todo = [h \in Worker |-> {}]
    /\ current = [h \in Worker |-> None]
    /\ retry = [h \in Worker |-> FALSE]
    /\ launches = [h \in Worker |-> 0]
    /\ slipped = FALSE

-----------------------------------------------------------------------------
(* The operator starts a host whose process is not running, with --resume  *)
(* or without, whatever the other hosts are doing.                         *)
Launch(h) ==
    /\ start[h] \in AtRest
    /\ pc[h] \in Stopped
    /\ launches[h] < MaxLaunches
    /\ launches' = [launches EXCEPT ![h] = @ + 1]
    /\ \E r \in Resumes : retry' = [retry EXCEPT ![h] = r]
    /\ To(h, "ready")
    /\ Goto(h, "off")
    /\ UNCHANGED <<files, locals, ready, initlock, todo, current, slipped>>

(* An initialised queue is used as it is, unless --resume was given.       *)
CheckReady(h) ==
    /\ start[h] = "ready"
    /\ IF ready /\ ~ retry[h] THEN EnterLoop(h) ELSE To(h, "lock") /\ UNCHANGED pc
    /\ UNCHANGED <<files, locals, ready, initlock, todo, current, retry, launches, slipped>>

(* Mutant: the lock directory may exist already.                           *)
AlwaysFree == TRUE
LockFree == ~ initlock

TakeInitLock(h) ==
    /\ start[h] = "lock"
    /\ IF LockFree
       THEN /\ initlock' = TRUE
            /\ todo' = [todo EXCEPT ![h] = Job]
            /\ To(h, "jobs")
       ELSE /\ To(h, "waiting")
            /\ UNCHANGED <<initlock, todo>>
    /\ UNCHANGED <<files, pc, locals, ready, current, retry, launches, slipped>>

(* Poll for the ready file, for a minute.                                  *)
AwaitReady(h) ==
    /\ start[h] = "waiting"
    /\ ready
    /\ EnterLoop(h)
    /\ UNCHANGED <<files, locals, ready, initlock, todo, current, retry, launches, slipped>>

TimeOut(h) ==
    /\ start[h] = "waiting"
    /\ ~ ready
    /\ To(h, "gone")
    /\ UNCHANGED <<vars, ready, initlock, todo, current, retry, launches, slipped>>

(* Mutant: the queue is opened to the others before it is filled.          *)
ReadyFirst(h) == "markready"

NextLabel(h) == IF todo[h] = {} THEN "markready"
                ELSE IF retry[h] THEN "retry" ELSE "findpending"

(* The loop over the jobs, of which the queue takes one after the other.   *)
NextJob(h) ==
    /\ start[h] = "jobs"
    /\ To(h, NextLabel(h))
    /\ \/ /\ todo[h] = {}
          /\ current' = [current EXCEPT ![h] = None]
          /\ UNCHANGED todo
       \/ \E j \in todo[h] : /\ current' = [current EXCEPT ![h] = j]
                             /\ todo' = [todo EXCEPT ![h] = @ \ {j}]
    /\ UNCHANGED <<files, pc, locals, ready, initlock, retry, launches, slipped>>

(* _retry_failed_job: the file of a failed job that has an attempt left is *)
(* rewritten in failed/, then moved.  Only the holder of .init.lock takes  *)
(* files out of failed/.                                                   *)
RetryRewrite(h) ==
    /\ start[h] = "retry"
    /\ LET j == current[h] IN
       IF failed[j] # None /\ ~ ExhaustedAttempt(failed[j])
       THEN /\ failed' = [failed EXCEPT ![j] =
                            [FreshFile EXCEPT !.attempt = NextAttempt(failed[j])]]
            /\ To(h, "requeue")
       ELSE /\ To(h, "findpending")
            /\ UNCHANGED failed
    /\ UNCHANGED <<pending, lease, done, beat, locked, claims, wasted, pc, locals, ready, initlock,
                   todo, current, retry, launches, slipped>>

RetryMove(h) ==
    /\ start[h] = "requeue"
    /\ pending' = [pending EXCEPT ![current[h]] = failed[current[h]]]
    /\ failed' = [failed EXCEPT ![current[h]] = None]
    /\ To(h, "findpending")
    /\ UNCHANGED <<lease, done, beat, locked, claims, wasted, pc, locals, ready, initlock, todo,
                   current, retry, launches, slipped>>

(* _find_job_path looks into one directory after the other.                *)
Find(h, here, found, next) ==
    /\ start[h] = here
    /\ To(h, IF found THEN "jobs" ELSE next)
    /\ UNCHANGED <<vars, ready, initlock, todo, current, retry, launches, slipped>>

FindPending(h) == Find(h, "findpending", pending[current[h]] # None, "findrunning")
FindRunning(h) == Find(h, "findrunning", LeasesOf(current[h]) # {}, "finddone")
FindDone(h) == Find(h, "finddone", current[h] \in done, "findfailed")
FindFailed(h) == Find(h, "findfailed", failed[current[h]] # None, "create")

(* A job without a file gets one.                                          *)
CreateJob(h) ==
    /\ start[h] = "create"
    /\ pending' = [pending EXCEPT ![current[h]] = FreshFile]
    /\ To(h, "jobs")
    /\ UNCHANGED <<lease, done, failed, beat, locked, claims, wasted, pc, locals, ready, initlock,
                   todo, current, retry, launches, slipped>>

MarkReady(h) ==
    /\ start[h] = "markready"
    /\ ready' = TRUE
    /\ To(h, "unlock")
    /\ UNCHANGED <<vars, initlock, todo, current, retry, launches, slipped>>

ReleaseInitLock(h) ==
    /\ start[h] = "unlock"
    /\ initlock' = FALSE
    /\ EnterLoop(h)
    /\ UNCHANGED <<files, locals, ready, todo, current, retry, launches, slipped>>

(* The host's process ends while it starts.                                *)
Abort(h) ==
    /\ h \in Mortal
    /\ start[h] \notin AtRest
    /\ To(h, "gone")
    /\ todo' = [todo EXCEPT ![h] = {}]
    /\ current' = [current EXCEPT ![h] = None]
    /\ UNCHANGED <<vars, ready, retry, launches, slipped>>

(* It is killed: the lock directory stays.                                 *)
CrashStart(h) ==
    /\ Abort(h)
    /\ UNCHANGED initlock

(* An interrupt or an exception: the finally clause removes the lock, and  *)
(* what was created so far stays.                                          *)
BreakOffStart(h) ==
    /\ start[h] \notin {"ready", "lock", "waiting"}
    /\ Abort(h)
    /\ initlock' = FALSE

-----------------------------------------------------------------------------
Starting(h) == \/ CheckReady(h) \/ TakeInitLock(h) \/ AwaitReady(h) \/ NextJob(h)
               \/ RetryRewrite(h) \/ RetryMove(h) \/ FindPending(h) \/ FindRunning(h) \/ FindDone(h)
               \/ FindFailed(h) \/ CreateJob(h) \/ MarkReady(h) \/ ReleaseInitLock(h)

StartTerminated ==
    /\ \A h \in Worker : /\ start[h] \in AtRest
                         /\ pc[h] \in Stopped \/ OutOfClaims(h)
    /\ UNCHANGED svars

(* Between two of its lookups h has not found the job.                     *)
Looking(h) == start[h] \in {"findrunning", "finddone", "findfailed", "create"}

(* A job returns to pending/ behind the back of a host that looks for it.  *)
Slips == \E h \in Worker : /\ Looking(h)
                           /\ pending[current[h]] = None
                           /\ pending'[current[h]] # None

StartNext == \/ /\ \/ \E w \in Worker : \/ WorkerStep(w) \/ Beat(w)
                                        \/ BreakOffRecovery(w) \/ Crash(w)
                   \/ TimePasses
                /\ slipped' = (slipped \/ Slips)
                /\ UNCHANGED <<ready, initlock, start, todo, current, retry, launches>>
             \/ \E h \in Worker : \/ Launch(h) \/ Starting(h) \/ TimeOut(h)
                                 \/ CrashStart(h) \/ BreakOffStart(h)
             \/ StartTerminated

StartSpec == StartInit /\ [][StartNext]_svars

-----------------------------------------------------------------------------
(* Whoever is killed while it starts, nobody enters the worker loop on a   *)
(* queue in which a job is missing, and none goes missing later.           *)
ReadyMeansComplete == ready => NoJobLost

(* Hosts that are started late, again, or with --resume, on every server   *)
(* and on a queue in use (docs/rule-audit.md:31 and :60), give no job a    *)
(* second file, and its attempts are counted on - unless a stale lease is  *)
(* requeued in the moment between two lookups for its job: then it is in   *)
(* none of the four directories when the host looks there, and is created  *)
(* a second time, for a second owner (docs/rule-audit.md:33).              *)
StartsKeepOneFile == ~ slipped => OneFile /\ AttemptsBounded
=============================================================================
