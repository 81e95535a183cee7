----------------------------- MODULE AuditJobs ------------------------------
(***************************************************************************)
(* What the distributed audit queue promises its users (docs/rule-audit.md,*)
(* "Each queue job owns one database ... A stale lease is requeued until   *)
(* --max-attempts is reached"): a job is worked on by at most one worker,  *)
(* it is taken away from a worker only once that worker is gone, and it is *)
(* given up after MaxAttempts attempts, no fewer and no more.  An attempt  *)
(* is a start, or a broken-off try to take the job back.  AuditQueue       *)
(* implements this module.                                                 *)
(***************************************************************************)
EXTENDS Naturals

CONSTANTS Job, Worker, MaxAttempts, None

ASSUME NoOwnerAssumption == None \notin Worker

VARIABLES
    phase,    \* waiting, running, done or failed
    owner,    \* the live worker that runs the job
    starts    \* how many of its attempts are used up

jvars == <<phase, owner, starts>>

JobsInit == /\ phase = [j \in Job |-> "waiting"]
            /\ owner = [j \in Job |-> None]
            /\ starts = [j \in Job |-> 0]

(* A waiting job is started by a worker.                                   *)
Start(w, j) ==
    /\ phase[j] = "waiting"
    /\ starts[j] < MaxAttempts
    /\ phase' = [phase EXCEPT ![j] = "running"]
    /\ owner' = [owner EXCEPT ![j] = w]
    /\ starts' = [starts EXCEPT ![j] = @ + 1]

(* Its owner ends it, as done or as failed.                                *)
End(w, j) ==
    /\ owner[j] = w
    /\ phase' \in {[phase EXCEPT ![j] = o] : o \in {"done", "failed"}}
    /\ owner' = [owner EXCEPT ![j] = None]
    /\ UNCHANGED starts

(* Its owner dies; nobody has noticed yet.                                 *)
Die(w, j) ==
    /\ owner[j] = w
    /\ owner' = [owner EXCEPT ![j] = None]
    /\ UNCHANGED <<phase, starts>>

(* An abandoned job waits for its next start, or is given up.              *)
Reclaim(j) ==
    /\ phase[j] = "running"
    /\ owner[j] = None
    /\ phase' = [phase EXCEPT ![j] = IF starts[j] < MaxAttempts THEN "waiting" ELSE "failed"]
    /\ UNCHANGED <<owner, starts>>

(* Taking it back is broken off: an attempt is used up, nothing else.      *)
WriteOff(j) ==
    /\ phase[j] = "running"
    /\ owner[j] = None
    /\ starts[j] < MaxAttempts
    /\ starts' = [starts EXCEPT ![j] = @ + 1]
    /\ UNCHANGED <<phase, owner>>

JobsNext == \E j \in Job : \/ Reclaim(j) \/ WriteOff(j)
                           \/ \E w \in Worker : Start(w, j) \/ End(w, j) \/ Die(w, j)

JobsSpec == JobsInit /\ [][JobsNext]_jvars
=============================================================================
