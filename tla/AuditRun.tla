------------------------------ MODULE AuditRun ------------------------------
(***************************************************************************)
(* A distributed audit run (audit/runner.py, run_audit): after its worker  *)
(* loop has drained, the main process of every host checks that the run is *)
(* complete, and one of them is to write the final reports, under          *)
(* finalize.lock and once, which finalized.json records.                   *)
(*                                                                         *)
(* A host runs one worker here, so hosts are identified with workers; the  *)
(* queue underneath is AuditQueue, step by step.                           *)
(***************************************************************************)
EXTENDS AuditQueue

VARIABLES
    main,       \* where each host's main process is after its loop
    listed,     \* rest of its listing of pending/ or running/
    marker,     \* .audit_state/finalized.json exists
    holder,     \* whose directory .audit_state/finalize.lock is
    reports,    \* how many times the final reports have been written
    late        \* history: hosts that had seen no marker, without the lock, when it was made

rvars == <<main, listed, marker, holder, reports, late>>
allvars == <<vars, rvars>>

Ended == {"incomplete", "ended", "killed"}
MainPC == {"loop", "failures", "pending", "readpending", "running", "readrunning", "failed",
           "marker", "lock", "write", "mark"} \union Ended

Proceed(h, label) == main' = [main EXCEPT ![h] = label]

RunInit == /\ Init
           /\ main = [h \in Worker |-> "loop"]
           /\ listed = [h \in Worker |-> {}]
           /\ marker = FALSE
           /\ holder = None
           /\ reports = 0
           /\ late = {}

-----------------------------------------------------------------------------
(* _execute_distributed returns when the host's worker has drained; if the *)
(* worker raised or was killed it raises, and the host's run ends.         *)
LoopReturns(h) ==
    /\ main[h] = "loop"
    /\ pc[h] \in Stopped
    /\ Proceed(h, IF pc[h] = "drained" THEN "failures" ELSE "killed")
    /\ UNCHANGED <<listed, marker, holder, reports, late>>

(* queue_has_failures.                                                     *)
CheckFailures(h) ==
    /\ main[h] = "failures"
    /\ Proceed(h, IF \E j \in Job : failed[j] # None THEN "incomplete" ELSE "pending")
    /\ UNCHANGED <<listed, marker, holder, reports, late>>

(* QUEUE_STATES, in the order in which the directories are listed; what is *)
(* in done/ does not matter.                                               *)
NextDir(dir) == CASE dir = "pending" -> "running"
                  [] dir = "running" -> "failed"
                  [] dir = "failed" -> "marker"

(* queue_is_complete lists pending/, running/, done/ and failed/, one after *)
(* the other, reads the files of each listing, skips those that are gone,  *)
(* and is true if it read files in done/ only.                             *)
Look(h, found, read, empty) ==
    /\ listed' = [listed EXCEPT ![h] = found]
    /\ Proceed(h, IF found = {} THEN empty ELSE read)
    /\ UNCHANGED <<marker, holder, reports, late>>

ReadListed(h, f, here, next) ==
    \E x \in listed[h] :
        \/ /\ f[x] # None
           /\ listed' = [listed EXCEPT ![h] = {}]
           /\ Proceed(h, "incomplete")
           /\ UNCHANGED <<marker, holder, reports, late>>
        \/ /\ f[x] = None
           /\ Look(h, listed[h] \ {x}, here, next)

CheckPending(h) ==
    \/ /\ main[h] = "pending"
       /\ Look(h, {j \in Job : pending[j] # None}, "readpending", NextDir("pending"))
    \/ /\ main[h] = "readpending"
       /\ ReadListed(h, pending, "readpending", NextDir("pending"))

(* Mutant: running/ is not looked at.                                      *)
CheckNothing(h) ==
    /\ main[h] = "running"
    /\ Proceed(h, NextDir("running"))
    /\ UNCHANGED <<listed, marker, holder, reports, late>>

CheckRunning(h) ==
    \/ /\ main[h] = "running"
       /\ Look(h, {t \in Claim : lease[t] # None}, "readrunning", NextDir("running"))
    \/ /\ main[h] = "readrunning"
       /\ ReadListed(h, lease, "readrunning", NextDir("running"))

CheckFailed(h) ==
    /\ main[h] = "failed"
    /\ Proceed(h, IF \E j \in Job : failed[j] # None THEN "incomplete" ELSE NextDir("failed"))
    /\ UNCHANGED <<listed, marker, holder, reports, late>>

(* Mutant: the marker is not looked for before the lock is taken.          *)
LockAnyway(h) ==
    /\ main[h] = "marker"
    /\ Proceed(h, "lock")
    /\ UNCHANGED <<listed, marker, holder, reports, late>>

(* _finalize_distributed: is there a marker already?                       *)
CheckMarker(h) ==
    /\ main[h] = "marker"
    /\ Proceed(h, IF marker THEN "ended" ELSE "lock")
    /\ UNCHANGED <<listed, marker, holder, reports, late>>

(* try_acquire_lock: mkdir without exist_ok.                               *)
LockIsFree == holder = None

(* A host that does not get the lock waits for the marker and, whether it  *)
(* appears or not, leaves the reports to the other.                        *)
TakeLock(h) ==
    /\ main[h] = "lock"
    /\ \/ /\ LockIsFree
          /\ holder' = h
          /\ Proceed(h, "write")
       \/ /\ ~ LockIsFree
          /\ Proceed(h, "ended")
          /\ UNCHANGED holder
    /\ UNCHANGED <<listed, marker, reports, late>>

(* _write_outputs and _write_evaluation_cache.                             *)
WriteReports(h) ==
    /\ main[h] = "write"
    /\ reports' = reports + 1
    /\ Proceed(h, "mark")
    /\ UNCHANGED <<listed, marker, holder, late>>

(* _mark_distributed_finalized; releasing the lock removes its directory,  *)
(* whoever made it.                                                        *)
MarkFinalized(h) ==
    /\ main[h] = "mark"
    /\ marker' = TRUE
    /\ holder' = None
    /\ late' = late \union {g \in Worker : main[g] = "lock"}
    /\ Proceed(h, "ended")
    /\ UNCHANGED <<listed, reports>>

(* Mutant: the marker is written in the finally clause.                    *)
WriteFailsMarked(h) ==
    /\ main[h] = "write"
    /\ h \in Mortal
    /\ marker' = TRUE
    /\ holder' = None
    /\ Proceed(h, "killed")
    /\ UNCHANGED <<listed, reports, late>>

(* Writing the reports raises: the lock is released, there is no marker.   *)
WriteFails(h) ==
    /\ main[h] = "write"
    /\ h \in Mortal
    /\ holder' = None
    /\ Proceed(h, "killed")
    /\ UNCHANGED <<listed, marker, reports, late>>

(* The main process is killed; the lock directory stays.                   *)
CrashMain(h) ==
    /\ h \in Mortal
    /\ main[h] \notin Ended \union {"loop"}
    /\ Proceed(h, "killed")
    /\ listed' = [listed EXCEPT ![h] = {}]
    /\ UNCHANGED <<marker, holder, reports, late>>

-----------------------------------------------------------------------------
MainStep(h) == \/ LoopReturns(h) \/ CheckFailures(h) \/ CheckPending(h)
               \/ CheckRunning(h) \/ CheckFailed(h) \/ CheckMarker(h)
               \/ TakeLock(h) \/ WriteReports(h) \/ MarkFinalized(h)

HostStep(h) == MainStep(h) \/ WriteFails(h) \/ CrashMain(h)

RunTerminated == /\ \A h \in Worker : main[h] \in Ended \/ OutOfClaims(h)
                 /\ UNCHANGED allvars

RunNext == \/ QueueStep /\ UNCHANGED rvars
           \/ (\E h \in Worker : HostStep(h)) /\ UNCHANGED vars
           \/ RunTerminated

RunSpec == RunInit /\ [][RunNext]_allvars

RunFairSpec == /\ RunSpec
               /\ \A w \in Worker : WF_allvars(WorkerStep(w) /\ UNCHANGED rvars)
               /\ \A t \in Claim : WF_allvars((AgeBeat(t) \/ AgeLease(t)) /\ UNCHANGED rvars)
               /\ \A h \in Worker : WF_allvars(MainStep(h) /\ UNCHANGED vars)

-----------------------------------------------------------------------------
(* docs/rule-audit.md:62, "The final aggregate reports are written once,   *)
(* under a shared finalization lock, after every database job completes."  *)
(* A host that writes the reports does so alone, and when all jobs are     *)
(* done, although it found that out from listings that other hosts' moves  *)
(* interleave with.                                                        *)
(* (A job hides from two listings, of pending/ and then running/, if it is *)
(* requeued in between.  A worker that died makes that possible once: the  *)
(* host's worker may drain by it, and the host's main process finds out;   *)
(* it takes the death of the next owner to deceive that, too.)             *)
(* "Once" is not what the code does: _finalize_distributed does not look   *)
(* for the marker again when it has the lock.  The reports are written a   *)
(* second time by exactly those hosts that had looked before the marker    *)
(* was made and took the lock afterwards (late), and by no others, whoever *)
(* failed or was killed with the lock.                                     *)
ReportsComplete == \A h \in Worker : main[h] = "write" =>
    /\ \A g \in Worker \ {h} : main[g] \notin {"write", "mark"}
    /\ reports = 0 \/ h \in late
    /\ Cardinality({w \in Worker : pc[w] = "dead"}) <= 1 => done = Job

(* The marker is there only if reports have been written, whoever was      *)
(* killed or failed between the lock, the reports and the marker.          *)
MarkerMeansReports == marker => reports > 0

(* A run makes progress whoever dies, as long as somebody is left: the     *)
(* lease of a dead worker leaves running/ (docs/rule-audit.md:59), every   *)
(* job is finished, and once all are done some host writes the reports,    *)
(* unless one is killed.                                                   *)
RunMakesProgress ==
    /\ \A t \in Claim : (lease[t] # None /\ ~ Held(t)) ~>
          (lease[t] = None \/ \A w \in Worker : pc[w] \in Stopped)
    /\ FinishedOrAbandoned
    /\ (done = Job) ~> (marker \/ \E h \in Worker : main[h] = "killed")
=============================================================================
