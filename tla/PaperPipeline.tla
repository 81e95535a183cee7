---------------------------- MODULE PaperPipeline ----------------------------
(***************************************************************************)
(* The paper pipeline (cli/paper_pipeline.py): hosts that share a          *)
(* directory work off the stages of an experiment together.  The files in  *)
(* that directory are the whole of the shared state, and every host is a   *)
(* process that may be killed between any two operations on them.  A       *)
(* process that is started again is another member of Hosts.               *)
(***************************************************************************)
EXTENDS Naturals, Sequences, FiniteSets

CONSTANTS
    None,
    Hosts, Coordinators,   \* processes; those started on the coordinator host
    Databases,             \* the database files found
    Stages,                \* settings.stages: [experiment, algorithms, databases]
    WalkLengths,           \* 1..10 in _b2_jobs
    LateStages,            \* stages whose jobs may wait in pending/ for longer than stale_after
    Mortal,                \* the processes that may be killed
    MaxKills

ASSUME PipelineAssumption ==
    /\ Coordinators \subseteq Hosts /\ Mortal \subseteq Hosts
    /\ Stages \in Seq({Stages[n] : n \in DOMAIN Stages})
    /\ \A n \in DOMAIN Stages : Stages[n].experiment \in {"setup", "B1", "B2", "B3"}
    /\ LateStages \subseteq DOMAIN Stages
    /\ MaxKills \in Nat

(* plan_jobs: the jobs of each stage.  max_retries is 0 in every payload.  *)
Selected(st) == IF st.databases = {} THEN Databases ELSE st.databases \cap Databases
Payload(n, e, a, d, variant) ==
    [stage |-> n, experiment |-> e, algorithm |-> a, database |-> d, variant |-> variant]
SetupJob(n) == {Payload(n, "B0", None, None, <<>>)}
B1Jobs(n, st) == {Payload(n, "B1", a, d, <<>>) : a \in st.algorithms, d \in Selected(st)}
B2Jobs(n, st) == {Payload(n, "B2", "MARITA", d, <<mode, w>>) :
                     d \in Selected(st), mode \in {"disjoint", "nondisjoint"}, w \in WalkLengths}
B3Jobs(n, st) == {Payload(n, "B3", "MARITA", d, <<mode>>) :
                     d \in Selected(st), mode \in {"fk_only", "full_join"}}
StageJobs(n, st) ==
    CASE st.experiment = "setup" -> SetupJob(n)
      [] st.experiment = "B1" -> B1Jobs(n, st)
      [] st.experiment = "B2" -> B2Jobs(n, st)
      [] st.experiment = "B3" -> B3Jobs(n, st)
Jobs == UNION {StageJobs(n, Stages[n]) : n \in DOMAIN Stages}
MaxRetries == 0

VARIABLES
    host,       \* what each process is about to do
    pending,    \* jobs with a file in queue/<stage>/pending
    attempts,   \* the attempt each job's file carries
    running,    \* lease files <<job, host>> in running/
    beats,      \* heartbeat files <<job, host>> in running/
    verdicts,   \* files <<job, "done" or "failed">>
    torn,       \* leases and verdicts that are truncated and not yet written
    rewritten,  \* leases written since their claim
    aged,       \* processes whose last write is older than stale_after
    robbed,     \* jobs that were taken for abandoned while a live process claimed them
    locks,      \* [init, aggregate]: the process that made the lock directory
    ready, complete,  \* pipeline.ready, pipeline.complete
    summary,    \* the runs in summary_pipeline.json
    started,    \* how often each job's command was run
    kills

queueVars == <<pending, attempts, running, beats, verdicts, torn, rewritten, started>>
endVars   == <<locks, ready, complete, summary>>
faultVars == <<aged, robbed, kills>>
vars      == <<host, queueVars, endVars, faultVars>>

Idle == [pc |-> "off", stage |-> 0, job |-> None, todo |-> {}, back |-> None]

Init ==
    /\ host = [h \in Hosts |-> Idle]
    /\ pending = {} /\ attempts = [j \in Jobs |-> 1]
    /\ running = {} /\ beats = {} /\ verdicts = {} /\ torn = {} /\ rewritten = {}
    /\ aged = {} /\ robbed = {}
    /\ locks = [init |-> None, aggregate |-> None]
    /\ ready = FALSE /\ complete = FALSE /\ summary = {}
    /\ started = [j \in Jobs |-> 0]
    /\ kills = 0

At(h, pc)  == host[h].pc = pc
Go(h, pc)  == host' = [host EXCEPT ![h].pc = pc]
Gone(h)    == host[h].pc \in {"killed", "raised"}
Up(h)      == host[h].pc \notin {"off", "killed", "raised"}
Lease(h)   == <<host[h].job, h>>

(* recover_stale_jobs is called before a stage, before each claim and in   *)
(* the loop that waits for the end of a stage: back is where it returns.   *)
Recover(h, stage, back) ==
    host' = [host EXCEPT ![h] = [Idle EXCEPT !.pc = "recover", !.stage = stage, !.back = back]]

----------------------------------------------------------------------------
(* initialise_queue.                                                       *)
Start(h) ==
    /\ At(h, "off")
    /\ IF ready THEN Recover(h, 1, "stage") ELSE Go(h, "lock")
    /\ UNCHANGED <<queueVars, endVars, faultVars>>

TakeInitLock(h) ==
    /\ At(h, "lock")
    /\ IF locks.init = None
       THEN locks' = [locks EXCEPT !.init = h] /\ Go(h, "fill")
       ELSE Go(h, "awaitready") /\ UNCHANGED locks
    /\ UNCHANGED <<queueVars, ready, complete, summary, faultVars>>

(* One pending file after the other, then pipeline.ready and the release   *)
(* of the lock.  A process that finds the queue ready has nothing to fill. *)
FillOne(h) ==
    /\ At(h, "fill") /\ ~ready
    /\ \E j \in Jobs \ pending : pending' = pending \cup {j}
    /\ UNCHANGED <<host, attempts, running, beats, verdicts, torn, rewritten, started, endVars, faultVars>>

AllButOneFilled == Cardinality(Jobs \ pending) <= 1
AllFilled       == pending = Jobs

OpenQueue(h) ==
    /\ At(h, "fill") /\ (ready \/ AllFilled)
    /\ ready' = TRUE
    /\ locks' = [locks EXCEPT !.init = None]
    /\ Recover(h, 1, "stage")
    /\ UNCHANGED <<queueVars, complete, summary, faultVars>>

AwaitReady(h) ==
    /\ At(h, "awaitready") /\ ready
    /\ Recover(h, 1, "stage")
    /\ UNCHANGED <<queueVars, endVars, faultVars>>

----------------------------------------------------------------------------
(* recover_stale_jobs.  The marker of a lease is its heartbeat, or the     *)
(* lease itself, which keeps the time of the pending file until it is      *)
(* rewritten: it may have waited there for longer than stale_after, the    *)
(* jobs of later stages mostly do.  A live process writes its marker once; *)
(* that it stays fresh while the command runs is the assumption that       *)
(* stale_after (4200 s) exceeds the time limit of a run (3600 s).          *)
OnlyBeatsAge(l)  == l \in beats /\ l[2] \in aged
MarkerIsStale(l) == l[2] \in aged

ClaimedLate(l)      == l[1].stage \in LateStages /\ l \notin beats \cup rewritten
AnyMayBeStale(l)    == TRUE
MarkerMayBeStale(l) == MarkerIsStale(l) \/ ClaimedLate(l)

(* The end of recover_stale_jobs: run_stage's worker recovers once more.   *)
Return(h) ==
    IF host[h].back = "stage" THEN Recover(h, host[h].stage, "claim")
    ELSE host' = [host EXCEPT ![h].pc = host[h].back, ![h].todo = {}]

ListLeases(h) ==
    /\ At(h, "recover")
    /\ LET leases == {l \in running : l[1].stage = host[h].stage} IN
       IF leases = {} THEN Return(h)
       ELSE host' = [host EXCEPT ![h].pc = "judge", ![h].todo = leases]
    /\ UNCHANGED <<queueVars, endVars, faultVars>>

(* A lease that has gone, or whose marker is fresh, is left alone.         *)
SkipLease(h) ==
    /\ At(h, "judge")
    /\ \E l \in host[h].todo :
         /\ l \notin running \/ ~MarkerIsStale(l)
         /\ host' = [host EXCEPT ![h].todo = @ \ {l}]
    /\ UNCHANGED <<queueVars, endVars, faultVars>>

JudgeStale(h) ==
    /\ At(h, "judge")
    /\ \E l \in host[h].todo :
         /\ l \in running /\ MarkerMayBeStale(l)
         /\ host' = [host EXCEPT ![h].pc = "readstale", ![h].job = l, ![h].todo = @ \ {l}]
         /\ robbed' = IF ClaimedLate(l) /\ ~Gone(l[2]) THEN robbed \cup {l[1]} ELSE robbed
    /\ UNCHANGED <<queueVars, endVars, aged, kills>>

(* Half a lease raises out of recover_stale_jobs and ends the process.     *)
ReadStale(h) ==
    /\ At(h, "readstale")
    /\ LET l == host[h].job IN
       IF l \notin running THEN host' = [host EXCEPT ![h].pc = "judge", ![h].job = None]
       ELSE IF l \in torn THEN Go(h, "raised")
       ELSE Go(h, "giveup")
    /\ UNCHANGED <<queueVars, endVars, faultVars>>

ExhaustedLate(j) == attempts[j] > MaxRetries + 1
Exhausted(j)     == attempts[j] > MaxRetries

(* The failed file is truncated and then written; a job with attempts left *)
(* would go back to pending/.                                              *)
GiveUp(h) ==
    /\ At(h, "giveup")
    /\ LET j == host[h].job[1] IN
       IF Exhausted(j)
       THEN /\ verdicts' = verdicts \cup {<<j, "failed">>}
            /\ torn' = torn \cup {<<j, "failed">>}
            /\ Go(h, "wroteverdict")
            /\ UNCHANGED <<pending, attempts>>
       ELSE /\ pending' = pending \cup {j}
            /\ attempts' = [attempts EXCEPT ![j] = @ + 1]
            /\ Go(h, "dropstale")
            /\ UNCHANGED <<verdicts, torn>>
    /\ UNCHANGED <<running, beats, rewritten, started, endVars, faultVars>>

WriteGivenUp(h) ==
    /\ At(h, "wroteverdict")
    /\ torn' = torn \ {<<host[h].job[1], "failed">>}
    /\ Go(h, "dropstale")
    /\ UNCHANGED <<pending, attempts, running, beats, verdicts, rewritten, started, endVars, faultVars>>

DropStaleLease(h) ==
    /\ At(h, "dropstale")
    /\ running' = running \ {host[h].job}
    /\ torn' = torn \ {host[h].job}
    /\ rewritten' = rewritten \ {host[h].job}
    /\ Go(h, "dropbeat")
    /\ UNCHANGED <<pending, attempts, beats, verdicts, started, endVars, faultVars>>

DropStaleBeat(h) ==
    /\ At(h, "dropbeat")
    /\ beats' = beats \ {host[h].job}
    /\ host' = [host EXCEPT ![h].pc = "judge", ![h].job = None]
    /\ UNCHANGED <<pending, attempts, running, verdicts, torn, rewritten, started, endVars, faultVars>>

Recovered(h) ==
    /\ At(h, "judge") /\ host[h].todo = {}
    /\ Return(h)
    /\ UNCHANGED <<queueVars, endVars, faultVars>>

----------------------------------------------------------------------------
(* worker_loop.  claim_job tries the files it listed, in the order of      *)
(* their names, until a rename succeeds; nothing is added to pending/ any  *)
(* more, so that is one of the jobs pending at the moment of the rename.   *)
(* Which one is left open.                                                 *)
PendingIn(n) == {j \in pending : j.stage = n}

Claim(h) ==
    /\ At(h, "claim")
    /\ \E j \in PendingIn(host[h].stage) :
         /\ pending' = pending \ {j}
         /\ running' = running \cup {<<j, h>>}
         /\ host' = [host EXCEPT ![h].pc = "readlease", ![h].job = j]
    /\ UNCHANGED <<attempts, beats, verdicts, torn, rewritten, started, endVars, faultVars>>

NothingToClaim(h) ==
    /\ At(h, "claim") /\ PendingIn(host[h].stage) = {}
    /\ Recover(h, host[h].stage, "anypending")
    /\ UNCHANGED <<queueVars, endVars, faultVars>>

ReadLease(h) ==
    /\ At(h, "readlease")
    /\ Go(h, IF Lease(h) \in running THEN "openlease" ELSE "raised")
    /\ UNCHANGED <<queueVars, endVars, faultVars>>

OpenLease(h) ==
    /\ At(h, "openlease")
    /\ running' = running \cup {Lease(h)}
    /\ torn' = torn \cup {Lease(h)}
    /\ rewritten' = rewritten \cup {Lease(h)}
    /\ Go(h, "writelease")
    /\ UNCHANGED <<pending, attempts, beats, verdicts, started, endVars, faultVars>>

WriteLease(h) ==
    /\ At(h, "writelease")
    /\ torn' = torn \ {Lease(h)}
    /\ Go(h, "beat")
    /\ UNCHANGED <<pending, attempts, running, beats, verdicts, rewritten, started, endVars, faultVars>>

(* run_job: the only heartbeat, then the command.                          *)
WriteBeat(h) ==
    /\ At(h, "beat")
    /\ beats' = beats \cup {Lease(h)}
    /\ started' = [started EXCEPT ![host[h].job] = @ + 1]
    /\ Go(h, "run")
    /\ UNCHANGED <<pending, attempts, running, verdicts, torn, rewritten, endVars, faultVars>>

(* finish_job: every status _run_command returns is one of DONE_STATUSES.  *)
OpenDone(h) ==
    /\ At(h, "run")
    /\ verdicts' = verdicts \cup {<<host[h].job, "done">>}
    /\ torn' = torn \cup {<<host[h].job, "done">>}
    /\ Go(h, "writedone")
    /\ UNCHANGED <<pending, attempts, running, beats, rewritten, started, endVars, faultVars>>

WriteDone(h) ==
    /\ At(h, "writedone")
    /\ torn' = torn \ {<<host[h].job, "done">>}
    /\ Go(h, "unlease")
    /\ UNCHANGED <<pending, attempts, running, beats, verdicts, rewritten, started, endVars, faultVars>>

DropLease(h) ==
    /\ At(h, "unlease")
    /\ running' = running \ {Lease(h)}
    /\ rewritten' = rewritten \ {Lease(h)}
    /\ Go(h, "unbeat")
    /\ UNCHANGED <<pending, attempts, beats, verdicts, torn, started, endVars, faultVars>>

DropBeat(h) ==
    /\ At(h, "unbeat")
    /\ beats' = beats \ {Lease(h)}
    /\ Recover(h, host[h].stage, "claim")
    /\ UNCHANGED <<pending, attempts, running, verdicts, torn, rewritten, started, endVars, faultVars>>

----------------------------------------------------------------------------
(* wait_for_stage_complete looks into pending/ and then into running/,     *)
(* where it counts heartbeats as well.                                     *)
BeatInProgress(n) == {l \in beats : l[1].stage = n}
InProgress(n)     == {l \in running \cup beats : l[1].stage = n}

LookPending(h) ==
    /\ At(h, "anypending")
    /\ IF PendingIn(host[h].stage) # {} THEN Recover(h, host[h].stage, "anypending")
       ELSE Go(h, "anyrunning")
    /\ UNCHANGED <<queueVars, endVars, faultVars>>

LookRunning(h) ==
    /\ At(h, "anyrunning")
    /\ IF InProgress(host[h].stage) # {} THEN Recover(h, host[h].stage, "anypending")
       ELSE IF host[h].stage < Len(Stages) THEN Recover(h, host[h].stage + 1, "stage")
       ELSE host' = [host EXCEPT ![h] = [Idle EXCEPT
                        !.stage = Len(Stages) + 1,
                        !.pc = IF h \in Coordinators THEN "aggregate" ELSE "awaitend"]]
    /\ UNCHANGED <<queueVars, endVars, faultVars>>

(* aggregate_pipeline.  Half a done file raises, and the lock is released. *)
TakeAggregateLock(h) ==
    /\ At(h, "aggregate")
    /\ IF locks.aggregate = None
       THEN locks' = [locks EXCEPT !.aggregate = h] /\ Go(h, "summarise")
       ELSE Go(h, "awaitend") /\ UNCHANGED locks
    /\ UNCHANGED <<queueVars, ready, complete, summary, faultVars>>

WriteSummary(h) ==
    /\ At(h, "summarise")
    /\ IF \E j \in Jobs : <<j, "done">> \in torn
       THEN /\ locks' = [locks EXCEPT !.aggregate = None] /\ Go(h, "raised")
            /\ UNCHANGED summary
       ELSE /\ summary' = {j \in Jobs : <<j, "done">> \in verdicts /\ j.experiment = "B1"}
            /\ Go(h, "complete") /\ UNCHANGED locks
    /\ UNCHANGED <<queueVars, ready, complete, faultVars>>

MarkComplete(h) ==
    /\ At(h, "complete")
    /\ complete' = TRUE
    /\ locks' = [locks EXCEPT !.aggregate = None]
    /\ Go(h, "end")
    /\ UNCHANGED <<queueVars, ready, summary, faultVars>>

AwaitComplete(h) ==
    /\ At(h, "awaitend") /\ complete
    /\ Go(h, "end")
    /\ UNCHANGED <<queueVars, endVars, faultVars>>

----------------------------------------------------------------------------
(* A process is killed, and the locks it holds stay; or an interrupt, or   *)
(* an error of the file system or of Popen, ends it, and the `finally` of  *)
(* initialise_queue or aggregate_pipeline removes its lock on the way.  In *)
(* time its files are stale.                                               *)
Dies(h, pc) ==
    /\ h \in Mortal /\ Up(h) /\ ~At(h, "end") /\ kills < MaxKills
    /\ kills' = kills + 1
    /\ host' = [host EXCEPT ![h] = [Idle EXCEPT !.pc = pc, !.job = host[h].job]]
    /\ UNCHANGED <<queueVars, ready, complete, summary, aged, robbed>>

Kill(h) == Dies(h, "killed") /\ UNCHANGED locks

BreakOff(h) ==
    /\ Dies(h, "raised")
    /\ locks' = [lock \in DOMAIN locks |-> IF locks[lock] = h THEN None ELSE locks[lock]]

Age(h) ==
    /\ Gone(h) /\ h \notin aged
    /\ aged' = aged \cup {h}
    /\ UNCHANGED <<host, queueVars, endVars, robbed, kills>>

Work(h) ==
    \/ TakeInitLock(h) \/ FillOne(h) \/ OpenQueue(h) \/ AwaitReady(h)
    \/ ListLeases(h) \/ SkipLease(h) \/ JudgeStale(h) \/ ReadStale(h) \/ GiveUp(h)
    \/ WriteGivenUp(h) \/ DropStaleLease(h) \/ DropStaleBeat(h) \/ Recovered(h)
    \/ Claim(h) \/ NothingToClaim(h) \/ ReadLease(h) \/ OpenLease(h) \/ WriteLease(h)
    \/ WriteBeat(h) \/ OpenDone(h) \/ WriteDone(h) \/ DropLease(h) \/ DropBeat(h)
    \/ LookPending(h) \/ LookRunning(h)
    \/ TakeAggregateLock(h) \/ WriteSummary(h) \/ MarkComplete(h) \/ AwaitComplete(h)

Next == \E h \in Hosts : Start(h) \/ Work(h) \/ Kill(h) \/ BreakOff(h) \/ Age(h)

(* A process that runs goes on, its command ends (it has a time limit),    *)
(* and time passes.  Nobody has to start a process, or to kill one.        *)
Fairness == \A h \in Hosts : WF_vars(Work(h)) /\ WF_vars(Age(h))

Spec == Init /\ [][Next]_vars /\ Fairness

----------------------------------------------------------------------------
(* No command is ever run twice, whoever dies when (max_retries is 0 and a *)
(* claim is a rename: claim_job, recover_stale_jobs).                      *)
JobRunsOnce == \A j \in Jobs : started[j] <= 1

(* While a process runs a command, no live process is past the stage of    *)
(* that job: the stages are measured undisturbed by one another, although  *)
(* a process leaves a stage on two looks at two directories                *)
(* (wait_for_stage_complete).  Only a job robbed from its claimer may run  *)
(* beside the next stage.                                                  *)
StageBarrier ==
    \A h \in Hosts : At(h, "run") /\ host[h].job \notin robbed =>
        \A g \in Hosts : Up(g) => host[g].stage <= host[h].job.stage

(* A job has two verdicts only if the process that ran it died between     *)
(* writing the first and removing its lease (finish_job), or was robbed.   *)
VerdictOnce ==
    \A j \in Jobs \ robbed : {<<j, "done">>, <<j, "failed">>} \subseteq verdicts =>
        \E h \in aged : host[h].job = j

(* When pipeline.complete is there every job has a verdict, and the        *)
(* summary has every B1 run that ended (aggregate_pipeline), except those  *)
(* that were robbed and may end later.                                     *)
CompleteMeansAll ==
    complete =>
        /\ \A j \in Jobs : {<<j, "done">>, <<j, "failed">>} \cap verdicts # {}
        /\ summary \ robbed =
              {j \in Jobs \ robbed : <<j, "done">> \in verdicts /\ j.experiment = "B1"}

(* What no process clears away: a heartbeat without its lease, half a done *)
(* file, the lock of a process that was killed, and an initialisation or   *)
(* an aggregation that raised and gave its lock back: those that had found *)
(* the lock taken just wait.                                               *)
Orphaned ==
    \/ beats \ running # {}
    \/ \E j \in Jobs : <<j, "done">> \in torn
    \/ ~ready /\ locks.init # None /\ Gone(locks.init)
    \/ ~complete /\ locks.aggregate # None /\ Gone(locks.aggregate)
    \/ ~ready /\ locks.init = None /\ \E h \in Hosts : At(h, "awaitready")
    \/ ~complete /\ locks.aggregate = None /\ \E c \in Coordinators : At(c, "awaitend")

(* The pipeline completes if a coordinator stays up and nothing is         *)
(* orphaned for good, whatever the other processes leave behind            *)
(* (run_pipeline, recover_stale_jobs).                                     *)
Completes ==
    (<>[](\E c \in Coordinators : Up(c)) /\ ~<>[]Orphaned) => <>complete
=============================================================================
