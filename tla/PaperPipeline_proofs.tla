------------------------ MODULE PaperPipeline_proofs ------------------------
(***************************************************************************)
(* The paper pipeline for any stages, databases, hosts and number of       *)
(* kills: no command runs twice, the stages keep to themselves, a job has  *)
(* two verdicts only where its process died late, and a complete pipeline  *)
(* has them all.                                                           *)
(*                                                                         *)
(* Everything follows from who may claim a job.  A rename out of pending/  *)
(* is the only way in, so a job has one claimer for good (OneClaimer), and *)
(* what another process takes over is the claim of a process that is gone, *)
(* or the job was robbed (TakenOver).  A job leaves running/ with a        *)
(* verdict only, so a process that sees neither a pending file nor a lease *)
(* of a stage leaves it settled (Settled), although it looks twice.        *)
(***************************************************************************)
EXTENDS PaperPipeline, TLAPS

FreshPcs   == {"readlease", "openlease", "writelease", "beat"}
EndedPcs   == {"writedone", "unlease", "unbeat"}
ClaimPcs   == FreshPcs \cup {"run"} \cup EndedPcs
HeldPcs    == ClaimPcs \ {"unbeat"}
MarkedPcs  == HeldPcs \ {"readlease", "openlease"}
GivenUpPcs == {"wroteverdict", "dropstale", "dropbeat"}
StalePcs   == {"readstale", "giveup"} \cup GivenUpPcs
RecoverPcs == {"recover", "judge"} \cup StalePcs
StartPcs   == {"off", "lock", "fill", "awaitready"}
LookPcs    == {"claim", "anypending", "anyrunning"}
LastPcs    == {"aggregate", "summarise", "complete", "awaitend", "end"}
Pcs == StartPcs \cup RecoverPcs \cup ClaimPcs \cup LookPcs \cup LastPcs \cup {"killed", "raised"}

Leases == Jobs \X Hosts
Backs  == {"stage", "claim", "anypending"}
HostRecord == [pc : Pcs, stage : Nat, job : Jobs \cup Leases \cup {None},
               todo : SUBSET Leases, back : Backs \cup {None}]
Done(j)   == <<j, "done">> \in verdicts
Failed(j) == <<j, "failed">> \in verdicts

TypeOK ==
    /\ host \in [Hosts -> HostRecord]
    /\ pending \subseteq Jobs
    /\ attempts = [j \in Jobs |-> 1]
    /\ running \subseteq Leases /\ beats \subseteq Leases /\ rewritten \subseteq Leases
    /\ verdicts \subseteq Jobs \X {"done", "failed"}
    /\ aged \subseteq Hosts
    /\ robbed \subseteq Jobs
    /\ ready \in BOOLEAN /\ complete \in BOOLEAN
    /\ started \in [Jobs -> Nat]

(* The fields a process uses where it stands.                              *)
HostOK(h) ==
    /\ host[h].pc \in ClaimPcs => host[h].job \in Jobs /\ host[h].job.stage = host[h].stage
    /\ host[h].pc \in StalePcs => host[h].job \in Leases
    /\ host[h].pc \in RecoverPcs => host[h].back \in Backs
    /\ host[h].pc \in LastPcs => host[h].stage > Len(Stages)
    /\ host[h].pc \notin StartPcs \cup {"killed", "raised"} => ready
    /\ host[h].stage # 0 => ready

HostsOK ==
    /\ \A h \in Hosts : HostOK(h)
    /\ \A h \in aged : Gone(h)
    /\ complete => ready

(* h claimed j, and something of that claim is still to be seen.           *)
Claimer(h, j) ==
    \/ host[h].pc \in ClaimPcs /\ host[h].job = j
    \/ <<j, h>> \in running
    \/ \E r \in Hosts : host[r].pc \in StalePcs /\ host[r].job = <<j, h>>

OneClaimer == \A j \in Jobs : \A g, h \in Hosts : Claimer(g, j) /\ Claimer(h, j) => g = h

Untouched ==
    \A j \in Jobs : j \in pending \/ ~ ready =>
        /\ started[j] = 0 /\ ~ Done(j) /\ ~ Failed(j)
        /\ \A h \in Hosts : ~ Claimer(h, j)

LeasesHeld ==
    \A j \in Jobs, h \in Hosts : <<j, h>> \in running =>
        host[h].job = j /\ (host[h].pc \in HeldPcs \/ Gone(h))

LeasesKept ==
    \A h \in Hosts : host[h].pc \in HeldPcs /\ host[h].job \notin robbed => Lease(h) \in running

(* A lease whose holder has got to a verdict has been written since it was *)
(* claimed, and so does not have the age of the pending file.              *)
Written ==
    /\ \A h \in Hosts : host[h].pc \in MarkedPcs /\ Lease(h) \in running => Lease(h) \in rewritten
    /\ \A l \in running : Done(l[1]) => l \in rewritten

(* What is taken over is a gone process's, unless the job was robbed.      *)
DiedWith(h, j) == Gone(h) /\ host[h].job = j /\ (h \in aged \/ ~ Done(j))

TakenOver ==
    /\ \A r \in Hosts : host[r].pc \in StalePcs /\ host[r].job[1] \notin robbed =>
           DiedWith(host[r].job[2], host[r].job[1])
    /\ \A r \in Hosts : host[r].pc \in GivenUpPcs => Failed(host[r].job[1])
    /\ \A j \in Jobs \ robbed : Failed(j) => \E h \in Hosts : DiedWith(h, j)

Ended ==
    /\ \A h \in Hosts : host[h].pc \in EndedPcs => Done(host[h].job)
    /\ \A h \in Hosts : host[h].pc \in ClaimPcs /\ host[h].job \notin robbed => ~ Failed(host[h].job)

StartedOnce ==
    /\ \A h \in Hosts : host[h].pc \in FreshPcs => started[host[h].job] = 0
    /\ JobRunsOnce

(* No job is lost between pending/, running/ and its verdict.              *)
Judged(j) == Done(j) \/ Failed(j)
Kept == ready => \A j \in Jobs : j \in pending \/ Judged(j) \/ \E h \in Hosts : <<j, h>> \in running

(* A stage that a process has left, or whose jobs are all there are.       *)
Left(n) == complete \/ \E g \in Hosts : host[g].stage > n
Settled ==
    /\ \A j \in Jobs : Left(j.stage) =>
        /\ j \notin pending
        /\ Judged(j)
        /\ \A h \in Hosts : host[h].pc \in HeldPcs /\ host[h].job = j => j \in robbed
    /\ \A h \in Hosts : At(h, "anyrunning") => PendingIn(host[h].stage) = {}

Summarised ==
    complete \/ (\E h \in Hosts : At(h, "complete")) =>
        \A j \in Jobs \ robbed : j \in summary <=> Done(j) /\ j.experiment = "B1"

PipelineOK ==
    /\ TypeOK /\ HostsOK /\ OneClaimer /\ Untouched /\ LeasesHeld /\ LeasesKept /\ Written
    /\ TakenOver /\ Ended /\ StartedOnce /\ Kept /\ Settled /\ Summarised
    /\ summary \subseteq Jobs

-----------------------------------------------------------------------------
LEMMA StageFacts == /\ Len(Stages) \in Nat
                    /\ DOMAIN Stages = 1..Len(Stages)
  BY PipelineAssumption

(* plan_jobs: a job carries the number of its stage.                       *)
LEMMA JobFacts == \A j \in Jobs : j.stage \in 1..Len(Stages)
  <1> SUFFICES ASSUME NEW n \in DOMAIN Stages, NEW j \in StageJobs(n, Stages[n])
               PROVE  j.stage = n
    BY StageFacts DEF Jobs
  <1> DEFINE st == Stages[n]
  <1>1. st.experiment \in {"setup", "B1", "B2", "B3"}
    BY PipelineAssumption
  <1>2. j \in SetupJob(n) \/ j \in B1Jobs(n, st) \/ j \in B2Jobs(n, st) \/ j \in B3Jobs(n, st)
    BY <1>1 DEF StageJobs
  <1>3. QED
    BY <1>2 DEF SetupJob, B1Jobs, B2Jobs, B3Jobs, Payload

LEMMA PcFacts ==
    /\ \A p \in StartPcs \cup RecoverPcs \cup ClaimPcs \cup LookPcs \cup LastPcs : p \in Pcs
    /\ {"killed", "raised"} \subseteq Pcs
    /\ Backs \subseteq Pcs \cup {"stage"}
  BY DEF Pcs, LookPcs, Backs

(* What a step does to the process that takes it; the others stay.         *)
Becomes(h, p, s, j, t, b) ==
    /\ host' \in [Hosts -> HostRecord]
    /\ \A g \in Hosts \ {h} : host'[g] = host[g]
    /\ host'[h].pc = p /\ host'[h].stage = s /\ host'[h].job = j
    /\ host'[h].todo = t /\ host'[h].back = b

LEMMA Sets ==
    ASSUME NEW h \in Hosts, host \in [Hosts -> HostRecord], NEW r \in HostRecord,
           host' = [host EXCEPT ![h] = r]
    PROVE  Becomes(h, r.pc, r.stage, r.job, r.todo, r.back)
  BY DEF Becomes

LEMMA FieldFacts ==
    ASSUME host \in [Hosts -> HostRecord], NEW h \in Hosts
    PROVE  /\ host[h].pc \in Pcs /\ host[h].stage \in Nat
           /\ host[h].job \in Jobs \cup Leases \cup {None}
           /\ host[h].todo \in SUBSET Leases /\ host[h].back \in Backs \cup {None}
  BY DEF HostRecord

LEMMA Goes ==
    ASSUME NEW h \in Hosts, host \in [Hosts -> HostRecord], NEW p \in Pcs, Go(h, p)
    PROVE  Becomes(h, p, host[h].stage, host[h].job, host[h].todo, host[h].back)
  <1>1. PICK r : r = [host[h] EXCEPT !.pc = p]
    OBVIOUS
  <1>2. /\ r \in HostRecord /\ r.pc = p /\ r.stage = host[h].stage /\ r.job = host[h].job
        /\ r.todo = host[h].todo /\ r.back = host[h].back
    BY <1>1 DEF HostRecord
  <1>3. QED
    BY <1>1, <1>2, Sets DEF Go

LEMMA Recovers ==
    ASSUME NEW h \in Hosts, host \in [Hosts -> HostRecord], NEW s \in Nat, NEW b \in Backs,
           Recover(h, s, b)
    PROVE  Becomes(h, "recover", s, None, {}, b)
  <1>1. PICK r : r = [Idle EXCEPT !.pc = "recover", !.stage = s, !.back = b]
    OBVIOUS
  <1>2. r \in HostRecord /\ r.pc = "recover" /\ r.stage = s /\ r.job = None /\ r.todo = {} /\ r.back = b
    BY <1>1, PcFacts DEF Idle, HostRecord, RecoverPcs
  <1>3. QED
    BY <1>1, <1>2, Sets DEF Recover

LEMMA Returns ==
    ASSUME NEW h \in Hosts, host \in [Hosts -> HostRecord], host[h].back \in Backs, Return(h)
    PROVE  \/ Becomes(h, "recover", host[h].stage, None, {}, "claim")
           \/ /\ host[h].back \in {"claim", "anypending"}
              /\ Becomes(h, host[h].back, host[h].stage, host[h].job, {}, host[h].back)
  <1>1. CASE host[h].back = "stage"
    BY <1>1, Recovers, FieldFacts DEF Return, Backs
  <1>2. CASE host[h].back # "stage"
    <2>1. PICK r : r = [host[h] EXCEPT !.pc = host[h].back, !.todo = {}]
      OBVIOUS
    <2>2. /\ r \in HostRecord /\ r.pc = host[h].back /\ r.stage = host[h].stage
          /\ r.job = host[h].job /\ r.todo = {} /\ r.back = host[h].back
      BY <1>2, <2>1, PcFacts DEF HostRecord
    <2>3. host' = [host EXCEPT ![h] = r]
      BY <1>2, <2>1 DEF Return
    <2>4. QED
      BY <1>2, <2>2, <2>3, Sets DEF Backs
  <1>3. QED
    BY <1>1, <1>2

LEMMA RecordFacts ==
    ASSUME NEW r \in HostRecord, NEW p \in Pcs
    PROVE  /\ \A t \in SUBSET Leases : [r EXCEPT !.pc = p, !.todo = t] \in HostRecord
           /\ \A j \in Jobs \cup Leases \cup {None} : [r EXCEPT !.pc = p, !.job = j] \in HostRecord
  BY DEF HostRecord

LEMMA Dying ==
    ASSUME NEW h \in Hosts, host \in [Hosts -> HostRecord], Kill(h) \/ BreakOff(h)
    PROVE  /\ ~ Gone(h) /\ Up(h)
           /\ UNCHANGED <<queueVars, ready, complete, summary, aged, robbed>>
           /\ Becomes(h, "killed", 0, host[h].job, {}, None)
              \/ Becomes(h, "raised", 0, host[h].job, {}, None)
  <1>1. PICK pc \in {"killed", "raised"} : Dies(h, pc)
    BY DEF Kill, BreakOff
  <1>2. PICK r : r = [Idle EXCEPT !.pc = pc, !.job = host[h].job]
    OBVIOUS
  <1>3. /\ r \in HostRecord /\ r.pc = pc /\ r.stage = 0 /\ r.job = host[h].job
        /\ r.todo = {} /\ r.back = None
    BY <1>2, FieldFacts, PcFacts DEF Idle, HostRecord
  <1>4. QED
    BY <1>1, <1>2, <1>3, Sets DEF Dies, Gone, Up

(* No step of a process moves another one.                                 *)
Moves(h) == host' \in [Hosts -> HostRecord] /\ \A g \in Hosts \ {h} : host'[g] = host[g]

LEMMA HostMoves ==
    ASSUME TypeOK, HostsOK, NEW h \in Hosts, Start(h) \/ Work(h) \/ Kill(h) \/ BreakOff(h) \/ Age(h)
    PROVE  Moves(h)
  <1> USE FieldFacts, PcFacts DEF TypeOK, At, Moves, Becomes
  <1>1. CASE Start(h)
    BY <1>1, Goes, Recovers DEF Start, StartPcs, Backs
  <1>2. CASE TakeInitLock(h)
    BY <1>2, Goes DEF TakeInitLock, StartPcs, RecoverPcs, StalePcs, GivenUpPcs, ClaimPcs,
       FreshPcs, EndedPcs, LookPcs, LastPcs
  <1>3. CASE FillOne(h)
    BY <1>3 DEF FillOne
  <1>4. CASE OpenQueue(h)
    BY <1>4, Recovers DEF OpenQueue, Backs
  <1>5. CASE AwaitReady(h)
    BY <1>5, Recovers DEF AwaitReady, Backs
  <1>6. CASE ListLeases(h)
    <2> DEFINE leases == {l \in running : l[1].stage = host[h].stage}
    <2>1. CASE leases = {}
      BY <1>6, <2>1, Returns DEF ListLeases, HostsOK, HostOK, RecoverPcs
    <2>2. CASE leases # {}
      <3>1. host' = [host EXCEPT ![h] = [host[h] EXCEPT !.pc = "judge", !.todo = leases]]
        BY <1>6, <2>2 DEF ListLeases, HostRecord
      <3>2. PICK r : r = [host[h] EXCEPT !.pc = "judge", !.todo = leases]
        OBVIOUS
      <3>3. leases \in SUBSET Leases
        OBVIOUS
      <3>4. r \in HostRecord
        <4>1. "judge" \in Pcs
          BY PcFacts DEF RecoverPcs
        <4> HIDE DEF leases
        <4>2. QED
          BY <3>2, <3>3, <4>1, RecordFacts
      <3>5. QED
        BY <3>1, <3>2, <3>4
    <2>3. QED
      BY <2>1, <2>2
  <1>7. CASE SkipLease(h)
    BY <1>7 DEF SkipLease, HostRecord, StartPcs, RecoverPcs, StalePcs, GivenUpPcs,
       ClaimPcs, FreshPcs, EndedPcs, LookPcs, LastPcs, Idle, PendingIn
  <1>8. CASE JudgeStale(h)
    BY <1>8 DEF JudgeStale, HostRecord, StartPcs, RecoverPcs, StalePcs, GivenUpPcs,
       ClaimPcs, FreshPcs, EndedPcs, LookPcs, LastPcs, Idle, PendingIn
  <1>9. CASE ReadStale(h)
    BY <1>9, Goes DEF ReadStale, HostRecord, StartPcs, RecoverPcs, StalePcs, GivenUpPcs,
       ClaimPcs, FreshPcs, EndedPcs, LookPcs, LastPcs
  <1>10. CASE GiveUp(h)
    BY <1>10, Goes DEF GiveUp, StartPcs, RecoverPcs, StalePcs, GivenUpPcs, ClaimPcs,
       FreshPcs, EndedPcs, LookPcs, LastPcs
  <1>11. CASE WriteGivenUp(h)
    BY <1>11, Goes DEF WriteGivenUp, StartPcs, RecoverPcs, StalePcs, GivenUpPcs, ClaimPcs,
       FreshPcs, EndedPcs, LookPcs, LastPcs
  <1>12. CASE DropStaleLease(h)
    BY <1>12, Goes DEF DropStaleLease, StartPcs, RecoverPcs, StalePcs, GivenUpPcs,
       ClaimPcs, FreshPcs, EndedPcs, LookPcs, LastPcs
  <1>13. CASE DropStaleBeat(h)
    <2>1. PICK r : r = [host[h] EXCEPT !.pc = "judge", !.job = None]
      OBVIOUS
    <2>2. r \in HostRecord
      <3>1. "judge" \in Pcs
        BY PcFacts DEF RecoverPcs
      <3>2. QED
        BY <2>1, <3>1, RecordFacts
    <2>3. QED
      BY <1>13, <2>1, <2>2 DEF DropStaleBeat
  <1>14. CASE Recovered(h)
    BY <1>14, Returns DEF Recovered, HostsOK, HostOK, RecoverPcs
  <1>15. CASE Claim(h)
    <2>1. PICK j \in Jobs : host' = [host EXCEPT ![h].pc = "readlease", ![h].job = j]
      BY <1>15 DEF Claim, PendingIn
    <2>2. PICK r : r = [host[h] EXCEPT !.pc = "readlease", !.job = j]
      OBVIOUS
    <2>3. r \in HostRecord
      <3>1. "readlease" \in Pcs
        BY PcFacts DEF ClaimPcs, FreshPcs
      <3>2. QED
        BY <2>2, <3>1, RecordFacts
    <2>4. QED
      BY <2>1, <2>2, <2>3
  <1>16. CASE NothingToClaim(h)
    BY <1>16, Recovers DEF NothingToClaim, Backs
  <1>17. CASE ReadLease(h)
    BY <1>17, Goes DEF ReadLease, StartPcs, RecoverPcs, StalePcs, GivenUpPcs, ClaimPcs,
       FreshPcs, EndedPcs, LookPcs, LastPcs
  <1>18. CASE OpenLease(h)
    BY <1>18, Goes DEF OpenLease, StartPcs, RecoverPcs, StalePcs, GivenUpPcs, ClaimPcs,
       FreshPcs, EndedPcs, LookPcs, LastPcs
  <1>19. CASE WriteLease(h)
    BY <1>19, Goes DEF WriteLease, StartPcs, RecoverPcs, StalePcs, GivenUpPcs, ClaimPcs,
       FreshPcs, EndedPcs, LookPcs, LastPcs
  <1>20. CASE WriteBeat(h)
    BY <1>20, Goes DEF WriteBeat, StartPcs, RecoverPcs, StalePcs, GivenUpPcs, ClaimPcs,
       FreshPcs, EndedPcs, LookPcs, LastPcs
  <1>21. CASE OpenDone(h)
    BY <1>21, Goes DEF OpenDone, StartPcs, RecoverPcs, StalePcs, GivenUpPcs, ClaimPcs,
       FreshPcs, EndedPcs, LookPcs, LastPcs
  <1>22. CASE WriteDone(h)
    BY <1>22, Goes DEF WriteDone, StartPcs, RecoverPcs, StalePcs, GivenUpPcs, ClaimPcs,
       FreshPcs, EndedPcs, LookPcs, LastPcs
  <1>23. CASE DropLease(h)
    BY <1>23, Goes DEF DropLease, StartPcs, RecoverPcs, StalePcs, GivenUpPcs, ClaimPcs,
       FreshPcs, EndedPcs, LookPcs, LastPcs
  <1>24. CASE DropBeat(h)
    BY <1>24, Recovers DEF DropBeat, Backs
  <1>25. CASE LookPending(h)
    BY <1>25, Goes, Recovers DEF LookPending, Backs, LookPcs
  <1>26. CASE LookRunning(h)
    <2>1. CASE \E n \in Nat : \E b \in Backs : Recover(h, n, b)
      BY <2>1, Recovers
    <2>2. CASE \E p \in {"aggregate", "awaitend"} :
                 host' = [host EXCEPT ![h] = [Idle EXCEPT !.stage = Len(Stages) + 1, !.pc = p]]
      <3>1. PICK p \in {"aggregate", "awaitend"} :
                 host' = [host EXCEPT ![h] = [Idle EXCEPT !.stage = Len(Stages) + 1, !.pc = p]]
        BY <2>2
      <3>2. PICK r : r = [Idle EXCEPT !.stage = Len(Stages) + 1, !.pc = p]
        OBVIOUS
      <3>3. p \in Pcs
        BY PcFacts DEF LastPcs
      <3>4. r \in HostRecord
        <4>1. Len(Stages) + 1 \in Nat
          BY StageFacts
        <4>2. r.stage = Len(Stages) + 1 /\ r.pc = p
          BY <3>2 DEF Idle
        <4>3. QED
          BY <3>2, <3>3, <4>1, <4>2 DEF HostRecord, Idle
      <3>5. QED
        BY <3>1, <3>2, <3>4
    <2>3. host[h].stage \in Nat /\ host[h].stage + 1 \in Nat
      OBVIOUS
    <2>4. QED
      BY <1>26, <2>1, <2>2, <2>3, Zenon DEF LookRunning, Backs
  <1>27. CASE TakeAggregateLock(h)
    BY <1>27, Goes DEF TakeAggregateLock, StartPcs, RecoverPcs, StalePcs, GivenUpPcs,
       ClaimPcs, FreshPcs, EndedPcs, LookPcs, LastPcs
  <1>28. CASE WriteSummary(h)
    BY <1>28, Goes DEF WriteSummary, StartPcs, RecoverPcs, StalePcs, GivenUpPcs, ClaimPcs,
       FreshPcs, EndedPcs, LookPcs, LastPcs
  <1>29. CASE MarkComplete(h)
    BY <1>29, Goes DEF MarkComplete, StartPcs, RecoverPcs, StalePcs, GivenUpPcs, ClaimPcs,
       FreshPcs, EndedPcs, LookPcs, LastPcs
  <1>30. CASE AwaitComplete(h)
    BY <1>30, Goes DEF AwaitComplete, StartPcs, RecoverPcs, StalePcs, GivenUpPcs,
       ClaimPcs, FreshPcs, EndedPcs, LookPcs, LastPcs
  <1>31. CASE Kill(h) \/ BreakOff(h)
    BY <1>31, Dying
  <1>32. CASE Age(h)
    BY <1>32 DEF Age
  <1>33. QED
    BY <1>1, <1>2, <1>3, <1>4, <1>5, <1>6, <1>7, <1>8, <1>9, <1>10, <1>11, <1>12,
       <1>13, <1>14, <1>15, <1>16, <1>17, <1>18, <1>19, <1>20, <1>21, <1>22, <1>23,
       <1>24, <1>25, <1>26, <1>27, <1>28, <1>29, <1>30, <1>31, <1>32 DEF Work

(* A step that neither begins nor ends a claim or a takeover, and leaves   *)
(* the files of the jobs alone.                                            *)
Walks(h) ==
    /\ host[h].pc \notin ClaimPcs \cup StalePcs \cup {"killed", "raised"}
    /\ host'[h].pc \notin ClaimPcs \cup StalePcs
    /\ UNCHANGED <<queueVars, faultVars>>

LEMMA Walking ==
    ASSUME TypeOK, HostsOK, NEW h \in Hosts,
           \/ Start(h) \/ TakeInitLock(h) \/ OpenQueue(h) \/ AwaitReady(h) \/ ListLeases(h)
           \/ SkipLease(h) \/ Recovered(h) \/ NothingToClaim(h) \/ LookPending(h)
           \/ LookRunning(h) \/ TakeAggregateLock(h) \/ WriteSummary(h) \/ MarkComplete(h)
           \/ AwaitComplete(h)
    PROVE  Walks(h)
  <1> USE DEF TypeOK, HostRecord, Idle, At, Walks, HostsOK, HostOK, StalePcs, GivenUpPcs,
              RecoverPcs,
              ClaimPcs, FreshPcs, EndedPcs, Backs
  <1>1. CASE Start(h)
    <2>1. CASE ready
      BY <1>1, <2>1, Recovers DEF Start, Becomes
    <2>2. CASE ~ ready
      BY <1>1, <2>2 DEF Start, Go
    <2>3. QED
      BY <2>1, <2>2
  <1>2. CASE TakeInitLock(h)
    BY <1>2 DEF TakeInitLock, Go
  <1>3. CASE OpenQueue(h)
    BY <1>3 DEF OpenQueue, Recover, AllFilled
  <1>4. CASE AwaitReady(h)
    BY <1>4 DEF AwaitReady, Recover
  <1>5. CASE ListLeases(h)
    <2> DEFINE leases == {l \in running : l[1].stage = host[h].stage}
    <2>1. CASE leases = {}
      BY <1>5, <2>1, Returns DEF ListLeases, Becomes
    <2>2. CASE leases # {}
      <3> HIDE DEF leases
      <3>1. host' = [host EXCEPT ![h].pc = "judge", ![h].todo = leases]
        BY <1>5, <2>2 DEF ListLeases, leases
      <3>2. QED
        BY <1>5, <3>1 DEF ListLeases
    <2>3. QED
      BY <2>1, <2>2
  <1>6. CASE SkipLease(h)
    BY <1>6 DEF SkipLease
  <1>7. CASE Recovered(h)
    BY <1>7, Returns DEF Recovered, Becomes
  <1>8. CASE NothingToClaim(h)
    BY <1>8 DEF NothingToClaim, Recover, PendingIn
  <1>9. CASE LookPending(h)
    BY <1>9, Recovers, Goes, PcFacts DEF LookPending, Becomes, LookPcs
  <1>10. CASE LookRunning(h)
    <2>1. host[h].stage \in Nat /\ host[h].stage + 1 \in Nat
      OBVIOUS
    <2>2. CASE \E n \in Nat : \E b \in Backs : Recover(h, n, b)
      BY <1>10, <2>2, Recovers DEF LookRunning, Becomes
    <2>3. CASE \E p \in {"aggregate", "awaitend"} :
                 host' = [host EXCEPT ![h] = [Idle EXCEPT !.stage = Len(Stages) + 1, !.pc = p]]
      <3>1. host'[h].pc \in {"aggregate", "awaitend"}
        BY <2>3
      <3>2. QED
        BY <1>10, <3>1 DEF LookRunning
    <2>4. QED
      BY <1>10, <2>1, <2>2, <2>3, Zenon DEF LookRunning, Backs
  <1>11. CASE TakeAggregateLock(h)
    BY <1>11 DEF TakeAggregateLock, Go
  <1>12. CASE WriteSummary(h)
    <2>1. /\ Go(h, "raised") \/ Go(h, "complete")
          /\ At(h, "summarise") /\ UNCHANGED <<queueVars, faultVars>>
      BY <1>12, Zenon DEF WriteSummary, At
    <2>2. QED
      BY <2>1 DEF Go
  <1>13. CASE MarkComplete(h)
    BY <1>13 DEF MarkComplete, Go
  <1>14. CASE AwaitComplete(h)
    BY <1>14 DEF AwaitComplete, Go
  <1>15. QED
    BY <1>1, <1>2, <1>3, <1>4, <1>5, <1>6, <1>7, <1>8, <1>9, <1>10, <1>11, <1>12,
       <1>13, <1>14

LEMMA TypeStep ==
    ASSUME TypeOK, HostsOK, NEW h \in Hosts,
           Start(h) \/ Work(h) \/ Kill(h) \/ BreakOff(h) \/ Age(h)
    PROVE  TypeOK'
  <1> USE HostMoves DEF Moves, TypeOK, HostsOK, HostOK, StalePcs, GivenUpPcs, RecoverPcs,
              ClaimPcs, FreshPcs, EndedPcs, Leases, At, queueVars, faultVars, endVars
  <1>1. CASE Start(h)
    BY <1>1 DEF Start, Recover, Go
  <1>2. CASE TakeInitLock(h)
    BY <1>2 DEF TakeInitLock, Go
  <1>3. CASE FillOne(h)
    BY <1>3 DEF FillOne
  <1>4. CASE OpenQueue(h)
    BY <1>4 DEF OpenQueue, Recover, AllFilled
  <1>5. CASE AwaitReady(h)
    BY <1>5 DEF AwaitReady, Recover
  <1>6. CASE ListLeases(h)
    BY <1>6 DEF ListLeases, Return, Recover
  <1>7. CASE SkipLease(h)
    BY <1>7 DEF SkipLease
  <1>8. CASE JudgeStale(h)
    BY <1>8 DEF JudgeStale, MarkerMayBeStale, MarkerIsStale, ClaimedLate
  <1>9. CASE ReadStale(h)
    BY <1>9 DEF ReadStale, Go
  <1>10. CASE GiveUp(h)
    BY <1>10 DEF GiveUp, Go, Exhausted, MaxRetries
  <1>11. CASE WriteGivenUp(h)
    BY <1>11 DEF WriteGivenUp, Go
  <1>12. CASE DropStaleLease(h)
    BY <1>12 DEF DropStaleLease, Go
  <1>13. CASE DropStaleBeat(h)
    BY <1>13 DEF DropStaleBeat
  <1>14. CASE Recovered(h)
    BY <1>14 DEF Recovered, Return, Recover
  <1>15. CASE Claim(h)
    BY <1>15 DEF Claim, PendingIn
  <1>16. CASE NothingToClaim(h)
    BY <1>16 DEF NothingToClaim, Recover, PendingIn
  <1>17. CASE ReadLease(h)
    BY <1>17 DEF ReadLease, Go, Lease
  <1>18. CASE OpenLease(h)
    <2>1. Lease(h) \in Leases
      BY <1>18 DEF OpenLease, Lease
    <2>2. QED
      BY <1>18, <2>1 DEF OpenLease
  <1>19. CASE WriteLease(h)
    BY <1>19 DEF WriteLease, Go, Lease
  <1>20. CASE WriteBeat(h)
    <2>1. Lease(h) \in Leases /\ host[h].job \in Jobs
      BY <1>20 DEF WriteBeat, Lease
    <2>2. started' \in [Jobs -> Nat]
      BY <1>20, <2>1 DEF WriteBeat
    <2>3. QED
      BY <1>20, <2>1, <2>2 DEF WriteBeat
  <1>21. CASE OpenDone(h)
    <2>1. host[h].job \in Jobs
      BY <1>21 DEF OpenDone
    <2>2. QED
      BY <1>21, <2>1 DEF OpenDone
  <1>22. CASE WriteDone(h)
    BY <1>22 DEF WriteDone, Go
  <1>23. CASE DropLease(h)
    BY <1>23 DEF DropLease, Go, Lease
  <1>24. CASE DropBeat(h)
    BY <1>24 DEF DropBeat, Recover, Lease
  <1>25. CASE LookPending(h)
    BY <1>25 DEF LookPending, Recover, Go, PendingIn
  <1>26. CASE LookRunning(h)
    BY <1>26 DEF LookRunning, Recover, Go, InProgress
  <1>27. CASE TakeAggregateLock(h)
    BY <1>27 DEF TakeAggregateLock, Go
  <1>28. CASE WriteSummary(h)
    BY <1>28 DEF WriteSummary, Go
  <1>29. CASE MarkComplete(h)
    BY <1>29 DEF MarkComplete, Go
  <1>30. CASE AwaitComplete(h)
    BY <1>30 DEF AwaitComplete, Go
  <1>31. CASE Kill(h) \/ BreakOff(h)
    BY <1>31 DEF Kill, BreakOff, Dies, Up
  <1>32. CASE Age(h)
    BY <1>32 DEF Age, Gone
  <1>33. QED
    BY <1>1, <1>2, <1>3, <1>4, <1>5, <1>6, <1>7, <1>8, <1>9, <1>10, <1>11, <1>12,
       <1>13, <1>14, <1>15, <1>16, <1>17, <1>18, <1>19, <1>20, <1>21, <1>22, <1>23,
       <1>24, <1>25, <1>26, <1>27, <1>28, <1>29, <1>30, <1>31, <1>32 DEF Work

LEMMA ReadyStays ==
    ASSUME TypeOK, HostsOK, NEW h \in Hosts,
           Start(h) \/ Work(h) \/ Kill(h) \/ BreakOff(h) \/ Age(h)
    PROVE  /\ ready => ready'
           /\ complete => complete'
           /\ complete' => complete \/ (At(h, "complete") /\ ready)
           /\ summary' # summary => At(h, "summarise")
  <1> USE HostMoves DEF Moves, queueVars, faultVars, endVars, HostsOK, HostOK, StartPcs,
              At, TypeOK
  <1>1. CASE Start(h)
    BY <1>1 DEF Start, Recover, Go
  <1>2. CASE TakeInitLock(h)
    BY <1>2 DEF TakeInitLock, Go
  <1>3. CASE FillOne(h)
    BY <1>3 DEF FillOne
  <1>4. CASE OpenQueue(h)
    BY <1>4 DEF OpenQueue, Recover, AllFilled
  <1>5. CASE AwaitReady(h)
    BY <1>5 DEF AwaitReady, Recover
  <1>6. CASE ListLeases(h)
    BY <1>6 DEF ListLeases, Return, Recover
  <1>7. CASE SkipLease(h)
    BY <1>7 DEF SkipLease
  <1>8. CASE JudgeStale(h)
    BY <1>8 DEF JudgeStale, MarkerMayBeStale, MarkerIsStale, ClaimedLate
  <1>9. CASE ReadStale(h)
    BY <1>9 DEF ReadStale, Go
  <1>10. CASE GiveUp(h)
    BY <1>10 DEF GiveUp, Go, Exhausted, MaxRetries
  <1>11. CASE WriteGivenUp(h)
    BY <1>11 DEF WriteGivenUp, Go
  <1>12. CASE DropStaleLease(h)
    BY <1>12 DEF DropStaleLease, Go
  <1>13. CASE DropStaleBeat(h)
    BY <1>13 DEF DropStaleBeat
  <1>14. CASE Recovered(h)
    BY <1>14 DEF Recovered, Return, Recover
  <1>15. CASE Claim(h)
    BY <1>15 DEF Claim, PendingIn
  <1>16. CASE NothingToClaim(h)
    BY <1>16 DEF NothingToClaim, Recover, PendingIn
  <1>17. CASE ReadLease(h)
    BY <1>17 DEF ReadLease, Go, Lease
  <1>18. CASE OpenLease(h)
    BY <1>18 DEF OpenLease, Go, Lease
  <1>19. CASE WriteLease(h)
    BY <1>19 DEF WriteLease, Go, Lease
  <1>20. CASE WriteBeat(h)
    BY <1>20 DEF WriteBeat, Go, Lease
  <1>21. CASE OpenDone(h)
    BY <1>21 DEF OpenDone, Go
  <1>22. CASE WriteDone(h)
    BY <1>22 DEF WriteDone, Go
  <1>23. CASE DropLease(h)
    BY <1>23 DEF DropLease, Go, Lease
  <1>24. CASE DropBeat(h)
    BY <1>24 DEF DropBeat, Recover, Lease
  <1>25. CASE LookPending(h)
    BY <1>25 DEF LookPending, Recover, Go, PendingIn
  <1>26. CASE LookRunning(h)
    BY <1>26 DEF LookRunning, Recover, Go, InProgress
  <1>27. CASE TakeAggregateLock(h)
    BY <1>27 DEF TakeAggregateLock, Go
  <1>28. CASE WriteSummary(h)
    BY <1>28 DEF WriteSummary, Go
  <1>29. CASE MarkComplete(h)
    BY <1>29 DEF MarkComplete, Go
  <1>30. CASE AwaitComplete(h)
    BY <1>30 DEF AwaitComplete, Go
  <1>31. CASE Kill(h) \/ BreakOff(h)
    BY <1>31, Dying DEF Becomes
  <1>32. CASE Age(h)
    BY <1>32 DEF Age, Gone
  <1>33. QED
    BY <1>1, <1>2, <1>3, <1>4, <1>5, <1>6, <1>7, <1>8, <1>9, <1>10, <1>11, <1>12,
       <1>13, <1>14, <1>15, <1>16, <1>17, <1>18, <1>19, <1>20, <1>21, <1>22, <1>23,
       <1>24, <1>25, <1>26, <1>27, <1>28, <1>29, <1>30, <1>31, <1>32 DEF Work

LEMMA GoneStays ==
    ASSUME TypeOK, HostsOK, NEW h \in Hosts,
           Start(h) \/ Work(h) \/ Kill(h) \/ BreakOff(h) \/ Age(h)
    PROVE  /\ Gone(h) => host' = host
           /\ \A g \in aged' \ aged : Gone(g)
           /\ aged \subseteq aged'
  <1> USE HostMoves DEF Moves, Gone, At, queueVars, faultVars, endVars, HostsOK,
              HostRecord, TypeOK
  <1>1. CASE Start(h)
    BY <1>1 DEF Start, Recover, Go
  <1>2. CASE TakeInitLock(h)
    BY <1>2 DEF TakeInitLock, Go
  <1>3. CASE FillOne(h)
    BY <1>3 DEF FillOne
  <1>4. CASE OpenQueue(h)
    BY <1>4 DEF OpenQueue, Recover, AllFilled
  <1>5. CASE AwaitReady(h)
    BY <1>5 DEF AwaitReady, Recover
  <1>6. CASE ListLeases(h)
    BY <1>6 DEF ListLeases, Return, Recover
  <1>7. CASE SkipLease(h)
    BY <1>7 DEF SkipLease
  <1>8. CASE JudgeStale(h)
    BY <1>8 DEF JudgeStale, MarkerMayBeStale, MarkerIsStale, ClaimedLate
  <1>9. CASE ReadStale(h)
    BY <1>9 DEF ReadStale, Go
  <1>10. CASE GiveUp(h)
    BY <1>10 DEF GiveUp, Go, Exhausted, MaxRetries
  <1>11. CASE WriteGivenUp(h)
    BY <1>11 DEF WriteGivenUp, Go
  <1>12. CASE DropStaleLease(h)
    BY <1>12 DEF DropStaleLease, Go
  <1>13. CASE DropStaleBeat(h)
    BY <1>13 DEF DropStaleBeat
  <1>14. CASE Recovered(h)
    BY <1>14 DEF Recovered, Return, Recover
  <1>15. CASE Claim(h)
    BY <1>15 DEF Claim, PendingIn
  <1>16. CASE NothingToClaim(h)
    BY <1>16 DEF NothingToClaim, Recover, PendingIn
  <1>17. CASE ReadLease(h)
    BY <1>17 DEF ReadLease, Go, Lease
  <1>18. CASE OpenLease(h)
    BY <1>18 DEF OpenLease, Go, Lease
  <1>19. CASE WriteLease(h)
    BY <1>19 DEF WriteLease, Go, Lease
  <1>20. CASE WriteBeat(h)
    BY <1>20 DEF WriteBeat, Go, Lease
  <1>21. CASE OpenDone(h)
    BY <1>21 DEF OpenDone, Go
  <1>22. CASE WriteDone(h)
    BY <1>22 DEF WriteDone, Go
  <1>23. CASE DropLease(h)
    BY <1>23 DEF DropLease, Go, Lease
  <1>24. CASE DropBeat(h)
    BY <1>24 DEF DropBeat, Recover, Lease
  <1>25. CASE LookPending(h)
    BY <1>25 DEF LookPending, Recover, Go, PendingIn
  <1>26. CASE LookRunning(h)
    BY <1>26 DEF LookRunning, Recover, Go, InProgress
  <1>27. CASE TakeAggregateLock(h)
    BY <1>27 DEF TakeAggregateLock, Go
  <1>28. CASE WriteSummary(h)
    BY <1>28 DEF WriteSummary, Go
  <1>29. CASE MarkComplete(h)
    BY <1>29 DEF MarkComplete, Go
  <1>30. CASE AwaitComplete(h)
    BY <1>30 DEF AwaitComplete, Go
  <1>31. CASE Kill(h) \/ BreakOff(h)
    BY <1>31, Dying
  <1>32. CASE Age(h)
    BY <1>32 DEF Age, Gone
  <1>33. QED
    BY <1>1, <1>2, <1>3, <1>4, <1>5, <1>6, <1>7, <1>8, <1>9, <1>10, <1>11, <1>12,
       <1>13, <1>14, <1>15, <1>16, <1>17, <1>18, <1>19, <1>20, <1>21, <1>22, <1>23,
       <1>24, <1>25, <1>26, <1>27, <1>28, <1>29, <1>30, <1>31, <1>32 DEF Work

LEMMA RecoverOK ==
    ASSUME host \in [Hosts -> HostRecord], NEW h \in Hosts, NEW s \in Nat, NEW b \in Backs,
           Recover(h, s, b), ready'
    PROVE  HostOK(h)'
  BY Recovers DEF Becomes, HostOK, ClaimPcs, FreshPcs, EndedPcs, StalePcs, GivenUpPcs, LastPcs, RecoverPcs

LEMMA ReturnOK ==
    ASSUME host \in [Hosts -> HostRecord], NEW h \in Hosts, host[h].back \in Backs, Return(h), ready'
    PROVE  HostOK(h)'
  BY Returns DEF Becomes, HostOK, ClaimPcs, FreshPcs, EndedPcs, StalePcs, GivenUpPcs, RecoverPcs,
          LastPcs, Backs

LEMMA HostStep ==
    ASSUME TypeOK, HostsOK, ready => ready', NEW h \in Hosts,
           Start(h) \/ Work(h) \/ Kill(h) \/ BreakOff(h) \/ Age(h)
    PROVE  HostOK(h)'
  <1>0. /\ HostOK(h)
        /\ host \in [Hosts -> HostRecord] /\ host' \in [Hosts -> HostRecord]
    BY HostMoves DEF HostsOK, TypeOK, Moves
  <1> USE <1>0 DEF HostRecord, HostOK, StalePcs, GivenUpPcs, RecoverPcs,
              ClaimPcs, FreshPcs, EndedPcs, StartPcs, LookPcs, LastPcs, Backs, Leases,
              At, Becomes
  <1>1. CASE Start(h)
    <2>1. CASE ready
      BY <1>1, <2>1, RecoverOK DEF Start
    <2>2. CASE ~ ready
      BY <1>1, <2>2 DEF Start, Go
    <2>3. QED
      BY <2>1, <2>2
  <1>2. CASE TakeInitLock(h)
    BY <1>2 DEF TakeInitLock, Go
  <1>3. CASE FillOne(h)
    BY <1>3 DEF FillOne
  <1>4. CASE OpenQueue(h)
    BY <1>4, RecoverOK DEF OpenQueue
  <1>5. CASE AwaitReady(h)
    BY <1>5, RecoverOK DEF AwaitReady
  <1>6. CASE ListLeases(h)
    <2> DEFINE leases == {l \in running : l[1].stage = host[h].stage}
    <2>1. CASE leases = {}
      BY <1>6, <2>1, ReturnOK DEF ListLeases
    <2>2. CASE leases # {}
      <3> HIDE DEF leases
      <3>1. host' = [host EXCEPT ![h].pc = "judge", ![h].todo = leases]
        BY <1>6, <2>2 DEF ListLeases, leases
      <3>2. QED
        BY <1>6, <3>1 DEF ListLeases
    <2>3. QED
      BY <2>1, <2>2
  <1>7. CASE SkipLease(h)
    BY <1>7 DEF SkipLease
  <1>8. CASE JudgeStale(h)
    BY <1>8 DEF JudgeStale, MarkerMayBeStale, MarkerIsStale, ClaimedLate
  <1>9. CASE ReadStale(h)
    BY <1>9 DEF ReadStale, Go
  <1>10. CASE GiveUp(h)
    BY <1>10 DEF GiveUp, Go, Exhausted, MaxRetries
  <1>11. CASE WriteGivenUp(h)
    BY <1>11 DEF WriteGivenUp, Go
  <1>12. CASE DropStaleLease(h)
    BY <1>12 DEF DropStaleLease, Go
  <1>13. CASE DropStaleBeat(h)
    BY <1>13 DEF DropStaleBeat
  <1>14. CASE Recovered(h)
    BY <1>14, ReturnOK DEF Recovered
  <1>15. CASE Claim(h)
    <2>1. PICK j \in Jobs : /\ j.stage = host[h].stage
                           /\ host' = [host EXCEPT ![h].pc = "readlease", ![h].job = j]
      BY <1>15 DEF Claim, PendingIn, TypeOK
    <2>2. host'[h].pc = "readlease" /\ host'[h].job = j /\ host'[h].stage = host[h].stage
      BY <2>1
    <2>3. QED
      BY <1>15, <2>1, <2>2 DEF Claim
  <1>16. CASE NothingToClaim(h)
    BY <1>16, RecoverOK DEF NothingToClaim
  <1>17. CASE ReadLease(h)
    BY <1>17 DEF ReadLease, Go, Lease
  <1>18. CASE OpenLease(h)
    BY <1>18 DEF OpenLease, Go, Lease
  <1>19. CASE WriteLease(h)
    BY <1>19 DEF WriteLease, Go, Lease
  <1>20. CASE WriteBeat(h)
    BY <1>20 DEF WriteBeat, Go, Lease
  <1>21. CASE OpenDone(h)
    BY <1>21 DEF OpenDone, Go
  <1>22. CASE WriteDone(h)
    BY <1>22 DEF WriteDone, Go
  <1>23. CASE DropLease(h)
    BY <1>23 DEF DropLease, Go, Lease
  <1>24. CASE DropBeat(h)
    BY <1>24, RecoverOK DEF DropBeat
  <1>25. CASE LookPending(h)
    <2>1. CASE PendingIn(host[h].stage) # {}
      BY <1>25, <2>1, RecoverOK DEF LookPending
    <2>2. CASE PendingIn(host[h].stage) = {}
      BY <1>25, <2>2 DEF LookPending, Go
    <2>3. QED
      BY <2>1, <2>2
  <1>26. CASE LookRunning(h)
    <2>1. host[h].stage \in Nat /\ host[h].stage + 1 \in Nat
      OBVIOUS
    <2>2. ready'
      BY <1>26 DEF LookRunning
    <2>3. CASE \E n \in Nat : \E b \in Backs : Recover(h, n, b)
      BY <1>26, <2>2, <2>3, RecoverOK
    <2>4. CASE \E p \in {"aggregate", "awaitend"} :
                 host' = [host EXCEPT ![h] = [Idle EXCEPT !.stage = Len(Stages) + 1, !.pc = p]]
      <3>1. /\ host'[h].pc \in {"aggregate", "awaitend"}
            /\ host'[h].stage = Len(Stages) + 1
        BY <2>4 DEF Idle
      <3>2. QED
        BY <2>2, <3>1, StageFacts
    <2>5. QED
      BY <1>26, <2>1, <2>3, <2>4, Zenon DEF LookRunning, Backs
  <1>27. CASE TakeAggregateLock(h)
    BY <1>27 DEF TakeAggregateLock, Go
  <1>28. CASE WriteSummary(h)
    <2>1. (Go(h, "raised") \/ Go(h, "complete")) /\ At(h, "summarise") /\ UNCHANGED ready
      BY <1>28, Zenon DEF WriteSummary, At
    <2>2. QED
      BY <2>1 DEF Go
  <1>29. CASE MarkComplete(h)
    BY <1>29 DEF MarkComplete, Go
  <1>30. CASE AwaitComplete(h)
    BY <1>30 DEF AwaitComplete, Go
  <1>31. CASE Kill(h) \/ BreakOff(h)
    <2>1. host'[h].pc \in {"killed", "raised"} /\ host'[h].stage = 0
      BY <1>31, Dying
    <2>2. QED
      BY <2>1
  <1>32. CASE Age(h)
    BY <1>32 DEF Age, Gone
  <1>33. QED
    BY <1>1, <1>2, <1>3, <1>4, <1>5, <1>6, <1>7, <1>8, <1>9, <1>10, <1>11, <1>12,
       <1>13, <1>14, <1>15, <1>16, <1>17, <1>18, <1>19, <1>20, <1>21, <1>22, <1>23,
       <1>24, <1>25, <1>26, <1>27, <1>28, <1>29, <1>30, <1>31, <1>32 DEF Work

LEMMA HostsStep ==
    ASSUME TypeOK, HostsOK, NEW h \in Hosts,
           Start(h) \/ Work(h) \/ Kill(h) \/ BreakOff(h) \/ Age(h)
    PROVE  HostsOK'
  <1>1. ASSUME NEW g \in Hosts
        PROVE  HostOK(g)'
    <2>1. CASE g = h
      BY <2>1, HostStep, ReadyStays
    <2>2. CASE g # h
      BY <2>2, HostMoves, ReadyStays DEF Moves, HostsOK, HostOK
    <2>3. QED
      BY <2>1, <2>2
  <1>2. ASSUME NEW g \in aged'
        PROVE  Gone(g)'
    <2>1. Gone(g)
      BY GoneStays DEF HostsOK
    <2>2. g \in Hosts
      BY TypeStep DEF TypeOK
    <2>3. QED
      BY <2>1, <2>2, GoneStays, HostMoves DEF Moves, Gone
  <1>3. complete' => ready'
    BY ReadyStays DEF HostsOK
  <1>4. QED
    BY <1>1, <1>2, <1>3 DEF HostsOK

-----------------------------------------------------------------------------
(* The steps of a process, by what they do to the files of the jobs: what  *)
(* becomes of the process's record is spelled out.                         *)
fileVars == <<pending, running, verdicts, rewritten, started>>
restVars == <<ready, complete, summary, robbed, aged>>

On(h, p, q) ==
    /\ host[h].pc = p /\ host'[h].pc = q
    /\ host'[h].job = host[h].job /\ host'[h].stage = host[h].stage

Fills(h) ==
    /\ ~ ready /\ host' = host
    /\ pending \subseteq pending' /\ pending' \subseteq Jobs
    /\ UNCHANGED <<running, verdicts, rewritten, started, restVars>>

Judges(h) ==
    /\ host[h].pc = "judge" /\ host'[h].pc = "readstale" /\ host'[h].stage = host[h].stage
    /\ \E l \in running :
         /\ host'[h].job = l
         /\ l[2] \in aged \/ l \notin rewritten
         /\ l[2] \in aged \/ Gone(l[2]) \/ l[1] \in robbed'
         /\ robbed' \in {robbed, robbed \cup {l[1]}}
    /\ UNCHANGED <<fileVars, ready, complete, summary, aged>>

Proceeds(h) ==
    /\ \/ On(h, "readstale", "giveup") \/ On(h, "wroteverdict", "dropstale")
       \/ On(h, "readlease", "openlease") \/ On(h, "writelease", "beat")
       \/ On(h, "writedone", "unlease")
    /\ UNCHANGED <<fileVars, restVars>>

(* It is through with a claim or a takeover, or gone.                      *)
Quits(h) ==
    /\ \/ /\ host[h].pc \in StalePcs \cup {"unbeat"} /\ host'[h].pc \in {"judge", "recover"}
          /\ host'[h].stage = host[h].stage
       \/ /\ ~ Gone(h) /\ host'[h].pc \in {"killed", "raised"} /\ host'[h].job = host[h].job
          /\ host'[h].stage = 0
       \/ On(h, "readstale", "raised")
       \/ On(h, "readlease", "raised") /\ Lease(h) \notin running
    /\ UNCHANGED <<fileVars, restVars>>

Condemns(h) ==
    /\ On(h, "giveup", "wroteverdict")
    /\ verdicts' = verdicts \cup {<<host[h].job[1], "failed">>}
    /\ UNCHANGED <<pending, running, rewritten, started, restVars>>

Evicts(h) ==
    /\ On(h, "dropstale", "dropbeat")
    /\ running' = running \ {host[h].job} /\ rewritten' = rewritten \ {host[h].job}
    /\ UNCHANGED <<pending, verdicts, started, restVars>>

Claims(h, j) ==
    /\ host[h].pc = "claim" /\ host'[h].pc = "readlease"
    /\ host'[h].job = j /\ host'[h].stage = host[h].stage
    /\ j \in pending /\ j.stage = host[h].stage
    /\ pending' = pending \ {j} /\ running' = running \cup {<<j, h>>}
    /\ UNCHANGED <<verdicts, rewritten, started, restVars>>

Rewrites(h) ==
    /\ On(h, "openlease", "writelease")
    /\ running' = running \cup {Lease(h)} /\ rewritten' = rewritten \cup {Lease(h)}
    /\ UNCHANGED <<pending, verdicts, started, restVars>>

Runs(h) ==
    /\ On(h, "beat", "run")
    /\ started' = [started EXCEPT ![host[h].job] = @ + 1]
    /\ UNCHANGED <<pending, running, verdicts, rewritten, restVars>>

Ends(h) ==
    /\ On(h, "run", "writedone")
    /\ verdicts' = verdicts \cup {<<host[h].job, "done">>}
    /\ UNCHANGED <<pending, running, rewritten, started, restVars>>

Releases(h) ==
    /\ On(h, "unlease", "unbeat")
    /\ running' = running \ {Lease(h)} /\ rewritten' = rewritten \ {Lease(h)}
    /\ UNCHANGED <<pending, verdicts, started, restVars>>

Ages(h) ==
    /\ Gone(h) /\ host' = host /\ aged' = aged \cup {h}
    /\ UNCHANGED <<fileVars, ready, complete, summary, robbed>>

Handles(h) ==
    \/ Fills(h) \/ Judges(h) \/ Proceeds(h) \/ Quits(h) \/ Condemns(h) \/ Evicts(h)
    \/ (\E j \in pending : Claims(h, j)) \/ Rewrites(h) \/ Runs(h) \/ Ends(h) \/ Releases(h)
    \/ Ages(h)

LEMMA Handling ==
    ASSUME TypeOK, HostsOK, NEW h \in Hosts,
           Start(h) \/ Work(h) \/ Kill(h) \/ BreakOff(h) \/ Age(h)
    PROVE  Walks(h) \/ Handles(h)
  <1>0. HostOK(h) /\ host \in [Hosts -> HostRecord]
    BY DEF HostsOK, TypeOK
  <1> USE <1>0 DEF fileVars, restVars, queueVars, faultVars, endVars, At, HostRecord, Handles
  <1>1. CASE FillOne(h)
    BY <1>1 DEF FillOne, Fills, TypeOK
  <1>2. CASE JudgeStale(h)
    <2>1. PICK l \in host[h].todo :
             /\ l \in running /\ MarkerMayBeStale(l)
             /\ host' = [host EXCEPT ![h].pc = "readstale", ![h].job = l, ![h].todo = @ \ {l}]
             /\ robbed' = IF ClaimedLate(l) /\ ~Gone(l[2]) THEN robbed \cup {l[1]} ELSE robbed
      BY <1>2 DEF JudgeStale
    <2>2. /\ host'[h].pc = "readstale" /\ host'[h].job = l /\ host'[h].stage = host[h].stage
          /\ host[h].pc = "judge"
      BY <1>2, <2>1 DEF JudgeStale
    <2>3. /\ l[2] \in aged \/ l \notin rewritten
          /\ l[2] \in aged \/ Gone(l[2]) \/ l[1] \in robbed'
      BY <2>1 DEF MarkerMayBeStale, MarkerIsStale, ClaimedLate
    <2>4. Judges(h)
      BY <1>2, <2>1, <2>2, <2>3 DEF JudgeStale, Judges
    <2>5. QED
      BY <2>4
  <1>3. CASE ReadStale(h)
    BY <1>3 DEF ReadStale, Go, Proceeds, Quits, StalePcs, On
  <1>4. CASE GiveUp(h)
    <2>1. host[h].job \in Leases /\ host[h].job[1] \in Jobs
      BY <1>4 DEF GiveUp, HostOK, StalePcs, Leases
    <2>2. Exhausted(host[h].job[1])
      BY <2>1 DEF Exhausted, MaxRetries, TypeOK
    <2>3. QED
      BY <1>4, <2>2 DEF GiveUp, Go, Condemns, On
  <1>5. CASE WriteGivenUp(h)
    BY <1>5 DEF WriteGivenUp, Go, Proceeds, On
  <1>6. CASE DropStaleLease(h)
    BY <1>6 DEF DropStaleLease, Go, Evicts, On
  <1>7. CASE DropStaleBeat(h)
    BY <1>7 DEF DropStaleBeat, Quits, StalePcs, GivenUpPcs, On
  <1>8. CASE Claim(h)
    <2>1. PICK j \in pending : /\ j.stage = host[h].stage
                              /\ pending' = pending \ {j} /\ running' = running \cup {<<j, h>>}
                              /\ host' = [host EXCEPT ![h].pc = "readlease", ![h].job = j]
      BY <1>8 DEF Claim, PendingIn
    <2>2. /\ host'[h].pc = "readlease" /\ host'[h].job = j /\ host'[h].stage = host[h].stage
          /\ host[h].pc = "claim"
      BY <1>8, <2>1 DEF Claim
    <2>3. Claims(h, j)
      BY <1>8, <2>1, <2>2 DEF Claim, Claims
    <2>4. QED
      BY <2>3
  <1>9. CASE ReadLease(h)
    BY <1>9 DEF ReadLease, Go, Lease, Proceeds, Quits, On
  <1>10. CASE OpenLease(h)
    BY <1>10 DEF OpenLease, Go, Lease, Rewrites, On
  <1>11. CASE WriteLease(h)
    BY <1>11 DEF WriteLease, Go, Lease, Proceeds, On
  <1>12. CASE WriteBeat(h)
    BY <1>12 DEF WriteBeat, Go, Lease, Runs, On
  <1>13. CASE OpenDone(h)
    BY <1>13 DEF OpenDone, Go, Ends, On
  <1>14. CASE WriteDone(h)
    BY <1>14 DEF WriteDone, Go, Proceeds, On
  <1>15. CASE DropLease(h)
    BY <1>15 DEF DropLease, Go, Lease, Releases, On
  <1>16. CASE DropBeat(h)
    <2>1. Becomes(h, "recover", host[h].stage, None, {}, "claim")
      BY <1>16, Recovers, FieldFacts DEF DropBeat, Backs
    <2>2. QED
      BY <1>16, <2>1 DEF DropBeat, Quits, Becomes
  <1>17. CASE Kill(h) \/ BreakOff(h)
    BY <1>17 DEF Kill, BreakOff, Dies, Up, Quits, On, Gone, Idle
  <1>18. CASE Age(h)
    BY <1>18 DEF Age, Gone, Ages
  <1>19. QED
    BY <1>1, <1>2, <1>3, <1>4, <1>5, <1>6, <1>7, <1>8, <1>9, <1>10, <1>11, <1>12,
       <1>13, <1>14, <1>15, <1>16, <1>17, <1>18, Walking DEF Work

(* Only a rename out of pending/ makes a claimer.                          *)
Carries(h) ==
    /\ host'[h].pc \in ClaimPcs => host[h].pc \in ClaimPcs /\ host'[h].job = host[h].job
    /\ host'[h].pc \in StalePcs =>
           host'[h].job \in running \/ (host[h].pc \in StalePcs /\ host'[h].job = host[h].job)
    /\ running' \subseteq running \cup {l \in Leases : l = Lease(h) /\ host[h].pc \in ClaimPcs}

LEMMA Carrying ==
    ASSUME TypeOK, NEW h \in Hosts, Moves(h), Carries(h), NEW j \in Jobs, NEW g \in Hosts, Claimer(g, j)'
    PROVE  Claimer(g, j)
  <1>1. CASE host'[g].pc \in ClaimPcs /\ host'[g].job = j
    BY <1>1 DEF Moves, Carries, Claimer
  <1>2. CASE <<j, g>> \in running'
    BY <1>2 DEF Carries, Claimer, Lease
  <1>3. ASSUME NEW r \in Hosts, host'[r].pc \in StalePcs, host'[r].job = <<j, g>>
        PROVE  Claimer(g, j)
    <2>1. CASE r = h
      BY <1>3, <2>1 DEF Carries, Claimer
    <2>2. CASE r # h
      BY <1>3, <2>2 DEF Moves, Claimer
    <2>3. QED
      BY <2>1, <2>2
  <1>4. QED
    BY <1>1, <1>2, <1>3 DEF Claimer

LEMMA CarryStep ==
    ASSUME TypeOK, HostsOK, NEW h \in Hosts, Moves(h), Walks(h) \/ Handles(h)
    PROVE  Carries(h) \/ \E j \in pending : Claims(h, j)
  <1> USE DEF HostRecord, HostOK, StalePcs, GivenUpPcs, ClaimPcs, FreshPcs, EndedPcs,
              HeldPcs, MarkedPcs, Leases, Lease, Gone, TypeOK, HostsOK, fileVars,
              restVars, queueVars, faultVars, On, Moves, Carries
  <1>1. CASE Walks(h)
    BY <1>1 DEF Walks
  <1>2. CASE Fills(h)
    BY <1>2 DEF Fills
  <1>3. CASE Judges(h)
    BY <1>3 DEF Judges
  <1>4. CASE Proceeds(h)
    BY <1>4 DEF Proceeds
  <1>5. CASE Quits(h)
    BY <1>5 DEF Quits
  <1>6. CASE Condemns(h)
    BY <1>6 DEF Condemns
  <1>7. CASE Evicts(h)
    BY <1>7 DEF Evicts
  <1>8. ASSUME NEW j \in pending, Claims(h, j)
        PROVE  Carries(h) \/ \E k \in pending : Claims(h, k)
    BY <1>8
  <1>9. CASE Rewrites(h)
    BY <1>9 DEF Rewrites
  <1>10. CASE Runs(h)
    BY <1>10 DEF Runs
  <1>11. CASE Ends(h)
    BY <1>11 DEF Ends
  <1>12. CASE Releases(h)
    BY <1>12 DEF Releases
  <1>13. CASE Ages(h)
    BY <1>13 DEF Ages
  <1>14. QED
    BY <1>1, <1>2, <1>3, <1>4, <1>5, <1>6, <1>7, <1>8, <1>9, <1>10, <1>11, <1>12,
       <1>13 DEF Handles

LEMMA ClaimerStep ==
    ASSUME TypeOK, HostsOK, NEW h \in Hosts, Moves(h), Walks(h) \/ Handles(h),
           NEW j \in Jobs, NEW g \in Hosts, Claimer(g, j)'
    PROVE  Claimer(g, j) \/ (g = h /\ Claims(h, j))
  <1>1. CASE Carries(h)
    BY <1>1, Carrying
  <1>2. ASSUME NEW i \in pending, Claims(h, i), ~ Claimer(g, j)
        PROVE  g = h /\ j = i
    <2>1. CASE host'[g].pc \in ClaimPcs /\ host'[g].job = j
      BY <1>2, <2>1 DEF Moves, Claims, Claimer
    <2>2. CASE <<j, g>> \in running'
      BY <1>2, <2>2 DEF Claims, Claimer
    <2>3. ASSUME NEW r \in Hosts, host'[r].pc \in StalePcs, host'[r].job = <<j, g>>
          PROVE  FALSE
      <3>1. r # h
        BY <1>2, <2>3 DEF Claims, StalePcs, GivenUpPcs
      <3>2. QED
        BY <1>2, <2>3, <3>1 DEF Moves, Claimer
    <2>4. QED
      BY <2>1, <2>2, <2>3 DEF Claimer
  <1>3. QED
    BY <1>1, <1>2, CarryStep

LEMMA OneClaimerStep ==
    ASSUME TypeOK, HostsOK, OneClaimer, Untouched, NEW h \in Hosts, Moves(h), Walks(h) \/ Handles(h)
    PROVE  OneClaimer'
  <1> SUFFICES ASSUME NEW j \in Jobs, NEW f \in Hosts, NEW g \in Hosts, Claimer(f, j)', Claimer(g, j)'
               PROVE  f = g
    BY DEF OneClaimer
  <1>1. CASE Claims(h, j)
    <2>1. \A e \in Hosts : ~ Claimer(e, j)
      BY <1>1 DEF Claims, Untouched
    <2>2. QED
      BY <2>1, ClaimerStep
  <1>2. CASE ~ Claims(h, j)
    BY <1>2, ClaimerStep DEF OneClaimer
  <1>3. QED
    BY <1>1, <1>2

LEMMA UntouchedFiles ==
    ASSUME TypeOK, HostsOK, Untouched, ready => ready',
           NEW i \in Jobs, i \in pending' \/ ~ ready', NEW h \in Hosts, Moves(h), Walks(h) \/ Handles(h)
    PROVE  started'[i] = 0 /\ ~ Done(i)' /\ ~ Failed(i)'
  <1>0. /\ started[i] = 0 /\ ~ Done(i) /\ ~ Failed(i)
        /\ \A g \in Hosts : ~ Claimer(g, i)
    <2>1. i \in pending \/ ~ ready
      BY DEF Walks, Handles, Fills, Judges, Proceeds, Quits, Condemns, Evicts, Claims, Rewrites,
             Runs, Ends, Releases, Ages, fileVars, restVars, queueVars
    <2>2. QED
      BY <2>1 DEF Untouched
  <1>a. /\ host[h].pc \in ClaimPcs => host[h].job # i
        /\ host[h].pc \in StalePcs => host[h].job \in Leases /\ host[h].job[1] # i
    <2>1. ASSUME host[h].pc \in ClaimPcs
          PROVE  host[h].job # i
      BY <1>0, <2>1 DEF Claimer
    <2>2. ASSUME host[h].pc \in StalePcs
          PROVE  host[h].job \in Leases /\ host[h].job[1] # i
      <3>1. PICK f \in Jobs, g \in Hosts : host[h].job = <<f, g>>
        BY <2>2 DEF HostsOK, HostOK, Leases
      <3>2. Claimer(g, f)
        BY <2>2, <3>1 DEF Claimer
      <3>3. QED
        BY <1>0, <3>1, <3>2 DEF Leases
    <2>3. QED
      BY <2>1, <2>2
  <1> USE <1>0, <1>a DEF HostRecord, HostOK, StalePcs, GivenUpPcs, ClaimPcs, FreshPcs, EndedPcs,
              HeldPcs, MarkedPcs, Leases, Lease, Gone, TypeOK, HostsOK, fileVars,
              restVars, queueVars, faultVars, On, Moves, Done, Failed
  <1>1. CASE Walks(h)
    BY <1>1 DEF Walks
  <1>2. CASE Fills(h)
    BY <1>2 DEF Fills
  <1>3. CASE Judges(h)
    BY <1>3 DEF Judges
  <1>4. CASE Proceeds(h)
    BY <1>4 DEF Proceeds
  <1>5. CASE Quits(h)
    BY <1>5 DEF Quits
  <1>6. CASE Condemns(h)
    <2>1. <<host[h].job[1], "failed">> # <<i, "failed">>
      BY <1>6 DEF Condemns
    <2>2. QED
      BY <1>6, <2>1 DEF Condemns
  <1>7. CASE Evicts(h)
    BY <1>7 DEF Evicts
  <1>8. ASSUME NEW j \in pending, Claims(h, j)
        PROVE  started'[i] = 0 /\ ~ Done(i)' /\ ~ Failed(i)'
    BY <1>8 DEF Claims
  <1>9. CASE Rewrites(h)
    BY <1>9 DEF Rewrites
  <1>10. CASE Runs(h)
    <2>1. host[h].job # i
      BY <1>10 DEF Runs
    <2>2. started'[i] = started[i]
      BY <1>10, <2>1 DEF Runs
    <2>3. QED
      BY <1>10, <2>2 DEF Runs
  <1>11. CASE Ends(h)
    <2>1. <<host[h].job, "done">> # <<i, "done">>
      BY <1>11 DEF Ends
    <2>2. QED
      BY <1>11, <2>1 DEF Ends
  <1>12. CASE Releases(h)
    BY <1>12 DEF Releases
  <1>13. CASE Ages(h)
    BY <1>13 DEF Ages
  <1>14. QED
    BY <1>1, <1>2, <1>3, <1>4, <1>5, <1>6, <1>7, <1>8, <1>9, <1>10, <1>11, <1>12,
       <1>13 DEF Handles

LEMMA UntouchedStep ==
    ASSUME TypeOK, HostsOK, Untouched, ready => ready',
           NEW h \in Hosts, Moves(h), Walks(h) \/ Handles(h)
    PROVE  Untouched'
  <1> SUFFICES ASSUME NEW i \in Jobs, i \in pending' \/ ~ ready'
               PROVE  /\ started'[i] = 0 /\ ~ Done(i)' /\ ~ Failed(i)'
                      /\ \A g \in Hosts : ~ Claimer(g, i)'
    BY DEF Untouched
  <1>1. i \in pending \/ ~ ready
    BY DEF Walks, Handles, Fills, Judges, Proceeds, Quits, Condemns, Evicts, Claims, Rewrites,
           Runs, Ends, Releases, Ages, fileVars, restVars, queueVars
  <1>2. ~ Claims(h, i)
    BY DEF Claims, restVars, HostsOK, HostOK, StartPcs
  <1>3. \A g \in Hosts : ~ Claimer(g, i)'
    BY <1>1, <1>2, ClaimerStep DEF Untouched
  <1>4. QED
    BY <1>3, UntouchedFiles

LEMMA LeasesHeldStep ==
    ASSUME TypeOK, HostsOK, LeasesHeld, NEW h \in Hosts, Moves(h), Walks(h) \/ Handles(h)
    PROVE  LeasesHeld'
  <1> USE DEF StalePcs, GivenUpPcs, ClaimPcs, FreshPcs, EndedPcs,
              HeldPcs, MarkedPcs, Lease, Gone, fileVars,
              restVars, queueVars, faultVars, On, Moves, LeasesHeld
  <1>1. CASE Walks(h)
    BY <1>1 DEF Walks
  <1>2. CASE Fills(h)
    BY <1>2 DEF Fills
  <1>3. CASE Judges(h)
    BY <1>3 DEF Judges
  <1>4. CASE Proceeds(h)
    BY <1>4 DEF Proceeds
  <1>5. CASE Quits(h)
    BY <1>5 DEF Quits
  <1>6. CASE Condemns(h)
    BY <1>6 DEF Condemns
  <1>7. CASE Evicts(h)
    <2>1. On(h, "dropstale", "dropbeat") /\ running' \subseteq running /\ UNCHANGED <<verdicts, robbed>>
      BY <1>7 DEF Evicts
    <2>2. QED
      BY <2>1
  <1>8. ASSUME NEW j \in pending, Claims(h, j)
        PROVE  LeasesHeld'
    BY <1>8 DEF Claims
  <1>9. CASE Rewrites(h)
    BY <1>9 DEF Rewrites
  <1>10. CASE Runs(h)
    <2>1. On(h, "beat", "run") /\ UNCHANGED <<pending, running, verdicts, rewritten, restVars>>
      BY <1>10 DEF Runs
    <2>2. QED
      BY <2>1
  <1>11. CASE Ends(h)
    <2>1. On(h, "run", "writedone") /\ UNCHANGED <<pending, running, rewritten, started, restVars>>
      BY <1>11 DEF Ends
    <2>2. QED
      BY <2>1
  <1>12. CASE Releases(h)
    BY <1>12 DEF Releases
  <1>13. CASE Ages(h)
    BY <1>13 DEF Ages
  <1>14. QED
    BY <1>1, <1>2, <1>3, <1>4, <1>5, <1>6, <1>7, <1>8, <1>9, <1>10, <1>11, <1>12,
       <1>13 DEF Handles

LEMMA LeasesKeptStep ==
    ASSUME TypeOK, HostsOK, LeasesKept, TakenOver, LeasesHeld, NEW h \in Hosts, Moves(h), Walks(h) \/ Handles(h)
    PROVE  LeasesKept'
  <1> USE DEF HostRecord, HostOK, StalePcs, GivenUpPcs, ClaimPcs, FreshPcs, EndedPcs,
              HeldPcs, MarkedPcs, Leases, Lease, Gone, TypeOK, HostsOK, fileVars,
              restVars, queueVars, faultVars, On, Moves, LeasesKept
  <1>1. CASE Walks(h)
    BY <1>1 DEF Walks
  <1>2. CASE Fills(h)
    BY <1>2 DEF Fills
  <1>3. CASE Judges(h)
    BY <1>3 DEF Judges
  <1>4. CASE Proceeds(h)
    BY <1>4 DEF Proceeds
  <1>5. CASE Quits(h)
    BY <1>5 DEF Quits
  <1>6. CASE Condemns(h)
    BY <1>6 DEF Condemns
  <1>7. CASE Evicts(h)
    <2>1. ASSUME NEW g \in Hosts, host'[g].pc \in HeldPcs, host'[g].job \notin robbed
          PROVE  <<host[g].job, g>> \in running /\ <<host[g].job, g>> # host[h].job /\ host'[g] = host[g]
      <3>1. g # h /\ host'[g] = host[g]
        BY <1>7, <2>1 DEF Evicts
      <3>2. <<host[g].job, g>> \in running
        BY <1>7, <2>1, <3>1 DEF Evicts
      <3>3. host[h].pc \in StalePcs
        BY <1>7 DEF Evicts
      <3>4. <<host[g].job, g>> # host[h].job
        <4>1. ASSUME <<host[g].job, g>> = host[h].job
              PROVE  FALSE
          <5>1. host[h].job[1] = host[g].job /\ host[h].job[2] = g
            BY <4>1
          <5>2. Gone(g)
            BY <2>1, <3>1, <3>3, <5>1 DEF TakenOver, DiedWith
          <5>3. QED
            BY <2>1, <3>1, <5>2
        <4>2. QED
          BY <4>1
      <3>5. QED
        BY <3>1, <3>2, <3>4
    <2>2. QED
      BY <1>7, <2>1 DEF Evicts
  <1>8. ASSUME NEW j \in pending, Claims(h, j)
        PROVE  LeasesKept'
    BY <1>8 DEF Claims
  <1>9. CASE Rewrites(h)
    BY <1>9 DEF Rewrites
  <1>10. CASE Runs(h)
    <2>1. On(h, "beat", "run") /\ UNCHANGED <<pending, running, verdicts, rewritten, restVars>>
      BY <1>10 DEF Runs
    <2>2. QED
      BY <2>1
  <1>11. CASE Ends(h)
    <2>1. On(h, "run", "writedone") /\ UNCHANGED <<pending, running, rewritten, started, restVars>>
      BY <1>11 DEF Ends
    <2>2. QED
      BY <2>1
  <1>12. CASE Releases(h)
    BY <1>12 DEF Releases
  <1>13. CASE Ages(h)
    BY <1>13 DEF Ages
  <1>14. QED
    BY <1>1, <1>2, <1>3, <1>4, <1>5, <1>6, <1>7, <1>8, <1>9, <1>10, <1>11, <1>12,
       <1>13 DEF Handles

LEMMA TakenOf ==
    ASSUME HostsOK, NEW r \in Hosts, host[r].pc \in StalePcs
    PROVE  \E j \in Jobs, g \in Hosts : host[r].job = <<j, g>> /\ Claimer(g, j)
  BY DEF HostsOK, HostOK, Leases, Claimer

LEMMA ClaimerOf ==
    ASSUME HostsOK, NEW h \in Hosts, host[h].pc \in ClaimPcs
    PROVE  host[h].job \in Jobs /\ Claimer(h, host[h].job)
  BY DEF HostsOK, HostOK, Claimer

LEMMA MarkedStep ==
    ASSUME TypeOK, HostsOK, Written, NEW h \in Hosts, Moves(h), Walks(h) \/ Handles(h)
    PROVE  \A g \in Hosts : host'[g].pc \in MarkedPcs /\ Lease(g)' \in running' => Lease(g)' \in rewritten'
  <1> USE DEF HostRecord, HostOK, StalePcs, GivenUpPcs, ClaimPcs, FreshPcs, EndedPcs,
              HeldPcs, MarkedPcs, Leases, Lease, Gone, TypeOK, HostsOK, fileVars,
              restVars, queueVars, faultVars, On, Moves, Written
  <1>1. CASE Walks(h)
    BY <1>1 DEF Walks
  <1>2. CASE Fills(h)
    BY <1>2 DEF Fills
  <1>3. CASE Judges(h)
    BY <1>3 DEF Judges
  <1>4. CASE Proceeds(h)
    BY <1>4 DEF Proceeds
  <1>5. CASE Quits(h)
    BY <1>5 DEF Quits
  <1>6. CASE Condemns(h)
    BY <1>6 DEF Condemns
  <1>7. CASE Evicts(h)
    BY <1>7 DEF Evicts
  <1>8. ASSUME NEW j \in pending, Claims(h, j)
        PROVE  \A g \in Hosts : host'[g].pc \in MarkedPcs /\ Lease(g)' \in running' => Lease(g)' \in rewritten'
    BY <1>8 DEF Claims
  <1>9. CASE Rewrites(h)
    BY <1>9 DEF Rewrites
  <1>10. CASE Runs(h)
    <2>1. On(h, "beat", "run") /\ UNCHANGED <<pending, running, verdicts, rewritten, restVars>>
      BY <1>10 DEF Runs
    <2>2. QED
      BY <2>1
  <1>11. CASE Ends(h)
    <2>1. On(h, "run", "writedone") /\ UNCHANGED <<pending, running, rewritten, started, restVars>>
      BY <1>11 DEF Ends
    <2>2. QED
      BY <2>1
  <1>12. CASE Releases(h)
    BY <1>12 DEF Releases
  <1>13. CASE Ages(h)
    BY <1>13 DEF Ages
  <1>14. QED
    BY <1>1, <1>2, <1>3, <1>4, <1>5, <1>6, <1>7, <1>8, <1>9, <1>10, <1>11, <1>12,
       <1>13 DEF Handles

LEMMA WrittenStep ==
    ASSUME TypeOK, HostsOK, Written, OneClaimer, Untouched, NEW h \in Hosts, Moves(h), Walks(h) \/ Handles(h)
    PROVE  \A l \in running' : Done(l[1])' => l \in rewritten'
  <1> USE DEF HostRecord, HostOK, StalePcs, GivenUpPcs, ClaimPcs, FreshPcs, EndedPcs,
              HeldPcs, MarkedPcs, Leases, Lease, Gone, TypeOK, HostsOK, fileVars,
              restVars, queueVars, faultVars, On, Moves, Written, Done
  <1>1. CASE Walks(h)
    BY <1>1 DEF Walks
  <1>2. CASE Fills(h)
    BY <1>2 DEF Fills
  <1>3. CASE Judges(h)
    BY <1>3 DEF Judges
  <1>4. CASE Proceeds(h)
    BY <1>4 DEF Proceeds
  <1>5. CASE Quits(h)
    BY <1>5 DEF Quits
  <1>6. CASE Condemns(h)
    BY <1>6 DEF Condemns
  <1>7. CASE Evicts(h)
    BY <1>7 DEF Evicts
  <1>8. ASSUME NEW j \in pending, Claims(h, j)
        PROVE  \A l \in running' : Done(l[1])' => l \in rewritten'
    <2>1. ~ Done(j)
      BY DEF Untouched
    <2>2. ASSUME NEW l \in running', Done(l[1])'
          PROVE  l \in rewritten
      <3>1. l = <<j, h>> => l[1] = j
        OBVIOUS
      <3>2. l \in running /\ Done(l[1])
        BY <1>8, <2>1, <2>2, <3>1 DEF Claims
      <3>3. QED
        BY <3>2
    <2>3. rewritten' = rewritten
      BY <1>8 DEF Claims
    <2>4. QED
      BY <2>2, <2>3
  <1>9. CASE Rewrites(h)
    BY <1>9 DEF Rewrites
  <1>10. CASE Runs(h)
    <2>1. On(h, "beat", "run") /\ UNCHANGED <<pending, running, verdicts, rewritten, restVars>>
      BY <1>10 DEF Runs
    <2>2. QED
      BY <2>1
  <1>11. CASE Ends(h)
    <2>1. SUFFICES ASSUME NEW l \in running, Done(l[1])', ~ Done(l[1])
                   PROVE  l \in rewritten
      BY <1>11 DEF Ends
    <2>2. PICK i \in Jobs, g \in Hosts : l = <<i, g>>
      BY <2>1
    <2>3. i = host[h].job
      BY <1>11, <2>1, <2>2 DEF Ends
    <2>4. Claimer(g, i) /\ Claimer(h, i)
      BY <1>11, <2>2, <2>3, ClaimerOf DEF Claimer, Ends
    <2>5. g = h
      BY <2>2, <2>4 DEF OneClaimer
    <2>6. QED
      BY <1>11, <2>2, <2>3, <2>5 DEF Ends
  <1>12. CASE Releases(h)
    BY <1>12 DEF Releases
  <1>13. CASE Ages(h)
    BY <1>13 DEF Ages
  <1>14. QED
    BY <1>1, <1>2, <1>3, <1>4, <1>5, <1>6, <1>7, <1>8, <1>9, <1>10, <1>11, <1>12,
       <1>13 DEF Handles

LEMMA DiedStays ==
    ASSUME TypeOK, HostsOK, NEW b \in Hosts, NEW i \in Jobs, DiedWith(b, i),
           NEW h \in Hosts, Moves(h), Walks(h) \/ Handles(h), ~ (Ends(h) /\ host[h].job = i)
    PROVE  DiedWith(b, i)'
  <1> USE DEF HostRecord, HostOK, StalePcs, GivenUpPcs, ClaimPcs, FreshPcs, EndedPcs,
              HeldPcs, MarkedPcs, Leases, Lease, Gone, TypeOK, HostsOK, fileVars,
              restVars, queueVars, faultVars, On, Moves, DiedWith, Done
  <1>1. CASE Walks(h)
    BY <1>1 DEF Walks
  <1>2. CASE Fills(h)
    BY <1>2 DEF Fills
  <1>3. CASE Judges(h)
    BY <1>3 DEF Judges
  <1>4. CASE Proceeds(h)
    BY <1>4 DEF Proceeds
  <1>5. CASE Quits(h)
    BY <1>5 DEF Quits
  <1>6. CASE Condemns(h)
    BY <1>6 DEF Condemns
  <1>7. CASE Evicts(h)
    BY <1>7 DEF Evicts
  <1>8. ASSUME NEW j \in pending, Claims(h, j)
        PROVE  DiedWith(b, i)'
    BY <1>8 DEF Claims
  <1>9. CASE Rewrites(h)
    BY <1>9 DEF Rewrites
  <1>10. CASE Runs(h)
    BY <1>10 DEF Runs
  <1>11. CASE Ends(h)
    BY <1>11 DEF Ends
  <1>12. CASE Releases(h)
    BY <1>12 DEF Releases
  <1>13. CASE Ages(h)
    BY <1>13 DEF Ages
  <1>14. QED
    BY <1>1, <1>2, <1>3, <1>4, <1>5, <1>6, <1>7, <1>8, <1>9, <1>10, <1>11, <1>12,
       <1>13 DEF Handles

LEMMA TakenStep ==
    ASSUME TypeOK, HostsOK, OneClaimer, LeasesHeld, Written, TakenOver,
           NEW h \in Hosts, Moves(h), Walks(h) \/ Handles(h),
           NEW r \in Hosts, host'[r].pc \in StalePcs, host'[r].job[1] \notin robbed'
    PROVE  DiedWith(host[r].job[2], host[r].job[1])'
  <1>1. CASE r = h /\ Judges(h)
    <2>1. PICK l \in running : /\ host'[h].job = l
                               /\ l[2] \in aged \/ l \notin rewritten
                               /\ l[2] \in aged \/ Gone(l[2]) \/ l[1] \in robbed'
      BY <1>1 DEF Judges
    <2>2. PICK j \in Jobs, g \in Hosts : l = <<j, g>>
      BY <2>1 DEF TypeOK, Leases
    <2>3. Gone(g) /\ host[g].job = j
      BY <1>1, <2>1, <2>2 DEF HostsOK, LeasesHeld
    <2>4. g \in aged \/ ~ Done(j)
      BY <2>1, <2>2 DEF Written
    <2>5. DiedWith(g, j)' <=> DiedWith(g, j)
      <3>1. g # h
        BY <1>1, <2>3 DEF Judges, Gone
      <3>2. QED
        BY <1>1, <3>1 DEF Judges, DiedWith, Moves, Gone, Done, fileVars
    <2>6. QED
      BY <1>1, <2>1, <2>2, <2>3, <2>4, <2>5 DEF DiedWith
  <1>2. CASE ~ (r = h /\ Judges(h))
    <2>1. /\ host[r].pc \in StalePcs /\ host'[r].job = host[r].job
          /\ host[r].job[1] \notin robbed
      <3>1. r = h => On(h, "readstale", "giveup") \/ On(h, "giveup", "wroteverdict")
                     \/ On(h, "wroteverdict", "dropstale") \/ On(h, "dropstale", "dropbeat")
                     \/ host' = host
        BY <1>2 DEF Walks, Handles, Fills, Proceeds, Quits, Condemns, Evicts, Claims, Rewrites,
                Runs, Ends, Releases, Ages, On, StalePcs, GivenUpPcs
      <3>2. host[r].pc \in StalePcs /\ host'[r].job = host[r].job
        BY <3>1 DEF Moves, On, StalePcs, GivenUpPcs
      <3>3. robbed \subseteq robbed'
        BY DEF Walks, faultVars, Handles, Fills, Judges, Proceeds, Quits, Condemns, Evicts, Claims,
               Rewrites, Runs, Ends, Releases, Ages, restVars
      <3>4. QED
        BY <3>2, <3>3
    <2>2. PICK j \in Jobs, g \in Hosts : host[r].job = <<j, g>> /\ Claimer(g, j)
      BY <2>1, TakenOf
    <2>3. DiedWith(g, j)
      BY <2>1, <2>2 DEF TakenOver
    <2>4. ~ (Ends(h) /\ host[h].job = j)
      <3>1. ASSUME Ends(h), host[h].job = j
            PROVE  FALSE
        <4>1. host[h].pc = "run"
          BY <3>1 DEF Ends, On
        <4>2. Claimer(h, j)
          BY <3>1, <4>1 DEF Claimer, ClaimPcs
        <4>3. g = h
          BY <2>2, <4>2 DEF OneClaimer
        <4>4. QED
          BY <2>3, <4>1, <4>3 DEF DiedWith, Gone
      <3>2. QED
        BY <3>1
    <2>5. DiedWith(g, j)'
      BY <2>3, <2>4, DiedStays
    <2>6. QED
      BY <2>1, <2>2, <2>5
  <1>3. QED
    BY <1>1, <1>2

LEMMA VerdictsStay ==
    ASSUME TypeOK, HostsOK, NEW h \in Hosts, Moves(h), Walks(h) \/ Handles(h)
    PROVE  verdicts \subseteq verdicts' /\ robbed \subseteq robbed'
  <1> USE DEF HostRecord, HostOK, StalePcs, GivenUpPcs, ClaimPcs, FreshPcs, EndedPcs,
              HeldPcs, MarkedPcs, Leases, Lease, Gone, TypeOK, HostsOK, fileVars,
              restVars, queueVars, faultVars, On, Moves
  <1>1. CASE Walks(h)
    BY <1>1 DEF Walks
  <1>2. CASE Fills(h)
    BY <1>2 DEF Fills
  <1>3. CASE Judges(h)
    BY <1>3 DEF Judges
  <1>4. CASE Proceeds(h)
    BY <1>4 DEF Proceeds
  <1>5. CASE Quits(h)
    BY <1>5 DEF Quits
  <1>6. CASE Condemns(h)
    BY <1>6 DEF Condemns
  <1>7. CASE Evicts(h)
    BY <1>7 DEF Evicts
  <1>8. ASSUME NEW j \in pending, Claims(h, j)
        PROVE  verdicts \subseteq verdicts' /\ robbed \subseteq robbed'
    BY <1>8 DEF Claims
  <1>9. CASE Rewrites(h)
    BY <1>9 DEF Rewrites
  <1>10. CASE Runs(h)
    BY <1>10 DEF Runs
  <1>11. CASE Ends(h)
    BY <1>11 DEF Ends
  <1>12. CASE Releases(h)
    BY <1>12 DEF Releases
  <1>13. CASE Ages(h)
    BY <1>13 DEF Ages
  <1>14. QED
    BY <1>1, <1>2, <1>3, <1>4, <1>5, <1>6, <1>7, <1>8, <1>9, <1>10, <1>11, <1>12,
       <1>13 DEF Handles

LEMMA GivenUpStep ==
    ASSUME TypeOK, HostsOK, TakenOver, NEW h \in Hosts, Moves(h), Walks(h) \/ Handles(h)
    PROVE  \A r \in Hosts : host'[r].pc \in GivenUpPcs => <<host'[r].job[1], "failed">> \in verdicts'
  <1>a. \A r \in Hosts : host[r].pc \in GivenUpPcs => <<host[r].job[1], "failed">> \in verdicts
    BY DEF TakenOver, Failed
  <1> USE DEF HostRecord, HostOK, StalePcs, GivenUpPcs, ClaimPcs, FreshPcs, EndedPcs,
              HeldPcs, MarkedPcs, Leases, Lease, Gone, TypeOK, HostsOK, fileVars,
              restVars, queueVars, faultVars, On, Moves
  <1>1. CASE Walks(h)
    BY <1>1, <1>a DEF Walks
  <1>2. CASE Fills(h)
    BY <1>2, <1>a DEF Fills
  <1>3. CASE Judges(h)
    BY <1>3, <1>a DEF Judges
  <1>4. CASE Proceeds(h)
    BY <1>4, <1>a DEF Proceeds
  <1>5. CASE Quits(h)
    BY <1>5, <1>a DEF Quits
  <1>6. CASE Condemns(h)
    BY <1>6, <1>a DEF Condemns
  <1>7. CASE Evicts(h)
    BY <1>7, <1>a DEF Evicts
  <1>8. ASSUME NEW j \in pending, Claims(h, j)
        PROVE  \A r \in Hosts : host'[r].pc \in GivenUpPcs => <<host'[r].job[1], "failed">> \in verdicts'
    BY <1>8, <1>a DEF Claims
  <1>9. CASE Rewrites(h)
    BY <1>9, <1>a DEF Rewrites
  <1>10. CASE Runs(h)
    BY <1>10, <1>a DEF Runs
  <1>11. CASE Ends(h)
    BY <1>11, <1>a DEF Ends
  <1>12. CASE Releases(h)
    BY <1>12, <1>a DEF Releases
  <1>13. CASE Ages(h)
    BY <1>13, <1>a DEF Ages
  <1>14. QED
    BY <1>1, <1>2, <1>3, <1>4, <1>5, <1>6, <1>7, <1>8, <1>9, <1>10, <1>11, <1>12,
       <1>13 DEF Handles

LEMMA FailedBy ==
    ASSUME TypeOK, HostsOK, NEW h \in Hosts, Moves(h), Walks(h) \/ Handles(h)
    PROVE  \A i \in Jobs : Failed(i)' => Failed(i) \/ (Condemns(h) /\ host[h].job[1] = i)
  <1> USE DEF HostRecord, HostOK, StalePcs, GivenUpPcs, ClaimPcs, FreshPcs, EndedPcs,
              HeldPcs, MarkedPcs, Leases, Lease, Gone, TypeOK, HostsOK, fileVars,
              restVars, queueVars, faultVars, On, Moves, Failed
  <1>1. CASE Walks(h)
    BY <1>1 DEF Walks
  <1>2. CASE Fills(h)
    BY <1>2 DEF Fills
  <1>3. CASE Judges(h)
    BY <1>3 DEF Judges
  <1>4. CASE Proceeds(h)
    BY <1>4 DEF Proceeds
  <1>5. CASE Quits(h)
    BY <1>5 DEF Quits
  <1>6. CASE Condemns(h)
    <2>1. \A i \in Jobs : <<i, "failed">> = <<host[h].job[1], "failed">> => host[h].job[1] = i
      OBVIOUS
    <2>2. QED
      BY <1>6, <2>1 DEF Condemns
  <1>7. CASE Evicts(h)
    BY <1>7 DEF Evicts
  <1>8. ASSUME NEW j \in pending, Claims(h, j)
        PROVE  \A i \in Jobs : Failed(i)' => Failed(i) \/ (Condemns(h) /\ host[h].job[1] = i)
    BY <1>8 DEF Claims
  <1>9. CASE Rewrites(h)
    BY <1>9 DEF Rewrites
  <1>10. CASE Runs(h)
    <2>1. On(h, "beat", "run") /\ UNCHANGED <<pending, running, verdicts, rewritten, restVars>>
      BY <1>10 DEF Runs
    <2>2. QED
      BY <2>1
  <1>11. CASE Ends(h)
    <2>1. \A i \in Jobs : <<i, "failed">> # <<host[h].job, "done">>
      OBVIOUS
    <2>2. QED
      BY <1>11, <2>1 DEF Ends
  <1>12. CASE Releases(h)
    BY <1>12 DEF Releases
  <1>13. CASE Ages(h)
    BY <1>13 DEF Ages
  <1>14. QED
    BY <1>1, <1>2, <1>3, <1>4, <1>5, <1>6, <1>7, <1>8, <1>9, <1>10, <1>11, <1>12,
       <1>13 DEF Handles

LEMMA TakenOverStep ==
    ASSUME TypeOK, HostsOK, OneClaimer, LeasesHeld, Written, TakenOver, Ended,
           NEW h \in Hosts, Moves(h), Walks(h) \/ Handles(h)
    PROVE  TakenOver'
  <1>1. ASSUME NEW i \in Jobs \ robbed', Failed(i)'
        PROVE  \E b \in Hosts : DiedWith(b, i)'
    <2>1. i \notin robbed
      BY VerdictsStay
    <2>2. CASE Condemns(h) /\ host[h].job[1] = i
      <3>1. host[h].pc \in StalePcs
        BY <2>2 DEF Condemns, On, StalePcs
      <3>2. PICK j \in Jobs, g \in Hosts : host[h].job = <<j, g>> /\ Claimer(g, j)
        BY <3>1, TakenOf
      <3>3. DiedWith(g, i)
        BY <2>1, <2>2, <3>1, <3>2 DEF TakenOver
      <3>4. ~ Ends(h)
        BY <2>2 DEF Condemns, Ends, On
      <3>5. QED
        BY <3>3, <3>4, DiedStays
    <2>3. CASE ~ (Condemns(h) /\ host[h].job[1] = i)
      <3>1. Failed(i)
        BY <1>1, <2>3, FailedBy
      <3>2. PICK g \in Hosts : DiedWith(g, i)
        BY <2>1, <3>1 DEF TakenOver
      <3>3. ~ (Ends(h) /\ host[h].job = i)
        BY <2>1, <3>1 DEF Ended, Ends, On, ClaimPcs
      <3>4. QED
        BY <3>2, <3>3, DiedStays
    <2>4. QED
      BY <2>2, <2>3
  <1>2. QED
    BY <1>1, TakenStep, GivenUpStep DEF TakenOver, Failed

LEMMA EndedDone ==
    ASSUME TypeOK, HostsOK, Ended, NEW h \in Hosts, Moves(h), Walks(h) \/ Handles(h)
    PROVE  \A g \in Hosts : host'[g].pc \in EndedPcs => <<host'[g].job, "done">> \in verdicts'
  <1>a. \A g \in Hosts : host[g].pc \in EndedPcs => <<host[g].job, "done">> \in verdicts
    BY DEF Ended, Done
  <1> USE DEF HostRecord, HostOK, StalePcs, GivenUpPcs, ClaimPcs, FreshPcs, EndedPcs,
              HeldPcs, MarkedPcs, Leases, Lease, Gone, TypeOK, HostsOK, fileVars,
              restVars, queueVars, faultVars, On, Moves
  <1>1. CASE Walks(h)
    BY <1>1, <1>a DEF Walks
  <1>2. CASE Fills(h)
    BY <1>2, <1>a DEF Fills
  <1>3. CASE Judges(h)
    BY <1>3, <1>a DEF Judges
  <1>4. CASE Proceeds(h)
    BY <1>4, <1>a DEF Proceeds
  <1>5. CASE Quits(h)
    BY <1>5, <1>a DEF Quits
  <1>6. CASE Condemns(h)
    BY <1>6, <1>a DEF Condemns
  <1>7. CASE Evicts(h)
    BY <1>7, <1>a DEF Evicts
  <1>8. ASSUME NEW j \in pending, Claims(h, j)
        PROVE  \A g \in Hosts : host'[g].pc \in EndedPcs => <<host'[g].job, "done">> \in verdicts'
    BY <1>8, <1>a DEF Claims
  <1>9. CASE Rewrites(h)
    BY <1>9, <1>a DEF Rewrites
  <1>10. CASE Runs(h)
    BY <1>10, <1>a DEF Runs
  <1>11. CASE Ends(h)
    BY <1>11, <1>a DEF Ends
  <1>12. CASE Releases(h)
    BY <1>12, <1>a DEF Releases
  <1>13. CASE Ages(h)
    BY <1>13, <1>a DEF Ages
  <1>14. QED
    BY <1>1, <1>2, <1>3, <1>4, <1>5, <1>6, <1>7, <1>8, <1>9, <1>10, <1>11, <1>12,
       <1>13 DEF Handles

LEMMA EndedStep ==
    ASSUME TypeOK, HostsOK, OneClaimer, Untouched, TakenOver, Ended,
           NEW h \in Hosts, Moves(h), Walks(h) \/ Handles(h), HostsOK'
    PROVE  Ended'
  <1>1. ASSUME NEW g \in Hosts, host'[g].pc \in ClaimPcs, host'[g].job \notin robbed', Failed(host[g].job)'
        PROVE  FALSE
    <2>1. PICK i \in Jobs : i = host'[g].job
      BY <1>1 DEF HostsOK, HostOK
    <2>2. i \notin robbed
      BY <1>1, <2>1, VerdictsStay
    <2>3. Claimer(g, i)'
      BY <1>1, <2>1 DEF Claimer
    <2>4. CASE Claims(h, i)
      <3>1. ~ Failed(i)
        BY <2>4 DEF Claims, Untouched
      <3>2. QED
        BY <1>1, <2>1, <2>4, <3>1 DEF Claims, Failed
    <2>5. CASE ~ Claims(h, i)
      <3>1. host[g].pc \in ClaimPcs /\ host[g].job = i
        <4>1. CASE g = h
          <5>1. CASE Carries(h)
            BY <1>1, <2>1, <4>1, <5>1 DEF Carries
          <5>2. CASE ~ Carries(h)
            BY <2>1, <2>5, <4>1, <5>2, CarryStep DEF Claims
          <5>3. QED
            BY <5>1, <5>2
        <4>2. CASE g # h
          BY <1>1, <2>1, <4>2 DEF Moves
        <4>3. QED
          BY <4>1, <4>2
      <3>2. ~ Failed(i)
        BY <2>2, <3>1 DEF Ended
      <3>3. Condemns(h) /\ host[h].job[1] = i
        BY <1>1, <2>1, <3>2, FailedBy
      <3>4. host[h].pc \in StalePcs
        BY <3>3 DEF Condemns, On, StalePcs
      <3>5. PICK j \in Jobs, f \in Hosts : host[h].job = <<j, f>> /\ Claimer(f, j)
        BY <3>4, TakenOf
      <3>6. DiedWith(f, i) /\ Claimer(f, i)
        BY <2>2, <3>3, <3>4, <3>5 DEF TakenOver
      <3>7. f = g
        BY <3>1, <3>6 DEF OneClaimer, Claimer
      <3>8. QED
        BY <3>1, <3>6, <3>7 DEF DiedWith, Gone, ClaimPcs, FreshPcs, EndedPcs
    <2>6. QED
      BY <2>4, <2>5
  <1>2. QED
    BY <1>1, EndedDone DEF Ended, Done

LEMMA FreshStep ==
    ASSUME TypeOK, HostsOK, OneClaimer, Untouched, StartedOnce, NEW h \in Hosts, Moves(h), Walks(h) \/ Handles(h)
    PROVE  \A g \in Hosts : host'[g].pc \in FreshPcs => started'[host'[g].job] = 0
  <1>a. \A g \in Hosts : host[g].pc \in FreshPcs => started[host[g].job] = 0
    BY DEF StartedOnce
  <1> USE DEF StalePcs, GivenUpPcs, ClaimPcs, FreshPcs, EndedPcs,
              HeldPcs, MarkedPcs, Lease, Gone, fileVars,
              restVars, queueVars, faultVars, On, Moves
  <1>1. CASE Walks(h)
    BY <1>1, <1>a DEF Walks
  <1>2. CASE Fills(h)
    BY <1>2, <1>a DEF Fills
  <1>3. CASE Judges(h)
    BY <1>3, <1>a DEF Judges
  <1>4. CASE Proceeds(h)
    <2>1. /\ host'[h].job = host[h].job /\ started' = started
          /\ host'[h].pc \in FreshPcs => host[h].pc \in FreshPcs
      BY <1>4 DEF Proceeds
    <2>2. \A g \in Hosts \ {h} : host'[g] = host[g]
      OBVIOUS
    <2> HIDE DEF FreshPcs, Moves
    <2>3. QED
      BY <1>a, <2>1, <2>2
  <1>5. CASE Quits(h)
    BY <1>5, <1>a DEF Quits
  <1>6. CASE Condemns(h)
    BY <1>6, <1>a DEF Condemns
  <1>7. CASE Evicts(h)
    BY <1>7, <1>a DEF Evicts
  <1>8. ASSUME NEW j \in pending, Claims(h, j)
        PROVE  \A g \in Hosts : host'[g].pc \in FreshPcs => started'[host'[g].job] = 0
    <2>1. started[j] = 0
      BY DEF Untouched, TypeOK
    <2>2. QED
      BY <1>8, <1>a, <2>1 DEF Claims
  <1>9. CASE Rewrites(h)
    BY <1>9, <1>a DEF Rewrites
  <1>10. CASE Runs(h)
    <2>1. ASSUME NEW g \in Hosts, host'[g].pc \in FreshPcs
          PROVE  started'[host'[g].job] = 0
      <3>1. g # h /\ host'[g] = host[g]
        BY <1>10, <2>1 DEF Runs
      <3>2. host[g].job # host[h].job
        BY <1>10, <2>1, <3>1, ClaimerOf DEF Runs, OneClaimer
      <3>3. host[g].job \in Jobs /\ host[h].job \in Jobs
        BY <1>10, <2>1, <3>1 DEF Runs, HostsOK, HostOK
      <3>4. started'[host[g].job] = started[host[g].job]
        BY <1>10, <3>2, <3>3 DEF Runs
      <3>5. QED
        BY <1>a, <2>1, <3>1, <3>4
    <2>2. QED
      BY <2>1
  <1>11. CASE Ends(h)
    BY <1>11, <1>a DEF Ends
  <1>12. CASE Releases(h)
    BY <1>12, <1>a DEF Releases
  <1>13. CASE Ages(h)
    BY <1>13, <1>a DEF Ages
  <1>14. QED
    BY <1>1, <1>2, <1>3, <1>4, <1>5, <1>6, <1>7, <1>8, <1>9, <1>10, <1>11, <1>12,
       <1>13 DEF Handles

LEMMA OnceStep ==
    ASSUME TypeOK, HostsOK, StartedOnce, NEW h \in Hosts, Moves(h), Walks(h) \/ Handles(h)
    PROVE  \A i \in Jobs : started'[i] <= 1
  <1>a. \A i \in Jobs : started[i] <= 1
    BY DEF StartedOnce, JobRunsOnce
  <1> USE DEF HostRecord, HostOK, StalePcs, GivenUpPcs, ClaimPcs, FreshPcs, EndedPcs,
              HeldPcs, MarkedPcs, Leases, Lease, Gone, TypeOK, HostsOK, fileVars,
              restVars, queueVars, faultVars, On, Moves
  <1>1. CASE Walks(h)
    BY <1>1, <1>a DEF Walks
  <1>2. CASE Fills(h)
    BY <1>2, <1>a DEF Fills
  <1>3. CASE Judges(h)
    BY <1>3, <1>a DEF Judges
  <1>4. CASE Proceeds(h)
    BY <1>4, <1>a DEF Proceeds
  <1>5. CASE Quits(h)
    BY <1>5, <1>a DEF Quits
  <1>6. CASE Condemns(h)
    BY <1>6, <1>a DEF Condemns
  <1>7. CASE Evicts(h)
    BY <1>7, <1>a DEF Evicts
  <1>8. ASSUME NEW j \in pending, Claims(h, j)
        PROVE  \A i \in Jobs : started'[i] <= 1
    BY <1>8, <1>a DEF Claims
  <1>9. CASE Rewrites(h)
    BY <1>9, <1>a DEF Rewrites
  <1>10. CASE Runs(h)
    <2>1. started[host[h].job] = 0 /\ host[h].job \in Jobs
      BY <1>10 DEF Runs, StartedOnce
    <2>2. \A i \in Jobs : started'[i] = IF i = host[h].job THEN 1 ELSE started[i]
      BY <1>10, <2>1 DEF Runs
    <2>3. QED
      BY <1>a, <2>2
  <1>11. CASE Ends(h)
    BY <1>11, <1>a DEF Ends
  <1>12. CASE Releases(h)
    BY <1>12, <1>a DEF Releases
  <1>13. CASE Ages(h)
    BY <1>13, <1>a DEF Ages
  <1>14. QED
    BY <1>1, <1>2, <1>3, <1>4, <1>5, <1>6, <1>7, <1>8, <1>9, <1>10, <1>11, <1>12,
       <1>13 DEF Handles

LEMMA RunningStep ==
    ASSUME TypeOK, HostsOK, TakenOver, Ended, NEW h \in Hosts, Moves(h), Walks(h) \/ Handles(h)
    PROVE  \A l \in running \ running' : Done(l[1]) \/ Failed(l[1])
  <1> USE DEF HostRecord, HostOK, StalePcs, GivenUpPcs, ClaimPcs, FreshPcs, EndedPcs,
              HeldPcs, MarkedPcs, Leases, Lease, Gone, TypeOK, HostsOK, fileVars,
              restVars, queueVars, faultVars, On, Moves
  <1>1. CASE Walks(h)
    BY <1>1 DEF Walks
  <1>2. CASE Fills(h)
    BY <1>2 DEF Fills
  <1>3. CASE Judges(h)
    BY <1>3 DEF Judges
  <1>4. CASE Proceeds(h)
    BY <1>4 DEF Proceeds
  <1>5. CASE Quits(h)
    BY <1>5 DEF Quits
  <1>6. CASE Condemns(h)
    BY <1>6 DEF Condemns
  <1>7. CASE Evicts(h)
    <2>1. Failed(host[h].job[1])
      BY <1>7 DEF Evicts, TakenOver
    <2>2. running \ running' \subseteq {host[h].job}
      BY <1>7 DEF Evicts
    <2>3. QED
      BY <2>1, <2>2
  <1>8. ASSUME NEW j \in pending, Claims(h, j)
        PROVE  \A l \in running \ running' : Done(l[1]) \/ Failed(l[1])
    BY <1>8 DEF Claims
  <1>9. CASE Rewrites(h)
    BY <1>9 DEF Rewrites
  <1>10. CASE Runs(h)
    BY <1>10 DEF Runs
  <1>11. CASE Ends(h)
    BY <1>11 DEF Ends
  <1>12. CASE Releases(h)
    <2>1. Done(host[h].job)
      BY <1>12 DEF Releases, Ended
    <2>2. \A l \in running \ running' : l = Lease(h)
      BY <1>12 DEF Releases
    <2>3. \A l \in running \ running' : l[1] = host[h].job
      BY <2>2
    <2>4. QED
      BY <2>1, <2>3
  <1>13. CASE Ages(h)
    BY <1>13 DEF Ages
  <1>14. QED
    BY <1>1, <1>2, <1>3, <1>4, <1>5, <1>6, <1>7, <1>8, <1>9, <1>10, <1>11, <1>12,
       <1>13 DEF Handles

LEMMA PendingStep ==
    ASSUME TypeOK, HostsOK, NEW h \in Hosts, Moves(h), Walks(h) \/ Handles(h)
    PROVE  \A i \in pending \ pending' : <<i, h>> \in running'
  <1> USE DEF HostRecord, HostOK, StalePcs, GivenUpPcs, ClaimPcs, FreshPcs, EndedPcs,
              HeldPcs, MarkedPcs, Leases, Lease, Gone, TypeOK, HostsOK, fileVars,
              restVars, queueVars, faultVars, On, Moves
  <1>1. CASE Walks(h)
    BY <1>1 DEF Walks
  <1>2. CASE Fills(h)
    BY <1>2 DEF Fills
  <1>3. CASE Judges(h)
    BY <1>3 DEF Judges
  <1>4. CASE Proceeds(h)
    BY <1>4 DEF Proceeds
  <1>5. CASE Quits(h)
    BY <1>5 DEF Quits
  <1>6. CASE Condemns(h)
    BY <1>6 DEF Condemns
  <1>7. CASE Evicts(h)
    BY <1>7 DEF Evicts
  <1>8. ASSUME NEW j \in pending, Claims(h, j)
        PROVE  \A i \in pending \ pending' : <<i, h>> \in running'
    BY <1>8 DEF Claims
  <1>9. CASE Rewrites(h)
    BY <1>9 DEF Rewrites
  <1>10. CASE Runs(h)
    BY <1>10 DEF Runs
  <1>11. CASE Ends(h)
    BY <1>11 DEF Ends
  <1>12. CASE Releases(h)
    BY <1>12 DEF Releases
  <1>13. CASE Ages(h)
    BY <1>13 DEF Ages
  <1>14. QED
    BY <1>1, <1>2, <1>3, <1>4, <1>5, <1>6, <1>7, <1>8, <1>9, <1>10, <1>11, <1>12,
       <1>13 DEF Handles

LEMMA FillStep ==
    ASSUME TypeOK, HostsOK, NEW h \in Hosts, Moves(h), Walks(h) \/ Handles(h)
    PROVE  ready => pending' \subseteq pending
  <1> USE DEF HostRecord, HostOK, StalePcs, GivenUpPcs, ClaimPcs, FreshPcs, EndedPcs,
              HeldPcs, MarkedPcs, Leases, Lease, Gone, TypeOK, HostsOK, fileVars,
              restVars, queueVars, faultVars, On, Moves
  <1>1. CASE Walks(h)
    BY <1>1 DEF Walks
  <1>2. CASE Fills(h)
    BY <1>2 DEF Fills
  <1>3. CASE Judges(h)
    BY <1>3 DEF Judges
  <1>4. CASE Proceeds(h)
    BY <1>4 DEF Proceeds
  <1>5. CASE Quits(h)
    BY <1>5 DEF Quits
  <1>6. CASE Condemns(h)
    BY <1>6 DEF Condemns
  <1>7. CASE Evicts(h)
    BY <1>7 DEF Evicts
  <1>8. ASSUME NEW j \in pending, Claims(h, j)
        PROVE  ready => pending' \subseteq pending
    BY <1>8 DEF Claims
  <1>9. CASE Rewrites(h)
    BY <1>9 DEF Rewrites
  <1>10. CASE Runs(h)
    BY <1>10 DEF Runs
  <1>11. CASE Ends(h)
    BY <1>11 DEF Ends
  <1>12. CASE Releases(h)
    BY <1>12 DEF Releases
  <1>13. CASE Ages(h)
    BY <1>13 DEF Ages
  <1>14. QED
    BY <1>1, <1>2, <1>3, <1>4, <1>5, <1>6, <1>7, <1>8, <1>9, <1>10, <1>11, <1>12,
       <1>13 DEF Handles

LEMMA KeptStep ==
    ASSUME TypeOK, HostsOK, TakenOver, Ended, Kept, ready' /\ ~ ready => pending' = Jobs,
           NEW h \in Hosts, Moves(h), Walks(h) \/ Handles(h)
    PROVE  Kept'
  <1> SUFFICES ASSUME ready', NEW i \in Jobs, i \notin pending'
               PROVE  Judged(i)' \/ \E g \in Hosts : <<i, g>> \in running'
    BY DEF Kept
  <1>1. ready
    OBVIOUS
  <1>2. CASE i \in pending
    BY <1>2, PendingStep
  <1>3. CASE Judged(i)
    BY <1>3, VerdictsStay DEF Judged, Done, Failed
  <1>4. ASSUME NEW g \in Hosts, <<i, g>> \in running, <<i, g>> \notin running'
        PROVE  Judged(i)'
    BY <1>4, RunningStep, VerdictsStay DEF Judged, Done, Failed
  <1>5. QED
    BY <1>1, <1>2, <1>3, <1>4 DEF Kept

LEMMA Opens ==
    ASSUME TypeOK, NEW h \in Hosts,
           Start(h) \/ Work(h) \/ Kill(h) \/ BreakOff(h) \/ Age(h)
    PROVE  ready' /\ ~ ready => pending' = Jobs
  <1> USE DEF AllFilled, queueVars, endVars, faultVars
  <1>1. CASE Start(h)
    BY <1>1 DEF Start, Recover, Go
  <1>2. CASE TakeInitLock(h)
    BY <1>2 DEF TakeInitLock, Go
  <1>3. CASE FillOne(h)
    BY <1>3 DEF FillOne
  <1>4. CASE OpenQueue(h)
    BY <1>4 DEF OpenQueue, Recover, AllFilled
  <1>5. CASE AwaitReady(h)
    BY <1>5 DEF AwaitReady, Recover, queueVars
  <1>6. CASE ListLeases(h)
    BY <1>6 DEF ListLeases, Return, Recover
  <1>7. CASE SkipLease(h)
    BY <1>7 DEF SkipLease
  <1>8. CASE JudgeStale(h)
    BY <1>8 DEF JudgeStale, MarkerMayBeStale, MarkerIsStale, ClaimedLate
  <1>9. CASE ReadStale(h)
    BY <1>9 DEF ReadStale, Go
  <1>10. CASE GiveUp(h)
    BY <1>10 DEF GiveUp, Go, Exhausted, MaxRetries
  <1>11. CASE WriteGivenUp(h)
    BY <1>11 DEF WriteGivenUp, Go
  <1>12. CASE DropStaleLease(h)
    BY <1>12 DEF DropStaleLease, Go
  <1>13. CASE DropStaleBeat(h)
    BY <1>13 DEF DropStaleBeat
  <1>14. CASE Recovered(h)
    BY <1>14 DEF Recovered, Return, Recover
  <1>15. CASE Claim(h)
    BY <1>15 DEF Claim, PendingIn
  <1>16. CASE NothingToClaim(h)
    BY <1>16 DEF NothingToClaim, Recover, PendingIn
  <1>17. CASE ReadLease(h)
    BY <1>17 DEF ReadLease, Go, Lease
  <1>18. CASE OpenLease(h)
    BY <1>18 DEF OpenLease, Go, Lease
  <1>19. CASE WriteLease(h)
    BY <1>19 DEF WriteLease, Go, Lease
  <1>20. CASE WriteBeat(h)
    BY <1>20 DEF WriteBeat, Go, Lease
  <1>21. CASE OpenDone(h)
    BY <1>21 DEF OpenDone, Go
  <1>22. CASE WriteDone(h)
    BY <1>22 DEF WriteDone, Go
  <1>23. CASE DropLease(h)
    BY <1>23 DEF DropLease, Go, Lease
  <1>24. CASE DropBeat(h)
    BY <1>24 DEF DropBeat, Recover, Lease
  <1>25. CASE LookPending(h)
    BY <1>25 DEF LookPending, Recover, Go, PendingIn
  <1>26. CASE LookRunning(h)
    BY <1>26 DEF LookRunning, Recover, Go, InProgress
  <1>27. CASE TakeAggregateLock(h)
    BY <1>27 DEF TakeAggregateLock, Go
  <1>28. CASE WriteSummary(h)
    BY <1>28 DEF WriteSummary, Go
  <1>29. CASE MarkComplete(h)
    BY <1>29 DEF MarkComplete, Go
  <1>30. CASE AwaitComplete(h)
    BY <1>30 DEF AwaitComplete, Go
  <1>31. CASE Kill(h) \/ BreakOff(h)
    BY <1>31 DEF Kill, BreakOff, Dies, Up
  <1>32. CASE Age(h)
    BY <1>32 DEF Age, Gone
  <1>33. QED
    BY <1>1, <1>2, <1>3, <1>4, <1>5, <1>6, <1>7, <1>8, <1>9, <1>10, <1>11, <1>12,
       <1>13, <1>14, <1>15, <1>16, <1>17, <1>18, <1>19, <1>20, <1>21, <1>22, <1>23,
       <1>24, <1>25, <1>26, <1>27, <1>28, <1>29, <1>30, <1>31, <1>32 DEF Work

(* The only way to a later stage: neither pending files nor leases of the  *)
(* stage that is left.                                                     *)
Advances(h) ==
    /\ host[h].pc = "anyrunning" /\ InProgress(host[h].stage) = {}
    /\ host'[h].stage = host[h].stage + 1
    /\ UNCHANGED <<fileVars, robbed, complete>>

LEMMA StageStep ==
    ASSUME TypeOK, HostsOK, NEW h \in Hosts,
           Start(h) \/ Work(h) \/ Kill(h) \/ BreakOff(h) \/ Age(h)
    PROVE  \/ host'[h].stage <= host[h].stage
           \/ host'[h].stage <= 1
           \/ Advances(h)
  <1>0. /\ HostOK(h)
        /\ host \in [Hosts -> HostRecord]
        /\ host[h].stage \in Nat
    BY FieldFacts DEF HostsOK, TypeOK
  <1> USE <1>0 DEF HostRecord, queueVars, faultVars, endVars, At
  <1>1. CASE Start(h)
    <2>1. CASE ready
      BY <1>1, <2>1, Recovers DEF Start, Becomes, Backs
    <2>2. CASE ~ ready
      BY <1>1, <2>2 DEF Start, Go
    <2>3. QED
      BY <2>1, <2>2
  <1>2. CASE TakeInitLock(h)
    BY <1>2 DEF TakeInitLock, Go
  <1>3. CASE FillOne(h)
    BY <1>3 DEF FillOne
  <1>4. CASE OpenQueue(h)
    <2>1. Recover(h, 1, "stage")
      BY <1>4 DEF OpenQueue
    <2>2. QED
      BY <2>1, Recovers DEF Becomes, Backs
  <1>5. CASE AwaitReady(h)
    BY <1>5, Recovers, FieldFacts DEF AwaitReady, Becomes, Backs
  <1>6. CASE ListLeases(h)
    <2> DEFINE leases == {l \in running : l[1].stage = host[h].stage}
    <2>1. CASE leases = {}
      BY <1>6, <2>1, Returns DEF ListLeases, HostOK, RecoverPcs, Becomes
    <2>2. CASE leases # {}
      <3> HIDE DEF leases
      <3>1. host' = [host EXCEPT ![h].pc = "judge", ![h].todo = leases]
        BY <1>6, <2>2 DEF ListLeases, leases
      <3>2. QED
        BY <3>1
    <2>3. QED
      BY <2>1, <2>2
  <1>7. CASE SkipLease(h)
    BY <1>7 DEF SkipLease
  <1>8. CASE JudgeStale(h)
    BY <1>8 DEF JudgeStale, MarkerMayBeStale, MarkerIsStale, ClaimedLate
  <1>9. CASE ReadStale(h)
    BY <1>9 DEF ReadStale, Go
  <1>10. CASE GiveUp(h)
    BY <1>10 DEF GiveUp, Go, Exhausted, MaxRetries
  <1>11. CASE WriteGivenUp(h)
    BY <1>11 DEF WriteGivenUp, Go
  <1>12. CASE DropStaleLease(h)
    BY <1>12 DEF DropStaleLease, Go
  <1>13. CASE DropStaleBeat(h)
    BY <1>13 DEF DropStaleBeat
  <1>14. CASE Recovered(h)
    BY <1>14, Returns DEF Recovered, HostOK, RecoverPcs, Becomes
  <1>15. CASE Claim(h)
    BY <1>15 DEF Claim, PendingIn
  <1>16. CASE NothingToClaim(h)
    BY <1>16, Recovers, FieldFacts DEF NothingToClaim, Becomes, Backs
  <1>17. CASE ReadLease(h)
    BY <1>17 DEF ReadLease, Go, Lease
  <1>18. CASE OpenLease(h)
    BY <1>18 DEF OpenLease, Go, Lease
  <1>19. CASE WriteLease(h)
    BY <1>19 DEF WriteLease, Go, Lease
  <1>20. CASE WriteBeat(h)
    BY <1>20 DEF WriteBeat, Go, Lease
  <1>21. CASE OpenDone(h)
    BY <1>21 DEF OpenDone, Go
  <1>22. CASE WriteDone(h)
    BY <1>22 DEF WriteDone, Go
  <1>23. CASE DropLease(h)
    BY <1>23 DEF DropLease, Go, Lease
  <1>24. CASE DropBeat(h)
    BY <1>24, Recovers, FieldFacts DEF DropBeat, Becomes, Backs
  <1>25. CASE LookPending(h)
    <2>1. CASE PendingIn(host[h].stage) # {}
      BY <1>25, <2>1, Recovers, FieldFacts DEF LookPending, Becomes, Backs
    <2>2. CASE PendingIn(host[h].stage) = {}
      BY <1>25, <2>2 DEF LookPending, Go
    <2>3. QED
      BY <2>1, <2>2
  <1>26. CASE LookRunning(h)
    <2>1. CASE InProgress(host[h].stage) # {}
      <3>1. Recover(h, host[h].stage, "anypending")
        BY <1>26, <2>1 DEF LookRunning
      <3>2. QED
        BY <3>1, Recovers, FieldFacts DEF Becomes, Backs
    <2>2. CASE InProgress(host[h].stage) = {} /\ host[h].stage < Len(Stages)
      <3>1. Recover(h, host[h].stage + 1, "stage")
        BY <1>26, <2>2 DEF LookRunning
      <3>2. host'[h].stage = host[h].stage + 1
        BY <3>1, Recovers, FieldFacts DEF Becomes, Backs
      <3>3. QED
        BY <1>26, <2>2, <3>2 DEF LookRunning, Advances, fileVars
    <2>3. CASE InProgress(host[h].stage) = {} /\ ~ (host[h].stage < Len(Stages))
      <3>1. host' = [host EXCEPT ![h] = [Idle EXCEPT !.stage = Len(Stages) + 1,
                        !.pc = IF h \in Coordinators THEN "aggregate" ELSE "awaitend"]]
        BY <1>26, <2>3 DEF LookRunning
      <3>2. host'[h].stage = Len(Stages) + 1
        BY <3>1 DEF Idle
      <3>3. QED
        BY <1>26, <2>3, <3>2, StageFacts, FieldFacts DEF LookRunning, Advances, fileVars
    <2>4. QED
      BY <2>1, <2>2, <2>3
  <1>27. CASE TakeAggregateLock(h)
    BY <1>27 DEF TakeAggregateLock, Go
  <1>28. CASE WriteSummary(h)
    <2>1. Go(h, "raised") \/ Go(h, "complete")
      BY <1>28, Zenon DEF WriteSummary
    <2>2. QED
      BY <2>1 DEF Go
  <1>29. CASE MarkComplete(h)
    BY <1>29 DEF MarkComplete, Go
  <1>30. CASE AwaitComplete(h)
    BY <1>30 DEF AwaitComplete, Go
  <1>31. CASE Kill(h) \/ BreakOff(h)
    BY <1>31, Dying DEF Becomes
  <1>32. CASE Age(h)
    BY <1>32 DEF Age, Gone
  <1>33. QED
    BY <1>1, <1>2, <1>3, <1>4, <1>5, <1>6, <1>7, <1>8, <1>9, <1>10, <1>11, <1>12,
       <1>13, <1>14, <1>15, <1>16, <1>17, <1>18, <1>19, <1>20, <1>21, <1>22, <1>23,
       <1>24, <1>25, <1>26, <1>27, <1>28, <1>29, <1>30, <1>31, <1>32 DEF Work

LEMMA LooksStep ==
    ASSUME TypeOK, HostsOK, NEW h \in Hosts,
           Start(h) \/ Work(h) \/ Kill(h) \/ BreakOff(h) \/ Age(h)
    PROVE  \/ host'[h].pc # "anyrunning"
           \/ host' = host
           \/ host'[h].stage = host[h].stage /\ PendingIn(host[h].stage) = {} /\ ready
  <1>0. /\ HostOK(h)
        /\ host \in [Hosts -> HostRecord]
        /\ host[h].stage \in Nat
    BY FieldFacts DEF HostsOK, TypeOK
  <1> USE <1>0 DEF HostRecord, queueVars, faultVars, endVars, At
  <1>1. CASE Start(h)
    <2>1. CASE ready
      BY <1>1, <2>1, Recovers DEF Start, Becomes, Backs
    <2>2. CASE ~ ready
      BY <1>1, <2>2 DEF Start, Go
    <2>3. QED
      BY <2>1, <2>2
  <1>2. CASE TakeInitLock(h)
    BY <1>2 DEF TakeInitLock, Go
  <1>3. CASE FillOne(h)
    BY <1>3 DEF FillOne
  <1>4. CASE OpenQueue(h)
    <2>1. Recover(h, 1, "stage")
      BY <1>4 DEF OpenQueue
    <2>2. QED
      BY <2>1, Recovers DEF Becomes, Backs
  <1>5. CASE AwaitReady(h)
    BY <1>5, Recovers, FieldFacts DEF AwaitReady, Becomes, Backs
  <1>6. CASE ListLeases(h)
    <2> DEFINE leases == {l \in running : l[1].stage = host[h].stage}
    <2>1. CASE leases = {}
      BY <1>6, <2>1, Returns DEF ListLeases, HostOK, RecoverPcs, Becomes, Backs
    <2>2. CASE leases # {}
      <3> HIDE DEF leases
      <3>1. host' = [host EXCEPT ![h].pc = "judge", ![h].todo = leases]
        BY <1>6, <2>2 DEF ListLeases, leases
      <3>2. QED
        BY <3>1
    <2>3. QED
      BY <2>1, <2>2
  <1>7. CASE SkipLease(h)
    BY <1>7 DEF SkipLease
  <1>8. CASE JudgeStale(h)
    BY <1>8 DEF JudgeStale, MarkerMayBeStale, MarkerIsStale, ClaimedLate
  <1>9. CASE ReadStale(h)
    BY <1>9 DEF ReadStale, Go
  <1>10. CASE GiveUp(h)
    BY <1>10 DEF GiveUp, Go, Exhausted, MaxRetries
  <1>11. CASE WriteGivenUp(h)
    BY <1>11 DEF WriteGivenUp, Go
  <1>12. CASE DropStaleLease(h)
    BY <1>12 DEF DropStaleLease, Go
  <1>13. CASE DropStaleBeat(h)
    BY <1>13 DEF DropStaleBeat
  <1>14. CASE Recovered(h)
    BY <1>14, Returns DEF Recovered, HostOK, RecoverPcs, Becomes, Backs
  <1>15. CASE Claim(h)
    BY <1>15 DEF Claim, PendingIn
  <1>16. CASE NothingToClaim(h)
    BY <1>16, Recovers, FieldFacts DEF NothingToClaim, Becomes, Backs
  <1>17. CASE ReadLease(h)
    BY <1>17 DEF ReadLease, Go, Lease
  <1>18. CASE OpenLease(h)
    BY <1>18 DEF OpenLease, Go, Lease
  <1>19. CASE WriteLease(h)
    BY <1>19 DEF WriteLease, Go, Lease
  <1>20. CASE WriteBeat(h)
    BY <1>20 DEF WriteBeat, Go, Lease
  <1>21. CASE OpenDone(h)
    BY <1>21 DEF OpenDone, Go
  <1>22. CASE WriteDone(h)
    BY <1>22 DEF WriteDone, Go
  <1>23. CASE DropLease(h)
    BY <1>23 DEF DropLease, Go, Lease
  <1>24. CASE DropBeat(h)
    BY <1>24, Recovers, FieldFacts DEF DropBeat, Becomes, Backs
  <1>25. CASE LookPending(h)
    <2>1. CASE PendingIn(host[h].stage) # {}
      BY <1>25, <2>1, Recovers, FieldFacts DEF LookPending, Becomes, Backs
    <2>2. CASE PendingIn(host[h].stage) = {}
      BY <1>25, <2>2 DEF LookPending, Go, HostOK, StartPcs
    <2>3. QED
      BY <2>1, <2>2
  <1>26. CASE LookRunning(h)
    <2>1. (\E n \in Nat : Recover(h, n, "anypending") \/ Recover(h, n, "stage")) =>
            host'[h].pc = "recover"
      BY Recovers DEF Becomes, Backs
    <2>2. CASE ~ \E n \in Nat : Recover(h, n, "anypending") \/ Recover(h, n, "stage")
      <3>1. host' = [host EXCEPT ![h] = [Idle EXCEPT !.stage = Len(Stages) + 1,
                        !.pc = IF h \in Coordinators THEN "aggregate" ELSE "awaitend"]]
        BY <1>26, <2>2 DEF LookRunning
      <3>2. host'[h].pc \in {"aggregate", "awaitend"}
        BY <3>1 DEF Idle
      <3>3. QED
        BY <3>2
    <2>3. QED
      BY <2>1, <2>2
  <1>27. CASE TakeAggregateLock(h)
    BY <1>27 DEF TakeAggregateLock, Go
  <1>28. CASE WriteSummary(h)
    <2>1. Go(h, "raised") \/ Go(h, "complete")
      BY <1>28, Zenon DEF WriteSummary
    <2>2. QED
      BY <2>1 DEF Go
  <1>29. CASE MarkComplete(h)
    BY <1>29 DEF MarkComplete, Go
  <1>30. CASE AwaitComplete(h)
    BY <1>30 DEF AwaitComplete, Go
  <1>31. CASE Kill(h) \/ BreakOff(h)
    BY <1>31, Dying DEF Becomes
  <1>32. CASE Age(h)
    BY <1>32 DEF Age, Gone
  <1>33. QED
    BY <1>1, <1>2, <1>3, <1>4, <1>5, <1>6, <1>7, <1>8, <1>9, <1>10, <1>11, <1>12,
       <1>13, <1>14, <1>15, <1>16, <1>17, <1>18, <1>19, <1>20, <1>21, <1>22, <1>23,
       <1>24, <1>25, <1>26, <1>27, <1>28, <1>29, <1>30, <1>31, <1>32 DEF Work

LEMMA LeftStep ==
    ASSUME TypeOK, HostsOK, NEW h \in Hosts, Start(h) \/ Work(h) \/ Kill(h) \/ BreakOff(h) \/ Age(h),
           NEW n \in 1..Len(Stages), Left(n)'
    PROVE  Left(n) \/ (Advances(h) /\ host[h].stage = n)
  <1>1. CASE complete'
    <2>1. complete \/ At(h, "complete")
      BY <1>1, ReadyStays
    <2>2. At(h, "complete") => host[h].stage > Len(Stages)
      BY DEF At, HostsOK, HostOK, LastPcs
    <2>3. host[h].stage > Len(Stages) => host[h].stage > n
      BY StageFacts, FieldFacts DEF TypeOK
    <2>4. QED
      BY <2>1, <2>2, <2>3 DEF Left
  <1>2. ASSUME NEW g \in Hosts, host'[g].stage > n
        PROVE  Left(n) \/ (Advances(h) /\ host[h].stage = n)
    <2>1. CASE g = h
      <3>1. host[h].stage \in Nat /\ host'[h].stage \in Nat
        BY HostMoves DEF TypeOK, HostRecord, Moves
      <3>2. CASE host'[h].stage <= host[h].stage
        BY <1>2, <2>1, <3>1, <3>2, StageFacts DEF Left
      <3>3. CASE host'[h].stage <= 1
        BY <1>2, <2>1, <3>1, <3>3, StageFacts
      <3>4. CASE Advances(h)
        <4>1. host[h].stage = n \/ host[h].stage > n
          BY <1>2, <2>1, <3>1, <3>4, StageFacts DEF Advances
        <4>2. QED
          BY <3>4, <4>1 DEF Left
      <3>5. QED
        BY <3>2, <3>3, <3>4, StageStep, HostMoves
    <2>2. CASE g # h
      BY <1>2, <2>2, HostMoves DEF Left, Moves
    <2>3. QED
      BY <2>1, <2>2
  <1>3. QED
    BY <1>1, <1>2 DEF Left

(* A job of a stage that has been left is settled, and stays so.           *)
SettledJob(j) ==
    /\ j \notin pending
    /\ Judged(j)
    /\ \A h \in Hosts : host[h].pc \in HeldPcs /\ host[h].job = j => j \in robbed

LEMMA SettledStays ==
    ASSUME TypeOK, HostsOK, NEW h \in Hosts, Moves(h), Walks(h) \/ Handles(h), ready,
           NEW j \in Jobs, SettledJob(j)
    PROVE  SettledJob(j)'
  <1>1. j \notin pending'
    BY FillStep DEF SettledJob
  <1>2. Judged(j)'
    BY VerdictsStay DEF SettledJob, Judged, Done, Failed
  <1>3. ASSUME NEW g \in Hosts, host'[g].pc \in HeldPcs, host'[g].job = j, j \notin robbed'
        PROVE  FALSE
    <2>1. j \notin robbed
      BY <1>3, VerdictsStay
    <2>2. ~ Claims(h, j)
      BY DEF Claims, SettledJob
    <2>3. host[g].pc \in HeldPcs /\ host[g].job = j
      <3>1. CASE g # h
        BY <1>3, <3>1 DEF Moves
      <3>2. CASE g = h /\ Carries(h)
        <4>1. host[h].pc \in ClaimPcs /\ host[h].job = j
          BY <1>3, <3>2 DEF Carries, HeldPcs
        <4>2. host[h].pc # "unbeat"
          BY <1>3, <3>2 DEF Walks, Handles, Fills, Judges, Proceeds, Quits, Condemns, Evicts, Claims,
                 Rewrites, Runs, Ends, Releases, Ages, On, HeldPcs, ClaimPcs, FreshPcs, EndedPcs,
                 StalePcs, GivenUpPcs, Gone
        <4>3. QED
          BY <3>2, <4>1, <4>2 DEF HeldPcs
      <3>3. CASE g = h /\ ~ Carries(h)
        BY <1>3, <2>2, <3>3, CarryStep DEF Claims
      <3>4. QED
        BY <3>1, <3>2, <3>3
    <2>4. QED
      BY <2>1, <2>3 DEF SettledJob
  <1>4. QED
    BY <1>1, <1>2, <1>3 DEF SettledJob

LEMMA SettledStep ==
    ASSUME TypeOK, HostsOK, LeasesKept, Kept, Settled, ready => ready',
           NEW h \in Hosts, Start(h) \/ Work(h) \/ Kill(h) \/ BreakOff(h) \/ Age(h)
    PROVE  Settled'
  <1>0. Moves(h) /\ (Walks(h) \/ Handles(h))
    BY HostMoves, Handling
  <1>1. ASSUME NEW j \in Jobs, Left(j.stage)'
        PROVE  SettledJob(j)'
    <2>1. Left(j.stage) \/ (Advances(h) /\ host[h].stage = j.stage)
      BY <1>1, LeftStep, JobFacts
    <2>2. CASE Left(j.stage)
      <3>1. SettledJob(j)
        BY <2>2 DEF Settled, SettledJob
      <3>2. ready
        BY <2>2, JobFacts, StageFacts DEF Left, HostsOK, HostOK
      <3>3. QED
        BY <1>0, <3>1, <3>2, SettledStays
    <2>3. CASE Advances(h) /\ host[h].stage = j.stage
      <3>1. PendingIn(j.stage) = {} /\ InProgress(j.stage) = {}
        BY <2>3 DEF Advances, Settled, At
      <3>2. j \notin pending /\ \A g \in Hosts : <<j, g>> \notin running
        BY <3>1 DEF PendingIn, InProgress
      <3>3. ready
        BY <2>3 DEF Advances, HostsOK, HostOK, StartPcs
      <3>4. Judged(j)
        BY <3>2, <3>3 DEF Kept
      <3>5. SettledJob(j)
        BY <3>2, <3>4 DEF SettledJob, LeasesKept, Lease
      <3>6. QED
        BY <1>0, <3>3, <3>5, SettledStays
    <2>4. QED
      BY <2>1, <2>2, <2>3
  <1>2. ASSUME NEW g \in Hosts, host'[g].pc = "anyrunning"
        PROVE  PendingIn(host[g].stage)' = {}
    <2>1. host'[g].stage = host[g].stage /\ PendingIn(host[g].stage) = {} /\ ready
      <3>1. CASE g # h \/ host' = host
        <4>1. host'[g] = host[g]
          BY <1>0, <3>1 DEF Moves
        <4>2. QED
          BY <1>2, <4>1 DEF Settled, At, HostsOK, HostOK, StartPcs
      <3>2. CASE g = h /\ host' # host
        <4>1. host'[h].stage = host[h].stage /\ PendingIn(host[h].stage) = {} /\ ready
          BY <1>2, <3>2, LooksStep
        <4>2. QED
          BY <3>2, <4>1
      <3>3. QED
        BY <3>1, <3>2
    <2>2. pending' \subseteq pending
      BY <1>0, <2>1, FillStep
    <2>3. QED
      BY <2>1, <2>2 DEF PendingIn
  <1>3. QED
    BY <1>1, <1>2 DEF Settled, SettledJob, At

LEMMA DoneBy ==
    ASSUME TypeOK, HostsOK, NEW h \in Hosts, Moves(h), Walks(h) \/ Handles(h)
    PROVE  \A i \in Jobs : Done(i)' <=> Done(i) \/ (Ends(h) /\ host[h].job = i)
  <1> USE DEF HostRecord, HostOK, StalePcs, GivenUpPcs, ClaimPcs, FreshPcs, EndedPcs,
              HeldPcs, MarkedPcs, Leases, Lease, Gone, TypeOK, HostsOK, fileVars,
              restVars, queueVars, faultVars, On, Moves, Done
  <1>1. CASE Walks(h)
    BY <1>1 DEF Walks, Ends
  <1>2. CASE Fills(h)
    BY <1>2 DEF Fills, Ends
  <1>3. CASE Judges(h)
    BY <1>3 DEF Judges, Ends
  <1>4. CASE Proceeds(h)
    BY <1>4 DEF Proceeds, Ends
  <1>5. CASE Quits(h)
    BY <1>5 DEF Quits, Ends
  <1>6. CASE Condemns(h)
    <2>1. \A i \in Jobs : <<i, "done">> # <<host[h].job[1], "failed">>
      OBVIOUS
    <2>2. ~ Ends(h)
      BY <1>6 DEF Condemns, Ends
    <2>3. QED
      BY <1>6, <2>1, <2>2 DEF Condemns
  <1>7. CASE Evicts(h)
    BY <1>7 DEF Evicts, Ends
  <1>8. ASSUME NEW j \in pending, Claims(h, j)
        PROVE  \A i \in Jobs : Done(i)' <=> Done(i) \/ (Ends(h) /\ host[h].job = i)
    BY <1>8 DEF Claims, Ends
  <1>9. CASE Rewrites(h)
    BY <1>9 DEF Rewrites, Ends
  <1>10. CASE Runs(h)
    <2>1. On(h, "beat", "run") /\ UNCHANGED <<pending, running, verdicts, rewritten, restVars>>
      BY <1>10 DEF Runs
    <2>2. QED
      BY <2>1 DEF Ends
  <1>11. CASE Ends(h)
    <2>1. \A i \in Jobs : <<i, "done">> = <<host[h].job, "done">> <=> host[h].job = i
      OBVIOUS
    <2>2. QED
      BY <1>11, <2>1 DEF Ends
  <1>12. CASE Releases(h)
    BY <1>12 DEF Releases, Ends
  <1>13. CASE Ages(h)
    BY <1>13 DEF Ages, Ends
  <1>14. QED
    BY <1>1, <1>2, <1>3, <1>4, <1>5, <1>6, <1>7, <1>8, <1>9, <1>10, <1>11, <1>12,
       <1>13 DEF Handles

(* The summary is of the verdicts at its writing, or stays.                *)
Summary == {j \in Jobs : Done(j) /\ j.experiment = "B1"}

LEMMA SummaryStep ==
    ASSUME TypeOK, NEW h \in Hosts,
           Start(h) \/ Work(h) \/ Kill(h) \/ BreakOff(h) \/ Age(h)
    PROVE  summary' = summary \/ (At(h, "summarise") /\ summary' = Summary /\ UNCHANGED <<verdicts, robbed>>)
  <1> USE DEF queueVars, faultVars, endVars, Summary, Done
  <1>1. CASE Start(h)
    BY <1>1 DEF Start, Recover, Go
  <1>2. CASE TakeInitLock(h)
    BY <1>2 DEF TakeInitLock, Go
  <1>3. CASE FillOne(h)
    BY <1>3 DEF FillOne
  <1>4. CASE OpenQueue(h)
    BY <1>4 DEF OpenQueue, Recover, AllFilled
  <1>5. CASE AwaitReady(h)
    BY <1>5 DEF AwaitReady, Recover
  <1>6. CASE ListLeases(h)
    BY <1>6 DEF ListLeases, Return, Recover
  <1>7. CASE SkipLease(h)
    BY <1>7 DEF SkipLease
  <1>8. CASE JudgeStale(h)
    BY <1>8 DEF JudgeStale, MarkerMayBeStale, MarkerIsStale, ClaimedLate
  <1>9. CASE ReadStale(h)
    BY <1>9 DEF ReadStale, Go
  <1>10. CASE GiveUp(h)
    BY <1>10 DEF GiveUp, Go, Exhausted, MaxRetries
  <1>11. CASE WriteGivenUp(h)
    BY <1>11 DEF WriteGivenUp, Go
  <1>12. CASE DropStaleLease(h)
    BY <1>12 DEF DropStaleLease, Go
  <1>13. CASE DropStaleBeat(h)
    BY <1>13 DEF DropStaleBeat
  <1>14. CASE Recovered(h)
    BY <1>14 DEF Recovered, Return, Recover
  <1>15. CASE Claim(h)
    BY <1>15 DEF Claim, PendingIn
  <1>16. CASE NothingToClaim(h)
    BY <1>16 DEF NothingToClaim, Recover, PendingIn
  <1>17. CASE ReadLease(h)
    BY <1>17 DEF ReadLease, Go, Lease
  <1>18. CASE OpenLease(h)
    BY <1>18 DEF OpenLease, Go, Lease
  <1>19. CASE WriteLease(h)
    BY <1>19 DEF WriteLease, Go, Lease
  <1>20. CASE WriteBeat(h)
    BY <1>20 DEF WriteBeat, Go, Lease
  <1>21. CASE OpenDone(h)
    BY <1>21 DEF OpenDone, Go
  <1>22. CASE WriteDone(h)
    BY <1>22 DEF WriteDone, Go
  <1>23. CASE DropLease(h)
    BY <1>23 DEF DropLease, Go, Lease
  <1>24. CASE DropBeat(h)
    BY <1>24 DEF DropBeat, Recover, Lease
  <1>25. CASE LookPending(h)
    BY <1>25 DEF LookPending, Recover, Go, PendingIn
  <1>26. CASE LookRunning(h)
    BY <1>26 DEF LookRunning, Recover, Go, InProgress
  <1>27. CASE TakeAggregateLock(h)
    BY <1>27 DEF TakeAggregateLock, Go
  <1>28. CASE WriteSummary(h)
    BY <1>28 DEF WriteSummary, Go
  <1>29. CASE MarkComplete(h)
    BY <1>29 DEF MarkComplete, Go
  <1>30. CASE AwaitComplete(h)
    BY <1>30 DEF AwaitComplete, Go
  <1>31. CASE Kill(h) \/ BreakOff(h)
    BY <1>31 DEF Kill, BreakOff, Dies, Up
  <1>32. CASE Age(h)
    BY <1>32 DEF Age, Gone
  <1>33. QED
    BY <1>1, <1>2, <1>3, <1>4, <1>5, <1>6, <1>7, <1>8, <1>9, <1>10, <1>11, <1>12,
       <1>13, <1>14, <1>15, <1>16, <1>17, <1>18, <1>19, <1>20, <1>21, <1>22, <1>23,
       <1>24, <1>25, <1>26, <1>27, <1>28, <1>29, <1>30, <1>31, <1>32 DEF Work

LEMMA CompleteStep ==
    ASSUME TypeOK, HostsOK, NEW h \in Hosts,
           Start(h) \/ Work(h) \/ Kill(h) \/ BreakOff(h) \/ Age(h)
    PROVE  host'[h].pc = "complete" => host' = host \/ summary' = Summary
  <1>0. /\ HostOK(h)
        /\ host \in [Hosts -> HostRecord]
        /\ host[h].stage \in Nat
    BY FieldFacts DEF HostsOK, TypeOK
  <1> USE <1>0 DEF HostRecord, queueVars, faultVars, endVars, At
  <1>1. CASE Start(h)
    <2>1. CASE ready
      BY <1>1, <2>1, Recovers DEF Start, Becomes, Backs
    <2>2. CASE ~ ready
      BY <1>1, <2>2 DEF Start, Go
    <2>3. QED
      BY <2>1, <2>2
  <1>2. CASE TakeInitLock(h)
    BY <1>2 DEF TakeInitLock, Go
  <1>3. CASE FillOne(h)
    BY <1>3 DEF FillOne
  <1>4. CASE OpenQueue(h)
    <2>1. Recover(h, 1, "stage")
      BY <1>4 DEF OpenQueue
    <2>2. QED
      BY <2>1, Recovers DEF Becomes, Backs
  <1>5. CASE AwaitReady(h)
    BY <1>5, Recovers, FieldFacts DEF AwaitReady, Becomes, Backs
  <1>6. CASE ListLeases(h)
    <2> DEFINE leases == {l \in running : l[1].stage = host[h].stage}
    <2>1. CASE leases = {}
      BY <1>6, <2>1, Returns DEF ListLeases, HostOK, RecoverPcs, Becomes, Backs
    <2>2. CASE leases # {}
      <3> HIDE DEF leases
      <3>1. host' = [host EXCEPT ![h].pc = "judge", ![h].todo = leases]
        BY <1>6, <2>2 DEF ListLeases, leases
      <3>2. QED
        BY <3>1
    <2>3. QED
      BY <2>1, <2>2
  <1>7. CASE SkipLease(h)
    BY <1>7 DEF SkipLease
  <1>8. CASE JudgeStale(h)
    BY <1>8 DEF JudgeStale, MarkerMayBeStale, MarkerIsStale, ClaimedLate
  <1>9. CASE ReadStale(h)
    BY <1>9 DEF ReadStale, Go
  <1>10. CASE GiveUp(h)
    BY <1>10 DEF GiveUp, Go, Exhausted, MaxRetries
  <1>11. CASE WriteGivenUp(h)
    BY <1>11 DEF WriteGivenUp, Go
  <1>12. CASE DropStaleLease(h)
    BY <1>12 DEF DropStaleLease, Go
  <1>13. CASE DropStaleBeat(h)
    BY <1>13 DEF DropStaleBeat
  <1>14. CASE Recovered(h)
    BY <1>14, Returns DEF Recovered, HostOK, RecoverPcs, Becomes, Backs
  <1>15. CASE Claim(h)
    BY <1>15 DEF Claim, PendingIn
  <1>16. CASE NothingToClaim(h)
    BY <1>16, Recovers, FieldFacts DEF NothingToClaim, Becomes, Backs
  <1>17. CASE ReadLease(h)
    BY <1>17 DEF ReadLease, Go, Lease
  <1>18. CASE OpenLease(h)
    BY <1>18 DEF OpenLease, Go, Lease
  <1>19. CASE WriteLease(h)
    BY <1>19 DEF WriteLease, Go, Lease
  <1>20. CASE WriteBeat(h)
    BY <1>20 DEF WriteBeat, Go, Lease
  <1>21. CASE OpenDone(h)
    BY <1>21 DEF OpenDone, Go
  <1>22. CASE WriteDone(h)
    BY <1>22 DEF WriteDone, Go
  <1>23. CASE DropLease(h)
    BY <1>23 DEF DropLease, Go, Lease
  <1>24. CASE DropBeat(h)
    BY <1>24, Recovers, FieldFacts DEF DropBeat, Becomes, Backs
  <1>25. CASE LookPending(h)
    <2>1. CASE PendingIn(host[h].stage) # {}
      BY <1>25, <2>1, Recovers, FieldFacts DEF LookPending, Becomes, Backs
    <2>2. CASE PendingIn(host[h].stage) = {}
      BY <1>25, <2>2 DEF LookPending, Go
    <2>3. QED
      BY <2>1, <2>2
  <1>26. CASE LookRunning(h)
    <2>1. (\E n \in Nat : Recover(h, n, "anypending") \/ Recover(h, n, "stage")) =>
            host'[h].pc = "recover"
      BY Recovers DEF Becomes, Backs
    <2>2. CASE ~ \E n \in Nat : Recover(h, n, "anypending") \/ Recover(h, n, "stage")
      <3>1. host' = [host EXCEPT ![h] = [Idle EXCEPT !.stage = Len(Stages) + 1,
                        !.pc = IF h \in Coordinators THEN "aggregate" ELSE "awaitend"]]
        BY <1>26, <2>2 DEF LookRunning
      <3>2. host'[h].pc \in {"aggregate", "awaitend"}
        BY <3>1 DEF Idle
      <3>3. QED
        BY <3>2
    <2>3. QED
      BY <2>1, <2>2
  <1>27. CASE TakeAggregateLock(h)
    BY <1>27 DEF TakeAggregateLock, Go
  <1>28. CASE WriteSummary(h)
    <2>1. CASE \E j \in Jobs : <<j, "done">> \in torn
      BY <1>28, <2>1 DEF WriteSummary, Go
    <2>2. CASE ~ \E j \in Jobs : <<j, "done">> \in torn
      BY <1>28, <2>2 DEF WriteSummary, Summary, Done
    <2>3. QED
      BY <2>1, <2>2
  <1>29. CASE MarkComplete(h)
    BY <1>29 DEF MarkComplete, Go
  <1>30. CASE AwaitComplete(h)
    BY <1>30 DEF AwaitComplete, Go
  <1>31. CASE Kill(h) \/ BreakOff(h)
    BY <1>31, Dying DEF Becomes
  <1>32. CASE Age(h)
    BY <1>32 DEF Age, Gone
  <1>33. QED
    BY <1>1, <1>2, <1>3, <1>4, <1>5, <1>6, <1>7, <1>8, <1>9, <1>10, <1>11, <1>12,
       <1>13, <1>14, <1>15, <1>16, <1>17, <1>18, <1>19, <1>20, <1>21, <1>22, <1>23,
       <1>24, <1>25, <1>26, <1>27, <1>28, <1>29, <1>30, <1>31, <1>32 DEF Work

LEMMA SummarisedStep ==
    ASSUME TypeOK, HostsOK, Settled, Summarised, summary \subseteq Jobs,
           NEW h \in Hosts, Start(h) \/ Work(h) \/ Kill(h) \/ BreakOff(h) \/ Age(h)
    PROVE  Summarised' /\ (summary \subseteq Jobs)'
  <1>0. Moves(h) /\ (Walks(h) \/ Handles(h))
    BY HostMoves, Handling
  <1>1. CASE summary' # summary
    BY <1>1, SummaryStep DEF Summary, Summarised, Done
  <1>2. CASE summary' = summary
    <2> SUFFICES ASSUME complete' \/ \E g \in Hosts : host'[g].pc = "complete",
                        NEW i \in Jobs \ robbed'
                 PROVE  i \in summary' <=> Done(i)' /\ i.experiment = "B1"
      BY <1>2 DEF Summarised, At
    <2>1. (complete \/ \E g \in Hosts : At(g, "complete")) \/ summary' = Summary
      <3>1. complete' => complete \/ At(h, "complete")
        BY ReadyStays
      <3>2. ASSUME NEW g \in Hosts, host'[g].pc = "complete"
            PROVE  At(g, "complete") \/ summary' = Summary
        BY <1>0, <3>2, CompleteStep DEF Moves, At
      <3>3. QED
        BY <3>1, <3>2
    <2>2. i \notin robbed
      BY <1>0, VerdictsStay
    <2>3. CASE complete \/ \E g \in Hosts : At(g, "complete")
      <3>1. i \in summary <=> Done(i) /\ i.experiment = "B1"
        BY <2>2, <2>3 DEF Summarised
      <3>2. Left(i.stage)
        <4>1. ASSUME NEW g \in Hosts, At(g, "complete")
              PROVE  host[g].stage > i.stage
          <5>1. host[g].stage > Len(Stages) /\ host[g].stage \in Nat
            BY <4>1, FieldFacts DEF At, HostsOK, HostOK, LastPcs, TypeOK
          <5>2. QED
            BY <5>1, JobFacts, StageFacts
        <4>2. QED
          BY <2>3, <4>1 DEF Left
      <3>3. ~ (Ends(h) /\ host[h].job = i)
        BY <2>2, <3>2 DEF Settled, Ends, On, HeldPcs, ClaimPcs
      <3>4. Done(i)' <=> Done(i)
        BY <1>0, <3>3, DoneBy
      <3>5. QED
        BY <1>2, <3>1, <3>4
    <2>4. CASE summary' = Summary /\ ~ (complete \/ \E g \in Hosts : At(g, "complete"))
      <3>1. PICK g \in Hosts : host'[g].pc = "complete" /\ ~ At(g, "complete")
        BY <2>4, ReadyStays DEF At
      <3>2. g = h
        BY <1>0, <3>1 DEF Moves, At
      <3>3. ~ Ends(h)
        BY <3>1, <3>2 DEF Ends, On
      <3>4. Done(i)' <=> Done(i)
        BY <1>0, <3>3, DoneBy
      <3>5. QED
        BY <2>4, <3>4 DEF Summary
    <2>5. QED
      BY <2>1, <2>3, <2>4
  <1>3. QED
    BY <1>1, <1>2

-----------------------------------------------------------------------------
LEMMA InitOK == Init => PipelineOK
  <1> SUFFICES ASSUME Init
               PROVE  PipelineOK
    OBVIOUS
  <1>1. \A h \in Hosts : /\ host[h] = Idle /\ host[h].pc = "off" /\ host[h].stage = 0
    BY DEF Init, Idle
  <1>2. Idle \in HostRecord
    BY PcFacts DEF Idle, HostRecord, StartPcs
  <1>3. TypeOK
    BY <1>2 DEF Init, TypeOK, Leases
  <1>4. HostsOK
    BY <1>1 DEF Init, HostsOK, HostOK, ClaimPcs, FreshPcs, EndedPcs, StalePcs, GivenUpPcs,
            RecoverPcs, LastPcs, StartPcs
  <1>5. \A h \in Hosts, j \in Jobs : ~ Claimer(h, j)
    BY <1>1 DEF Init, Claimer, ClaimPcs, FreshPcs, EndedPcs, StalePcs, GivenUpPcs
  <1>6. OneClaimer /\ Untouched
    BY <1>5 DEF Init, OneClaimer, Untouched, Done, Failed
  <1>7. LeasesHeld /\ LeasesKept /\ Written
    BY <1>1 DEF Init, LeasesHeld, LeasesKept, Written, MarkedPcs, HeldPcs, ClaimPcs, FreshPcs, EndedPcs
  <1>8. TakenOver /\ Ended
    BY <1>1 DEF Init, TakenOver, Ended, Failed, Done, StalePcs, GivenUpPcs, ClaimPcs, FreshPcs, EndedPcs
  <1>9. StartedOnce
    BY <1>1 DEF Init, StartedOnce, JobRunsOnce, FreshPcs
  <1>10. Kept
    BY DEF Init, Kept
  <1>11. Settled
    <2>1. \A j \in Jobs : ~ Left(j.stage)
      BY <1>1, JobFacts, StageFacts DEF Init, Left
    <2>2. QED
      BY <1>1, <2>1 DEF Settled, At
  <1>12. Summarised /\ summary \subseteq Jobs
    BY <1>1 DEF Init, Summarised, At
  <1>13. QED
    BY <1>3, <1>4, <1>6, <1>7, <1>8, <1>9, <1>10, <1>11, <1>12 DEF PipelineOK

LEMMA NextOK == PipelineOK /\ [Next]_vars => PipelineOK'
  <1> SUFFICES ASSUME PipelineOK, [Next]_vars
               PROVE  PipelineOK'
    OBVIOUS
  <1>1. CASE UNCHANGED vars
    <2> USE <1>1 DEF PipelineOK, vars, queueVars, endVars, faultVars
    <2>1. TypeOK' /\ HostsOK'
      BY DEF TypeOK, HostsOK, HostOK, Gone
    <2>2. OneClaimer' /\ Untouched'
      BY DEF OneClaimer, Untouched, Claimer, Done, Failed
    <2>3. LeasesHeld' /\ LeasesKept' /\ Written'
      BY DEF LeasesHeld, LeasesKept, Written, Lease, Gone, Done
    <2>4. TakenOver' /\ Ended' /\ StartedOnce'
      BY DEF TakenOver, DiedWith, Ended, StartedOnce, JobRunsOnce, Gone, Done, Failed
    <2>5. Kept' /\ Settled'
      BY DEF Kept, Settled, Left, Judged, PendingIn, At, Done, Failed
    <2>6. Summarised' /\ (summary \subseteq Jobs)'
      BY DEF Summarised, At, Done
    <2>7. QED
      BY <2>1, <2>2, <2>3, <2>4, <2>5, <2>6
  <1>2. ASSUME NEW h \in Hosts, Start(h) \/ Work(h) \/ Kill(h) \/ BreakOff(h) \/ Age(h)
        PROVE  PipelineOK'
    <2>1. Moves(h) /\ (Walks(h) \/ Handles(h))
      BY <1>2, HostMoves, Handling DEF PipelineOK
    <2>2. TypeOK' /\ HostsOK'
      BY <1>2, TypeStep, HostsStep DEF PipelineOK
    <2>3. ready => ready'
      BY <1>2, ReadyStays DEF PipelineOK
    <2>4. OneClaimer' /\ Untouched'
      BY <2>1, <2>3, OneClaimerStep, UntouchedStep DEF PipelineOK
    <2>5. LeasesHeld' /\ LeasesKept'
      BY <2>1, LeasesHeldStep, LeasesKeptStep DEF PipelineOK
    <2>6. Written'
      BY <2>1, MarkedStep, WrittenStep DEF PipelineOK, Written, Lease
    <2>7. TakenOver' /\ Ended'
      BY <2>1, <2>2, TakenOverStep, EndedStep DEF PipelineOK
    <2>8. StartedOnce'
      BY <2>1, FreshStep, OnceStep DEF PipelineOK, StartedOnce, JobRunsOnce
    <2>9. Kept'
      BY <1>2, <2>1, Opens, KeptStep DEF PipelineOK
    <2>10. Settled'
      BY <1>2, <2>3, SettledStep DEF PipelineOK
    <2>11. Summarised' /\ (summary \subseteq Jobs)'
      BY <1>2, SummarisedStep DEF PipelineOK
    <2>12. QED
      BY <2>2, <2>4, <2>5, <2>6, <2>7, <2>8, <2>9, <2>10, <2>11 DEF PipelineOK
  <1>3. QED
    BY <1>1, <1>2 DEF Next

(* Whatever the processes do and wherever they are killed, a job has one   *)
(* claimer, goes through running/ to a verdict, and a stage that a process *)
(* has left is settled (claim_job, recover_stale_jobs,                     *)
(* wait_for_stage_complete).                                               *)
THEOREM PipelineKept == Spec => []PipelineOK
  <1>1. QED
    BY InitOK, NextOK, PTL DEF Spec

(* No command is run twice, by whichever processes and after whichever     *)
(* kills (claim_job, recover_stale_jobs).                                  *)
THEOREM CommandsRunOnce == Spec => []JobRunsOnce
  <1>1. PipelineOK => JobRunsOnce
    BY DEF PipelineOK, StartedOnce
  <1>2. QED
    BY <1>1, PipelineKept, PTL

(* A command runs beside processes of its own stage or of earlier ones     *)
(* only, unless its job was robbed (wait_for_stage_complete).              *)
THEOREM StagesKeepApart == Spec => []StageBarrier
  <1>1. PipelineOK => StageBarrier
    <2> SUFFICES ASSUME PipelineOK, NEW h \in Hosts, At(h, "run"), host[h].job \notin robbed,
                        NEW g \in Hosts
                 PROVE  host[g].stage <= host[h].job.stage
      BY DEF StageBarrier
    <2>1. host[h].job \in Jobs /\ host[h].pc \in HeldPcs
      BY DEF PipelineOK, HostsOK, HostOK, At, HeldPcs, ClaimPcs
    <2>2. ~ Left(host[h].job.stage)
      BY <2>1 DEF PipelineOK, Settled
    <2>3. host[g].stage \in Nat /\ host[h].job.stage \in Nat
      BY <2>1, JobFacts, StageFacts, FieldFacts DEF PipelineOK, TypeOK
    <2>4. QED
      BY <2>2, <2>3 DEF Left
  <1>2. QED
    BY <1>1, PipelineKept, PTL

(* Two verdicts of a job mean that its process died after the first, or    *)
(* was robbed (finish_job, recover_stale_jobs).                            *)
THEOREM VerdictsAgree == Spec => []VerdictOnce
  <1>1. PipelineOK => VerdictOnce
    BY DEF PipelineOK, TakenOver, DiedWith, VerdictOnce, Done, Failed
  <1>2. QED
    BY <1>1, PipelineKept, PTL

(* A complete pipeline has a verdict for every job, and its summary has    *)
(* every B1 run that ended (aggregate_pipeline).                           *)
THEOREM CompleteIsAll == Spec => []CompleteMeansAll
  <1>1. PipelineOK => CompleteMeansAll
    <2> SUFFICES ASSUME PipelineOK, complete
                 PROVE  /\ \A j \in Jobs : {<<j, "done">>, <<j, "failed">>} \cap verdicts # {}
                        /\ summary \ robbed =
                             {j \in Jobs \ robbed : <<j, "done">> \in verdicts /\ j.experiment = "B1"}
      BY DEF CompleteMeansAll
    <2>1. \A j \in Jobs : Judged(j)
      BY DEF PipelineOK, Settled, Left
    <2>2. summary \subseteq Jobs
      BY DEF PipelineOK
    <2>3. \A j \in Jobs \ robbed : j \in summary <=> <<j, "done">> \in verdicts /\ j.experiment = "B1"
      BY DEF PipelineOK, Summarised, Done
    <2>4. QED
      BY <2>1, <2>2, <2>3 DEF Judged, Done, Failed
  <1>2. QED
    BY <1>1, PipelineKept, PTL

=============================================================================
