------------------------- MODULE AuditQueue_proofs --------------------------
(***************************************************************************)
(* Proofs about AuditQueue, for any number of jobs, workers, attempts and  *)
(* claims: the types, that no job is lost (in any regime), and then, for   *)
(* the regime the queue is written for, that a job has one file and one    *)
(* owner, that its claims are counted right, and that the queue implements *)
(* the job service of AuditJobs.                                           *)
(***************************************************************************)
EXTENDS AuditQueue, TLAPS

(* What a worker keeps between two file operations.                        *)
PathOK == \A w \in Worker :
    pc[w] \in RecoverPC \union HoldPC => path[w] \in Claim

CopyOK == \A w \in Worker :
    pc[w] \in {"judge", "rewrite", "resign", "uwrite", "fwrite"} => copy[w] \in File

VerdictOK == \A w \in Worker :
    pc[w] \in {"rewrite", "move"} => verdict[w] \in {"pending", "failed"}

LocalOK == TypeOK /\ PathOK /\ CopyOK /\ VerdictOK

USE DEF files, locals, vars

-----------------------------------------------------------------------------
LEMMA AttemptAdvances ==
    ASSUME NEW f \in File
    PROVE  NextAttempt(f) \in 1 .. MaxAttempts
  BY AttemptsAssumption DEF File, NextAttempt, ExhaustedAttempt

LEMMA AdvancedFile ==
    ASSUME NEW f \in File
    PROVE  [f EXCEPT !.attempt = NextAttempt(f)] \in File
  BY AttemptAdvances DEF File

LEMMA LocalInit == Init => LocalOK
  BY AttemptsAssumption
  DEF Init, LocalOK, TypeOK, PathOK, CopyOK, VerdictOK, File, PC, RecoverPC, HoldPC,
      Stopped, Verdict

LEMMA AgedFile ==
    ASSUME NEW f \in File
    PROVE  [f EXCEPT !.old = TRUE] \in File
  BY DEF File

LEMMA WriteTyped ==
    ASSUME TypeOK, NEW t \in Claim, NEW f \in File, WriteLease(t, f)
    PROVE  lease' \in [Claim -> File \union {None}]
  <1>1. [f EXCEPT !.old = FALSE] \in File
    BY DEF File
  <1>2. QED
    BY <1>1 DEF TypeOK, WriteLease

(* Moving a lease that is there keeps the types of the four directories.   *)
LEMMA MoveTyped ==
    ASSUME TypeOK, NEW t \in Claim, lease[t] # None, NEW dir, MoveLease(t, dir)
    PROVE  /\ lease' \in [Claim -> File \union {None}]
           /\ pending' \in [Job -> File \union {None}]
           /\ done' \subseteq Job
           /\ failed' \in [Job -> File \union {None}]
  <1>1. JobOf(t) \in Job
    BY DEF Claim, JobOf
  <1>2. [lease[t] EXCEPT !.signed = FALSE] \in File
    <2>1. lease[t] \in File
      BY DEF TypeOK
    <2>2. QED
      BY <2>1 DEF File
  <1>3. ASSUME NEW f \in [Job -> File \union {None}]
        PROVE  Received(f, t) \in [Job -> File \union {None}]
    BY <1>1, <1>2 DEF Received
  <1>4. QED
    BY <1>1, <1>3 DEF TypeOK, MoveLease

LEMMA RecoverTyped ==
    ASSUME LocalOK, NEW w \in Worker, Recover(w)
    PROVE  LocalOK'
  <1> USE DEF LocalOK, TypeOK, PathOK, CopyOK, VerdictOK, PC, RecoverPC, HoldPC, Stopped,
              Verdict, Goto
  <1>1. CASE ListRunning(w)
    BY <1>1 DEF ListRunning
  <1>2. CASE LockLease(w)
    BY <1>2 DEF LockLease
  <1>3. CASE PeekPayload(w)
    BY <1>3 DEF PeekPayload, SkipLease
  <1>4. CASE JudgeLease(w)
    <2>1. copy[w] \in File
      BY <1>4 DEF JudgeLease
    <2>2. CASE FoundStale(w)
      <3> DEFINE g == [copy[w] EXCEPT !.attempt = NextAttempt(copy[w])]
      <3>1. g \in File
        BY <2>1, AdvancedFile
      <3>2. copy' = [copy EXCEPT ![w] = g]
        BY <1>4, <2>2 DEF JudgeLease
      <3>3. verdict'[w] \in {"pending", "failed"} /\ verdict' \in [Worker -> Verdict]
        BY <1>4, <2>2 DEF JudgeLease
      <3> HIDE DEF g
      <3>4. QED
        BY <1>4, <2>2, <3>1, <3>2, <3>3 DEF JudgeLease
    <2>3. CASE ~ FoundStale(w)
      BY <1>4, <2>3 DEF JudgeLease, SkipLease
    <2>4. QED
      BY <2>2, <2>3
  <1>5. CASE RewriteLease(w)
    BY <1>5, WriteTyped DEF RewriteLease
  <1>6. CASE RequeueLease(w)
    <2>1. CASE lease[path[w]] # None
      BY <1>6, <2>1, MoveTyped DEF RequeueLease
    <2>2. CASE lease[path[w]] = None
      BY <1>6, <2>2 DEF RequeueLease
    <2>3. QED
      BY <2>1, <2>2
  <1>7. CASE UnmarkLease(w)
    BY <1>7 DEF UnmarkLease, SkipLease
  <1>8. QED
    BY <1>1, <1>2, <1>3, <1>4, <1>5, <1>6, <1>7 DEF Recover

LEMMA ClaimTyped ==
    ASSUME LocalOK, NEW w \in Worker, ClaimJob(w)
    PROVE  LocalOK'
  <1> USE DEF LocalOK, TypeOK, PathOK, CopyOK, VerdictOK, PC, RecoverPC, HoldPC, Stopped,
              Verdict, Goto
  <1>1. CASE ListPending(w)
    BY <1>1 DEF ListPending
  <1>2. CASE ClaimRename(w)
    <2>1. PICK j \in cand[w] :
             \/ /\ pending[j] = None
                /\ cand' = [cand EXCEPT ![w] = @ \ {j}]
                /\ Goto(w, IF cand'[w] = {} THEN "scanpending" ELSE "claim")
                /\ UNCHANGED <<pending, lease, claims, wasted, path>>
             \/ /\ pending[j] # None
                /\ claims[j] < MaxClaims
                /\ RenameToLease(j, <<j, claims[j] + 1>>)
                /\ path' = [path EXCEPT ![w] = <<j, claims[j] + 1>>]
                /\ cand' = [cand EXCEPT ![w] = {}]
                /\ Goto(w, "sign")
      BY <1>2 DEF ClaimRename
    <2>2. CASE pending[j] = None
      BY <1>2, <2>1, <2>2 DEF ClaimRename
    <2>3. CASE pending[j] # None
      <3>1. j \in Job /\ claims[j] + 1 \in 0 .. MaxClaims
        BY <2>1, <2>3, AttemptsAssumption
      <3>2. <<j, claims[j] + 1>> \in Claim
        BY <2>1, <2>3, <3>1, AttemptsAssumption DEF Claim
      <3>3. /\ claims' = [claims EXCEPT ![j] = claims[j] + 1]
            /\ pending' = [pending EXCEPT ![j] = None]
            /\ lease' = [lease EXCEPT ![<<j, claims[j] + 1>>] = pending[j]]
        BY <2>1, <2>3 DEF RenameToLease
      <3>4. path' = [path EXCEPT ![w] = <<j, claims[j] + 1>>] /\ pc' = [pc EXCEPT ![w] = "sign"]
        BY <2>1, <2>3
      <3>5. QED
        BY <1>2, <2>1, <2>3, <3>1, <3>2, <3>3, <3>4 DEF ClaimRename
    <2>4. QED
      BY <2>2, <2>3
  <1>3. CASE ClaimRead(w)
    <2>1. CASE lease[path[w]] = None
      BY <1>3, <2>1 DEF ClaimRead, Raise
    <2>2. CASE lease[path[w]] # None
      <3> DEFINE g == [lease[path[w]] EXCEPT !.signed = TRUE]
      <3>1. lease[path[w]] \in File
        BY <1>3, <2>2 DEF ClaimRead
      <3>2. g \in File
        BY <3>1 DEF File
      <3>3. copy' = [copy EXCEPT ![w] = g]
        BY <1>3, <2>2 DEF ClaimRead
      <3> HIDE DEF g
      <3>4. QED
        BY <1>3, <2>2, <3>2, <3>3 DEF ClaimRead
    <2>3. QED
      BY <2>1, <2>2
  <1>4. CASE ClaimWrite(w)
    BY <1>4, WriteTyped DEF ClaimWrite
  <1>5. QED
    BY <1>1, <1>2, <1>3, <1>4 DEF ClaimJob

LEMMA WorkTyped ==
    ASSUME LocalOK, NEW w \in Worker, Work(w) \/ Scan(w)
    PROVE  LocalOK'
  BY DEF LocalOK, TypeOK, PathOK, CopyOK, VerdictOK, PC, RecoverPC, HoldPC, Stopped,
         Verdict, Goto, Work, Scan, StartHeartbeat, WorkSucceeds, WorkFails,
         WorkInterrupted, ScanPending, ReadPending, ScanRunning,
         ReadRunning

LEMMA FinishTyped ==
    ASSUME LocalOK, NEW w \in Worker, Finish(w)
    PROVE  LocalOK'
  <1> USE DEF LocalOK, TypeOK, PathOK, CopyOK, VerdictOK, PC, RecoverPC, HoldPC, Stopped,
              Verdict, Goto
  <1>1. CASE UpdateExists(w)
    BY <1>1 DEF UpdateExists
  <1>2. CASE UpdateRead(w)
    BY <1>2 DEF UpdateRead, OwnsLease
  <1>3. CASE UpdateWrite(w)
    BY <1>3, WriteTyped DEF UpdateWrite
  <1>4. CASE FinishExists(w)
    BY <1>4 DEF FinishExists
  <1>5. CASE FinishRead(w)
    BY <1>5 DEF FinishRead, FinishVanished, OwnsLease
  <1>6. CASE FinishWrite(w)
    BY <1>6, WriteTyped DEF FinishWrite
  <1>7. CASE FinishMove(w)
    <2>1. CASE lease[path[w]] # None
      BY <1>7, <2>1, MoveTyped DEF FinishMove
    <2>2. CASE lease[path[w]] = None
      BY <1>7, <2>2 DEF FinishMove, FinishVanished
    <2>3. QED
      BY <2>1, <2>2
  <1>8. CASE StopHeartbeat(w)
    BY <1>8 DEF StopHeartbeat
  <1>9. QED
    BY <1>1, <1>2, <1>3, <1>4, <1>5, <1>6, <1>7, <1>8 DEF Finish

LEMMA EnvironmentTyped ==
    ASSUME LocalOK, (\E w \in Worker : Beat(w) \/ BreakOffRecovery(w) \/ Crash(w)) \/ TimePasses
    PROVE  LocalOK'
  <1> USE DEF LocalOK, TypeOK, PathOK, CopyOK, VerdictOK, PC, RecoverPC, HoldPC, Stopped,
              Verdict, Goto
  <1>1. ASSUME NEW w \in Worker, Beat(w)
        PROVE  LocalOK'
    BY <1>1 DEF Beat
  <1>2. ASSUME NEW w \in Worker, BreakOffRecovery(w) \/ Crash(w)
        PROVE  LocalOK'
    <2>1. CASE BreakOffRecovery(w)
      <3>1. JobOf(path[w]) \in Job
        BY <2>1 DEF BreakOffRecovery, Claim, JobOf
      <3>2. wasted' \in [Job -> Nat]
        BY <2>1, <3>1 DEF BreakOffRecovery
      <3>3. QED
        BY <2>1, <3>2 DEF BreakOffRecovery
    <2>2. CASE Crash(w)
      BY <2>2 DEF Crash
    <2>3. QED
      BY <1>2, <2>1, <2>2
  <1>3. ASSUME NEW t \in Claim, AgeBeat(t)
        PROVE  LocalOK'
    BY <1>3 DEF AgeBeat
  <1>4. ASSUME NEW t \in Claim, AgeLease(t)
        PROVE  LocalOK'
    <2>1. lease[t] \in File /\ lease' = [lease EXCEPT ![t] = [lease[t] EXCEPT !.old = TRUE]]
      BY <1>4 DEF AgeLease
    <2>2. QED
      BY <1>4, <2>1, AgedFile DEF AgeLease
  <1>5. ASSUME NEW j \in Job, AgePending(j)
        PROVE  LocalOK'
    <2>1. pending[j] \in File
          /\ pending' = [pending EXCEPT ![j] = [pending[j] EXCEPT !.old = TRUE]]
      BY <1>5 DEF AgePending
    <2>2. QED
      BY <1>5, <2>1, AgedFile DEF AgePending
  <1>6. QED
    BY <1>1, <1>2, <1>3, <1>4, <1>5 DEF TimePasses

LEMMA LocalNext == LocalOK /\ [Next]_vars => LocalOK'
  <1> SUFFICES ASSUME LocalOK, [Next]_vars
               PROVE  LocalOK'
    OBVIOUS
  <1>1. CASE UNCHANGED vars
    BY <1>1 DEF LocalOK, TypeOK, PathOK, CopyOK, VerdictOK
  <1>2. CASE QueueStep
    BY <1>2, RecoverTyped, ClaimTyped, WorkTyped, FinishTyped, EnvironmentTyped
    DEF QueueStep, WorkerStep
  <1>3. QED
    BY <1>1, <1>2 DEF Next, Terminated

(* The variables of every behaviour of the queue have their types, in any  *)
(* timing regime.                                                          *)
THEOREM TypeCorrect == Spec => []TypeOK
  <1>1. LocalOK => TypeOK
    BY DEF LocalOK
  <1>2. QED
    BY LocalInit, LocalNext, <1>1, PTL DEF Spec

-----------------------------------------------------------------------------
(* NoJobLost: a file leaves a directory only by a rename into another one. *)

(* What an operation may do to the four directories.                       *)
Kept(j) == /\ pending[j] # None => pending'[j] # None \/ LeasesOf(j)' # {}
           /\ LeasesOf(j) # {} => pending'[j] # None \/ LeasesOf(j)' # {} \/ Finished(j)'
           /\ Finished(j) => Finished(j)'

DirectoriesKept == \A j \in Job : Kept(j)

LEMMA UntouchedKept ==
    ASSUME UNCHANGED <<pending, lease, done, failed>>
    PROVE  DirectoriesKept
  BY DEF DirectoriesKept, Kept, LeasesOf, Finished

LEMMA WriteKept ==
    ASSUME TypeOK, NEW t \in Claim, NEW f \in File, WriteLease(t, f),
           UNCHANGED <<pending, done, failed>>
    PROVE  DirectoriesKept
  <1>1. [f EXCEPT !.old = FALSE] \in File
    BY DEF File
  <1>2. \A u \in Claim : lease[u] # None => lease'[u] # None
    BY <1>1, NoneAssumption DEF TypeOK, WriteLease
  <1>3. QED
    BY <1>2 DEF DirectoriesKept, Kept, LeasesOf, Finished

LEMMA MoveKept ==
    ASSUME TypeOK, NEW t \in Claim, lease[t] # None,
           NEW dir \in {"pending", "done", "failed"}, MoveLease(t, dir)
    PROVE  DirectoriesKept
  <1>1. JobOf(t) \in Job
    BY DEF Claim, JobOf
  <1>2. [lease[t] EXCEPT !.signed = FALSE] # None
    <2>1. lease[t] \in File
      BY DEF TypeOK
    <2>2. [lease[t] EXCEPT !.signed = FALSE] \in File
      BY <2>1 DEF File
    <2>3. QED
      BY <2>2, NoneAssumption
  <1>3. \A i \in Job : /\ pending[i] # None => pending'[i] # None
                       /\ Finished(i) => Finished(i)'
    BY <1>1, <1>2 DEF TypeOK, MoveLease, Received, Finished
  <1>4. pending'[JobOf(t)] # None \/ Finished(JobOf(t))'
    BY <1>1, <1>2 DEF TypeOK, MoveLease, Received, Finished
  <1>5. \A u \in Claim \ {t} : lease'[u] = lease[u]
    BY DEF TypeOK, MoveLease
  <1>6. \A i \in Job \ {JobOf(t)} : LeasesOf(i)' = LeasesOf(i)
    BY <1>5 DEF LeasesOf
  <1>7. QED
    BY <1>3, <1>4, <1>6 DEF DirectoriesKept, Kept

LEMMA RenameKept ==
    ASSUME TypeOK, NEW j \in Job, NEW t \in Claim, JobOf(t) = j, pending[j] # None,
           RenameToLease(j, t), UNCHANGED <<done, failed>>
    PROVE  DirectoriesKept
  <1>1. t \in LeasesOf(j)'
    BY DEF TypeOK, RenameToLease, LeasesOf
  <1>2. \A u \in Claim : lease[u] # None => lease'[u] # None
    BY DEF TypeOK, RenameToLease
  <1>3. \A i \in Job : LeasesOf(i) \subseteq LeasesOf(i)'
    BY <1>2 DEF LeasesOf
  <1>4. \A i \in Job \ {j} : pending'[i] = pending[i]
    BY DEF TypeOK, RenameToLease
  <1>5. QED
    BY <1>1, <1>3, <1>4 DEF DirectoriesKept, Kept, Finished

LEMMA NextKept == LocalOK /\ [Next]_vars => DirectoriesKept
  <1> SUFFICES ASSUME LocalOK, [Next]_vars
               PROVE  DirectoriesKept
    OBVIOUS
  <1>0. TypeOK /\ PathOK /\ CopyOK /\ VerdictOK
    BY DEF LocalOK
  <1>1. ASSUME NEW w \in Worker, Recover(w)
        PROVE  DirectoriesKept
    <2>1. CASE RewriteLease(w)
      BY <1>0, <2>1, WriteKept DEF RewriteLease, PathOK, CopyOK, RecoverPC
    <2>2. CASE RequeueLease(w)
      BY <1>0, <2>2, MoveKept, UntouchedKept DEF RequeueLease, PathOK, VerdictOK, RecoverPC
    <2>3. QED
      BY <1>1, <2>1, <2>2, UntouchedKept
      DEF Recover, ListRunning, LockLease, PeekPayload, JudgeLease, UnmarkLease
  <1>2. ASSUME NEW w \in Worker, ClaimJob(w)
        PROVE  DirectoriesKept
    <2>1. CASE ClaimRename(w)
      <3>1. PICK j \in cand[w] :
               \/ UNCHANGED <<pending, lease>>
               \/ /\ pending[j] # None
                  /\ claims[j] < MaxClaims
                  /\ RenameToLease(j, <<j, claims[j] + 1>>)
        BY <2>1 DEF ClaimRename
      <3>2. CASE UNCHANGED <<pending, lease>>
        BY <2>1, <3>2, UntouchedKept DEF ClaimRename
      <3>3. CASE ~ UNCHANGED <<pending, lease>>
        <4>1. j \in Job /\ <<j, claims[j] + 1>> \in Claim
          BY <1>0, <3>1, <3>3, AttemptsAssumption DEF TypeOK, Claim
        <4>2. JobOf(<<j, claims[j] + 1>>) = j
          BY DEF JobOf
        <4>3. UNCHANGED <<done, failed>>
          BY <2>1 DEF ClaimRename
        <4>4. QED
          BY <1>0, <3>1, <3>3, <4>1, <4>2, <4>3, RenameKept
      <3>4. QED
        BY <3>2, <3>3
    <2>2. CASE ClaimWrite(w)
      BY <1>0, <2>2, WriteKept DEF ClaimWrite, PathOK, CopyOK, HoldPC
    <2>3. QED
      BY <1>2, <2>1, <2>2, UntouchedKept DEF ClaimJob, ListPending, ClaimRead
  <1>3. ASSUME NEW w \in Worker, Work(w) \/ Scan(w)
        PROVE  DirectoriesKept
    BY <1>3, UntouchedKept
    DEF Work, Scan, StartHeartbeat, WorkSucceeds, WorkFails, WorkInterrupted, ScanPending,
        ReadPending, ScanRunning, ReadRunning
  <1>4. ASSUME NEW w \in Worker, Finish(w)
        PROVE  DirectoriesKept
    <2>1. CASE UpdateWrite(w)
      BY <1>0, <2>1, WriteKept DEF UpdateWrite, PathOK, CopyOK, HoldPC
    <2>2. CASE FinishWrite(w)
      BY <1>0, <2>2, WriteKept DEF FinishWrite, PathOK, CopyOK, HoldPC
    <2>3. CASE FinishMove(w)
      BY <1>0, <2>3, MoveKept, UntouchedKept DEF FinishMove, PathOK, HoldPC
    <2>4. QED
      BY <1>4, <2>1, <2>2, <2>3, UntouchedKept
      DEF Finish, UpdateExists, UpdateRead, FinishExists, FinishRead, StopHeartbeat
  <1>5. ASSUME NEW w \in Worker, Beat(w) \/ BreakOffRecovery(w) \/ Crash(w)
        PROVE  DirectoriesKept
    BY <1>5, UntouchedKept DEF Beat, BreakOffRecovery, Crash
  <1>6. CASE TimePasses
    <2>1. ASSUME NEW t \in Claim, AgeBeat(t)
          PROVE  DirectoriesKept
      BY <2>1, UntouchedKept DEF AgeBeat
    <2>2. ASSUME NEW t \in Claim, AgeLease(t)
          PROVE  DirectoriesKept
      <3>1. lease[t] \in File
        BY <1>0, <2>2 DEF TypeOK, AgeLease
      <3>2. [lease[t] EXCEPT !.old = TRUE] # None
        BY <3>1, AgedFile, NoneAssumption
      <3>3. \A u \in Claim : lease[u] # None => lease'[u] # None
        BY <1>0, <2>2, <3>2 DEF TypeOK, AgeLease
      <3>4. \A i \in Job : LeasesOf(i) \subseteq LeasesOf(i)'
        BY <3>3 DEF LeasesOf
      <3>5. QED
        BY <2>2, <3>4 DEF AgeLease, DirectoriesKept, Kept, Finished
    <2>3. ASSUME NEW j \in Job, AgePending(j)
          PROVE  DirectoriesKept
      <3>1. pending[j] \in File
        BY <1>0, <2>3 DEF TypeOK, AgePending
      <3>2. [pending[j] EXCEPT !.old = TRUE] # None
        BY <3>1, AgedFile, NoneAssumption
      <3>3. \A i \in Job : pending[i] # None => pending'[i] # None
        BY <1>0, <2>3, <3>2 DEF TypeOK, AgePending
      <3>4. QED
        BY <2>3, <3>3 DEF AgePending, DirectoriesKept, Kept, LeasesOf, Finished
    <2>4. QED
      BY <1>6, <2>1, <2>2, <2>3 DEF TimePasses
  <1>7. CASE UNCHANGED vars
    BY <1>7, UntouchedKept
  <1>8. QED
    BY <1>1, <1>2, <1>3, <1>4, <1>5, <1>6, <1>7 DEF Next, QueueStep, WorkerStep, Terminated

(* Whatever is slow, killed or raced, no job loses its last file: a file   *)
(* leaves a directory only by a rename into another one.                   *)
THEOREM NoJobIsLost == Spec => []NoJobLost
  <1>1. Init => NoJobLost
    <2> DEFINE fresh == [attempt |-> 1, old |-> FALSE, signed |-> FALSE]
    <2>1. fresh \in File
      BY AttemptsAssumption DEF File
    <2>2. Init => pending = [j \in Job |-> fresh]
      BY DEF Init
    <2> HIDE DEF fresh
    <2>3. QED
      BY <2>1, <2>2, NoneAssumption DEF NoJobLost
  <1>2. NoJobLost /\ DirectoriesKept => NoJobLost'
    BY DEF NoJobLost, DirectoriesKept, Kept
  <1>3. LocalOK /\ NoJobLost /\ [Next]_vars => NoJobLost'
    BY <1>2, NextKept
  <1>4. QED
    BY LocalInit, LocalNext, <1>1, <1>3, PTL DEF Spec

-----------------------------------------------------------------------------
(***************************************************************************)
(* In the regime the queue is written for (live workers renew their files  *)
(* faster than stale_after, and no file waits in pending/ for that long) a *)
(* job has one file and one owner and no file disappears under a live      *)
(* worker: for any number of jobs, workers and attempts, and wherever      *)
(* workers are killed.                                                     *)
(*                                                                         *)
(* OneOwner is not inductive.  What makes it so is that a worker which     *)
(* takes a lease for abandoned relies on two things that nothing can take  *)
(* back: the lease was stale when it noted the time, so it has no live     *)
(* holder and, tokens being new for every claim, will not get one again    *)
(* (Abandoned); and it has the lease's recovery lock (Recovering).         *)
(***************************************************************************)
Regime == Timely /\ ~ QueueAges

(* A path that no claim has named yet is used by nothing.                  *)
TokensNew == \A t \in Claim : t[2] > claims[JobOf(t)] =>
    /\ lease[t] = None
    /\ beat[t] = "none"
    /\ \A w \in Worker : t \notin due[w] /\ ~ Holds(w, t)

OneHolder == \A v, w \in Worker :
    pc[v] \in HoldPC /\ pc[w] \in HoldPC /\ path[v] = path[w] => v = w

(* The lease of a live holder is there, is its own, and is not stale.      *)
HoldsWell(w) ==
    /\ lease[path[w]] = None <=> pc[w] = "stop"
    /\ pc[w] \in {"sign", "resign", "start"} => /\ ~ lease[path[w]].old
                                                /\ beat[path[w]] = "none"
    /\ pc[w] \notin {"sign", "resign", "stop"} => lease[path[w]].signed
    /\ pc[w] \in BeatingPC => beat[path[w]] = "fresh"

Holding == \A w \in Worker : /\ verdict[w] # "raise"
                             /\ pc[w] \in HoldPC => HoldsWell(w)

(* A lease that was stale when a worker listed it has no live holder.      *)
Abandoned == \A v, w \in Worker :
    pc[w] \in HoldPC => path[w] \notin due[v]

(* A worker that recovers a lease has it to itself.                        *)
Locking == \A v, w \in Worker :
    pc[v] \in RecoverPC /\ pc[w] \in RecoverPC =>
        /\ path[v] \in locked
        /\ path[v] = path[w] => v = w

Recovering == \A w \in Worker :
    /\ pc[w] \in {"rewrite", "move", "unmark"} => path[w] \in due[w]
    /\ pc[w] \in {"rewrite", "move"} => lease[path[w]] # None
    /\ pc[w] = "judge" /\ path[w] \in due[w] => lease[path[w]] # None
    /\ pc[w] = "move" => ~ lease[path[w]].old

(* Files in pending/ are young.                                            *)
PendingYoung == \A j \in Job : pending[j] # None => ~ pending[j].old

(* The copy that a holder will write back has its token.                   *)
CopySigned == \A w \in Worker :
    pc[w] \in {"resign", "uwrite", "fwrite"} => copy[w].signed

Ownership == /\ TokensNew /\ OneFile /\ OneHolder /\ Holding /\ Abandoned
             /\ Locking /\ Recovering /\ PendingYoung /\ CopySigned /\ NeverRaised

-----------------------------------------------------------------------------
LEMMA OwnershipInit == Init => Ownership
  BY DEF Init, Ownership, TokensNew, OneFile, OneHolder, Holding, HoldsWell, Abandoned, Locking,
         Recovering, PendingYoung, CopySigned, NeverRaised, Holds, HoldPC, RecoverPC,
         LeasesOf, Finished

(* What the operations on lease files do, field by field.                  *)
LEMMA WriteFacts ==
    ASSUME TypeOK, NEW t \in Claim, NEW f \in File, WriteLease(t, f)
    PROVE  /\ lease'[t] # None
           /\ ~ lease'[t].old
           /\ lease'[t].signed = f.signed
           /\ lease'[t].attempt = f.attempt
           /\ \A u \in Claim \ {t} : lease'[u] = lease[u]
  <1> DEFINE g == [f EXCEPT !.old = FALSE]
  <1>1. g \in File /\ ~ g.old /\ g.signed = f.signed /\ g.attempt = f.attempt
    BY DEF File
  <1>2. lease' = [lease EXCEPT ![t] = g]
    BY DEF WriteLease
  <1> HIDE DEF g
  <1>3. QED
    BY <1>1, <1>2, NoneAssumption DEF TypeOK

LEMMA MoveFacts ==
    ASSUME TypeOK, NEW t \in Claim, lease[t] # None, NEW dir, MoveLease(t, dir)
    PROVE  /\ JobOf(t) \in Job
           /\ lease'[t] = None
           /\ \A u \in Claim \ {t} : lease'[u] = lease[u]
           /\ dir # "pending" => pending' = pending
           /\ dir = "pending" => /\ pending'[JobOf(t)] # None
                                 /\ pending'[JobOf(t)].old = lease[t].old
                                 /\ pending'[JobOf(t)].attempt = lease[t].attempt
                                 /\ \A i \in Job \ {JobOf(t)} : pending'[i] = pending[i]
           /\ done' = IF dir = "done" THEN done \union {JobOf(t)} ELSE done
           /\ dir # "failed" => failed' = failed
           /\ dir = "failed" => /\ failed'[JobOf(t)] # None
                                /\ \A i \in Job \ {JobOf(t)} : failed'[i] = failed[i]
  <1>1. JobOf(t) \in Job
    BY DEF Claim, JobOf
  <1> DEFINE g == [lease[t] EXCEPT !.signed = FALSE]
  <1>2. g \in File /\ g.old = lease[t].old /\ g.attempt = lease[t].attempt
    <2>1. lease[t] \in File
      BY DEF TypeOK
    <2>2. QED
      BY <2>1 DEF File
  <1>3. /\ lease' = [lease EXCEPT ![t] = None]
        /\ pending' = IF dir = "pending" THEN [pending EXCEPT ![JobOf(t)] = g] ELSE pending
        /\ done' = IF dir = "done" THEN done \union {JobOf(t)} ELSE done
        /\ failed' = IF dir = "failed" THEN [failed EXCEPT ![JobOf(t)] = g] ELSE failed
    BY DEF MoveLease, Received
  <1> HIDE DEF g
  <1>4. QED
    BY <1>1, <1>2, <1>3, NoneAssumption DEF TypeOK

(* A job's only file stays its only file when it is rewritten or moved.    *)
LEMMA WriteOneFile ==
    ASSUME TypeOK, OneFile, NEW t \in Claim, NEW f \in File, lease[t] # None,
           WriteLease(t, f), UNCHANGED <<pending, done, failed>>
    PROVE  OneFile'
  <1>1. \A u \in Claim : lease'[u] # None <=> lease[u] # None
    BY WriteFacts
  <1>2. \A j \in Job : LeasesOf(j)' = LeasesOf(j)
    BY <1>1 DEF LeasesOf
  <1>3. QED
    BY <1>2 DEF OneFile, Finished

LEMMA MoveOneFile ==
    ASSUME TypeOK, OneFile, NEW t \in Claim, lease[t] # None,
           NEW dir \in {"pending", "done", "failed"}, MoveLease(t, dir)
    PROVE  OneFile'
  <1> DEFINE i == JobOf(t)
  <1>1. t \in LeasesOf(i)
    BY DEF LeasesOf
  <1>2. i \in Job /\ pending[i] = None /\ ~ Finished(i)
    BY <1>1, MoveFacts DEF OneFile
  <1>3. LeasesOf(i)' = {}
    BY <1>1, <1>2, MoveFacts DEF OneFile, LeasesOf
  <1>4. \A j \in Job \ {i} : LeasesOf(j)' = LeasesOf(j)
    BY MoveFacts DEF LeasesOf
  <1>5. \A j \in Job \ {i} : /\ pending'[j] = pending[j]
                             /\ j \in done' <=> j \in done
                             /\ failed'[j] = failed[j]
    BY MoveFacts
  <1>6. ASSUME NEW j \in Job \ {i}
        PROVE  /\ \A u, v \in LeasesOf(j)' : u = v
               /\ pending'[j] # None => LeasesOf(j)' = {} /\ ~ Finished(j)'
               /\ LeasesOf(j)' # {} => ~ Finished(j)'
               /\ ~ (j \in done' /\ failed'[j] # None)
    <2>1. LeasesOf(j)' = LeasesOf(j) /\ (Finished(j)' <=> Finished(j))
      BY <1>4, <1>5 DEF Finished
    <2>2. QED
      BY <1>5, <2>1 DEF OneFile
  <1>7. /\ pending'[i] # None => ~ Finished(i)'
        /\ ~ (i \in done' /\ failed'[i] # None)
    BY <1>2, MoveFacts DEF Finished
  <1>8. QED
    BY <1>3, <1>6, <1>7 DEF OneFile

LEMMA RecoverOwned ==
    ASSUME LocalOK, Ownership, Regime, NEW w \in Worker, Recover(w)
    PROVE  Ownership'
  <1> USE DEF LocalOK, TypeOK, PathOK, Ownership, Goto
  <1>1. CASE ListRunning(w)
    <2>0. /\ pc[w] = "list"
          /\ pc' = [pc EXCEPT ![w] = "sweep"]
          /\ UNCHANGED <<pending, lease, done, failed, beat, locked, claims, wasted, path, copy, verdict>>
      BY <1>1 DEF ListRunning, files
    <2>1. /\ due' \in [Worker -> SUBSET Claim]
          /\ \A v \in Worker \ {w} : due'[v] = due[v]
          /\ \A t \in due'[w] : t \in Claim /\ lease[t] # None /\ MarkerIsStale(t)
      <3>1. seen'[w] = {t \in Claim : lease[t] # None}
        BY <1>1 DEF ListRunning
      <3>2. due' = [due EXCEPT ![w] = {t \in Claim : lease[t] # None /\ MarkerIsStale(t)}]
        BY <1>1, <3>1 DEF ListRunning
      <3>3. QED
        BY <3>2
    <2>2. TokensNew'
      <3>1. \A v \in Worker, t \in Claim : Holds(v, t)' => Holds(v, t)
        BY <2>0 DEF Holds, HoldPC
      <3>2. QED
        BY <2>0, <2>1, <3>1 DEF TokensNew
    <2>3. OneFile' /\ PendingYoung'
      BY <2>0 DEF OneFile, LeasesOf, Finished, PendingYoung
    <2>4. OneHolder' /\ NeverRaised' /\ CopySigned'
      BY <2>0 DEF OneHolder, HoldPC, NeverRaised, CopySigned
    <2>5. Holding'
      BY <2>0 DEF Holding, HoldsWell, HoldPC, BeatingPC
    <2>6. Abandoned'
      <3>1. ASSUME NEW v \in Worker, pc[v] \in HoldPC
            PROVE  ~ (lease[path[v]] # None /\ MarkerIsStale(path[v]))
        BY <3>1 DEF Holding, HoldsWell, MarkerIsStale, HoldPC, BeatingPC
      <3>2. QED
        BY <2>0, <2>1, <3>1 DEF Abandoned, HoldPC
    <2>7. Locking'
      BY <2>0 DEF Locking, RecoverPC
    <2>8. Recovering'
      BY <2>0, <2>1 DEF Recovering
    <2>9. QED
      BY <2>2, <2>3, <2>4, <2>5, <2>6, <2>7, <2>8
  <1>2. CASE LockLease(w)
    <2>1. TokensNew'
      BY <1>2 DEF LockLease, IsLocked, TokensNew, Holds, HoldPC
    <2>2. OneFile' /\ PendingYoung'
      BY <1>2 DEF LockLease, IsLocked, OneFile, LeasesOf, Finished, PendingYoung
    <2>3. OneHolder' /\ NeverRaised' /\ CopySigned'
      BY <1>2 DEF LockLease, IsLocked, OneHolder, HoldPC, NeverRaised, CopySigned
    <2>4. Holding'
      BY <1>2 DEF LockLease, IsLocked, Holding, HoldsWell, HoldPC, BeatingPC
    <2>5. Abandoned'
      BY <1>2 DEF LockLease, IsLocked, Abandoned, HoldPC
    <2>6. Locking'
      BY <1>2 DEF LockLease, IsLocked, Locking, RecoverPC
    <2>7. Recovering'
      BY <1>2 DEF LockLease, IsLocked, Recovering
    <2>8. QED
      BY <2>1, <2>2, <2>3, <2>4, <2>5, <2>6, <2>7
  <1>3. CASE PeekPayload(w)
    <2>1. TokensNew'
      BY <1>3 DEF PeekPayload, SkipLease, TokensNew, Holds, HoldPC
    <2>2. OneFile' /\ PendingYoung'
      BY <1>3 DEF PeekPayload, SkipLease, OneFile, LeasesOf, Finished, PendingYoung
    <2>3. OneHolder' /\ NeverRaised' /\ CopySigned'
      BY <1>3 DEF PeekPayload, SkipLease, OneHolder, HoldPC, NeverRaised, CopySigned
    <2>4. Holding'
      BY <1>3 DEF PeekPayload, SkipLease, Holding, HoldsWell, HoldPC, BeatingPC
    <2>5. Abandoned'
      BY <1>3 DEF PeekPayload, SkipLease, Abandoned, HoldPC
    <2>6. Locking'
      BY <1>3 DEF PeekPayload, SkipLease, Locking, RecoverPC
    <2>7. Recovering'
      BY <1>3 DEF PeekPayload, SkipLease, Recovering
    <2>8. QED
      BY <2>1, <2>2, <2>3, <2>4, <2>5, <2>6, <2>7
  <1>4. CASE JudgeLease(w)
    <2>1. TokensNew'
      BY <1>4 DEF JudgeLease, SkipLease, FoundStale, MarkerIsStale, TokensNew, Holds, HoldPC
    <2>2. OneFile' /\ PendingYoung'
      BY <1>4 DEF JudgeLease, SkipLease, FoundStale, MarkerIsStale, OneFile, LeasesOf, Finished, PendingYoung
    <2>3. OneHolder' /\ NeverRaised' /\ CopySigned'
      BY <1>4 DEF JudgeLease, SkipLease, FoundStale, MarkerIsStale, OneHolder, HoldPC, NeverRaised, CopySigned
    <2>4. Holding'
      BY <1>4 DEF JudgeLease, SkipLease, FoundStale, MarkerIsStale, Holding, HoldsWell, HoldPC, BeatingPC
    <2>5. Abandoned'
      BY <1>4 DEF JudgeLease, SkipLease, FoundStale, MarkerIsStale, Abandoned, HoldPC
    <2>6. Locking'
      BY <1>4 DEF JudgeLease, SkipLease, FoundStale, MarkerIsStale, Locking, RecoverPC
    <2>7. Recovering'
      BY <1>4 DEF JudgeLease, SkipLease, FoundStale, MarkerIsStale, Recovering
    <2>8. QED
      BY <2>1, <2>2, <2>3, <2>4, <2>5, <2>6, <2>7
  <1>5. CASE RewriteLease(w)
    <2> DEFINE t == path[w]
    <2>0. /\ t \in Claim /\ t \in due[w] /\ copy[w] \in File /\ lease[t] # None
          /\ WriteLease(t, copy[w])
          /\ pc[w] = "rewrite" /\ pc' = [pc EXCEPT ![w] = "move"]
          /\ copy' = [copy EXCEPT ![w] = None]
          /\ UNCHANGED <<pending, done, failed, beat, locked, claims, wasted, path, due, verdict>>
      BY <1>5 DEF RewriteLease, Recovering, RecoverPC, CopyOK
    <2>1. /\ lease'[t] # None /\ ~ lease'[t].old
          /\ \A u \in Claim \ {t} : lease'[u] = lease[u]
      BY <2>0, WriteFacts
    <2>2. \A v \in Worker : pc'[v] \in HoldPC => /\ pc'[v] = pc[v]
                                                 /\ path[v] \in Claim \ {t}
      BY <2>0 DEF HoldPC, Abandoned
    <2>3. TokensNew'
      BY <2>0, <2>1, <2>2 DEF TokensNew, Holds
    <2>4. OneFile'
      BY <2>0, WriteOneFile
    <2>5. OneHolder' /\ NeverRaised' /\ CopySigned' /\ PendingYoung'
      BY <2>0 DEF OneHolder, HoldPC, NeverRaised, CopySigned, PendingYoung
    <2>6. Holding'
      BY <2>0, <2>1, <2>2 DEF Holding, HoldsWell, BeatingPC
    <2>7. Abandoned'
      BY <2>0, <2>2 DEF Abandoned
    <2>8. Locking'
      BY <2>0 DEF Locking, RecoverPC
    <2>9. Recovering'
      BY <2>0, <2>1 DEF Recovering, RecoverPC
    <2>10. QED
      BY <2>3, <2>4, <2>5, <2>6, <2>7, <2>8, <2>9
  <1>6. CASE RequeueLease(w)
    <2> DEFINE t == path[w]
    <2>0. /\ t \in Claim /\ t \in due[w] /\ lease[t] # None /\ ~ lease[t].old
          /\ verdict[w] \in {"pending", "done", "failed"}
          /\ MoveLease(t, verdict[w])
          /\ pc[w] = "move" /\ pc' = [pc EXCEPT ![w] = "unmark"]
          /\ verdict' = [verdict EXCEPT ![w] = "none"]
          /\ UNCHANGED <<beat, locked, claims, wasted, path, copy, due>>
      BY <1>6 DEF RequeueLease, Recovering, RecoverPC, VerdictOK
    <2>1. /\ lease'[t] = None
          /\ \A u \in Claim \ {t} : lease'[u] = lease[u]
      BY <2>0, MoveFacts
    <2>2. \A v \in Worker : pc'[v] \in HoldPC => /\ pc'[v] = pc[v]
                                                 /\ path[v] \in Claim \ {t}
      BY <2>0 DEF HoldPC, Abandoned
    <2>3. TokensNew'
      BY <2>0, <2>1, <2>2 DEF TokensNew, Holds
    <2>4. OneFile'
      BY <2>0, MoveOneFile
    <2>5. OneHolder' /\ NeverRaised' /\ CopySigned'
      BY <2>0 DEF OneHolder, HoldPC, NeverRaised, CopySigned
    <2>6. Holding'
      BY <2>0, <2>1, <2>2 DEF Holding, HoldsWell, BeatingPC, HoldPC
    <2>7. Abandoned'
      BY <2>0, <2>2 DEF Abandoned
    <2>8. Locking'
      BY <2>0 DEF Locking, RecoverPC
    <2>9. Recovering'
      <3>1. \A v \in Worker \ {w} : pc[v] \in RecoverPC => path[v] \in Claim \ {t}
        BY <2>0 DEF Locking, RecoverPC
      <3>2. QED
        BY <2>0, <2>1, <3>1 DEF Recovering, RecoverPC
    <2>10. PendingYoung'
      BY <2>0, MoveFacts DEF PendingYoung
    <2>11. QED
      BY <2>3, <2>4, <2>5, <2>6, <2>7, <2>8, <2>9, <2>10
  <1>7. CASE UnmarkLease(w)
    <2>1. TokensNew'
      BY <1>7 DEF UnmarkLease, SkipLease, TokensNew, Holds, HoldPC
    <2>2. OneFile' /\ PendingYoung'
      BY <1>7 DEF UnmarkLease, SkipLease, OneFile, LeasesOf, Finished, PendingYoung
    <2>3. OneHolder' /\ NeverRaised' /\ CopySigned'
      BY <1>7 DEF UnmarkLease, SkipLease, OneHolder, HoldPC, NeverRaised, CopySigned
    <2>4. Holding'
      <3>1. path[w] \in due[w] /\ path[w] \in Claim
        BY <1>7 DEF UnmarkLease, Recovering, RecoverPC
      <3>2. \A v \in Worker : pc[v] \in HoldPC => path[v] # path[w]
        BY <3>1 DEF Abandoned
      <3>3. QED
        BY <1>7, <3>1, <3>2 DEF UnmarkLease, SkipLease, Holding, HoldsWell, HoldPC, BeatingPC
    <2>5. Abandoned'
      BY <1>7 DEF UnmarkLease, SkipLease, Abandoned, HoldPC
    <2>6. Locking'
      BY <1>7 DEF UnmarkLease, SkipLease, Locking, RecoverPC
    <2>7. Recovering'
      BY <1>7 DEF UnmarkLease, SkipLease, Recovering
    <2>8. QED
      BY <2>1, <2>2, <2>3, <2>4, <2>5, <2>6, <2>7
  <1>8. QED
    BY <1>1, <1>2, <1>3, <1>4, <1>5, <1>6, <1>7 DEF Recover

(* A holder rewrites its lease (claim_job, update_lease, finish_job).      *)
LEMMA HolderWriteOwned ==
    ASSUME LocalOK, Ownership, NEW w \in Worker, NEW l \in {"start", "fexists", "fmove"},
           pc[w] = CASE l = "start" -> "resign" [] l = "fexists" -> "uwrite"
                     [] OTHER -> "fwrite",
           WriteLease(path[w], copy[w]),
           pc' = [pc EXCEPT ![w] = l],
           copy' = [copy EXCEPT ![w] = None],
           UNCHANGED <<pending, done, failed, beat, locked, claims, wasted, path, due, verdict>>
    PROVE  Ownership'
  <1> DEFINE t == path[w]
  <1> USE DEF LocalOK, TypeOK, PathOK, Ownership
  <1>0. /\ pc[w] \in {"resign", "uwrite", "fwrite"}
        /\ l = "start" <=> pc[w] = "resign"
    OBVIOUS
  <1>1. /\ t \in Claim /\ copy[w] \in File /\ copy[w].signed /\ lease[t] # None
        /\ t[2] <= claims[JobOf(t)]
    <2>1. t \in Claim /\ copy[w] \in File /\ copy[w].signed
      BY <1>0 DEF CopySigned, CopyOK, HoldPC
    <2>2. lease[t] # None
      BY <1>0 DEF Holding, HoldsWell, HoldPC
    <2>3. JobOf(t) \in Job /\ t[2] \in Nat /\ claims[JobOf(t)] \in Nat
      BY <2>1, AttemptsAssumption DEF Claim, JobOf
    <2>4. QED
      BY <2>1, <2>2, <2>3 DEF TokensNew
  <1>2. /\ lease'[t] # None /\ ~ lease'[t].old /\ lease'[t].signed
        /\ \A u \in Claim \ {t} : lease'[u] = lease[u]
    BY <1>1, WriteFacts
  <1>3. \A v \in Worker :
           pc'[v] \in HoldPC => pc[v] \in HoldPC /\ (path[v] = t => v = w)
    BY <1>0 DEF HoldPC, OneHolder
  <1>4. TokensNew'
    <2>1. \A v \in Worker, u \in Claim : Holds(v, u)' => Holds(v, u)
      BY <1>3 DEF Holds, HoldPC
    <2>2. \A u \in Claim : lease[u] = None => lease'[u] = None
      BY <1>1, <1>2
    <2>3. QED
      BY <2>1, <2>2 DEF TokensNew
  <1>5. OneFile'
    BY <1>1, WriteOneFile
  <1>6. OneHolder' /\ Abandoned'
    BY <1>3 DEF OneHolder, Abandoned, HoldPC
  <1>7. Holding'
    <2>1. ASSUME NEW v \in Worker \ {w}, pc'[v] \in HoldPC
          PROVE  /\ pc'[v] = pc[v] /\ lease'[path[v]] = lease[path[v]]
                 /\ pc[v] \in HoldPC
      BY <2>1, <1>2, <1>3
    <2>2. ASSUME NEW v \in Worker \ {w}, pc'[v] \in HoldPC
          PROVE  HoldsWell(v)'
      BY <2>1, <2>2 DEF Holding, HoldsWell
    <2>3. /\ pc[w] = "resign" => beat[t] = "none"
          /\ pc[w] # "resign" => beat[t] = "fresh"
          /\ verdict[w] # "raise"
      BY <1>0 DEF Holding, HoldsWell, HoldPC, BeatingPC
    <2>4. QED
      BY <1>0, <1>2, <2>2, <2>3 DEF Holding, HoldsWell, HoldPC, BeatingPC
  <1>8. Locking'
    BY <1>0 DEF Locking, RecoverPC
  <1>9. Recovering'
    <2>1. \A v \in Worker : t \notin due[v]
      BY <1>0 DEF Abandoned, HoldPC
    <2>2. \A v \in Worker : pc'[v] \in RecoverPC => pc'[v] = pc[v] /\ path[v] \in Claim
      BY <1>0 DEF RecoverPC
    <2>3. QED
      BY <1>2, <2>1, <2>2 DEF Recovering, RecoverPC
  <1>10. PendingYoung' /\ CopySigned' /\ NeverRaised'
    BY DEF PendingYoung, CopySigned, NeverRaised
  <1>11. QED
    BY <1>4, <1>5, <1>6, <1>7, <1>8, <1>9, <1>10

(* The rename that claims a job makes its only file a lease with a new     *)
(* token, which no worker can have seen before.                            *)
LEMMA RenameOwned ==
    ASSUME LocalOK, Ownership, NEW w \in Worker, NEW j \in Job,
           pc[w] = "claim", pending[j] # None, claims[j] < MaxClaims,
           RenameToLease(j, <<j, claims[j] + 1>>),
           path' = [path EXCEPT ![w] = <<j, claims[j] + 1>>],
           pc' = [pc EXCEPT ![w] = "sign"],
           UNCHANGED <<done, failed, beat, locked, copy, due, verdict>>
    PROVE  Ownership'
  <1> DEFINE t == <<j, claims[j] + 1>>
  <1> USE DEF LocalOK, TypeOK, PathOK, Ownership
  <1>1. /\ t \in Claim /\ JobOf(t) = j /\ t[2] = claims[j] + 1
        /\ claims[j] \in Nat /\ t[2] > claims[j]
    BY AttemptsAssumption DEF Claim, JobOf
  <1>2. /\ lease[t] = None /\ beat[t] = "none"
        /\ \A v \in Worker : t \notin due[v] /\ ~ Holds(v, t)
    BY <1>1 DEF TokensNew
  <1>3. /\ lease'[t] = pending[j]
        /\ \A u \in Claim \ {t} : lease'[u] = lease[u]
        /\ pending'[j] = None
        /\ \A i \in Job \ {j} : pending'[i] = pending[i]
        /\ claims'[j] = claims[j] + 1
        /\ \A i \in Job \ {j} : claims'[i] = claims[i]
    BY <1>1 DEF RenameToLease
  <1>4. /\ pc'[w] = "sign" /\ path'[w] = t
        /\ \A v \in Worker \ {w} : pc'[v] = pc[v] /\ path'[v] = path[v]
    OBVIOUS
  <1> HIDE DEF t
  <1>5. TokensNew'
    <2>1. ASSUME NEW u \in Claim, u[2] > claims'[JobOf(u)]
          PROVE  u # t /\ u[2] > claims[JobOf(u)]
      <3>1. JobOf(u) \in Job /\ u[2] \in Nat /\ claims[JobOf(u)] \in Nat
        BY AttemptsAssumption DEF Claim, JobOf
      <3>2. QED
        BY <1>1, <1>3, <2>1, <3>1
    <2>2. ASSUME NEW u \in Claim, u[2] > claims'[JobOf(u)]
          PROVE  /\ lease'[u] = None /\ beat'[u] = "none"
                 /\ \A v \in Worker : u \notin due'[v]
      BY <1>3, <2>1, <2>2 DEF TokensNew
    <2>3. ASSUME NEW u \in Claim, u[2] > claims'[JobOf(u)], NEW v \in Worker
          PROVE  ~ Holds(v, u)'
      <3>1. ~ Holds(v, u) /\ u # t
        BY <2>1, <2>3 DEF TokensNew
      <3>2. QED
        BY <1>4, <3>1 DEF Holds
    <2>4. QED
      BY <2>2, <2>3 DEF TokensNew
  <1>6. OneFile'
    <2>1. LeasesOf(j) = {} /\ ~ Finished(j)
      BY DEF OneFile
    <2>2. \A u \in LeasesOf(j)' : u = t
      BY <1>1, <1>3, <2>1 DEF LeasesOf
    <2>3. \A i \in Job \ {j} : LeasesOf(i)' = LeasesOf(i)
      BY <1>1, <1>3 DEF LeasesOf
    <2>4. \A i \in Job : Finished(i)' <=> Finished(i)
      BY DEF Finished
    <2>5. ASSUME NEW i \in Job \ {j}
          PROVE  /\ \A u, v \in LeasesOf(i)' : u = v
                 /\ pending'[i] # None => LeasesOf(i)' = {} /\ ~ Finished(i)'
                 /\ LeasesOf(i)' # {} => ~ Finished(i)'
      BY <1>3, <2>3, <2>4 DEF OneFile
    <2>6. /\ \A u, v \in LeasesOf(j)' : u = v
          /\ pending'[j] = None
          /\ ~ Finished(j)'
      BY <1>3, <2>1, <2>2, <2>4
    <2>7. QED
      BY <2>5, <2>6 DEF OneFile
  <1>7. OneHolder'
    <2>1. \A v \in Worker : pc[v] \in HoldPC => path[v] # t
      BY <1>2 DEF Holds
    <2>2. QED
      BY <1>4, <2>1 DEF OneHolder
  <1>8. Holding'
    <2>1. ~ pending[j].old
      BY DEF PendingYoung
    <2>2. \A v \in Worker \ {w} : pc[v] \in HoldPC => lease'[path[v]] = lease[path[v]]
      BY <1>2, <1>3 DEF Holds
    <2>3. \A v \in Worker \ {w} : pc[v] \in HoldPC =>
            /\ lease'[path'[v]] = lease[path[v]] /\ beat'[path'[v]] = beat[path[v]]
            /\ pc'[v] = pc[v] /\ verdict'[v] = verdict[v]
      BY <1>4, <2>2
    <2>4. /\ lease'[path'[w]] # None /\ ~ lease'[path'[w]].old
          /\ beat'[path'[w]] = "none" /\ pc'[w] = "sign" /\ verdict'[w] # "raise"
      BY <1>2, <1>3, <1>4, <2>1 DEF Holding
    <2>5. ASSUME NEW v \in Worker \ {w}, pc'[v] \in HoldPC
          PROVE  HoldsWell(v)'
      <3>1. pc[v] \in HoldPC
        BY <1>4, <2>5
      <3>2. QED
        BY <2>3, <3>1 DEF Holding, HoldsWell
    <2>6. QED
      BY <2>4, <2>5 DEF Holding, HoldsWell, BeatingPC
  <1>9. Abandoned'
    BY <1>2, <1>4 DEF Abandoned
  <1>10. Locking'
    BY <1>4 DEF Locking, RecoverPC
  <1>11. Recovering'
    <2>1. \A v \in Worker : pc'[v] \in RecoverPC =>
             pc'[v] = pc[v] /\ path'[v] = path[v] /\ path[v] \in Claim
      BY <1>4 DEF RecoverPC
    <2>2. \A v \in Worker : path[v] \in Claim /\ path[v] \in due[v] =>
             lease'[path[v]] = lease[path[v]]
      BY <1>2, <1>3
    <2>3. QED
      BY <2>1, <2>2 DEF Recovering, RecoverPC
  <1>12. PendingYoung' /\ CopySigned' /\ NeverRaised'
    BY <1>3, <1>4 DEF PendingYoung, CopySigned, NeverRaised
  <1>13. QED
    BY <1>5, <1>6, <1>7, <1>8, <1>9, <1>10, <1>11, <1>12

LEMMA ClaimOwned ==
    ASSUME LocalOK, Ownership, NEW w \in Worker, ClaimJob(w)
    PROVE  Ownership'
  <1> USE DEF LocalOK, TypeOK, PathOK, Ownership, Goto, files, locals
  <1>1. CASE ListPending(w)
    <2>1. TokensNew' /\ OneFile'
      BY <1>1 DEF ListPending, TokensNew, Holds, HoldPC, OneFile, LeasesOf, Finished
    <2>2. OneHolder'
      BY <1>1 DEF ListPending, OneHolder, HoldPC
    <2>3. Holding'
      BY <1>1 DEF ListPending, OneHolder, Holding, HoldsWell, HoldPC, BeatingPC
    <2>4. Abandoned'
      BY <1>1 DEF ListPending, Abandoned, HoldPC
    <2>5. Locking' /\ Recovering'
      BY <1>1 DEF ListPending, Locking, Recovering, RecoverPC
    <2>6. PendingYoung' /\ CopySigned' /\ NeverRaised'
      BY <1>1 DEF ListPending, Holding, HoldsWell, HoldPC, PendingYoung, CopySigned, NeverRaised
    <2>7. QED
      BY <2>1, <2>2, <2>3, <2>4, <2>5, <2>6
  <1>2. CASE ClaimRename(w)
    <2>1. PICK j \in cand[w] :
             \/ /\ pending[j] = None
                /\ pc'[w] \in {"scanpending", "claim"}
                /\ pc' = [pc EXCEPT ![w] = pc'[w]]
                /\ UNCHANGED <<pending, lease, claims, wasted, path>>
             \/ /\ pending[j] # None
                /\ claims[j] < MaxClaims
                /\ RenameToLease(j, <<j, claims[j] + 1>>)
                /\ path' = [path EXCEPT ![w] = <<j, claims[j] + 1>>]
                /\ pc' = [pc EXCEPT ![w] = "sign"]
      BY <1>2 DEF ClaimRename
    <2>2. /\ j \in Job /\ pc[w] = "claim"
          /\ UNCHANGED <<done, failed, beat, locked, copy, due, verdict>>
      BY <1>2 DEF ClaimRename
    <2>3. CASE pending[j] # None
      BY <2>1, <2>2, <2>3, RenameOwned
    <2>4. CASE pending[j] = None
      <3>0. /\ pc'[w] \in {"scanpending", "claim"}
            /\ \A v \in Worker \ {w} : pc'[v] = pc[v]
            /\ UNCHANGED <<pending, lease, claims, wasted, path>>
        BY <2>1, <2>4
      <3>1. \A v \in Worker : /\ pc'[v] \in HoldPC \union RecoverPC => pc'[v] = pc[v]
                              /\ pc'[v] = "raised" => pc[v] = "raised"
        BY <3>0 DEF HoldPC, RecoverPC
      <3>2. TokensNew' /\ OneFile'
        BY <2>2, <3>0, <3>1 DEF TokensNew, Holds, OneFile, LeasesOf, Finished, HoldPC
      <3>3. OneHolder' /\ Abandoned'
        BY <2>2, <3>0, <3>1 DEF OneHolder, Abandoned, HoldPC
      <3>4. Holding'
        BY <2>2, <3>0, <3>1 DEF Holding, HoldsWell, HoldPC
      <3>5. Locking' /\ Recovering'
        BY <2>2, <3>0, <3>1 DEF Locking, Recovering, RecoverPC
      <3>6. PendingYoung' /\ CopySigned' /\ NeverRaised'
        BY <2>2, <3>0, <3>1 DEF PendingYoung, CopySigned, NeverRaised, HoldPC
      <3>7. QED
        BY <3>2, <3>3, <3>4, <3>5, <3>6
    <2>5. QED
      BY <2>3, <2>4
  <1>3. CASE ClaimRead(w)
    <2>1. /\ pc[w] = "sign" /\ path[w] \in Claim /\ lease[path[w]] # None
      BY <1>3 DEF ClaimRead, Holding, HoldsWell, HoldPC
    <2>2. /\ pc' = [pc EXCEPT ![w] = "resign"]
          /\ UNCHANGED <<pending, lease, done, failed, beat, locked, claims, wasted, path, due, verdict>>
      BY <1>3, <2>1 DEF ClaimRead
    <2>3. copy'[w].signed /\ \A v \in Worker \ {w} : copy'[v] = copy[v]
      <3>1. lease[path[w]] \in File
        BY <2>1
      <3>2. copy' = [copy EXCEPT ![w] = [lease[path[w]] EXCEPT !.signed = TRUE]]
        BY <1>3, <2>1 DEF ClaimRead
      <3>3. QED
        BY <3>1, <3>2 DEF File
    <2>4. \A v \in Worker : /\ pc'[v] \in HoldPC <=> pc[v] \in HoldPC
                            /\ pc'[v] \in RecoverPC => pc'[v] = pc[v]
      BY <2>1, <2>2 DEF HoldPC, RecoverPC
    <2>5. TokensNew' /\ OneFile'
      <3>1. \A v \in Worker, u \in Claim : Holds(v, u)' <=> Holds(v, u)
        BY <2>1, <2>2 DEF Holds, HoldPC
      <3>2. QED
        BY <2>2, <3>1 DEF TokensNew, OneFile, LeasesOf, Finished
    <2>6. OneHolder' /\ Abandoned'
      BY <2>1, <2>2 DEF OneHolder, Abandoned, HoldPC
    <2>7. Holding'
      BY <2>1, <2>2 DEF Holding, HoldsWell, HoldPC, BeatingPC
    <2>8. Locking' /\ Recovering'
      BY <2>2, <2>4 DEF Locking, Recovering, RecoverPC
    <2>9. PendingYoung' /\ CopySigned' /\ NeverRaised'
      BY <2>2, <2>3 DEF PendingYoung, CopySigned, NeverRaised
    <2>10. QED
      BY <2>5, <2>6, <2>7, <2>8, <2>9
  <1>4. CASE ClaimWrite(w)
    BY <1>4, HolderWriteOwned DEF ClaimWrite
  <1>5. QED
    BY <1>1, <1>2, <1>3, <1>4 DEF ClaimJob

(* Most steps of a worker are reads: no file changes, and a holder goes on *)
(* holding.  (How it may go on: it knows its lease is there.)              *)
LEMMA ReadOwned ==
    ASSUME LocalOK, Ownership, NEW w \in Worker, NEW l \in PC \ RecoverPC,
           pc[w] \in HoldPC <=> l \in HoldPC,
           pc[w] \in HoldPC => /\ pc[w] \in BeatingPC \ {"stop"}
                               /\ l \in BeatingPC \ {"stop"},
           l # "raised",
           pc' = [pc EXCEPT ![w] = l],
           verdict' \in [Worker -> Verdict \ {"raise"}],
           \A v \in Worker \ {w} : copy'[v] = copy[v],
           l \in {"resign", "uwrite", "fwrite"} => copy'[w].signed,
           UNCHANGED <<files, path, due>>
    PROVE  Ownership'
  <1> USE DEF LocalOK, TypeOK, PathOK, Ownership, files
  <1>1. /\ pc'[w] = l
        /\ \A v \in Worker \ {w} : pc'[v] = pc[v]
    OBVIOUS
  <1>2. /\ \A v \in Worker : pc'[v] \in HoldPC <=> pc[v] \in HoldPC
        /\ \A v \in Worker : pc'[v] \in RecoverPC => pc'[v] = pc[v]
    BY <1>1
  <1>3. TokensNew' /\ OneFile'
    <2>1. \A v \in Worker, u \in Claim : Holds(v, u)' <=> Holds(v, u)
      BY <1>2 DEF Holds, HoldPC
    <2>2. QED
      BY <2>1 DEF TokensNew, OneFile, LeasesOf, Finished
  <1>4. OneHolder' /\ Abandoned'
    BY <1>2 DEF OneHolder, Abandoned, HoldPC
  <1>5. Holding'
    <2>1. \A v \in Worker : verdict'[v] # "raise"
      OBVIOUS
    <2>2. \A v \in Worker \ {w} : pc'[v] \in HoldPC => HoldsWell(v)'
      BY <1>1 DEF Holding, HoldsWell, HoldPC, BeatingPC
    <2>3. pc'[w] \in HoldPC => HoldsWell(w)'
      BY <1>1 DEF Holding, HoldsWell, HoldPC, BeatingPC
    <2>4. QED
      BY <2>1, <2>2, <2>3 DEF Holding, HoldPC
  <1>6. Locking' /\ Recovering'
    BY <1>2 DEF Locking, Recovering, RecoverPC
  <1>7. PendingYoung' /\ NeverRaised'
    BY <1>1 DEF PendingYoung, NeverRaised
  <1>8. CopySigned'
    BY <1>1 DEF CopySigned
  <1>9. QED
    BY <1>3, <1>4, <1>5, <1>6, <1>7, <1>8

LEMMA WorkOwned ==
    ASSUME LocalOK, Ownership, NEW w \in Worker, Work(w) \/ Scan(w)
    PROVE  Ownership'
  <1> USE DEF LocalOK, TypeOK, PathOK, Ownership, Goto, files, locals
  <1>0. verdict \in [Worker -> Verdict \ {"raise"}]
    BY DEF Holding
  <1>1. CASE StartHeartbeat(w)
    <2>1. /\ pc[w] = "start" /\ path[w] \in Claim
          /\ pc' = [pc EXCEPT ![w] = "work"]
          /\ beat' = [beat EXCEPT ![path[w]] = "fresh"]
          /\ UNCHANGED <<pending, lease, done, failed, locked, claims, wasted, path, copy, due, verdict>>
      BY <1>1 DEF StartHeartbeat, HoldPC
    <2>2. \A v \in Worker \ {w} : pc[v] \in HoldPC => path[v] # path[w]
      BY <2>1 DEF OneHolder, HoldPC
    <2>3. TokensNew'
      <3>1. \A v \in Worker, u \in Claim : Holds(v, u)' <=> Holds(v, u)
        BY <2>1 DEF Holds, HoldPC
      <3>2. ASSUME NEW u \in Claim, u[2] > claims[JobOf(u)]
            PROVE  u # path[w]
        BY <3>2, <2>1 DEF TokensNew, Holds, HoldPC
      <3>3. QED
        BY <2>1, <3>1, <3>2 DEF TokensNew
    <2>4. OneFile' /\ PendingYoung' /\ NeverRaised' /\ CopySigned'
      BY <2>1 DEF OneFile, LeasesOf, Finished, PendingYoung, NeverRaised, CopySigned
    <2>5. OneHolder' /\ Abandoned'
      BY <2>1 DEF OneHolder, Abandoned, HoldPC
    <2>6. Holding'
      BY <2>1, <2>2 DEF Holding, HoldsWell, HoldPC, BeatingPC
    <2>7. Locking' /\ Recovering'
      BY <2>1 DEF Locking, Recovering, RecoverPC
    <2>8. QED
      BY <2>3, <2>4, <2>5, <2>6, <2>7
  <1>2. CASE WorkSucceeds(w) \/ WorkFails(w) \/ WorkInterrupted(w)
    <2>1. /\ pc[w] = "work"
          /\ pc' = [pc EXCEPT ![w] = "uexists"]
          /\ verdict' \in [Worker -> Verdict \ {"raise"}]
          /\ UNCHANGED <<files, path, copy, due>>
      BY <1>0, <1>2 DEF WorkSucceeds, WorkFails, WorkInterrupted, Verdict
    <2>2. QED
      BY <2>1, ReadOwned DEF PC, HoldPC, RecoverPC, BeatingPC
  <1>3. CASE Scan(w)
    <2>1. PICK l \in {"list", "readpending", "scanrunning", "readrunning", "drained"} :
             /\ pc[w] \in {"scanpending", "readpending", "scanrunning", "readrunning"}
             /\ pc' = [pc EXCEPT ![w] = l]
             /\ UNCHANGED <<files, path, copy, due, verdict>>
      BY <1>3 DEF Scan, ScanPending, ReadPending, ScanRunning,
         ReadRunning
    <2>2. QED
      BY <1>0, <2>1, ReadOwned DEF PC, HoldPC, RecoverPC, BeatingPC, Stopped
  <1>4. QED
    BY <1>1, <1>2, <1>3 DEF Work

LEMMA FinishOwned ==
    ASSUME LocalOK, Ownership, NEW w \in Worker, Finish(w)
    PROVE  Ownership'
  <1> USE DEF LocalOK, TypeOK, PathOK, Ownership, Goto, files, locals
  <1>0. /\ verdict \in [Worker -> Verdict \ {"raise"}]
        /\ pc[w] \in BeatingPC \ {"stop"} => /\ path[w] \in Claim
                                             /\ lease[path[w]] # None
                                             /\ OwnsLease(w)
    BY DEF Holding, HoldsWell, HoldPC, BeatingPC, OwnsLease
  <1>1. CASE UpdateExists(w) \/ FinishExists(w)
    <2>1. PICK l \in {"uread", "fread"} :
             /\ pc[w] \in {"uexists", "fexists"}
             /\ pc' = [pc EXCEPT ![w] = l]
             /\ UNCHANGED <<files, path, copy, due, verdict>>
      BY <1>0, <1>1 DEF UpdateExists, FinishExists, HoldPC, BeatingPC
    <2>2. QED
      BY <1>0, <2>1, ReadOwned DEF PC, HoldPC, RecoverPC, BeatingPC
  <1>2. CASE UpdateRead(w) \/ FinishRead(w)
    <2>1. PICK l \in {"uwrite", "fwrite"} :
             /\ pc[w] \in {"uread", "fread"}
             /\ pc' = [pc EXCEPT ![w] = l]
             /\ copy' = [copy EXCEPT ![w] = lease[path[w]]]
             /\ UNCHANGED <<files, path, due, verdict>>
      BY <1>0, <1>2 DEF UpdateRead, FinishRead, HoldPC, BeatingPC
    <2>2. lease[path[w]].signed
      BY <1>0, <2>1 DEF OwnsLease, HoldPC, BeatingPC
    <2>3. copy'[w].signed /\ \A v \in Worker \ {w} : copy'[v] = copy[v]
      BY <2>1, <2>2
    <2>4. /\ pc[w] \in HoldPC /\ pc[w] \in BeatingPC \ {"stop"}
          /\ l \in HoldPC /\ l \in BeatingPC \ {"stop"} /\ l \in PC \ RecoverPC
      BY <2>1 DEF PC, HoldPC, RecoverPC, BeatingPC
    <2>5. QED
      BY <1>0, <2>1, <2>3, <2>4, ReadOwned
  <1>3. CASE UpdateWrite(w)
    BY <1>3, HolderWriteOwned DEF UpdateWrite
  <1>4. CASE FinishWrite(w)
    BY <1>4, HolderWriteOwned DEF FinishWrite
  <1>5. CASE FinishMove(w)
    <2> DEFINE t == path[w]
    <2>1. PICK dir \in {"done", "failed"} :
             /\ pc[w] = "fmove" /\ t \in Claim /\ lease[t] # None
             /\ MoveLease(t, dir)
             /\ pc' = [pc EXCEPT ![w] = "stop"]
             /\ UNCHANGED <<beat, locked, claims, wasted, path, copy, due, verdict>>
      BY <1>0, <1>5 DEF FinishMove, HoldPC, BeatingPC
    <2>2. /\ lease'[t] = None
          /\ \A u \in Claim \ {t} : lease'[u] = lease[u]
          /\ pending' = pending
      BY <2>1, MoveFacts
    <2>3. TokensNew'
      <3>1. \A v \in Worker, u \in Claim : Holds(v, u)' <=> Holds(v, u)
        BY <2>1 DEF Holds, HoldPC
      <3>2. \A u \in Claim : lease[u] = None => lease'[u] = None
        BY <2>2
      <3>3. QED
        BY <2>1, <3>1, <3>2 DEF TokensNew
    <2>4. OneFile'
      BY <2>1, MoveOneFile
    <2>5. OneHolder' /\ Abandoned'
      BY <2>1 DEF OneHolder, Abandoned, HoldPC
    <2>6. Holding'
      <3>1. \A v \in Worker \ {w} : pc[v] \in HoldPC =>
               /\ path[v] \in Claim /\ path[v] # t
               /\ lease'[path[v]] = lease[path[v]]
        BY <2>1, <2>2 DEF OneHolder, HoldPC
      <3>2. QED
        BY <2>1, <2>2, <3>1 DEF Holding, HoldsWell, HoldPC, BeatingPC
    <2>7. Locking' /\ Recovering'
      <3>1. \A v \in Worker : t \notin due[v]
        BY <2>1 DEF Abandoned, HoldPC
      <3>2. \A v \in Worker : pc'[v] \in RecoverPC => pc'[v] = pc[v] /\ path[v] \in Claim
        BY <2>1 DEF RecoverPC
      <3>3. QED
        BY <2>1, <2>2, <3>1, <3>2 DEF Locking, Recovering, RecoverPC
    <2>8. PendingYoung' /\ CopySigned' /\ NeverRaised'
      BY <2>1, <2>2 DEF PendingYoung, CopySigned, NeverRaised
    <2>9. QED
      BY <2>3, <2>4, <2>5, <2>6, <2>7, <2>8
  <1>6. CASE StopHeartbeat(w)
    <2>1. PICK l \in {"list", "interrupted"} :
             /\ pc[w] = "stop" /\ path[w] \in Claim
             /\ pc' = [pc EXCEPT ![w] = l]
             /\ beat' = [beat EXCEPT ![path[w]] = "none"]
             /\ path' = [path EXCEPT ![w] = None]
             /\ verdict' = [verdict EXCEPT ![w] = "none"]
             /\ UNCHANGED <<pending, lease, done, failed, locked, claims, wasted, copy, due>>
      BY <1>0, <1>6 DEF StopHeartbeat, HoldPC
    <2>2. \A v \in Worker \ {w} : /\ pc'[v] = pc[v] /\ path'[v] = path[v]
                                  /\ pc[v] \in HoldPC => path[v] # path[w]
      BY <2>1 DEF OneHolder, HoldPC
    <2>3. pc'[w] \notin HoldPC \union RecoverPC
      BY <2>1 DEF HoldPC, RecoverPC
    <2>4. TokensNew'
      <3>1. \A v \in Worker, u \in Claim : Holds(v, u)' => Holds(v, u)
        BY <2>2, <2>3 DEF Holds, HoldPC
      <3>2. \A u \in Claim : beat[u] = "none" => beat'[u] = "none"
        BY <2>1
      <3>3. QED
        BY <2>1, <3>1, <3>2 DEF TokensNew
    <2>5. OneFile' /\ PendingYoung' /\ NeverRaised' /\ CopySigned'
      BY <2>1 DEF OneFile, LeasesOf, Finished, PendingYoung, NeverRaised, CopySigned
    <2>6. OneHolder' /\ Abandoned'
      BY <2>1, <2>2, <2>3 DEF OneHolder, Abandoned, HoldPC
    <2>7. Holding'
      <3>1. \A v \in Worker \ {w} : pc'[v] \in HoldPC => beat'[path'[v]] = beat[path[v]]
        BY <2>1, <2>2
      <3>2. \A v \in Worker \ {w} : pc'[v] \in HoldPC => HoldsWell(v)'
        BY <2>1, <2>2, <3>1 DEF Holding, HoldsWell, HoldPC, BeatingPC
      <3>3. \A v \in Worker : verdict'[v] # "raise"
        BY <1>0, <2>1
      <3>4. QED
        BY <2>3, <3>2, <3>3 DEF Holding, HoldPC
    <2>8. Locking' /\ Recovering'
      BY <2>1, <2>2 DEF Locking, Recovering, RecoverPC
    <2>9. QED
      BY <2>4, <2>5, <2>6, <2>7, <2>8
  <1>7. QED
    BY <1>1, <1>2, <1>3, <1>4, <1>5, <1>6 DEF Finish

LEMMA EnvironmentOwned ==
    ASSUME LocalOK, Ownership, Regime,
           (\E w \in Worker : Beat(w) \/ BreakOffRecovery(w) \/ Crash(w)) \/ TimePasses
    PROVE  Ownership'
  <1> USE DEF LocalOK, TypeOK, PathOK, Ownership, Goto, files, locals
  <1>1. ASSUME NEW w \in Worker, Beat(w)
        PROVE  Ownership'
    <2>1. beat[path[w]] = "fresh"
      BY <1>1 DEF Beat, Holding, HoldsWell, HoldPC, BeatingPC
    <2>2. QED
      BY <1>1, <2>1 DEF Beat
  <1>2. ASSUME NEW w \in Worker, Crash(w)
        PROVE  Ownership'
    <2>1. /\ pc'[w] = "dead" /\ path'[w] = None /\ due'[w] = {} /\ verdict'[w] = "none"
          /\ \A v \in Worker \ {w} :
               /\ pc'[v] = pc[v] /\ path'[v] = path[v] /\ copy'[v] = copy[v]
               /\ due'[v] = due[v] /\ verdict'[v] = verdict[v]
          /\ UNCHANGED <<pending, lease, done, failed, beat, locked, claims, wasted>>
      BY <1>2 DEF Crash
    <2>2. TokensNew'
      <3>1. \A v \in Worker, u \in Claim : Holds(v, u)' => Holds(v, u)
        BY <2>1 DEF Holds, HoldPC
      <3>2. \A v \in Worker, u \in Claim : u \in due'[v] => u \in due[v]
        BY <2>1
      <3>3. QED
        BY <2>1, <3>1, <3>2 DEF TokensNew
    <2>3. OneFile' /\ PendingYoung' /\ NeverRaised' /\ CopySigned'
      BY <2>1 DEF OneFile, LeasesOf, Finished, PendingYoung, NeverRaised, CopySigned
    <2>4. OneHolder' /\ Abandoned'
      BY <2>1 DEF OneHolder, Abandoned, HoldPC
    <2>5. Holding'
      BY <2>1 DEF Holding, HoldsWell, HoldPC, BeatingPC
    <2>6. Locking' /\ Recovering'
      BY <2>1 DEF Locking, Recovering, RecoverPC
    <2>7. QED
      BY <2>2, <2>3, <2>4, <2>5, <2>6
  <1>7. ASSUME NEW w \in Worker, BreakOffRecovery(w)
        PROVE  Ownership'
    <2>1. /\ pc[w] \in RecoverPC /\ locked' = locked \ {path[w]}
          /\ pc'[w] = "interrupted" /\ path'[w] = None /\ due'[w] = {} /\ verdict'[w] = "none"
          /\ \A v \in Worker \ {w} :
               /\ pc'[v] = pc[v] /\ path'[v] = path[v] /\ copy'[v] = copy[v]
               /\ due'[v] = due[v] /\ verdict'[v] = verdict[v]
          /\ UNCHANGED <<pending, lease, done, failed, beat, claims>>
      BY <1>7 DEF BreakOffRecovery
    <2>2. TokensNew'
      <3>1. \A v \in Worker, u \in Claim : Holds(v, u)' => Holds(v, u)
        BY <2>1 DEF Holds, HoldPC
      <3>2. \A v \in Worker, u \in Claim : u \in due'[v] => u \in due[v]
        BY <2>1
      <3>3. QED
        BY <2>1, <3>1, <3>2 DEF TokensNew
    <2>3. OneFile' /\ PendingYoung' /\ NeverRaised' /\ CopySigned'
      BY <2>1 DEF OneFile, LeasesOf, Finished, PendingYoung, NeverRaised, CopySigned
    <2>4. OneHolder' /\ Abandoned'
      BY <2>1 DEF OneHolder, Abandoned, HoldPC
    <2>5. Holding'
      BY <2>1 DEF Holding, HoldsWell, HoldPC, BeatingPC
    <2>6. Locking'
      <3>1. \A v \in Worker \ {w} : pc[v] \in RecoverPC => path[v] # path[w]
        BY <2>1 DEF Locking
      <3>2. QED
        BY <2>1, <3>1 DEF Locking, RecoverPC
    <2>7. Recovering'
      BY <2>1 DEF Recovering, RecoverPC
    <2>8. QED
      BY <2>2, <2>3, <2>4, <2>5, <2>6, <2>7
  <1>3. ASSUME NEW t \in Claim, AgeBeat(t)
        PROVE  Ownership'
    <2>1. /\ beat[t] = "fresh"
          /\ \A w \in Worker : ~ Holds(w, t)
          /\ beat'[t] = "stale"
          /\ \A u \in Claim \ {t} : beat'[u] = beat[u]
          /\ UNCHANGED <<pending, lease, done, failed, locked, claims, wasted, pc, locals>>
      BY <1>3 DEF AgeBeat, Regime, Held
    <2>2. TokensNew'
      BY <2>1 DEF TokensNew, Holds, HoldPC
    <2>3. OneFile' /\ PendingYoung' /\ NeverRaised' /\ CopySigned'
      BY <2>1 DEF OneFile, LeasesOf, Finished, PendingYoung, NeverRaised, CopySigned
    <2>4. OneHolder' /\ Abandoned'
      BY <2>1 DEF OneHolder, Abandoned, HoldPC
    <2>5. Holding'
      <3>1. \A w \in Worker : pc[w] \in HoldPC => path[w] \in Claim \ {t}
        BY <2>1 DEF Holds
      <3>2. QED
        BY <2>1, <3>1 DEF Holding, HoldsWell, HoldPC, BeatingPC
    <2>6. Locking' /\ Recovering'
      BY <2>1 DEF Locking, Recovering, RecoverPC
    <2>7. QED
      BY <2>2, <2>3, <2>4, <2>5, <2>6
  <1>4. ASSUME NEW t \in Claim, AgeLease(t)
        PROVE  Ownership'
    <2>1. /\ lease[t] # None
          /\ \A w \in Worker : path[w] = t =>
               pc[w] \notin {"sign", "resign", "start", "rewrite", "move"}
          /\ lease' = [lease EXCEPT ![t].old = TRUE]
          /\ UNCHANGED <<pending, done, failed, beat, locked, claims, wasted, pc, locals>>
      BY <1>4 DEF AgeLease, Regime, InTransit
    <2>2. /\ lease'[t] # None /\ lease'[t].signed = lease[t].signed
          /\ \A u \in Claim \ {t} : lease'[u] = lease[u]
      <3>1. lease[t] \in File
        BY <2>1
      <3>2. [lease[t] EXCEPT !.old = TRUE] \in File
        BY <3>1, AgedFile
      <3>3. lease'[t] = [lease[t] EXCEPT !.old = TRUE]
        BY <2>1
      <3>4. QED
        BY <2>1, <3>1, <3>2, <3>3, NoneAssumption DEF File
    <2>3. \A u \in Claim : lease'[u] # None <=> lease[u] # None
      BY <2>1, <2>2
    <2>4. TokensNew'
      BY <2>1, <2>3 DEF TokensNew, Holds, HoldPC
    <2>5. OneFile'
      <3>1. \A j \in Job : LeasesOf(j)' = LeasesOf(j)
        BY <2>3 DEF LeasesOf
      <3>2. QED
        BY <2>1, <3>1 DEF OneFile, Finished
    <2>6. OneHolder' /\ Abandoned'
      BY <2>1 DEF OneHolder, Abandoned, HoldPC
    <2>7. Holding'
      BY <2>1, <2>2 DEF Holding, HoldsWell, HoldPC, BeatingPC
    <2>8. Locking' /\ Recovering'
      BY <2>1, <2>2 DEF Locking, Recovering, RecoverPC
    <2>9. PendingYoung' /\ NeverRaised' /\ CopySigned'
      BY <2>1 DEF PendingYoung, NeverRaised, CopySigned
    <2>10. QED
      BY <2>4, <2>5, <2>6, <2>7, <2>8, <2>9
  <1>5. ASSUME NEW j \in Job, AgePending(j)
        PROVE  Ownership'
    BY <1>5 DEF AgePending, Regime
  <1>6. QED
    BY <1>1, <1>2, <1>3, <1>4, <1>5, <1>7 DEF TimePasses

LEMMA OwnershipNext == LocalOK /\ Ownership /\ Regime /\ [Next]_vars => Ownership'
  <1> SUFFICES ASSUME LocalOK, Ownership, Regime, [Next]_vars
               PROVE  Ownership'
    OBVIOUS
  <1>1. CASE UNCHANGED vars
    BY <1>1 DEF vars, files, locals, Ownership, TokensNew, OneFile, OneHolder, Holding,
                HoldsWell, Abandoned, Locking, Recovering, PendingYoung, CopySigned,
                NeverRaised, Holds, HoldPC, BeatingPC, RecoverPC, LeasesOf, Finished
  <1>2. ASSUME NEW w \in Worker, WorkerStep(w)
        PROVE  Ownership'
    BY <1>2, RecoverOwned, ClaimOwned, WorkOwned, FinishOwned DEF WorkerStep, Work
  <1>3. CASE (\E w \in Worker : Beat(w) \/ BreakOffRecovery(w) \/ Crash(w)) \/ TimePasses
    BY <1>3, EnvironmentOwned
  <1>4. QED
    BY <1>1, <1>2, <1>3 DEF Next, QueueStep, Terminated

(* The invariant of timely workers: a lease that is taken for abandoned    *)
(* has no live holder, and a recovery lock keeps the others off it         *)
(* (recover_stale_jobs).                                                   *)
THEOREM OwnershipKept ==
    ASSUME Regime
    PROVE  Spec => [](LocalOK /\ Ownership)
  <1>1. Init => LocalOK /\ Ownership
    BY LocalInit, OwnershipInit
  <1>2. LocalOK /\ Ownership /\ [Next]_vars => (LocalOK /\ Ownership)'
    BY LocalNext, OwnershipNext
  <1>3. QED
    BY <1>1, <1>2, PTL DEF Spec

(* A job never has two files, whatever renames and rewrites of lease files *)
(* interleave: recovery never brings a job back that was handed over.      *)
THEOREM OneFileEach ==
    ASSUME Regime
    PROVE  Spec => []OneFile
  <1>1. Ownership => OneFile
    BY DEF Ownership
  <1>2. QED
    BY OwnershipKept, <1>1, PTL

(* No two workers audit shards of one database at a time.                  *)
THEOREM OwnersExclusive ==
    ASSUME Regime
    PROVE  Spec => []OneOwner
  <1>1. LocalOK /\ Ownership => OneOwner
    <2> SUFFICES ASSUME LocalOK, Ownership,
                        NEW v \in Worker, NEW w \in Worker,
                        pc[v] = "work", pc[w] = "work",
                        JobOf(path[v]) = JobOf(path[w])
                 PROVE  v = w
      BY DEF OneOwner
    <2>1. \A u \in {v, w} : /\ pc[u] \in HoldPC /\ path[u] \in Claim
                            /\ lease[path[u]] # None
      BY DEF LocalOK, PathOK, Ownership, Holding, HoldsWell, HoldPC
    <2>2. /\ JobOf(path[v]) \in Job
          /\ path[v] \in LeasesOf(JobOf(path[v])) /\ path[w] \in LeasesOf(JobOf(path[v]))
      BY <2>1 DEF LeasesOf, Claim, JobOf
    <2>3. path[v] = path[w]
      BY <2>2 DEF Ownership, OneFile
    <2>4. QED
      BY <2>1, <2>3 DEF Ownership, OneHolder
  <1>2. QED
    BY OwnershipKept, <1>1, PTL

(* No worker's loop ends because a file it relies on was taken from it.    *)
THEOREM LoopsDoNotRaise ==
    ASSUME Regime
    PROVE  Spec => []NeverRaised
  <1>1. Ownership => NeverRaised
    BY DEF Ownership
  <1>2. QED
    BY OwnershipKept, <1>1, PTL

-----------------------------------------------------------------------------
(***************************************************************************)
(* A job is claimed at most --max-attempts times, in the regime the queue  *)
(* is written for: the attempt that a file carries never falls behind the  *)
(* claims of its job, although the counter is advanced in a copy that is   *)
(* written back later and claims are not counted anywhere.                 *)
(***************************************************************************)

(* The attempts of a job that are used up: by a claim, or by a recovery    *)
(* that was broken off after it had rewritten the lease.                   *)
Used(j) == claims[j] + wasted[j]

(* A file's attempt is at least the number of used attempts of its job,    *)
(* and more than that in pending/ and once a lease is about to go there.   *)
Attempts ==
    /\ \A j \in Job : pending[j] # None => pending[j].attempt > Used(j)
    /\ \A t \in Claim : lease[t] # None => lease[t].attempt >= Used(JobOf(t))
    /\ \A w \in Worker :
          /\ pc[w] \in {"resign", "uwrite", "fwrite", "rewrite"}
               \/ (pc[w] = "judge" /\ path[w] \in due[w])
                => copy[w].attempt >= Used(JobOf(path[w]))
          /\ pc[w] = "rewrite" /\ verdict[w] = "pending"
                => copy[w].attempt > Used(JobOf(path[w]))
          /\ pc[w] = "move" /\ verdict[w] = "pending"
                => lease[path[w]].attempt > Used(JobOf(path[w]))

Counted == Attempts /\ AttemptsBounded

-----------------------------------------------------------------------------
USE DEF Used

LEMMA CountedInit == Init => Counted
  BY AttemptsAssumption
  DEF Init, Counted, Attempts, AttemptsBounded, Claim, JobOf

LEMMA RecoverCounted ==
    ASSUME LocalOK, Ownership, Counted, NEW w \in Worker, Recover(w)
    PROVE  Counted'
  <1> USE DEF LocalOK, TypeOK, PathOK, Ownership, Goto, files, locals, Counted
  <1>0. AttemptsBounded'
    BY DEF Recover, ListRunning, LockLease, PeekPayload, JudgeLease, RewriteLease,
           RequeueLease, UnmarkLease, AttemptsBounded
  <1>1. CASE ListRunning(w)
    <2>1. /\ pc' = [pc EXCEPT ![w] = "sweep"]
          /\ \A v \in Worker \ {w} : due'[v] = due[v]
          /\ UNCHANGED <<pending, lease, claims, wasted, path, copy, verdict>>
      BY <1>1 DEF ListRunning
    <2>2. QED
      BY <1>0, <2>1 DEF Attempts
  <1>2. CASE LockLease(w)
    BY <1>0, <1>2 DEF LockLease, Attempts
  <1>3. CASE PeekPayload(w)
    <2>1. path[w] \in Claim
      BY <1>3 DEF PeekPayload, RecoverPC
    <2>2. QED
      BY <1>0, <1>3, <2>1 DEF PeekPayload, SkipLease, Attempts
  <1>4. CASE JudgeLease(w) /\ ~ FoundStale(w)
    BY <1>0, <1>4 DEF JudgeLease, SkipLease, Attempts
  <1>5. CASE JudgeLease(w) /\ FoundStale(w)
    <2> DEFINE n == NextAttempt(copy[w])
               k == Used(JobOf(path[w]))
    <2>1. /\ pc[w] = "judge" /\ path[w] \in Claim /\ path[w] \in due[w]
          /\ copy[w] \in File /\ k \in Nat
      BY <1>5 DEF JudgeLease, FoundStale, RecoverPC, CopyOK, Claim, JobOf
    <2>2. copy[w].attempt \in Nat /\ copy[w].attempt >= k
      BY <2>1 DEF Attempts, File
    <2>3. /\ n >= k
          /\ ~ ExhaustedAttempt(copy[w]) => n > k
      BY <2>1, <2>2 DEF NextAttempt
    <2>4. /\ copy'[w].attempt = n
          /\ verdict'[w] = "pending" => ~ ExhaustedAttempt(copy[w])
          /\ pc'[w] = "rewrite" /\ path' = path
          /\ \A v \in Worker \ {w} : /\ pc'[v] = pc[v] /\ copy'[v] = copy[v]
                                     /\ verdict'[v] = verdict[v]
          /\ UNCHANGED <<pending, lease, claims, wasted, due>>
      BY <1>5, <2>1 DEF JudgeLease, File
    <2> HIDE DEF n, k
    <2>5. QED
      BY <1>0, <2>3, <2>4 DEF Attempts, k
  <1>6. CASE RewriteLease(w)
    <2> DEFINE t == path[w]
    <2>1. /\ pc[w] = "rewrite" /\ t \in Claim /\ copy[w] \in File
          /\ WriteLease(t, copy[w])
          /\ pc'[w] = "move" /\ UNCHANGED <<pending, claims, wasted, path, due, verdict>>
          /\ \A v \in Worker \ {w} : pc'[v] = pc[v] /\ copy'[v] = copy[v]
      BY <1>6 DEF RewriteLease, RecoverPC, CopyOK
    <2>2. /\ lease'[t].attempt = copy[w].attempt
          /\ \A u \in Claim \ {t} : lease'[u] = lease[u]
      BY <2>1, WriteFacts
    <2>3. /\ copy[w].attempt >= Used(JobOf(t))
          /\ verdict[w] = "pending" => copy[w].attempt > Used(JobOf(t))
      BY <2>1 DEF Attempts
    <2>4. \A v \in Worker \ {w} : pc[v] \in RecoverPC => path[v] \in Claim \ {t}
      BY <2>1 DEF Locking, RecoverPC
    <2>5. QED
      BY <1>0, <2>1, <2>2, <2>3, <2>4 DEF Attempts, RecoverPC
  <1>7. CASE RequeueLease(w)
    <2> DEFINE t == path[w]
    <2>1. /\ pc[w] = "move" /\ t \in Claim /\ lease[t] # None
          /\ verdict[w] \in {"pending", "failed"} /\ MoveLease(t, verdict[w])
          /\ pc'[w] = "unmark" /\ UNCHANGED <<claims, wasted, path, copy, due>>
          /\ \A v \in Worker \ {w} : pc'[v] = pc[v] /\ verdict'[v] = verdict[v]
      BY <1>7 DEF RequeueLease, Recovering, RecoverPC, VerdictOK
    <2>2. /\ lease'[t] = None
          /\ \A u \in Claim \ {t} : lease'[u] = lease[u]
          /\ verdict[w] # "pending" => pending' = pending
          /\ verdict[w] = "pending" =>
               /\ pending'[JobOf(t)].attempt = lease[t].attempt
               /\ \A i \in Job \ {JobOf(t)} : pending'[i] = pending[i]
      BY <2>1, MoveFacts
    <2>3. verdict[w] = "pending" => lease[t].attempt > Used(JobOf(t))
      BY <2>1 DEF Attempts
    <2>4. \A v \in Worker \ {w} : pc[v] \in RecoverPC => path[v] \in Claim \ {t}
      BY <2>1 DEF Locking, RecoverPC
    <2>5. \A j \in Job : pending'[j] # None => pending'[j].attempt > Used(j)'
      BY <2>1, <2>2, <2>3 DEF Attempts
    <2>6. \A u \in Claim : lease'[u] # None => lease'[u].attempt >= Used(JobOf(u))'
      BY <2>1, <2>2 DEF Attempts
    <2>7. QED
      BY <1>0, <2>1, <2>2, <2>4, <2>5, <2>6 DEF Attempts, RecoverPC
  <1>8. CASE UnmarkLease(w)
    BY <1>0, <1>8 DEF UnmarkLease, SkipLease, Attempts
  <1>9. QED
    BY <1>1, <1>2, <1>3, <1>4, <1>5, <1>6, <1>7, <1>8 DEF Recover

(* A holder rewrites its lease.                                            *)
LEMMA HolderWriteCounted ==
    ASSUME LocalOK, Ownership, Counted, NEW w \in Worker,
           NEW l \in {"start", "fexists", "fmove"},
           pc[w] \in {"resign", "uwrite", "fwrite"},
           WriteLease(path[w], copy[w]),
           pc' = [pc EXCEPT ![w] = l],
           copy' = [copy EXCEPT ![w] = None],
           UNCHANGED <<pending, claims, wasted, path, due, verdict>>
    PROVE  Counted'
  <1> DEFINE t == path[w]
  <1> USE DEF LocalOK, TypeOK, PathOK, Ownership, Counted
  <1>1. t \in Claim /\ copy[w] \in File
    BY DEF CopyOK, HoldPC
  <1>2. /\ lease'[t].attempt = copy[w].attempt
        /\ \A u \in Claim \ {t} : lease'[u] = lease[u]
    BY <1>1, WriteFacts
  <1>3. copy[w].attempt >= Used(JobOf(t))
    BY DEF Attempts
  <1>4. \A v \in Worker : t \notin due[v]
    BY DEF Abandoned, HoldPC
  <1>5. \A v \in Worker : pc[v] = "move" => path[v] \in Claim \ {t}
    BY <1>4 DEF Recovering, RecoverPC
  <1>6. QED
    BY <1>1, <1>2, <1>3, <1>5 DEF Attempts, AttemptsBounded

(* The claim of a job: nobody else has a copy of a file of that job that   *)
(* will be written back, since the job had no file but the pending one.    *)
LEMMA RenameCounted ==
    ASSUME LocalOK, Ownership, Counted, NEW w \in Worker, NEW j \in Job,
           pending[j] # None, claims[j] < MaxClaims,
           RenameToLease(j, <<j, claims[j] + 1>>),
           pc[w] = "claim",
           pc' = [pc EXCEPT ![w] = "sign"],
           path' = [path EXCEPT ![w] = <<j, claims[j] + 1>>],
           UNCHANGED <<wasted, copy, due, verdict>>
    PROVE  Counted'
  <1> USE DEF LocalOK, TypeOK, PathOK, Ownership, Counted
  <1>0. PICK t \in Claim : t = <<j, claims[j] + 1>>
    BY AttemptsAssumption DEF Claim
  <1>1. /\ t \in Claim /\ JobOf(t) = j /\ claims[j] \in Nat
        /\ pending[j] \in File
    BY <1>0, AttemptsAssumption DEF Claim, JobOf
  <1>2. /\ lease'[t] = pending[j] /\ pending'[j] = None
        /\ claims'[j] = claims[j] + 1
        /\ \A u \in Claim \ {t} : lease'[u] = lease[u]
        /\ \A i \in Job \ {j} : pending'[i] = pending[i] /\ claims'[i] = claims[i]
    BY <1>0, <1>1 DEF RenameToLease
  <1>3. pending[j].attempt \in 1 .. MaxAttempts /\ pending[j].attempt > Used(j)
    BY <1>1 DEF Attempts, File
  <1>4. \A u \in Claim : lease[u] # None => JobOf(u) # j
    BY DEF OneFile, LeasesOf
  <1>5. /\ pc'[w] = "sign"
        /\ \A v \in Worker \ {w} : pc'[v] = pc[v] /\ path'[v] = path[v]
    OBVIOUS
  <1>6. AttemptsBounded'
    BY <1>1, <1>2, <1>3, AttemptsAssumption DEF AttemptsBounded
  <1>7. \A u \in Claim : lease'[u] # None => lease'[u].attempt >= Used(JobOf(u))'
    <2>1. ASSUME NEW u \in Claim \ {t}, lease'[u] # None
          PROVE  lease'[u].attempt >= Used(JobOf(u))'
      <3>1. lease[u] # None /\ lease'[u] = lease[u]
        BY <1>2, <2>1
      <3>2. JobOf(u) \in Job \ {j}
        BY <1>4, <3>1 DEF Claim, JobOf
      <3>3. QED
        BY <1>2, <3>1, <3>2 DEF Attempts
    <2>2. lease'[t].attempt >= Used(JobOf(t))'
      <3>1. /\ wasted[j] \in Nat /\ wasted'[j] = wasted[j]
            /\ pending[j].attempt \in Nat
        BY <1>3, AttemptsAssumption
      <3>2. Used(JobOf(t))' = claims[j] + 1 + wasted[j]
        BY <1>1, <1>2, <3>1
      <3>3. pending[j].attempt >= claims[j] + 1 + wasted[j]
        BY <1>1, <1>3, <3>1
      <3>4. QED
        BY <1>2, <3>2, <3>3
    <2> HIDE DEF Used
    <2>3. QED
      BY <2>1, <2>2
  <1>8. ASSUME NEW v \in Worker \ {w},
               \/ pc[v] \in {"resign", "uwrite", "fwrite", "rewrite", "move"}
               \/ pc[v] = "judge" /\ path[v] \in due[v]
        PROVE  /\ path[v] \in Claim /\ path[v] # t
               /\ claims'[JobOf(path[v])] = claims[JobOf(path[v])]
               /\ lease'[path[v]] = lease[path[v]]
    <2>1. path[v] \in Claim /\ lease[path[v]] # None
      BY <1>8 DEF Holding, HoldsWell, Recovering, HoldPC, RecoverPC
    <2>2. lease[t] = None
      BY <1>1, <1>4
    <2>3. JobOf(path[v]) \in Job \ {j}
      BY <1>4, <2>1 DEF Claim, JobOf
    <2>4. QED
      BY <1>2, <2>1, <2>2, <2>3
  <1>9. \A i \in Job : pending'[i] # None => pending'[i].attempt > Used(i)'
    BY <1>2 DEF Attempts
  <1>10. QED
    BY <1>5, <1>6, <1>7, <1>8, <1>9 DEF Attempts

LEMMA ClaimCounted ==
    ASSUME LocalOK, Ownership, Counted, NEW w \in Worker, ClaimJob(w)
    PROVE  Counted'
  <1> USE DEF LocalOK, TypeOK, PathOK, Ownership, Goto, files, locals, Counted
  <1>1. CASE ListPending(w)
    BY <1>1 DEF ListPending, Attempts, AttemptsBounded
  <1>2. CASE ClaimRename(w)
    <2>1. PICK j \in cand[w] :
             \/ /\ pc'[w] \in {"scanpending", "claim"}
                /\ pc' = [pc EXCEPT ![w] = pc'[w]]
                /\ UNCHANGED <<pending, lease, claims, wasted, path>>
             \/ /\ pending[j] # None
                /\ claims[j] < MaxClaims
                /\ RenameToLease(j, <<j, claims[j] + 1>>)
                /\ path' = [path EXCEPT ![w] = <<j, claims[j] + 1>>]
                /\ pc' = [pc EXCEPT ![w] = "sign"]
      BY <1>2 DEF ClaimRename
    <2>2. j \in Job /\ pc[w] = "claim" /\ UNCHANGED <<wasted, copy, due, verdict>>
      BY <1>2 DEF ClaimRename
    <2>3. CASE pc'[w] = "sign"
      BY <2>1, <2>2, <2>3, RenameCounted
    <2>4. CASE pc'[w] # "sign"
      <3>1. /\ pc'[w] \in {"scanpending", "claim"}
            /\ \A v \in Worker \ {w} : pc'[v] = pc[v]
            /\ UNCHANGED <<pending, lease, claims, wasted, path>>
        BY <2>1, <2>4
      <3>2. QED
        BY <2>2, <3>1 DEF Attempts, AttemptsBounded
    <2>5. QED
      BY <2>3, <2>4
  <1>3. CASE ClaimRead(w)
    <2>1. /\ pc[w] = "sign" /\ path[w] \in Claim /\ lease[path[w]] # None
      BY <1>3 DEF ClaimRead, Holding, HoldsWell, HoldPC
    <2>2. lease[path[w]] \in File
      BY <2>1
    <2>3. /\ pc'[w] = "resign" /\ copy'[w].attempt = lease[path[w]].attempt
          /\ \A v \in Worker \ {w} : pc'[v] = pc[v] /\ copy'[v] = copy[v]
          /\ UNCHANGED <<pending, lease, claims, wasted, path, due, verdict>>
      BY <1>3, <2>1, <2>2 DEF ClaimRead, File
    <2>4. QED
      BY <2>1, <2>3 DEF Attempts, AttemptsBounded
  <1>4. CASE ClaimWrite(w)
    BY <1>4, HolderWriteCounted DEF ClaimWrite
  <1>5. QED
    BY <1>1, <1>2, <1>3, <1>4 DEF ClaimJob

LEMMA WorkCounted ==
    ASSUME LocalOK, Ownership, Counted, NEW w \in Worker, Work(w) \/ Scan(w)
    PROVE  Counted'
  BY DEF LocalOK, TypeOK, Goto, files, locals, Counted, Work, Scan, StartHeartbeat,
         WorkSucceeds, WorkFails, WorkInterrupted, ScanPending, ReadPending, ScanRunning,
         ReadRunning, Attempts,
         AttemptsBounded

LEMMA FinishCounted ==
    ASSUME LocalOK, Ownership, Counted, NEW w \in Worker, Finish(w)
    PROVE  Counted'
  <1> USE DEF LocalOK, TypeOK, PathOK, Ownership, Goto, files, locals, Counted
  <1>1. CASE UpdateExists(w) \/ FinishExists(w) \/ StopHeartbeat(w)
    BY <1>1 DEF UpdateExists, FinishExists, StopHeartbeat, Attempts, AttemptsBounded
  <1>2. CASE UpdateRead(w) \/ FinishRead(w)
    <2>1. /\ pc[w] \in {"uread", "fread"} /\ path[w] \in Claim /\ lease[path[w]] # None
          /\ OwnsLease(w)
      BY <1>2 DEF UpdateRead, FinishRead, Holding, HoldsWell, HoldPC, OwnsLease
    <2>2. /\ pc'[w] \in {"uwrite", "fwrite"} /\ copy'[w] = lease[path[w]]
          /\ \A v \in Worker \ {w} : pc'[v] = pc[v] /\ copy'[v] = copy[v]
          /\ UNCHANGED <<pending, lease, claims, wasted, path, due, verdict>>
      BY <1>2, <2>1 DEF UpdateRead, FinishRead
    <2>3. QED
      BY <2>1, <2>2 DEF Attempts, AttemptsBounded
  <1>3. CASE UpdateWrite(w)
    BY <1>3, HolderWriteCounted DEF UpdateWrite
  <1>4. CASE FinishWrite(w)
    BY <1>4, HolderWriteCounted DEF FinishWrite
  <1>5. CASE FinishMove(w)
    <2> DEFINE t == path[w]
    <2>1. PICK dir \in {"done", "failed"} :
             /\ pc[w] = "fmove" /\ t \in Claim /\ lease[t] # None
             /\ MoveLease(t, dir)
             /\ pc' = [pc EXCEPT ![w] = "stop"]
             /\ UNCHANGED <<claims, wasted, path, copy, due, verdict>>
      BY <1>5 DEF FinishMove, Holding, HoldsWell, HoldPC
    <2>2. /\ lease'[t] = None
          /\ \A u \in Claim \ {t} : lease'[u] = lease[u]
          /\ pending' = pending
      BY <2>1, MoveFacts
    <2>3. \A v \in Worker : t \notin due[v]
      BY <2>1 DEF Abandoned, HoldPC
    <2>4. \A v \in Worker : pc[v] = "move" => path[v] \in Claim \ {t}
      BY <2>3 DEF Recovering, RecoverPC
    <2>5. QED
      BY <2>1, <2>2, <2>4 DEF Attempts, AttemptsBounded
  <1>6. QED
    BY <1>1, <1>2, <1>3, <1>4, <1>5 DEF Finish

(* A recovery that is broken off between rewrite and move uses up the      *)
(* attempt that the lease already carries; nobody else has a copy of it.   *)
LEMMA BreakOffCounted ==
    ASSUME LocalOK, Ownership, Counted, NEW w \in Worker, BreakOffRecovery(w)
    PROVE  Counted'
  <1> USE DEF LocalOK, TypeOK, PathOK, Ownership, Goto, Counted
  <1>0. PICK t \in Claim, i \in Job : t = path[w] /\ i = JobOf(t)
    BY DEF BreakOffRecovery, Claim, JobOf
  <1>1. /\ pc[w] \in RecoverPC /\ pc'[w] = "interrupted"
        /\ \A v \in Worker \ {w} :
             /\ pc'[v] = pc[v] /\ path'[v] = path[v] /\ copy'[v] = copy[v]
             /\ due'[v] = due[v] /\ verdict'[v] = verdict[v]
        /\ UNCHANGED <<pending, lease, claims>>
    BY DEF BreakOffRecovery
  <1>2. CASE wasted' = wasted
    BY <1>1, <1>2 DEF Attempts, AttemptsBounded
  <1>3. CASE wasted' # wasted
    <2>1. /\ pc[w] = "move" /\ verdict[w] = "pending"
          /\ wasted'[i] = wasted[i] + 1
          /\ \A j \in Job \ {i} : wasted'[j] = wasted[j]
      BY <1>0, <1>3 DEF BreakOffRecovery
    <2>2. lease[t] # None /\ lease[t] \in File /\ lease[t].attempt > Used(i)
      BY <1>0, <2>1 DEF Attempts, Recovering
    <2>3. lease[t].attempt \in 1 .. MaxAttempts /\ claims[i] \in Nat /\ wasted[i] \in Nat
      BY <2>2 DEF File
    <2>4. lease[t].attempt >= Used(i)' /\ Used(i)' <= MaxAttempts
      BY <1>1, <2>1, <2>2, <2>3, AttemptsAssumption
    <2>5. pending[i] = None /\ \A u \in Claim : lease[u] # None /\ JobOf(u) = i => u = t
      <3>1. t \in LeasesOf(i)
        BY <1>0, <2>2 DEF LeasesOf
      <3>2. QED
        BY <3>1 DEF OneFile, LeasesOf
    <2>6. \A j \in Job \ {i} : Used(j)' = Used(j)
      BY <1>1, <2>1
    <2>7. AttemptsBounded'
      BY <2>4, <2>6 DEF AttemptsBounded
    <2>8. \A j \in Job : pending'[j] # None => pending'[j].attempt > Used(j)'
      BY <1>1, <2>5, <2>6 DEF Attempts
    <2>9. \A u \in Claim : lease'[u] # None => lease'[u].attempt >= Used(JobOf(u))'
      <3>1. ASSUME NEW u \in Claim, lease[u] # None, u # t
            PROVE  JobOf(u) \in Job \ {i}
        BY <2>5, <3>1 DEF Claim, JobOf
      <3>2. QED
        BY <1>0, <1>1, <2>4, <2>6, <3>1 DEF Attempts
    <2>10. ASSUME NEW v \in Worker \ {w},
                  \/ pc[v] \in {"resign", "uwrite", "fwrite", "rewrite", "move"}
                  \/ pc[v] = "judge" /\ path[v] \in due[v]
           PROVE  path[v] \in Claim /\ JobOf(path[v]) \in Job \ {i}
      <3>1. path[v] \in Claim /\ lease[path[v]] # None
        BY <2>10 DEF Holding, HoldsWell, Recovering, HoldPC, RecoverPC
      <3>2. path[v] # t
        BY <1>0, <1>1, <2>1, <2>10 DEF Locking, Abandoned, Recovering, HoldPC, RecoverPC
      <3>3. QED
        BY <2>5, <3>1, <3>2 DEF Claim, JobOf
    <2>11. \A v \in Worker :
              /\ pc'[v] \in {"resign", "uwrite", "fwrite", "rewrite"}
                   \/ (pc'[v] = "judge" /\ path'[v] \in due'[v])
                    => copy'[v].attempt >= Used(JobOf(path[v]))'
              /\ pc'[v] = "rewrite" /\ verdict'[v] = "pending"
                    => copy'[v].attempt > Used(JobOf(path[v]))'
              /\ pc'[v] = "move" /\ verdict'[v] = "pending"
                    => lease'[path'[v]].attempt > Used(JobOf(path[v]))'
      <3> SUFFICES ASSUME NEW v \in Worker \ {w},
                          \/ pc[v] \in {"resign", "uwrite", "fwrite", "rewrite", "move"}
                          \/ pc[v] = "judge" /\ path[v] \in due[v]
                   PROVE  /\ pc[v] \in {"resign", "uwrite", "fwrite", "rewrite"}
                               \/ (pc[v] = "judge" /\ path[v] \in due[v])
                                => copy[v].attempt >= Used(JobOf(path[v]))'
                          /\ pc[v] = "rewrite" /\ verdict[v] = "pending"
                                => copy[v].attempt > Used(JobOf(path[v]))'
                          /\ pc[v] = "move" /\ verdict[v] = "pending"
                                => lease[path[v]].attempt > Used(JobOf(path[v]))'
        <4> HIDE DEF Used
        <4>1. QED
          BY <1>1
      <3>1. Used(JobOf(path[v]))' = Used(JobOf(path[v]))
        BY <1>1, <2>1, <2>10
      <3>2. QED
        BY <3>1 DEF Attempts
    <2> HIDE DEF Used
    <2>12. QED
      BY <2>7, <2>8, <2>9, <2>11 DEF Attempts
  <1>4. QED
    BY <1>2, <1>3

LEMMA EnvironmentCounted ==
    ASSUME LocalOK, Ownership, Counted, Regime,
           (\E w \in Worker : Beat(w) \/ BreakOffRecovery(w) \/ Crash(w)) \/ TimePasses
    PROVE  Counted'
  <1> USE DEF LocalOK, TypeOK, PathOK, Ownership, Goto, files, locals, Counted
  <1>1. ASSUME NEW w \in Worker, Beat(w) \/ BreakOffRecovery(w) \/ Crash(w)
        PROVE  Counted'
    <2>1. CASE Beat(w) \/ Crash(w)
      BY <2>1 DEF Beat, Crash, Attempts, AttemptsBounded
    <2>2. CASE BreakOffRecovery(w)
      BY <2>2, BreakOffCounted
    <2>3. QED
      BY <1>1, <2>1, <2>2
  <1>2. ASSUME NEW t \in Claim, AgeBeat(t)
        PROVE  Counted'
    BY <1>2 DEF AgeBeat, Attempts, AttemptsBounded
  <1>3. ASSUME NEW t \in Claim, AgeLease(t)
        PROVE  Counted'
    <2>1. /\ lease[t] \in File
          /\ \A w \in Worker : path[w] = t => pc[w] # "move"
          /\ lease'[t] = [lease[t] EXCEPT !.old = TRUE]
          /\ \A u \in Claim \ {t} : lease'[u] = lease[u]
          /\ UNCHANGED <<pending, claims, wasted, pc, locals>>
      BY <1>3 DEF AgeLease, Regime, InTransit
    <2>2. lease'[t].attempt = lease[t].attempt /\ lease[t] # None
      BY <2>1, NoneAssumption DEF File
    <2>3. \A w \in Worker : pc[w] = "move" => path[w] \in Claim \ {t}
      BY <2>1 DEF RecoverPC
    <2>4. QED
      BY <2>1, <2>2, <2>3 DEF Attempts, AttemptsBounded
  <1>4. ASSUME NEW j \in Job, AgePending(j)
        PROVE  Counted'
    BY <1>4 DEF AgePending, Regime
  <1>5. QED
    BY <1>1, <1>2, <1>3, <1>4 DEF TimePasses

LEMMA CountedNext == LocalOK /\ Ownership /\ Counted /\ Regime /\ [Next]_vars => Counted'
  <1> SUFFICES ASSUME LocalOK, Ownership, Counted, Regime, [Next]_vars
               PROVE  Counted'
    OBVIOUS
  <1>1. CASE UNCHANGED vars
    BY <1>1 DEF vars, files, locals, Counted, Attempts, AttemptsBounded
  <1>2. ASSUME NEW w \in Worker, WorkerStep(w)
        PROVE  Counted'
    BY <1>2, RecoverCounted, ClaimCounted, WorkCounted, FinishCounted DEF WorkerStep
  <1>3. CASE (\E w \in Worker : Beat(w) \/ BreakOffRecovery(w) \/ Crash(w)) \/ TimePasses
    BY <1>3, EnvironmentCounted
  <1>4. QED
    BY <1>1, <1>2, <1>3 DEF Next, QueueStep, Terminated

(* docs/rule-audit.md:59: a stale lease is requeued until --max-attempts   *)
(* is reached, so no job is claimed more often than that.                  *)
THEOREM ClaimsBounded ==
    ASSUME Regime
    PROVE  Spec => []AttemptsBounded
  <1>1. Init => Counted
    BY CountedInit
  <1>2. /\ LocalOK /\ Ownership /\ (LocalOK /\ Ownership)'
        /\ Counted /\ [Next]_vars
        => Counted'
    BY CountedNext
  <1>3. Counted => AttemptsBounded
    BY DEF Counted
  <1>4. QED
    BY OwnershipKept, <1>1, <1>2, <1>3, PTL DEF Spec

-----------------------------------------------------------------------------
(* A job that is given up has been claimed MaxAttempts times, so attempts  *)
(* must not run ahead of claims either, for the queue to implement         *)
(* AuditJobs: only a lease that its recoverer is about to move, or died    *)
(* before moving, carries the attempt of the next claim, and that lease is *)
(* locked.                                                                 *)
LevelLease(t) == lease[t] # None => lease[t].attempt <= Used(JobOf(t))

Level ==
    /\ \A j \in Job : pending[j] # None => pending[j].attempt <= Used(j) + 1
    /\ \A t \in Claim : t \notin locked => LevelLease(t)
    /\ \A w \in Worker :
          /\ pc[w] \in HoldPC \union {"peek", "judge", "rewrite"} => LevelLease(path[w])
          /\ pc[w] \in {"resign", "uwrite", "fwrite", "judge"}
                => copy[w].attempt <= Used(JobOf(path[w]))
          /\ pc[w] = "rewrite" => copy[w].attempt <= Used(JobOf(path[w])) + 1
          /\ pc[w] = "move" => lease[path[w]].attempt <= Used(JobOf(path[w])) + 1
          /\ pc[w] \in {"rewrite", "move"} /\ verdict[w] = "failed"
                => Used(JobOf(path[w])) >= MaxAttempts
          /\ pc[w] = "unmark" => lease[path[w]] = None

LEMMA LevelInit == Init => Level
  BY AttemptsAssumption DEF Init, Level, LevelLease, Claim, JobOf, HoldPC

LEMMA RecoverLevel ==
    ASSUME LocalOK, Ownership, Level, NEW w \in Worker, Recover(w)
    PROVE  Level'
  <1> USE DEF LocalOK, TypeOK, PathOK, Ownership, Goto, files, locals
  <1>1. CASE ListRunning(w)
    BY <1>1 DEF ListRunning, Level, LevelLease, HoldPC
  <1>2. CASE LockLease(w)
    <2>1. PICK t \in seen[w] :
             \/ UNCHANGED <<locked, pc, path>>
             \/ /\ t \notin locked
                /\ locked' = locked \union {t}
                /\ path' = [path EXCEPT ![w] = t]
                /\ pc' = [pc EXCEPT ![w] = "peek"]
      BY <1>2 DEF LockLease, IsLocked
    <2>2. /\ t \in Claim
          /\ UNCHANGED <<pending, lease, claims, wasted, copy, verdict>>
      BY <1>2 DEF LockLease
    <2>3. CASE UNCHANGED <<locked, pc, path>>
      BY <2>2, <2>3 DEF Level, LevelLease
    <2>4. CASE /\ t \notin locked
               /\ locked' = locked \union {t}
               /\ path' = [path EXCEPT ![w] = t]
               /\ pc' = [pc EXCEPT ![w] = "peek"]
      <3>1. LevelLease(t)
        BY <2>2, <2>4 DEF Level
      <3>2. QED
        BY <2>2, <2>4, <3>1 DEF Level, LevelLease
    <2>5. QED
      BY <2>1, <2>3, <2>4
  <1>3. CASE PeekPayload(w) /\ lease[path[w]] # None
    <2>1. /\ pc[w] = "peek" /\ path[w] \in Claim
          /\ copy'[w] = lease[path[w]] /\ pc'[w] = "judge"
          /\ \A v \in Worker \ {w} : pc'[v] = pc[v] /\ copy'[v] = copy[v]
          /\ UNCHANGED <<pending, lease, claims, wasted, locked, path, verdict>>
      BY <1>3 DEF PeekPayload, RecoverPC
    <2>2. QED
      BY <1>3, <2>1 DEF Level, LevelLease
  <1>4. CASE \/ PeekPayload(w) /\ lease[path[w]] = None
             \/ JudgeLease(w) /\ ~ FoundStale(w)
             \/ UnmarkLease(w)
    <2>1. /\ pc[w] \in {"peek", "judge", "unmark"} /\ path[w] \in Claim
          /\ locked' = locked \ {path[w]} /\ pc'[w] = "sweep"
          /\ \A v \in Worker \ {w} : /\ pc'[v] = pc[v] /\ copy'[v] = copy[v]
                                     /\ path'[v] = path[v] /\ verdict'[v] = verdict[v]
          /\ UNCHANGED <<pending, lease, claims, wasted>>
      BY <1>4 DEF PeekPayload, JudgeLease, UnmarkLease, SkipLease, RecoverPC
    <2>2. LevelLease(path[w])
      BY <2>1 DEF Level, LevelLease
    <2>3. QED
      BY <2>1, <2>2 DEF Level, LevelLease, HoldPC
  <1>5. CASE JudgeLease(w) /\ FoundStale(w)
    <2> DEFINE n == NextAttempt(copy[w])
               k == Used(JobOf(path[w]))
    <2>1. /\ pc[w] = "judge" /\ path[w] \in Claim /\ copy[w] \in File /\ k \in Nat
      BY <1>5 DEF JudgeLease, RecoverPC, CopyOK, Claim, JobOf
    <2>2. copy[w].attempt \in Nat /\ copy[w].attempt <= k
      BY <2>1 DEF Level, File
    <2>3. /\ n <= k + 1
          /\ ExhaustedAttempt(copy[w]) => k >= MaxAttempts
      BY <2>1, <2>2, AttemptsAssumption DEF NextAttempt, ExhaustedAttempt
    <2>4. /\ copy'[w].attempt = n
          /\ verdict'[w] = "failed" => ExhaustedAttempt(copy[w])
          /\ pc'[w] = "rewrite"
          /\ \A v \in Worker \ {w} : /\ pc'[v] = pc[v] /\ copy'[v] = copy[v]
                                     /\ verdict'[v] = verdict[v]
          /\ UNCHANGED <<pending, lease, claims, wasted, locked, path>>
      BY <1>5, <2>1 DEF JudgeLease, File
    <2> HIDE DEF n, k
    <2>5. /\ copy'[w].attempt <= Used(JobOf(path[w]))' + 1
          /\ verdict'[w] = "failed" => Used(JobOf(path[w]))' >= MaxAttempts
      BY <2>3, <2>4 DEF k
    <2>6. LevelLease(path[w])
      BY <2>1 DEF Level
    <2>7. QED
      BY <2>4, <2>5, <2>6 DEF Level, LevelLease, HoldPC
  <1>6. CASE RewriteLease(w) \/ RequeueLease(w)
    <2> DEFINE t == path[w]
    <2>1. /\ pc[w] \in {"rewrite", "move"} /\ t \in Claim /\ t \in due[w] /\ t \in locked
          /\ lease[t] # None
      BY <1>6 DEF RewriteLease, RequeueLease, Recovering, Locking, RecoverPC
    <2>2. /\ \A v \in Worker : pc[v] \in HoldPC => path[v] \in Claim \ {t}
          /\ \A v \in Worker \ {w} : pc[v] \in RecoverPC => path[v] \in Claim \ {t}
      BY <2>1 DEF Abandoned, Locking, RecoverPC
    <2>3. CASE RewriteLease(w)
      <3>1. /\ pc[w] = "rewrite" /\ copy[w] \in File /\ WriteLease(t, copy[w])
            /\ pc'[w] = "move" /\ UNCHANGED <<pending, claims, wasted, locked, path, verdict>>
            /\ \A v \in Worker \ {w} : pc'[v] = pc[v] /\ copy'[v] = copy[v]
        BY <2>3 DEF RewriteLease, CopyOK
      <3>2. /\ lease'[t].attempt = copy[w].attempt
            /\ \A u \in Claim \ {t} : lease'[u] = lease[u]
        BY <2>1, <3>1, WriteFacts
      <3>3. /\ lease'[t].attempt <= Used(JobOf(t)) + 1
            /\ verdict[w] = "failed" => Used(JobOf(t)) >= MaxAttempts
        BY <3>1, <3>2 DEF Level
      <3>4. QED
        BY <2>1, <2>2, <3>1, <3>2, <3>3 DEF Level, LevelLease, HoldPC, RecoverPC
    <2>4. CASE RequeueLease(w)
      <3>1. /\ pc[w] = "move" /\ verdict[w] \in {"pending", "failed"}
            /\ MoveLease(t, verdict[w])
            /\ pc'[w] = "unmark" /\ UNCHANGED <<claims, wasted, locked, path, copy>>
            /\ \A v \in Worker \ {w} : pc'[v] = pc[v] /\ verdict'[v] = verdict[v]
        BY <2>1, <2>4 DEF RequeueLease, VerdictOK
      <3>2. /\ lease'[t] = None /\ JobOf(t) \in Job
            /\ \A u \in Claim \ {t} : lease'[u] = lease[u]
            /\ verdict[w] # "pending" => pending' = pending
            /\ verdict[w] = "pending" =>
                 /\ pending'[JobOf(t)].attempt = lease[t].attempt
                 /\ \A i \in Job \ {JobOf(t)} : pending'[i] = pending[i]
        BY <2>1, <3>1, MoveFacts
      <3>3. lease[t].attempt <= Used(JobOf(t)) + 1
        BY <3>1 DEF Level
      <3>4. \A j \in Job : pending'[j] # None => pending'[j].attempt <= Used(j)' + 1
        BY <3>1, <3>2, <3>3 DEF Level
      <3>5. QED
        BY <2>1, <2>2, <3>1, <3>2, <3>4 DEF Level, LevelLease, HoldPC, RecoverPC
    <2>5. QED
      BY <1>6, <2>3, <2>4
  <1>7. QED
    BY <1>1, <1>2, <1>3, <1>4, <1>5, <1>6 DEF Recover, PeekPayload

(* A holder rewrites its lease.                                            *)
LEMMA HolderWriteLevel ==
    ASSUME LocalOK, Ownership, Level, NEW w \in Worker,
           NEW l \in {"start", "fexists", "fmove"},
           pc[w] \in {"resign", "uwrite", "fwrite"},
           WriteLease(path[w], copy[w]),
           pc' = [pc EXCEPT ![w] = l],
           copy' = [copy EXCEPT ![w] = None],
           UNCHANGED <<pending, claims, wasted, locked, path, verdict>>
    PROVE  Level'
  <1> DEFINE t == path[w]
  <1> USE DEF LocalOK, TypeOK, PathOK, Ownership
  <1>1. t \in Claim /\ copy[w] \in File /\ lease[t] # None
    BY DEF CopyOK, HoldPC, Holding, HoldsWell
  <1>2. /\ lease'[t].attempt = copy[w].attempt
        /\ \A u \in Claim \ {t} : lease'[u] = lease[u]
    BY <1>1, WriteFacts
  <1>3. copy[w].attempt <= Used(JobOf(t))
    BY DEF Level
  <1>4. LevelLease(t)'
    BY <1>2, <1>3 DEF LevelLease
  <1>5. \A v \in Worker : pc[v] = "move" => path[v] \in Claim \ {t}
    BY DEF Abandoned, HoldPC, Recovering, RecoverPC
  <1>6. \A v \in Worker : pc[v] = "unmark" => lease'[path[v]] = None
    BY <1>1, <1>2 DEF Level, RecoverPC
  <1>7. QED
    BY <1>1, <1>2, <1>4, <1>5, <1>6 DEF Level, LevelLease, HoldPC, RecoverPC

LEMMA RenameLevel ==
    ASSUME LocalOK, Ownership, Counted, Level, NEW w \in Worker, NEW j \in Job,
           pending[j] # None, claims[j] < MaxClaims,
           RenameToLease(j, <<j, claims[j] + 1>>),
           pc[w] = "claim",
           pc' = [pc EXCEPT ![w] = "sign"],
           path' = [path EXCEPT ![w] = <<j, claims[j] + 1>>],
           UNCHANGED <<wasted, copy, locked, verdict>>
    PROVE  Level'
  <1> USE DEF LocalOK, TypeOK, PathOK, Ownership
  <1>0. PICK t \in Claim : t = <<j, claims[j] + 1>>
    BY AttemptsAssumption DEF Claim
  <1>1. JobOf(t) = j /\ claims[j] \in Nat /\ t[2] > claims[j]
    BY <1>0, AttemptsAssumption DEF JobOf
  <1>2. /\ lease'[t] = pending[j] /\ pending'[j] = None
        /\ claims'[j] = claims[j] + 1
        /\ \A u \in Claim \ {t} : lease'[u] = lease[u]
        /\ \A i \in Job \ {j} : pending'[i] = pending[i] /\ claims'[i] = claims[i]
    BY <1>0, <1>1 DEF RenameToLease
  <1>3. /\ pc'[w] = "sign" /\ path'[w] = t
        /\ \A v \in Worker \ {w} : pc'[v] = pc[v] /\ path'[v] = path[v]
    BY <1>0
  <1>4. pending[j].attempt <= Used(j) + 1
    BY DEF Level
  <1>5. \A i \in Job : claims[i] \in Nat /\ claims'[i] \in Nat /\ claims'[i] >= claims[i]
    BY <1>1, <1>2
  <1>6. \A u \in Claim : lease[u] # None => lease[u].attempt \in Nat /\ JobOf(u) \in Job
    BY DEF File, Claim, JobOf
  <1>7. LevelLease(t)'
    BY <1>1, <1>2, <1>4 DEF LevelLease
  <1>8. ASSUME NEW u \in Claim \ {t}, LevelLease(u)
        PROVE  LevelLease(u)'
    BY <1>2, <1>5, <1>6, <1>8 DEF LevelLease
  <1>9. \A i \in Job : pending'[i] # None => pending'[i].attempt <= Used(i)' + 1
    BY <1>2 DEF Level
  <1>10. ASSUME NEW v \in Worker \ {w}, pc[v] \in RecoverPC \union HoldPC, pc[v] # "unmark",
                 path[v] = t
         PROVE  lease[path[v]] = None
    BY <1>1, <1>10 DEF TokensNew
  <1>11. ASSUME NEW v \in Worker \ {w}
         PROVE  /\ pc[v] \in HoldPC \union {"peek", "judge", "rewrite"} => LevelLease(path[v])'
                /\ pc[v] \in {"resign", "uwrite", "fwrite", "judge"}
                      => copy[v].attempt <= Used(JobOf(path[v]))'
                /\ pc[v] = "rewrite" => copy[v].attempt <= Used(JobOf(path[v]))' + 1
                /\ pc[v] = "move" => lease'[path[v]].attempt <= Used(JobOf(path[v]))' + 1
                /\ pc[v] \in {"rewrite", "move"} /\ verdict[v] = "failed"
                      => Used(JobOf(path[v]))' >= MaxAttempts
                /\ pc[v] = "unmark" => lease'[path[v]] = None
    <2>1. CASE pc[v] \in RecoverPC \union HoldPC
      <3>1. /\ path[v] \in Claim /\ JobOf(path[v]) \in Job
            /\ copy[v] \in File => copy[v].attempt \in Nat
        BY <2>1 DEF Claim, JobOf, File
      <3>2. path'[v] = path[v]
        BY <1>3
      <3>3. pc[v] \in HoldPC \union {"peek", "judge", "rewrite"} => LevelLease(path[v])'
        <4>1. ASSUME LevelLease(path[v])
              PROVE  LevelLease(path[v])'
          <5>1. CASE path[v] = t
            BY <1>7, <3>2, <5>1 DEF LevelLease
          <5>2. CASE path[v] # t
            BY <1>8, <3>1, <3>2, <4>1, <5>2 DEF LevelLease
          <5>3. QED
            BY <5>1, <5>2
        <4>2. QED
          BY <4>1 DEF Level
      <3>4. pc[v] \in {"resign", "uwrite", "fwrite", "judge"}
               => copy[v].attempt <= Used(JobOf(path[v]))'
        BY <1>5, <3>1 DEF Level, CopyOK
      <3>5. pc[v] = "rewrite" => copy[v].attempt <= Used(JobOf(path[v]))' + 1
        BY <1>5, <3>1 DEF Level, CopyOK
      <3>6. pc[v] = "move" => lease'[path[v]].attempt <= Used(JobOf(path[v]))' + 1
        <4>1. ASSUME pc[v] = "move"
              PROVE  lease'[path[v]] = lease[path[v]] /\ lease[path[v]].attempt \in Nat
          BY <1>2, <1>6, <1>10, <2>1, <3>1, <4>1 DEF Recovering
        <4>2. QED
          BY <1>5, <3>1, <4>1 DEF Level
      <3>7. pc[v] \in {"rewrite", "move"} /\ verdict[v] = "failed"
               => Used(JobOf(path[v]))' >= MaxAttempts
        BY <1>5, <3>1, AttemptsAssumption DEF Level
      <3>8. pc[v] = "unmark" => lease'[path[v]] = None
        <4>1. ASSUME pc[v] = "unmark"
              PROVE  path[v] # t
          BY <1>1, <4>1 DEF Recovering, TokensNew
        <4>2. QED
          BY <1>2, <3>1, <4>1 DEF Level
      <3>9. QED
        BY <3>3, <3>4, <3>5, <3>6, <3>7, <3>8
    <2>2. QED
      BY <2>1 DEF HoldPC, RecoverPC
  <1>12. \A u \in Claim : u \notin locked' => LevelLease(u)'
    BY <1>7, <1>8 DEF Level
  <1>13. QED
    BY <1>3, <1>7, <1>9, <1>11, <1>12 DEF Level, LevelLease

LEMMA ClaimLevel ==
    ASSUME LocalOK, Ownership, Counted, Level, NEW w \in Worker, ClaimJob(w)
    PROVE  Level'
  <1> USE DEF LocalOK, TypeOK, PathOK, Ownership, Goto, files, locals
  <1>1. CASE ListPending(w)
    BY <1>1 DEF ListPending, Level, LevelLease, HoldPC
  <1>2. CASE ClaimRename(w)
    <2>1. PICK j \in cand[w] :
             \/ /\ pc'[w] \in {"scanpending", "claim"}
                /\ pc' = [pc EXCEPT ![w] = pc'[w]]
                /\ UNCHANGED <<pending, lease, claims, wasted, path>>
             \/ /\ pending[j] # None
                /\ claims[j] < MaxClaims
                /\ RenameToLease(j, <<j, claims[j] + 1>>)
                /\ path' = [path EXCEPT ![w] = <<j, claims[j] + 1>>]
                /\ pc' = [pc EXCEPT ![w] = "sign"]
      BY <1>2 DEF ClaimRename
    <2>2. j \in Job /\ pc[w] = "claim" /\ UNCHANGED <<wasted, copy, locked, verdict>>
      BY <1>2 DEF ClaimRename
    <2>3. CASE pc'[w] = "sign"
      BY <2>1, <2>2, <2>3, RenameLevel
    <2>4. CASE pc'[w] # "sign"
      <3>1. /\ pc'[w] \in {"scanpending", "claim"}
            /\ \A v \in Worker \ {w} : pc'[v] = pc[v]
            /\ UNCHANGED <<pending, lease, claims, wasted, path>>
        BY <2>1, <2>4
      <3>2. QED
        BY <2>2, <3>1 DEF Level, LevelLease, HoldPC
    <2>5. QED
      BY <2>3, <2>4
  <1>3. CASE ClaimRead(w)
    <2>1. /\ pc[w] = "sign" /\ path[w] \in Claim /\ lease[path[w]] # None
      BY <1>3 DEF ClaimRead, Holding, HoldsWell, HoldPC
    <2>2. lease[path[w]] \in File
      BY <2>1
    <2>3. /\ pc'[w] = "resign" /\ copy'[w].attempt = lease[path[w]].attempt
          /\ \A v \in Worker \ {w} : pc'[v] = pc[v] /\ copy'[v] = copy[v]
          /\ UNCHANGED <<pending, lease, claims, wasted, locked, path, verdict>>
      BY <1>3, <2>1, <2>2 DEF ClaimRead, File
    <2>4. QED
      BY <2>1, <2>3 DEF Level, LevelLease, HoldPC
  <1>4. CASE ClaimWrite(w)
    BY <1>4, HolderWriteLevel DEF ClaimWrite
  <1>5. QED
    BY <1>1, <1>2, <1>3, <1>4 DEF ClaimJob

LEMMA WorkLevel ==
    ASSUME LocalOK, Ownership, Level, NEW w \in Worker, Work(w) \/ Scan(w)
    PROVE  Level'
  <1> USE DEF LocalOK, TypeOK, Goto, files, locals
  <1>1. CASE Work(w)
    <2>1. /\ pc[w] \in {"start", "work"} /\ pc'[w] \in {"work", "uexists"}
          /\ \A v \in Worker \ {w} : pc'[v] = pc[v] /\ verdict'[v] = verdict[v]
          /\ UNCHANGED <<pending, lease, claims, wasted, locked, path, copy>>
      BY <1>1 DEF Work, StartHeartbeat, WorkSucceeds, WorkFails, WorkInterrupted
    <2>2. QED
      BY <2>1 DEF Level, LevelLease, HoldPC
  <1>2. CASE Scan(w)
    BY <1>2 DEF Scan, ScanPending, ReadPending, ScanRunning,
         ReadRunning, Level, LevelLease, HoldPC
  <1>3. QED
    BY <1>1, <1>2

LEMMA FinishLevel ==
    ASSUME LocalOK, Ownership, Level, NEW w \in Worker, Finish(w)
    PROVE  Level'
  <1> USE DEF LocalOK, TypeOK, PathOK, Ownership, Goto, files, locals
  <1>1. CASE UpdateExists(w) \/ FinishExists(w)
    BY <1>1 DEF UpdateExists, FinishExists, Level, LevelLease, HoldPC
  <1>2. CASE UpdateRead(w) \/ FinishRead(w)
    <2>1. /\ pc[w] \in {"uread", "fread"} /\ path[w] \in Claim /\ lease[path[w]] # None
          /\ OwnsLease(w)
      BY <1>2 DEF UpdateRead, FinishRead, Holding, HoldsWell, HoldPC, OwnsLease
    <2>2. /\ pc'[w] \in {"uwrite", "fwrite"} /\ copy'[w] = lease[path[w]]
          /\ \A v \in Worker \ {w} : pc'[v] = pc[v] /\ copy'[v] = copy[v]
          /\ UNCHANGED <<pending, lease, claims, wasted, locked, path, verdict>>
      BY <1>2, <2>1 DEF UpdateRead, FinishRead
    <2>3. QED
      BY <2>1, <2>2 DEF Level, LevelLease, HoldPC
  <1>3. CASE UpdateWrite(w)
    BY <1>3, HolderWriteLevel DEF UpdateWrite
  <1>4. CASE FinishWrite(w)
    BY <1>4, HolderWriteLevel DEF FinishWrite
  <1>5. CASE FinishMove(w)
    <2> DEFINE t == path[w]
    <2>1. PICK dir \in {"done", "failed"} :
             /\ pc[w] = "fmove" /\ t \in Claim /\ lease[t] # None
             /\ MoveLease(t, dir)
             /\ pc' = [pc EXCEPT ![w] = "stop"]
             /\ UNCHANGED <<claims, wasted, locked, path, copy, verdict>>
      BY <1>5 DEF FinishMove, Holding, HoldsWell, HoldPC
    <2>2. /\ lease'[t] = None
          /\ \A u \in Claim \ {t} : lease'[u] = lease[u]
          /\ pending' = pending
      BY <2>1, MoveFacts
    <2>3. \A v \in Worker : pc[v] = "move" => path[v] \in Claim \ {t}
      BY <2>1 DEF Abandoned, HoldPC, Recovering, RecoverPC
    <2>4. QED
      BY <2>1, <2>2, <2>3 DEF Level, LevelLease, HoldPC, RecoverPC
  <1>6. CASE StopHeartbeat(w)
    <2>1. /\ pc[w] = "stop" /\ pc'[w] \in {"raised", "interrupted", "list"}
          /\ \A v \in Worker \ {w} : /\ pc'[v] = pc[v] /\ path'[v] = path[v]
                                     /\ verdict'[v] = verdict[v]
          /\ UNCHANGED <<pending, lease, claims, wasted, locked, copy>>
      BY <1>6 DEF StopHeartbeat
    <2>2. QED
      BY <2>1 DEF Level, LevelLease, HoldPC
  <1>7. QED
    BY <1>1, <1>2, <1>3, <1>4, <1>5, <1>6 DEF Finish

(* The lease that a broken-off recovery unlocks is level: it has not been  *)
(* rewritten, or its attempt has just been counted, or it is gone.         *)
LEMMA BreakOffLevel ==
    ASSUME LocalOK, Ownership, Level, NEW w \in Worker, BreakOffRecovery(w)
    PROVE  Level'
  <1> USE DEF LocalOK, TypeOK, PathOK, Ownership, Goto
  <1>0. PICK t \in Claim, i \in Job : t = path[w] /\ i = JobOf(t)
    BY DEF BreakOffRecovery, Claim, JobOf
  <1>1. /\ pc[w] \in RecoverPC /\ pc'[w] = "interrupted"
        /\ locked' = locked \ {t}
        /\ \A v \in Worker \ {w} : /\ pc'[v] = pc[v] /\ path'[v] = path[v]
                                   /\ copy'[v] = copy[v] /\ verdict'[v] = verdict[v]
        /\ UNCHANGED <<pending, lease, claims>>
    BY <1>0 DEF BreakOffRecovery
  <1>2. /\ pc[w] = "move" /\ verdict[w] = "pending" => wasted'[i] = wasted[i] + 1
        /\ ~ (pc[w] = "move" /\ verdict[w] = "pending") => wasted' = wasted
        /\ \A j \in Job \ {i} : wasted'[j] = wasted[j]
    BY <1>0 DEF BreakOffRecovery
  <1>3. \A j \in Job : /\ Used(j) \in Nat /\ Used(j)' \in Nat /\ Used(j)' >= Used(j)
    BY <1>1, <1>2
  <1>4. /\ \A u \in Claim : JobOf(u) \in Job /\ (lease[u] # None => lease[u].attempt \in Nat)
        /\ \A v \in Worker : copy[v] # None => copy[v].attempt \in Nat
    BY DEF File, Claim, JobOf
  <1>5. ASSUME NEW u \in Claim, LevelLease(u)
        PROVE  LevelLease(u)'
    BY <1>1, <1>3, <1>4, <1>5 DEF LevelLease
  <1>6. LevelLease(t)'
    <2>1. CASE pc[w] \in {"peek", "judge", "rewrite"}
      BY <1>0, <1>5, <2>1 DEF Level
    <2>2. CASE pc[w] = "move"
      <3>1. lease[t] # None /\ lease[t] \in File /\ lease[t].attempt <= Used(i) + 1
        BY <1>0, <2>2 DEF Level, Recovering
      <3>2. CASE verdict[w] = "pending"
        BY <1>0, <1>1, <1>2, <2>2, <3>1, <3>2 DEF LevelLease
      <3>3. CASE verdict[w] = "failed"
        <4>1. Used(i) >= MaxAttempts
          BY <1>0, <2>2, <3>3 DEF Level
        <4>2. lease[t].attempt \in 1 .. MaxAttempts
          BY <3>1 DEF File
        <4>3. lease[t].attempt <= Used(i)
          BY <1>3, <4>1, <4>2, AttemptsAssumption
        <4>4. LevelLease(t)
          BY <1>0, <4>3 DEF LevelLease
        <4>5. QED
          BY <1>5, <4>4
      <3>4. QED
        BY <2>2, <3>2, <3>3 DEF VerdictOK
    <2>3. CASE pc[w] = "unmark"
      BY <1>0, <1>1, <2>3 DEF Level, LevelLease
    <2>4. QED
      BY <1>1, <2>1, <2>2, <2>3 DEF RecoverPC
  <1>7. \A j \in Job : pending'[j] # None => pending'[j].attempt <= Used(j)' + 1
    <2>1. \A j \in Job : pending[j] # None => pending[j].attempt \in Nat
      BY DEF File
    <2>2. QED
      BY <1>1, <1>3, <2>1 DEF Level
  <1>8. \A u \in Claim : u \notin locked' => LevelLease(u)'
    BY <1>1, <1>5, <1>6 DEF Level
  <1>9. ASSUME NEW v \in Worker \ {w}, pc[v] \in RecoverPC \union HoldPC
        PROVE  /\ pc[v] \in HoldPC \union {"peek", "judge", "rewrite"} => LevelLease(path[v])'
               /\ pc[v] \in {"resign", "uwrite", "fwrite", "judge"}
                     => copy[v].attempt <= Used(JobOf(path[v]))'
               /\ pc[v] = "rewrite" => copy[v].attempt <= Used(JobOf(path[v]))' + 1
               /\ pc[v] = "move" => lease[path[v]].attempt <= Used(JobOf(path[v]))' + 1
               /\ pc[v] \in {"rewrite", "move"} /\ verdict[v] = "failed"
                     => Used(JobOf(path[v]))' >= MaxAttempts
               /\ pc[v] = "unmark" => lease[path[v]] = None
    <2>1. PICK u \in Claim : path[v] = u /\ path'[v] = u
      BY <1>1, <1>9
    <2>2. PICK j \in Job : j = JobOf(u)
      BY <1>4
    <2>3. Used(JobOf(path[v]))' = Used(j)'
      BY <2>1, <2>2
    <2>4. pc[v] \in HoldPC \union {"peek", "judge", "rewrite"} => LevelLease(path[v])'
      <3>1. LevelLease(path[v])' <=> LevelLease(u)'
        BY <2>1 DEF LevelLease
      <3>2. pc[v] \in HoldPC \union {"peek", "judge", "rewrite"} => LevelLease(u)
        BY <2>1 DEF Level
      <3>3. QED
        BY <1>5, <3>1, <3>2
    <2>5. pc[v] \in {"resign", "uwrite", "fwrite", "judge"} => copy[v].attempt <= Used(j)'
      <3> SUFFICES ASSUME pc[v] \in {"resign", "uwrite", "fwrite", "judge"}
                   PROVE  copy[v].attempt <= Used(j)'
        OBVIOUS
      <3>1. copy[v].attempt <= Used(j) /\ copy[v].attempt \in Nat
        BY <2>1, <2>2 DEF Level, CopyOK, File
      <3>2. QED
        BY <1>3, <3>1
    <2>6. pc[v] = "rewrite" => copy[v].attempt <= Used(j)' + 1
      <3> SUFFICES ASSUME pc[v] = "rewrite"
                   PROVE  copy[v].attempt <= Used(j)' + 1
        OBVIOUS
      <3>1. copy[v].attempt <= Used(j) + 1 /\ copy[v].attempt \in Nat
        BY <2>1, <2>2 DEF Level, CopyOK, File
      <3>2. QED
        BY <1>3, <3>1
    <2>7. pc[v] = "move" => lease[u].attempt <= Used(j)' + 1
      <3> SUFFICES ASSUME pc[v] = "move"
                   PROVE  lease[u].attempt <= Used(j)' + 1
        OBVIOUS
      <3>1. lease[u] # None /\ lease[u].attempt <= Used(j) + 1
        BY <2>1, <2>2 DEF Level, Recovering
      <3>2. QED
        BY <1>3, <1>4, <3>1
    <2>8. pc[v] \in {"rewrite", "move"} /\ verdict[v] = "failed" => Used(j)' >= MaxAttempts
      <3> SUFFICES ASSUME pc[v] \in {"rewrite", "move"}, verdict[v] = "failed"
                   PROVE  Used(j)' >= MaxAttempts
        OBVIOUS
      <3>1. Used(j) >= MaxAttempts
        BY <2>1, <2>2 DEF Level
      <3>2. QED
        BY <1>3, <3>1, AttemptsAssumption
    <2>9. pc[v] = "unmark" => lease[path[v]] = None
      BY DEF Level
    <2>10. QED
      BY <2>1, <2>3, <2>4, <2>5, <2>6, <2>7, <2>8, <2>9
  <1>10. ASSUME NEW v \in Worker
         PROVE  /\ pc'[v] \in HoldPC \union {"peek", "judge", "rewrite"} => LevelLease(path[v])'
                /\ pc'[v] \in {"resign", "uwrite", "fwrite", "judge"}
                      => copy'[v].attempt <= Used(JobOf(path[v]))'
                /\ pc'[v] = "rewrite" => copy'[v].attempt <= Used(JobOf(path[v]))' + 1
                /\ pc'[v] = "move" => lease'[path'[v]].attempt <= Used(JobOf(path[v]))' + 1
                /\ pc'[v] \in {"rewrite", "move"} /\ verdict'[v] = "failed"
                      => Used(JobOf(path[v]))' >= MaxAttempts
                /\ pc'[v] = "unmark" => lease'[path'[v]] = None
    <2>1. CASE v = w
      BY <1>1, <2>1 DEF HoldPC
    <2>2. CASE v # w /\ pc[v] \in RecoverPC \union HoldPC
      BY <1>1, <1>9, <2>2
    <2>3. CASE v # w /\ pc[v] \notin RecoverPC \union HoldPC
      BY <1>1, <2>3 DEF RecoverPC, HoldPC
    <2>4. QED
      BY <2>1, <2>2, <2>3
  <1> HIDE DEF Used
  <1>11. QED
    BY <1>7, <1>8, <1>10 DEF Level

LEMMA EnvironmentLevel ==
    ASSUME LocalOK, Ownership, Level, Regime,
           (\E w \in Worker : Beat(w) \/ BreakOffRecovery(w) \/ Crash(w)) \/ TimePasses
    PROVE  Level'
  <1> USE DEF LocalOK, TypeOK, PathOK, Ownership, Goto, files, locals
  <1>1. ASSUME NEW w \in Worker, Beat(w)
        PROVE  Level'
    BY <1>1 DEF Beat, Level, LevelLease
  <1>2. ASSUME NEW w \in Worker, Crash(w)
        PROVE  Level'
    <2>1. /\ pc'[w] = "dead"
          /\ \A v \in Worker \ {w} : /\ pc'[v] = pc[v] /\ path'[v] = path[v]
                                     /\ copy'[v] = copy[v] /\ verdict'[v] = verdict[v]
          /\ UNCHANGED <<pending, lease, claims, wasted, locked>>
      BY <1>2 DEF Crash
    <2>2. QED
      BY <2>1 DEF Level, LevelLease, HoldPC
  <1>7. ASSUME NEW w \in Worker, BreakOffRecovery(w)
        PROVE  Level'
    BY <1>7, BreakOffLevel
  <1>3. ASSUME NEW t \in Claim, AgeBeat(t)
        PROVE  Level'
    BY <1>3 DEF AgeBeat, Level, LevelLease
  <1>4. ASSUME NEW t \in Claim, AgeLease(t)
        PROVE  Level'
    <2>1. /\ lease[t] \in File /\ lease[t] # None
          /\ \A w \in Worker : path[w] = t => pc[w] # "move"
          /\ lease'[t] = [lease[t] EXCEPT !.old = TRUE]
          /\ \A u \in Claim \ {t} : lease'[u] = lease[u]
          /\ UNCHANGED <<pending, claims, wasted, locked, pc, locals>>
      BY <1>4 DEF AgeLease, Regime, InTransit
    <2>2. lease'[t].attempt = lease[t].attempt
      BY <2>1 DEF File
    <2>3. \A u \in Claim : LevelLease(u) => LevelLease(u)'
      BY <2>1, <2>2 DEF LevelLease
    <2>4. \A w \in Worker : pc[w] \in HoldPC \union {"peek", "judge", "rewrite"} => LevelLease(path[w])'
      <3>1. \A w \in Worker : pc[w] \in HoldPC \union {"peek", "judge", "rewrite"} => path[w] \in Claim
        BY DEF RecoverPC
      <3>2. QED
        BY <2>1, <2>2, <3>1 DEF Level, LevelLease
    <2>5. \A w \in Worker : pc[w] = "move" => path[w] \in Claim \ {t}
      BY <2>1 DEF RecoverPC
    <2>6. \A w \in Worker : pc[w] = "unmark" => path[w] \in Claim \ {t}
      BY <2>1 DEF RecoverPC, Level
    <2>7. QED
      BY <2>1, <2>3, <2>4, <2>5, <2>6 DEF Level
  <1>5. ASSUME NEW j \in Job, AgePending(j)
        PROVE  Level'
    BY <1>5 DEF AgePending, Regime
  <1>6. QED
    BY <1>1, <1>2, <1>3, <1>4, <1>5, <1>7 DEF TimePasses

LEMMA LevelNext == LocalOK /\ Ownership /\ Counted /\ Level /\ Regime /\ [Next]_vars => Level'
  <1> SUFFICES ASSUME LocalOK, Ownership, Counted, Level, Regime, [Next]_vars
               PROVE  Level'
    OBVIOUS
  <1>1. CASE UNCHANGED vars
    BY <1>1 DEF vars, files, locals, Level, LevelLease
  <1>2. ASSUME NEW w \in Worker, WorkerStep(w)
        PROVE  Level'
    BY <1>2, RecoverLevel, ClaimLevel, WorkLevel, FinishLevel DEF WorkerStep
  <1>3. CASE (\E w \in Worker : Beat(w) \/ BreakOffRecovery(w) \/ Crash(w)) \/ TimePasses
    BY <1>3, EnvironmentLevel
  <1>4. QED
    BY <1>1, <1>2, <1>3 DEF Next, QueueStep, Terminated

(* The attempt in a job's file and the number of its claims stay in step:  *)
(* what recover_stale_jobs and claim_job need to agree on across hosts.    *)
THEOREM AccountKept ==
    ASSUME Regime
    PROVE  Spec => [](LocalOK /\ Ownership /\ Counted /\ Level)
  <1>1. Init => Counted /\ Level
    BY CountedInit, LevelInit
  <1>2. /\ LocalOK /\ Ownership /\ (LocalOK /\ Ownership)'
        /\ Counted /\ Level /\ [Next]_vars
        => (Counted /\ Level)'
    BY CountedNext, LevelNext
  <1>3. QED
    BY OwnershipKept, <1>1, <1>2, PTL DEF Spec

-----------------------------------------------------------------------------
(***************************************************************************)
(* The queue implements the job service of AuditJobs, in the regime it is  *)
(* written for: every operation on its files is one step of the service or *)
(* none.  Claiming starts a job, the last rename of finish_job ends it,    *)
(* the rename of recover_stale_jobs reclaims it, and the death of the      *)
(* worker that holds its lease is the death of its owner.                  *)
(***************************************************************************)
LEMMA OwnerInFacts == /\ OwnerIn({}) = None
                      /\ \A w : OwnerIn({w}) = w
  BY DEF OwnerIn

(* A job has at most one owner.                                            *)
LEMMA SoleOwner ==
    ASSUME LocalOK, Ownership, NEW j \in Job, NEW w \in OwnersOf(j)
    PROVE  OwnersOf(j) = {w}
  <1>1. ASSUME NEW v \in OwnersOf(j)
        PROVE  v = w
    <2>1. /\ v \in Worker /\ w \in Worker
          /\ pc[v] \in HoldPC /\ pc[w] \in HoldPC
          /\ path[v] \in LeasesOf(j) /\ path[w] \in LeasesOf(j)
      BY DEF OwnersOf, LeasesOf, LocalOK, PathOK
    <2>2. QED
      BY <2>1 DEF Ownership, OneFile, OneHolder
  <1>2. QED
    BY <1>1

(* A step that hands no file over and after which the same workers hold    *)
(* the same leases is no step of the service.                              *)
LEMMA Stutters ==
    ASSUME \A j \in Job : /\ pending'[j] = None <=> pending[j] = None
                          /\ failed'[j] = None <=> failed[j] = None,
           done' = done, claims' = claims, wasted' = wasted,
           \A j \in Job : OwnersOf(j)' = OwnersOf(j)
    PROVE  UNCHANGED Service!jvars
  <1>1. \A j \in Job : PhaseOf(j)' = PhaseOf(j)
    BY DEF PhaseOf
  <1>2. QED
    BY <1>1 DEF Service!jvars

(* A step of one worker that keeps every lease where it is, and that       *)
(* neither takes nor gives up a lease.                                     *)
LEMMA Quiet ==
    ASSUME LocalOK, NEW w \in Worker,
           \A t \in Claim : lease'[t] = None <=> lease[t] = None,
           \A v \in Worker \ {w} : pc'[v] = pc[v] /\ path'[v] = path[v],
           \/ pc[w] \in HoldPC /\ pc'[w] \in HoldPC /\ path'[w] = path[w]
           \/ ~ (pc[w] \in HoldPC /\ lease[path[w]] # None) /\ pc'[w] \notin HoldPC,
           UNCHANGED <<pending, done, failed, claims, wasted>>
    PROVE  UNCHANGED Service!jvars
  <1>1. ASSUME NEW j \in Job
        PROVE  OwnersOf(j)' = OwnersOf(j)
    <2>1. \A v \in Worker : v \in OwnersOf(j)' <=> v \in OwnersOf(j)
      BY DEF OwnersOf, LocalOK, PathOK
    <2>2. QED
      BY <2>1 DEF OwnersOf
  <1>2. QED
    BY <1>1, Stutters

-----------------------------------------------------------------------------
(* Recovery: the rename of an abandoned lease reclaims its job.            *)
LEMMA RequeueReclaims ==
    ASSUME LocalOK, Ownership, Counted, Level, NEW w \in Worker, RequeueLease(w)
    PROVE  Service!JobsNext
  <1> USE DEF LocalOK, TypeOK, PathOK, Ownership, Goto
  <1>0. PICK t \in Claim, i \in Job : t = path[w] /\ i = JobOf(t)
    BY DEF RequeueLease, RecoverPC, Claim, JobOf
  <1>1. /\ pc[w] = "move" /\ t \in due[w] /\ lease[t] # None
        /\ verdict[w] \in {"pending", "failed"} /\ MoveLease(t, verdict[w])
        /\ pc' = [pc EXCEPT ![w] = "unmark"] /\ UNCHANGED <<claims, wasted, path>>
    BY <1>0 DEF RequeueLease, Recovering, RecoverPC, VerdictOK
  <1>2. /\ lease'[t] = None
        /\ \A u \in Claim \ {t} : lease'[u] = lease[u]
        /\ verdict[w] = "pending" => /\ failed' = failed /\ done' = done
                                     /\ pending'[i] # None
                                     /\ \A j \in Job \ {i} : pending'[j] = pending[j]
        /\ verdict[w] = "failed" => /\ pending' = pending /\ done' = done
                                    /\ failed'[i] # None
                                    /\ \A j \in Job \ {i} : failed'[j] = failed[j]
    BY <1>0, <1>1, MoveFacts
  <1>3. /\ LeasesOf(i) = {t}
        /\ pending[i] = None /\ i \notin done /\ failed[i] = None
    <2>1. t \in LeasesOf(i)
      BY <1>0, <1>1 DEF LeasesOf
    <2>2. QED
      BY <1>1, <2>1 DEF OneFile, Finished
  <1>4. OwnersOf(i) = {}
    <2>1. ASSUME NEW v \in OwnersOf(i)
          PROVE  FALSE
      <3>1. pc[v] \in HoldPC /\ path[v] \in LeasesOf(i)
        BY DEF OwnersOf, LeasesOf
      <3>2. QED
        BY <1>0, <1>1, <1>3, <3>1 DEF Abandoned, OwnersOf
    <2>2. QED
      BY <2>1
  <1>5. \A v \in Worker : /\ pc'[v] \in HoldPC <=> pc[v] \in HoldPC
                          /\ pc[v] \in HoldPC => path[v] \in Claim /\ path[v] # t
    BY <1>0, <1>1 DEF HoldPC, Abandoned
  <1>6. \A j \in Job : OwnersOf(j)' = OwnersOf(j)
    <2>1. \A j \in Job : \A v \in Worker : v \in OwnersOf(j)' <=> v \in OwnersOf(j)
      <3> SUFFICES ASSUME NEW j \in Job, NEW v \in Worker
                   PROVE  v \in OwnersOf(j)' <=> v \in OwnersOf(j)
        OBVIOUS
      <3>1. /\ pc'[v] \in HoldPC <=> pc[v] \in HoldPC
            /\ path' = path
        BY <1>1, <1>5
      <3>2. pc[v] \in HoldPC => lease'[path[v]] = lease[path[v]]
        BY <1>2, <1>5
      <3>3. QED
        BY <3>1, <3>2 DEF OwnersOf
    <2>2. QED
      BY <2>1 DEF OwnersOf
  <1>7. PhaseOf(i) = "running" /\ OwnerIn(OwnersOf(i)) = None
    BY <1>3, <1>4, OwnerInFacts DEF PhaseOf
  <1>8. PhaseOf(i)' = IF Used(i) < MaxAttempts THEN "waiting" ELSE "failed"
    <2>0. claims[i] \in Nat
      BY <1>1
    <2>1. CASE verdict[w] = "pending"
      <3>1. lease[t].attempt > Used(i) /\ lease[t].attempt \in 1 .. MaxAttempts
        BY <1>0, <1>1, <2>1 DEF Counted, Attempts, File
      <3>2. Used(i) < MaxAttempts
        BY <2>0, <3>1, AttemptsAssumption
      <3>3. QED
        BY <1>1, <1>2, <1>3, <2>1, <3>2 DEF PhaseOf
    <2>2. CASE verdict[w] = "failed"
      <3>1. Used(i) >= MaxAttempts
        BY <1>0, <1>1, <2>2 DEF Level
      <3>2. ~ Used(i) < MaxAttempts
        BY <2>0, <3>1, AttemptsAssumption
      <3>3. QED
        BY <1>1, <1>2, <1>3, <2>2, <3>2 DEF PhaseOf
    <2>3. QED
      BY <1>1, <2>1, <2>2
  <1>9. \A j \in Job \ {i} : PhaseOf(j)' = PhaseOf(j)
    BY <1>1, <1>2 DEF PhaseOf
  <1>10. Service!Reclaim(i)
    BY <1>1, <1>6, <1>7, <1>8, <1>9 DEF Service!Reclaim
  <1>11. QED
    BY <1>1, <1>10 DEF Service!JobsNext

LEMMA RecoverServes ==
    ASSUME LocalOK, Ownership, Counted, Level, NEW w \in Worker, Recover(w)
    PROVE  [Service!JobsNext]_(Service!jvars)
  <1> USE DEF LocalOK, TypeOK, PathOK, Ownership, Goto, files, HoldPC
  <1>1. CASE ListRunning(w) \/ LockLease(w) \/ PeekPayload(w) \/ JudgeLease(w) \/ UnmarkLease(w)
    <2>1. /\ pc[w] \notin HoldPC /\ pc'[w] \notin HoldPC
          /\ \A v \in Worker \ {w} : pc'[v] = pc[v] /\ path'[v] = path[v]
          /\ UNCHANGED <<pending, lease, done, failed, claims, wasted>>
      BY <1>1 DEF ListRunning, LockLease, PeekPayload, JudgeLease, UnmarkLease, SkipLease
    <2>2. QED
      BY <2>1, Quiet
  <1>2. CASE RewriteLease(w)
    <2>1. /\ pc[w] = "rewrite" /\ path[w] \in Claim /\ copy[w] \in File /\ lease[path[w]] # None
          /\ WriteLease(path[w], copy[w])
          /\ pc'[w] \notin HoldPC
          /\ \A v \in Worker \ {w} : pc'[v] = pc[v] /\ path'[v] = path[v]
          /\ UNCHANGED <<pending, done, failed, claims, wasted>>
      BY <1>2 DEF RewriteLease, CopyOK, RecoverPC, Recovering
    <2>2. \A t \in Claim : lease'[t] = None <=> lease[t] = None
      BY <2>1, WriteFacts
    <2>3. QED
      BY <2>1, <2>2, Quiet
  <1>3. QED
    BY <1>1, <1>2, RequeueReclaims DEF Recover

-----------------------------------------------------------------------------
(* claim_job: the rename of the pending file starts the job.               *)
LEMMA RenameStarts ==
    ASSUME LocalOK, Ownership, Counted, NEW w \in Worker, NEW j \in Job,
           pending[j] # None, claims[j] < MaxClaims,
           RenameToLease(j, <<j, claims[j] + 1>>),
           pc[w] = "claim",
           pc' = [pc EXCEPT ![w] = "sign"],
           path' = [path EXCEPT ![w] = <<j, claims[j] + 1>>],
           UNCHANGED <<done, failed, wasted>>
    PROVE  Service!JobsNext
  <1> USE DEF LocalOK, TypeOK, PathOK, Ownership
  <1>0. PICK t \in Claim : t = <<j, claims[j] + 1>>
    BY AttemptsAssumption DEF Claim
  <1>1. JobOf(t) = j /\ claims[j] \in Nat /\ t[2] > claims[j]
    BY <1>0, AttemptsAssumption DEF JobOf
  <1>2. /\ lease'[t] # None /\ pending'[j] = None
        /\ \A u \in Claim \ {t} : lease'[u] = lease[u]
        /\ \A i \in Job \ {j} : pending'[i] = pending[i]
        /\ claims' = [claims EXCEPT ![j] = @ + 1]
    BY <1>0, <1>1 DEF RenameToLease
  <1>3. /\ pc'[w] = "sign" /\ path'[w] = t
        /\ \A v \in Worker \ {w} : pc'[v] = pc[v] /\ path'[v] = path[v]
    BY <1>0
  <1>4. LeasesOf(j) = {} /\ j \notin done /\ failed[j] = None
    BY DEF OneFile, Finished
  <1>5. \A v \in Worker : pc[v] \in HoldPC => path[v] \in Claim \ {t}
    BY <1>1 DEF TokensNew, Holds
  <1>6. Used(j) < MaxAttempts
    <2>1. pending[j].attempt > Used(j) /\ pending[j].attempt \in 1 .. MaxAttempts
      BY DEF Counted, Attempts, File
    <2>2. QED
      BY <1>1, <2>1, AttemptsAssumption
  <1>7. PhaseOf(j) = "waiting" /\ PhaseOf(j)' = "running"
    BY <1>2, <1>4 DEF PhaseOf
  <1>8. \A i \in Job \ {j} : PhaseOf(i)' = PhaseOf(i)
    BY <1>2 DEF PhaseOf
  <1>9. OwnersOf(j)' = {w}
    <2>1. w \in OwnersOf(j)'
      BY <1>1, <1>2, <1>3 DEF OwnersOf, HoldPC
    <2>2. ASSUME NEW v \in OwnersOf(j)', v # w
          PROVE  FALSE
      <3>1. /\ v \in Worker /\ pc[v] \in HoldPC /\ JobOf(path[v]) = j /\ lease'[path[v]] # None
        BY <1>3, <2>2 DEF OwnersOf
      <3>2. path[v] \in LeasesOf(j)
        BY <1>2, <1>5, <3>1 DEF LeasesOf
      <3>3. QED
        BY <1>4, <3>2
    <2>3. QED
      BY <2>1, <2>2
  <1>10. \A i \in Job \ {j} : OwnersOf(i)' = OwnersOf(i)
    <2>1. \A i \in Job \ {j} : \A v \in Worker : v \in OwnersOf(i)' <=> v \in OwnersOf(i)
      BY <1>1, <1>2, <1>3, <1>5 DEF OwnersOf, HoldPC
    <2>2. QED
      BY <2>1 DEF OwnersOf
  <1>11. OwnerIn(OwnersOf(j))' = w
    BY <1>9, OwnerInFacts
  <1>14. [i \in Job |-> claims'[i] + wasted'[i]]
            = [[i \in Job |-> claims[i] + wasted[i]] EXCEPT ![j] = @ + 1]
    <2>1. \A i \in Job : claims'[i] + wasted'[i]
                           = IF i = j THEN claims[i] + wasted[i] + 1 ELSE claims[i] + wasted[i]
      BY <1>1, <1>2
    <2> DEFINE before == [i \in Job |-> claims[i] + wasted[i]]
    <2>2. before[j] = claims[j] + wasted[j]
      OBVIOUS
    <2>3. QED
      BY <2>1, <2>2
  <1>12. Service!Start(w, j)
    <2>2. [i \in Job |-> PhaseOf(i)]' = [[i \in Job |-> PhaseOf(i)] EXCEPT ![j] = "running"]
      BY <1>7, <1>8
    <2>3. [i \in Job |-> OwnerIn(OwnersOf(i))]'
            = [[i \in Job |-> OwnerIn(OwnersOf(i))] EXCEPT ![j] = w]
      BY <1>10, <1>11
    <2>4. [i \in Job |-> claims[i] + wasted[i]][j] < MaxAttempts
      BY <1>6
    <2>5. QED
      BY <1>7, <1>14, <2>2, <2>3, <2>4 DEF Service!Start
  <1>13. QED
    BY <1>12 DEF Service!JobsNext

LEMMA ClaimServes ==
    ASSUME LocalOK, Ownership, Counted, NEW w \in Worker, ClaimJob(w)
    PROVE  [Service!JobsNext]_(Service!jvars)
  <1> USE DEF LocalOK, TypeOK, PathOK, Ownership, Goto, files, HoldPC
  <1>1. CASE ListPending(w)
    <2>1. /\ pc[w] \notin HoldPC /\ pc'[w] \notin HoldPC
          /\ \A v \in Worker \ {w} : pc'[v] = pc[v] /\ path'[v] = path[v]
          /\ UNCHANGED <<pending, lease, done, failed, claims, wasted>>
      BY <1>1 DEF ListPending
    <2>2. QED
      BY <2>1, Quiet
  <1>2. CASE ClaimRename(w)
    <2>1. PICK j \in cand[w] :
             \/ /\ pc' = [pc EXCEPT ![w] = IF cand'[w] = {} THEN "scanpending" ELSE "claim"]
                /\ UNCHANGED <<pending, lease, claims, wasted, path>>
             \/ /\ pending[j] # None
                /\ claims[j] < MaxClaims
                /\ RenameToLease(j, <<j, claims[j] + 1>>)
                /\ path' = [path EXCEPT ![w] = <<j, claims[j] + 1>>]
                /\ pc' = [pc EXCEPT ![w] = "sign"]
      BY <1>2 DEF ClaimRename
    <2>2. j \in Job /\ pc[w] = "claim" /\ UNCHANGED <<done, failed, wasted>>
      BY <1>2 DEF ClaimRename
    <2>3. CASE pc'[w] = "sign"
      BY <2>1, <2>2, <2>3, RenameStarts
    <2>4. CASE pc'[w] # "sign"
      <3>1. /\ pc'[w] \in {"scanpending", "claim"}
            /\ \A v \in Worker \ {w} : pc'[v] = pc[v] /\ path'[v] = path[v]
            /\ UNCHANGED <<pending, lease, claims, wasted>>
        BY <2>1, <2>4
      <3>2. pc'[w] \notin HoldPC /\ pc[w] \notin HoldPC
        BY <2>2, <3>1
      <3>3. QED
        BY <2>2, <3>1, <3>2, Quiet
    <2>5. QED
      BY <2>3, <2>4
  <1>3. CASE ClaimRead(w)
    <2>1. pc[w] = "sign" /\ lease[path[w]] # None
      BY <1>3 DEF ClaimRead, Holding, HoldsWell
    <2>2. /\ pc[w] \in HoldPC /\ pc'[w] \in HoldPC
          /\ \A v \in Worker \ {w} : pc'[v] = pc[v]
          /\ UNCHANGED <<pending, lease, done, failed, claims, wasted, path>>
      BY <1>3, <2>1 DEF ClaimRead
    <2>3. QED
      BY <2>2, Quiet
  <1>4. CASE ClaimWrite(w)
    <2>1. /\ pc[w] = "resign" /\ path[w] \in Claim /\ copy[w] \in File /\ lease[path[w]] # None
          /\ WriteLease(path[w], copy[w])
          /\ pc'[w] \in HoldPC
          /\ \A v \in Worker \ {w} : pc'[v] = pc[v]
          /\ UNCHANGED <<pending, done, failed, claims, wasted, path>>
      BY <1>4 DEF ClaimWrite, CopyOK, Holding, HoldsWell
    <2>2. \A t \in Claim : lease'[t] = None <=> lease[t] = None
      BY <2>1, WriteFacts
    <2>3. QED
      BY <2>1, <2>2, Quiet
  <1>5. QED
    BY <1>1, <1>2, <1>3, <1>4 DEF ClaimJob

-----------------------------------------------------------------------------
LEMMA WorkServes ==
    ASSUME LocalOK, Ownership, NEW w \in Worker, Work(w) \/ Scan(w)
    PROVE  [Service!JobsNext]_(Service!jvars)
  <1> USE DEF LocalOK, TypeOK, Goto, files, locals, HoldPC
  <1>1. CASE Work(w)
    <2>1. /\ pc[w] \in HoldPC /\ pc'[w] \in HoldPC
          /\ \A v \in Worker \ {w} : pc'[v] = pc[v]
          /\ UNCHANGED <<pending, lease, done, failed, claims, wasted, path>>
      BY <1>1 DEF Work, StartHeartbeat, WorkSucceeds, WorkFails, WorkInterrupted
    <2>2. QED
      BY <2>1, Quiet
  <1>2. CASE Scan(w)
    <2>1. /\ pc[w] \notin HoldPC /\ pc'[w] \notin HoldPC
          /\ \A v \in Worker \ {w} : pc'[v] = pc[v]
          /\ UNCHANGED <<pending, lease, done, failed, claims, wasted, path>>
      BY <1>2 DEF Scan, ScanPending, ReadPending, ScanRunning,
         ReadRunning
    <2>2. QED
      BY <2>1, Quiet
  <1>3. QED
    BY <1>1, <1>2

(* finish_job: the rename to done/ or failed/ ends the job.                *)
LEMMA FinishEnds ==
    ASSUME LocalOK, Ownership, NEW w \in Worker, FinishMove(w)
    PROVE  Service!JobsNext
  <1> USE DEF LocalOK, TypeOK, PathOK, Ownership, Goto
  <1>0. PICK t \in Claim, i \in Job : t = path[w] /\ i = JobOf(t)
    BY DEF FinishMove, HoldPC, Claim, JobOf
  <1>1. PICK dir \in {"done", "failed"} :
           /\ pc[w] = "fmove" /\ lease[t] # None
           /\ MoveLease(t, dir)
           /\ pc' = [pc EXCEPT ![w] = "stop"]
           /\ UNCHANGED <<claims, wasted, path>>
    BY <1>0 DEF FinishMove, Holding, HoldsWell, HoldPC
  <1>2. /\ lease'[t] = None
        /\ \A u \in Claim \ {t} : lease'[u] = lease[u]
        /\ pending' = pending
        /\ dir = "done" => failed' = failed /\ done' = done \union {i}
        /\ dir = "failed" => /\ done' = done
                             /\ failed'[i] # None
                             /\ \A j \in Job \ {i} : failed'[j] = failed[j]
    BY <1>0, <1>1, MoveFacts
  <1>3. LeasesOf(i) = {t} /\ i \notin done /\ failed[i] = None /\ pending[i] = None
    <2>1. t \in LeasesOf(i)
      BY <1>0, <1>1 DEF LeasesOf
    <2>2. QED
      BY <2>1 DEF OneFile, Finished
  <1>4. OwnersOf(i) = {w}
    <2>1. w \in OwnersOf(i)
      BY <1>0, <1>1 DEF OwnersOf, HoldPC
    <2>2. QED
      BY <2>1, SoleOwner
  <1>5. OwnersOf(i)' = {}
    <2>1. ASSUME NEW v \in OwnersOf(i)'
          PROVE  FALSE
      <3>1. /\ v \in Worker /\ pc[v] \in HoldPC /\ JobOf(path[v]) = i
            /\ lease'[path[v]] # None /\ path[v] \in Claim
        BY <1>1, <2>1 DEF OwnersOf, HoldPC
      <3>2. path[v] \in LeasesOf(i) /\ path[v] # t
        BY <1>2, <3>1 DEF LeasesOf
      <3>3. QED
        BY <1>3, <3>2
    <2>2. QED
      BY <2>1
  <1>6. \A j \in Job \ {i} : OwnersOf(j)' = OwnersOf(j)
    <2>1. ASSUME NEW j \in Job \ {i}, NEW v \in Worker
          PROVE  v \in OwnersOf(j)' <=> v \in OwnersOf(j)
      <3>1. /\ pc'[v] \in HoldPC <=> pc[v] \in HoldPC
            /\ path' = path
            /\ pc[v] \in HoldPC => path[v] \in Claim
        BY <1>1 DEF HoldPC
      <3>2. pc[v] \in HoldPC /\ JobOf(path[v]) = j => lease'[path[v]] = lease[path[v]]
        BY <1>0, <1>2, <3>1
      <3>3. QED
        BY <3>1, <3>2 DEF OwnersOf
    <2>2. QED
      BY <2>1 DEF OwnersOf
  <1>7. PhaseOf(i)' = dir
    <2>1. CASE dir = "done"
      BY <1>2, <1>3, <2>1 DEF PhaseOf
    <2>2. CASE dir = "failed"
      BY <1>2, <1>3, <2>2 DEF PhaseOf
    <2>3. QED
      BY <2>1, <2>2
  <1>8. \A j \in Job \ {i} : PhaseOf(j)' = PhaseOf(j)
    BY <1>2 DEF PhaseOf
  <1>9. OwnerIn(OwnersOf(i)) = w /\ OwnerIn(OwnersOf(i))' = None
    BY <1>4, <1>5, OwnerInFacts
  <1>12. UNCHANGED [j \in Job |-> claims[j] + wasted[j]]
    BY <1>1
  <1>13. PhaseOf(i)' \in {"done", "failed"}
    BY <1>1, <1>7
  <1>10. Service!End(w, i)
    BY <1>6, <1>8, <1>9, <1>12, <1>13 DEF Service!End
  <1>11. QED
    BY <1>10 DEF Service!JobsNext

LEMMA FinishServes ==
    ASSUME LocalOK, Ownership, NEW w \in Worker, Finish(w)
    PROVE  [Service!JobsNext]_(Service!jvars)
  <1> USE DEF LocalOK, TypeOK, PathOK, Ownership, Goto, files, locals, HoldPC
  <1>1. CASE UpdateExists(w) \/ UpdateRead(w) \/ FinishExists(w) \/ FinishRead(w)
    <2>1. /\ pc[w] \in HoldPC /\ pc'[w] \in HoldPC
          /\ \A v \in Worker \ {w} : pc'[v] = pc[v]
          /\ UNCHANGED <<pending, lease, done, failed, claims, wasted, path>>
      BY <1>1 DEF UpdateExists, UpdateRead, FinishExists, FinishRead, FinishVanished
    <2>2. QED
      BY <2>1, Quiet
  <1>2. CASE UpdateWrite(w) \/ FinishWrite(w)
    <2>1. /\ pc[w] \in {"uwrite", "fwrite"} /\ path[w] \in Claim /\ copy[w] \in File
          /\ lease[path[w]] # None
          /\ WriteLease(path[w], copy[w])
          /\ pc'[w] \in HoldPC
          /\ \A v \in Worker \ {w} : pc'[v] = pc[v]
          /\ UNCHANGED <<pending, done, failed, claims, wasted, path>>
      BY <1>2 DEF UpdateWrite, FinishWrite, CopyOK, Holding, HoldsWell
    <2>2. \A t \in Claim : lease'[t] = None <=> lease[t] = None
      BY <2>1, WriteFacts
    <2>3. QED
      BY <2>1, <2>2, Quiet
  <1>3. CASE StopHeartbeat(w)
    <2>1. /\ lease[path[w]] = None
          /\ pc'[w] \in {"raised", "interrupted", "list"}
          /\ \A v \in Worker \ {w} : pc'[v] = pc[v] /\ path'[v] = path[v]
          /\ UNCHANGED <<pending, lease, done, failed, claims, wasted>>
      BY <1>3 DEF StopHeartbeat, Holding, HoldsWell
    <2>2. pc'[w] \notin HoldPC
      BY <2>1
    <2>3. QED
      BY <2>1, <2>2, Quiet
  <1>4. QED
    BY <1>1, <1>2, <1>3, FinishEnds DEF Finish

-----------------------------------------------------------------------------
(* A worker that is killed while its job has a lease leaves it ownerless.  *)
LEMMA CrashServes ==
    ASSUME LocalOK, Ownership, NEW w \in Worker, Crash(w)
    PROVE  [Service!JobsNext]_(Service!jvars)
  <1> USE DEF LocalOK, TypeOK, PathOK, Goto, files
  <1>1. /\ pc'[w] = "dead" /\ pc'[w] \notin HoldPC
        /\ \A v \in Worker \ {w} : pc'[v] = pc[v] /\ path'[v] = path[v]
        /\ UNCHANGED <<pending, lease, done, failed, claims, wasted>>
    BY DEF Crash, HoldPC
  <1>2. CASE ~ (pc[w] \in HoldPC /\ lease[path[w]] # None)
    BY <1>1, <1>2, Quiet
  <1>3. CASE pc[w] \in HoldPC /\ lease[path[w]] # None
    <2>1. PICK i \in Job : i = JobOf(path[w])
      BY <1>3 DEF Claim, JobOf
    <2>2. OwnersOf(i) = {w}
      <3>1. w \in OwnersOf(i)
        BY <1>3, <2>1 DEF OwnersOf
      <3>2. QED
        BY <3>1, SoleOwner
    <2>3. \A j \in Job : OwnersOf(j)' = OwnersOf(j) \ {w}
      <3>1. ASSUME NEW j \in Job, NEW v \in Worker
            PROVE  v \in OwnersOf(j)' <=> v \in OwnersOf(j) /\ v # w
        BY <1>1 DEF OwnersOf
      <3>2. QED
        BY <3>1 DEF OwnersOf
    <2>4. OwnersOf(i)' = {} /\ \A j \in Job \ {i} : OwnersOf(j)' = OwnersOf(j)
      <3>1. \A j \in Job \ {i} : w \notin OwnersOf(j)
        BY <2>1 DEF OwnersOf
      <3>2. OwnersOf(i)' = {}
        BY <2>2, <2>3
      <3>3. ASSUME NEW j \in Job \ {i}
            PROVE  OwnersOf(j)' = OwnersOf(j)
        <4>1. OwnersOf(j)' = OwnersOf(j) \ {w}
          BY <2>3
        <4>2. QED
          BY <3>1, <4>1
      <3>4. QED
        BY <3>2, <3>3
    <2>5. OwnerIn(OwnersOf(i)) = w /\ OwnerIn(OwnersOf(i))' = None
      BY <2>2, <2>4, OwnerInFacts
    <2>6. \A j \in Job : PhaseOf(j)' = PhaseOf(j)
      BY <1>1 DEF PhaseOf
    <2>7. Service!Die(w, i)
      BY <1>1, <2>4, <2>5, <2>6 DEF Service!Die
    <2>8. QED
      BY <2>7 DEF Service!JobsNext
  <1>4. QED
    BY <1>2, <1>3

(* A recovery that is broken off with the attempt already counted in the   *)
(* lease writes that attempt off.                                          *)
LEMMA BreakOffServes ==
    ASSUME LocalOK, Ownership, Counted, NEW w \in Worker, BreakOffRecovery(w)
    PROVE  [Service!JobsNext]_(Service!jvars)
  <1> USE DEF LocalOK, TypeOK, PathOK, Ownership, Goto
  <1>0. PICK t \in Claim, i \in Job : t = path[w] /\ i = JobOf(t)
    BY DEF BreakOffRecovery, Claim, JobOf
  <1>1. /\ pc[w] \in RecoverPC /\ pc'[w] = "interrupted"
        /\ \A v \in Worker \ {w} : pc'[v] = pc[v] /\ path'[v] = path[v]
        /\ UNCHANGED <<pending, lease, done, failed, claims>>
    BY DEF BreakOffRecovery
  <1>2. CASE wasted' = wasted
    BY <1>1, <1>2, Quiet DEF HoldPC, RecoverPC
  <1>3. CASE wasted' # wasted
    <2>1. pc[w] = "move" /\ verdict[w] = "pending" /\ wasted' = [wasted EXCEPT ![i] = @ + 1]
      BY <1>0, <1>3 DEF BreakOffRecovery
    <2>2. t \in due[w] /\ lease[t] # None
      BY <1>0, <2>1 DEF Recovering
    <2>3. LeasesOf(i) = {t} /\ pending[i] = None /\ i \notin done /\ failed[i] = None
      <3>1. t \in LeasesOf(i)
        BY <1>0, <2>2 DEF LeasesOf
      <3>2. QED
        BY <3>1 DEF OneFile, Finished
    <2>4. OwnersOf(i) = {}
      <3>1. ASSUME NEW v \in OwnersOf(i)
            PROVE  FALSE
        <4>1. pc[v] \in HoldPC /\ path[v] \in LeasesOf(i)
          BY DEF OwnersOf, LeasesOf
        <4>2. QED
          BY <2>2, <2>3, <4>1 DEF Abandoned, OwnersOf
      <3>2. QED
        BY <3>1
    <2>5. Used(i) < MaxAttempts
      <3>1. lease[t].attempt > Used(i) /\ lease[t].attempt \in 1 .. MaxAttempts
        BY <1>0, <2>1, <2>2 DEF Counted, Attempts, File
      <3>2. claims[i] \in Nat /\ wasted[i] \in Nat
        OBVIOUS
      <3>3. QED
        BY <3>1, <3>2, AttemptsAssumption
    <2>6. \A j \in Job : OwnersOf(j)' = OwnersOf(j)
      <3>1. \A v \in Worker : /\ pc'[v] \in HoldPC <=> pc[v] \in HoldPC
                              /\ pc[v] \in HoldPC => path'[v] = path[v]
        BY <1>1 DEF HoldPC, RecoverPC
      <3>2. \A j \in Job : \A v \in Worker : v \in OwnersOf(j)' <=> v \in OwnersOf(j)
        BY <1>1, <3>1 DEF OwnersOf
      <3>3. QED
        BY <3>2 DEF OwnersOf
    <2>7. \A j \in Job : PhaseOf(j)' = PhaseOf(j)
      BY <1>1 DEF PhaseOf
    <2>8. PhaseOf(i) = "running" /\ OwnerIn(OwnersOf(i)) = None
      BY <2>3, <2>4, OwnerInFacts DEF PhaseOf
    <2>9. [j \in Job |-> claims'[j] + wasted'[j]]
            = [[j \in Job |-> claims[j] + wasted[j]] EXCEPT ![i] = @ + 1]
      <3>1. \A j \in Job : claims'[j] + wasted'[j]
                             = IF j = i THEN claims[j] + wasted[j] + 1
                               ELSE claims[j] + wasted[j]
        BY <1>1, <2>1
      <3> DEFINE before == [j \in Job |-> claims[j] + wasted[j]]
      <3>2. before[i] = claims[i] + wasted[i]
        OBVIOUS
      <3>3. QED
        BY <3>1, <3>2
    <2>10. Service!WriteOff(i)
      BY <2>5, <2>6, <2>7, <2>8, <2>9 DEF Service!WriteOff
    <2>11. QED
      BY <2>10 DEF Service!JobsNext
  <1>4. QED
    BY <1>2, <1>3

LEMMA EnvironmentServes ==
    ASSUME LocalOK, (\E w \in Worker : Beat(w)) \/ TimePasses
    PROVE  UNCHANGED Service!jvars
  <1> USE DEF LocalOK, TypeOK, PathOK
  <1>1. /\ \A t \in Claim : lease'[t] = None <=> lease[t] = None
        /\ \A j \in Job : pending'[j] = None <=> pending[j] = None
        /\ UNCHANGED <<done, failed, claims, wasted, pc, path>>
    <2>1. CASE \E w \in Worker : Beat(w)
      BY <2>1 DEF Beat, locals
    <2>2. CASE \E t \in Claim : AgeBeat(t)
      BY <2>2 DEF AgeBeat, locals
    <2>3. CASE \E t \in Claim : AgeLease(t)
      <3>1. PICK t \in Claim : AgeLease(t)
        BY <2>3
      <3>2. lease[t] \in File /\ [lease[t] EXCEPT !.old = TRUE] \in File
        <4>1. lease[t] \in File
          BY <3>1 DEF AgeLease
        <4>2. QED
          BY <4>1 DEF File
      <3>3. lease' = [lease EXCEPT ![t] = [lease[t] EXCEPT !.old = TRUE]]
        BY <3>1 DEF AgeLease
      <3>4. lease[t] # None /\ lease'[t] # None /\ \A u \in Claim \ {t} : lease'[u] = lease[u]
        BY <3>2, <3>3, NoneAssumption
      <3>5. QED
        BY <3>1, <3>4 DEF AgeLease, locals
    <2>4. CASE \E j \in Job : AgePending(j)
      <3>1. PICK j \in Job : AgePending(j)
        BY <2>4
      <3>2. pending[j] \in File /\ [pending[j] EXCEPT !.old = TRUE] \in File
        <4>1. pending[j] \in File
          BY <3>1 DEF AgePending
        <4>2. QED
          BY <4>1 DEF File
      <3>3. pending' = [pending EXCEPT ![j] = [pending[j] EXCEPT !.old = TRUE]]
        BY <3>1 DEF AgePending
      <3>4. pending[j] # None /\ pending'[j] # None /\ \A i \in Job \ {j} : pending'[i] = pending[i]
        BY <3>2, <3>3, NoneAssumption
      <3>5. QED
        BY <3>1, <3>4 DEF AgePending, locals
    <2>5. QED
      BY <2>1, <2>2, <2>3, <2>4 DEF TimePasses
  <1>2. ASSUME NEW j \in Job
        PROVE  OwnersOf(j)' = OwnersOf(j)
    <2>1. \A v \in Worker : v \in OwnersOf(j)' <=> v \in OwnersOf(j)
      BY <1>1 DEF OwnersOf
    <2>2. QED
      BY <2>1 DEF OwnersOf
  <1>3. QED
    BY <1>1, <1>2, Stutters

-----------------------------------------------------------------------------
LEMMA ServiceInit == Init => Service!JobsInit
  <1> SUFFICES ASSUME Init
               PROVE  Service!JobsInit
    OBVIOUS
  <1>1. ASSUME NEW j \in Job
        PROVE  PhaseOf(j) = "waiting" /\ OwnersOf(j) = {}
    <2>1. pending[j] # None
      <3>1. [attempt |-> 1, old |-> FALSE, signed |-> FALSE] \in File
        BY AttemptsAssumption DEF File
      <3>2. QED
        BY <3>1, NoneAssumption DEF Init
    <2>2. QED
      BY <2>1 DEF Init, PhaseOf, OwnersOf, HoldPC
  <1>2. [j \in Job |-> claims[j] + wasted[j]] = [j \in Job |-> 0]
    BY DEF Init
  <1>3. QED
    BY <1>1, <1>2, OwnerInFacts DEF Service!JobsInit

LEMMA ServiceNext ==
    LocalOK /\ Ownership /\ Counted /\ Level /\ [Next]_vars
        => [Service!JobsNext]_(Service!jvars)
  <1> SUFFICES ASSUME LocalOK, Ownership, Counted, Level, [Next]_vars
               PROVE  [Service!JobsNext]_(Service!jvars)
    OBVIOUS
  <1>1. CASE UNCHANGED vars
    BY <1>1 DEF vars, files, locals, Service!jvars, PhaseOf, OwnersOf
  <1>2. ASSUME NEW w \in Worker, WorkerStep(w)
        PROVE  [Service!JobsNext]_(Service!jvars)
    BY <1>2, RecoverServes, ClaimServes, WorkServes, FinishServes DEF WorkerStep
  <1>3. ASSUME NEW w \in Worker, Crash(w)
        PROVE  [Service!JobsNext]_(Service!jvars)
    BY <1>3, CrashServes
  <1>6. ASSUME NEW w \in Worker, BreakOffRecovery(w)
        PROVE  [Service!JobsNext]_(Service!jvars)
    BY <1>6, BreakOffServes
  <1>4. CASE (\E w \in Worker : Beat(w)) \/ TimePasses
    BY <1>4, EnvironmentServes
  <1>5. QED
    BY <1>1, <1>2, <1>3, <1>4, <1>6 DEF Next, QueueStep, Terminated

(* The shared directory implements the job service: one worker per job at  *)
(* a time, a job taken only from a worker that is gone, and given up only  *)
(* after --max-attempts claims (docs/rule-audit.md:33 and :59).            *)
THEOREM QueueImplementsService ==
    ASSUME Regime
    PROVE  Spec => ImplementsService
  <1>1. Init => Service!JobsInit
    BY ServiceInit
  <1>2. LocalOK /\ Ownership /\ Counted /\ Level /\ [Next]_vars
           => [Service!JobsNext]_(Service!jvars)
    BY ServiceNext
  <1>3. QED
    BY AccountKept, <1>1, <1>2, PTL DEF Spec, ImplementsService, Service!JobsSpec
=============================================================================
