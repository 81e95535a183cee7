-------------------------- MODULE AuditHosts_proofs --------------------------
(***************************************************************************)
(* Proofs about what hosts do around the queue: that they start it         *)
(* (AuditStart) and that they finalise the run (AuditRun).                 *)
(***************************************************************************)
EXTENDS AuditRun, AuditStart, AuditQueue_proofs, FiniteSetTheorems

-----------------------------------------------------------------------------
USE DEF files, locals, vars

(* The files of a job move in one direction, but for a requeued lease.     *)
Moves(j) ==
    /\ claims'[j] # claims[j] => pending[j] # None
    /\ wasted'[j] # wasted[j] => LeasesOf(j) # {} /\ failed' = failed
    /\ failed'[j] # failed[j] => \E t \in LeasesOf(j) : failed'[j].attempt = lease[t].attempt
    /\ j \in done' => j \in done \/ LeasesOf(j) # {}
    /\ LeasesOf(j)' # {} => LeasesOf(j) # {} \/ pending[j] # None
    /\ \A t \in Claim : JobOf(t) = j /\ lease'[t] # None => lease[t] # None \/ t[2] = claims'[j]

LEMMA SameLeasesMoves ==
  ASSUME UNCHANGED <<pending, done, failed, claims, wasted>>,
         \A t \in Claim : lease'[t] # None => lease[t] # None, NEW j \in Job
  PROVE  Moves(j)
  BY DEF Moves, LeasesOf

LEMMA WriteMoves ==
  ASSUME LocalOK, Ownership, NEW w \in Worker, NEW f \in File,
         pc[w] \in {"rewrite", "resign", "uwrite", "fwrite"},
         WriteLease(path[w], f), UNCHANGED <<pending, done, failed, claims, wasted>>, NEW j \in Job
  PROVE  Moves(j)
  <1>1. path[w] \in Claim /\ lease[path[w]] # None
    BY DEF LocalOK, PathOK, Ownership, Holding, HoldsWell, Recovering, HoldPC, RecoverPC
  <1>2. \A t \in Claim : lease'[t] # None => lease[t] # None
    BY <1>1, WriteFacts DEF LocalOK
  <1>3. QED
    BY <1>2, SameLeasesMoves

LEMMA MoveMoves ==
  ASSUME LocalOK, NEW t \in Claim, lease[t] # None, NEW dir, MoveLease(t, dir),
         UNCHANGED <<claims, wasted>>, NEW j \in Job
  PROVE  Moves(j)
  <1> USE DEF LocalOK, TypeOK
  <1>1. /\ JobOf(t) \in Job
        /\ lease'[t] = None
        /\ \A u \in Claim \ {t} : lease'[u] = lease[u]
        /\ dir # "pending" => pending' = pending
        /\ done' = IF dir = "done" THEN done \union {JobOf(t)} ELSE done
    BY MoveFacts
  <1>2. failed' = IF dir = "failed" THEN Received(failed, t) ELSE failed
    BY DEF MoveLease
  <1>3. lease[t] \in File
    OBVIOUS
  <1>4. failed'[j] # failed[j] => JobOf(t) = j /\ failed'[j].attempt = lease[t].attempt
    BY <1>1, <1>2, <1>3 DEF Received, File
  <1>5. JobOf(t) = j => t \in LeasesOf(j)
    BY DEF LeasesOf
  <1>6. QED
    BY <1>1, <1>4, <1>5 DEF Moves, LeasesOf

LEMMA QueueMoves ==
  ASSUME LocalOK, Ownership, Regime, [Next]_vars, NEW j \in Job
  PROVE  Moves(j)
  <1> USE DEF LocalOK, TypeOK
  <1>1. ASSUME NEW w \in Worker, Recover(w)
        PROVE  Moves(j)
    <2>1. CASE RewriteLease(w)
      BY <2>1, WriteMoves DEF RewriteLease, CopyOK
    <2>2. CASE RequeueLease(w)
      <3>1. path[w] \in Claim /\ lease[path[w]] # None /\ pc[w] = "move"
        BY <2>2 DEF RequeueLease, Ownership, Recovering, PathOK, RecoverPC
      <3>2. QED
        BY <2>2, <3>1, MoveMoves DEF RequeueLease
    <2>3. CASE ~ RewriteLease(w) /\ ~ RequeueLease(w)
      <3>1. UNCHANGED <<pending, lease, done, failed, claims, wasted>>
        BY <1>1, <2>3 DEF Recover, ListRunning, LockLease, PeekPayload, JudgeLease, UnmarkLease
      <3>2. QED
        BY <3>1, SameLeasesMoves
    <2>4. QED
      BY <2>1, <2>2, <2>3
  <1>2. ASSUME NEW w \in Worker, ClaimJob(w)
        PROVE  Moves(j)
    <2>1. CASE ClaimRename(w)
      <3>1. CASE UNCHANGED <<pending, lease, claims>>
        BY <2>1, <3>1, SameLeasesMoves DEF ClaimRename
      <3>2. ASSUME NEW i \in Job, pending[i] # None, RenameToLease(i, <<i, claims[i] + 1>>),
                   claims[i] < MaxClaims, UNCHANGED <<done, failed, wasted>>
            PROVE  Moves(j)
        <4>1. <<i, claims[i] + 1>> \in Claim /\ JobOf(<<i, claims[i] + 1>>) = i
          BY <3>2, AttemptsAssumption DEF Claim, JobOf
        <4>2. \A t \in Claim : lease'[t] # None => lease[t] # None \/ t = <<i, claims[i] + 1>>
          BY <3>2, <4>1 DEF RenameToLease
        <4>3. /\ \A k \in Job \ {i} : claims'[k] = claims[k]
              /\ claims'[i] = claims[i] + 1
          BY <3>2 DEF RenameToLease
        <4>4. \A t \in Claim : JobOf(t) = j /\ lease'[t] # None => lease[t] # None \/ t[2] = claims'[j]
          BY <4>1, <4>2, <4>3
        <4>5. LeasesOf(j)' # {} => LeasesOf(j) # {} \/ pending[j] # None
          BY <3>2, <4>1, <4>2 DEF LeasesOf
        <4>6. QED
          BY <3>2, <4>3, <4>4, <4>5 DEF Moves
      <3>3. QED
        BY <2>1, <3>1, <3>2 DEF ClaimRename
    <2>2. CASE ClaimWrite(w)
      BY <2>2, WriteMoves DEF ClaimWrite, CopyOK
    <2>3. CASE ListPending(w) \/ ClaimRead(w)
      <3>1. UNCHANGED <<pending, lease, done, failed, claims, wasted>>
        BY <2>3 DEF ListPending, ClaimRead
      <3>2. QED
        BY <3>1, SameLeasesMoves
    <2>4. QED
      BY <1>2, <2>1, <2>2, <2>3 DEF ClaimJob
  <1>3. ASSUME NEW w \in Worker, Work(w) \/ Scan(w) \/ Beat(w) \/ Crash(w)
        PROVE  Moves(j)
    <2>1. UNCHANGED <<pending, lease, done, failed, claims, wasted>>
      BY <1>3 DEF Work, Scan, StartHeartbeat, WorkSucceeds, WorkFails, WorkInterrupted, ScanPending,
         ReadPending, ScanRunning, ReadRunning, Beat, Crash
    <2>2. QED
      BY <2>1, SameLeasesMoves
  <1>4. ASSUME NEW w \in Worker, Finish(w)
        PROVE  Moves(j)
    <2>1. CASE UpdateWrite(w) \/ FinishWrite(w)
      BY <2>1, WriteMoves DEF UpdateWrite, FinishWrite, CopyOK
    <2>2. CASE FinishMove(w)
      <3>1. path[w] \in Claim /\ lease[path[w]] # None
        BY <2>2 DEF FinishMove, Ownership, Holding, HoldsWell, PathOK, HoldPC
      <3>2. \E dir \in {"done", "failed"} : MoveLease(path[w], dir)
        BY <2>2, <3>1 DEF FinishMove
      <3>3. QED
        BY <2>2, <3>1, <3>2, MoveMoves DEF FinishMove
    <2>3. CASE ~ (UpdateWrite(w) \/ FinishWrite(w) \/ FinishMove(w))
      <3>1. UNCHANGED <<pending, lease, done, failed, claims, wasted>>
        BY <1>4, <2>3 DEF Finish, UpdateExists, UpdateRead, FinishExists, FinishRead, StopHeartbeat
      <3>2. QED
        BY <3>1, SameLeasesMoves
    <2>4. QED
      BY <2>1, <2>2, <2>3
  <1>5. CASE TimePasses \/ UNCHANGED vars
    <2>1. /\ UNCHANGED <<pending, done, failed, claims, wasted>>
          /\ \A t \in Claim : lease'[t] # None => lease[t] # None
      BY <1>5 DEF TimePasses, AgeBeat, AgeLease, AgePending, Regime
    <2>2. QED
      BY <2>1, SameLeasesMoves
  <1>6. ASSUME NEW w \in Worker, BreakOffRecovery(w)
        PROVE  Moves(j)
    <2>1. /\ UNCHANGED <<pending, lease, done, failed, claims>>
          /\ pc[w] \in RecoverPC /\ path[w] \in Claim
          /\ wasted'[j] # wasted[j] => pc[w] = "move" /\ JobOf(path[w]) = j
      BY <1>6 DEF BreakOffRecovery, PathOK
    <2>2. wasted'[j] # wasted[j] => path[w] \in LeasesOf(j)
      BY <2>1 DEF LeasesOf, Ownership, Recovering
    <2>3. QED
      BY <2>1, <2>2 DEF Moves, LeasesOf
  <1>7. QED
    BY <1>1, <1>2, <1>3, <1>4, <1>5, <1>6 DEF Next, QueueStep, WorkerStep, Terminated

HIDE DEF files, locals, vars

-----------------------------------------------------------------------------
(***************************************************************************)
(* AuditRun, for any number of hosts, jobs and attempts: the               *)
(* final reports are written by one host at a time, are recorded only once *)
(* they were written, and are written when every job is done.              *)
(*                                                                         *)
(* The last one is not local to the host that lists the directories.  A    *)
(* job that is not finished hides from two listings, of pending/ and then  *)
(* of running/, only if it is requeued between them, so a host that does   *)
(* not see it twice (when its worker drains, and when its main process     *)
(* looks) knows that it was claimed, requeued, claimed and requeued        *)
(* (Unseen).  Timely workers are not requeued while they live, so each of  *)
(* these claims ended by a death (Toll).                                   *)
(***************************************************************************)

Dead == {w \in Worker : pc[w] = "dead"}

(* Some live worker has j, or has just handed it over.                     *)
Occupied(j) == \E w \in Worker : pc[w] \in HoldPC /\ JobOf(path[w]) = j

(* A worker stops its heartbeat only after its job has a final directory.  *)
StopsLast == \A w \in Worker : pc[w] = "stop" => Finished(JobOf(path[w]))

(* Every claim of a job but the last one has cost a worker its life.       *)
Toll == \A j \in Job :
    claims[j] <= Cardinality(Dead) + (IF Finished(j) \/ Occupied(j) THEN 1 ELSE 0)

(* j is finished or was claimed more than k times ...                      *)
Claimed(j, k) == Finished(j) \/ claims[j] >= k + 1

(* ... or k of its claims are over and it is waiting, or claimed, again.   *)
Requeued(j, k) == \/ Finished(j)
                  \/ pending[j] # None /\ claims[j] >= k
                  \/ LeasesOf(j) # {} /\ claims[j] >= k + 1

(* The leases of j that a host has listed and not yet read are not older   *)
(* than its k-th claim; if there are none, that claim is over.             *)
Listed(j, ts, k) ==
    /\ \A t \in ts : JobOf(t) = j => k <= t[2] /\ t[2] <= claims[j]
    /\ (\A t \in ts : JobOf(t) # j) => Requeued(j, k)

(* What a host knows of j by the listings in which it has not seen it, or  *)
(* has seen it but found it gone when it was to read it.                   *)
Unseen(h, j) ==
    /\ pc[h] = "readpending" /\ j \notin cand[h] => Claimed(j, 0)
    /\ pc[h] = "scanrunning" => Claimed(j, 0)
    /\ pc[h] = "readrunning" => Listed(j, seen[h], 1)
    /\ pc[h] = "drained" => Requeued(j, 1)
    /\ main[h] \in {"failures", "pending", "readpending"} => Requeued(j, 1)
    /\ main[h] = "readpending" /\ j \notin listed[h] => Claimed(j, 1)
    /\ main[h] = "running" => Claimed(j, 1)
    /\ main[h] = "readrunning" => Listed(j, listed[h], 2)
    /\ main[h] = "failed" => Requeued(j, 2)
    /\ main[h] \in {"marker", "lock", "write"} => j \in done \/ Cardinality(Dead) >= 2

(* The lease of a job is that of its last claim.                           *)
Latest == \A t \in Claim : lease[t] # None => t[2] = claims[JobOf(t)]

(* The queue's part of the invariant.                                      *)
QueueOK == /\ LocalOK /\ Ownership /\ Latest /\ NoJobLost
           /\ StopsLast /\ IsFiniteSet(Dead) /\ Toll

(* Reports that nobody holds the lock for have their marker, and after     *)
(* that only the late ones get to the lock.                                *)
Once == /\ holder = None \/ (\E h \in Worker : main[h] = "write") => (reports > 0 => marker)
        /\ marker => \A h \in Worker : main[h] \in {"lock", "write"} => h \in late

(* The main processes' part: who writes has the lock, and what is recorded *)
(* has been written.                                                       *)
MainOK == /\ main \in [Worker -> MainPC]
          /\ listed \in [Worker -> (SUBSET Job) \union (SUBSET Claim)]
          /\ \A h \in Worker : main[h] = "readrunning" => listed[h] \subseteq Claim
          /\ marker \in BOOLEAN
          /\ holder \in Worker \union {None}
          /\ reports \in Nat
          /\ \A h \in Worker : main[h] \in {"write", "mark"} => holder = h
          /\ marker \/ (\E h \in Worker : main[h] = "mark") => reports > 0
          /\ late \in SUBSET Worker
          /\ Once

RunOK == QueueOK /\ MainOK /\ \A h \in Worker, j \in Job : Unseen(h, j)

-----------------------------------------------------------------------------
(* Any step of the queue either is a worker's death or keeps the dead; it  *)
(* claims at most one job, which was waiting and is held afterwards; and   *)
(* a worker that lives lets go of a job only when it is finished.          *)
Calm(w) ==
    /\ claims' = claims
    /\ \A j \in Job : pending[j] # None => pending'[j] # None
    /\ \A v \in Worker \ {w} : pc'[v] = pc[v] /\ path'[v] = path[v]
    /\ pc[w] # "dead" /\ pc'[w] # "dead"
    /\ pc[w] \in HoldPC => \/ pc'[w] \in HoldPC /\ path'[w] = path[w]
                          \/ \A j \in Job : j = JobOf(path[w]) => Finished(j)'
    /\ (pc[w] = "stop" => Finished(JobOf(path[w])))'

Shape ==
    /\ \A j \in Job : \/ claims'[j] = claims[j]
                      \/ claims'[j] = claims[j] + 1 /\ pending[j] # None /\ Occupied(j)'
    /\ \A j \in Job : pending[j] # None /\ pending'[j] = None => claims'[j] = claims[j] + 1
    /\ \/ Dead' = Dead /\ \A j \in Job : Occupied(j) => Occupied(j)' \/ Finished(j)'
       \/ \E w \in Worker : /\ w \notin Dead /\ Dead' = Dead \union {w} /\ claims' = claims
                            /\ \A v \in Worker \ {w} : pc'[v] = pc[v] /\ path'[v] = path[v]

LEMMA CalmShape ==
  ASSUME LocalOK, StopsLast, NEW w \in Worker, Calm(w), DirectoriesKept
  PROVE  Shape /\ StopsLast'
  <1>1. Dead' = Dead
    BY DEF Calm, Dead
  <1>2. ASSUME NEW j \in Job, Occupied(j)
        PROVE  Occupied(j)' \/ Finished(j)'
    <2>1. PICK v \in Worker : pc[v] \in HoldPC /\ JobOf(path[v]) = j
      BY <1>2 DEF Occupied
    <2>2. CASE v = w
      <3>1. (pc'[w] \in HoldPC /\ path'[w] = path[w]) \/ Finished(j)'
        BY <2>1, <2>2 DEF Calm
      <3>2. CASE pc'[w] \in HoldPC /\ path'[w] = path[w]
        BY <2>1, <2>2, <3>2 DEF Occupied, JobOf
      <3>3. QED
        BY <3>1, <3>2
    <2>3. CASE v # w
      BY <2>1, <2>3 DEF Calm, Occupied
    <2>4. QED
      BY <2>2, <2>3
  <1>3. ASSUME NEW v \in Worker, pc'[v] = "stop"
        PROVE  Finished(JobOf(path[v]))'
    <2>1. CASE v = w
      BY <1>3, <2>1 DEF Calm
    <2>2. CASE v # w
      <3>1. pc[v] = "stop" /\ path'[v] = path[v] /\ path[v] \in Claim
        BY <1>3, <2>2 DEF Calm, LocalOK, PathOK, HoldPC
      <3>2. PICK j \in Job : j = JobOf(path[v]) /\ Finished(j)
        BY <3>1 DEF StopsLast, JobOf, Claim
      <3>3. Finished(j)'
        BY <3>2 DEF DirectoriesKept, Kept
      <3>4. JobOf(path[v])' = j
        BY <3>1, <3>2 DEF JobOf
      <3>5. QED
        BY <3>3, <3>4
    <2>3. QED
      BY <2>1, <2>2
  <1>4. Shape
    BY <1>1, <1>2 DEF Shape, Calm
  <1>5. QED
    BY <1>3, <1>4 DEF StopsLast

LEMMA RecoverCalm ==
  ASSUME LocalOK, Ownership, NEW w \in Worker, Recover(w)
  PROVE  Calm(w)
  <1> USE DEF LocalOK, TypeOK, PathOK, Goto, SkipLease, Calm, HoldPC, files, locals
  <1>1. CASE RequeueLease(w)
    <2>1. /\ pc[w] = "move" /\ path[w] \in Claim /\ lease[path[w]] # None
          /\ MoveLease(path[w], verdict[w])
          /\ pc' = [pc EXCEPT ![w] = "unmark"]
          /\ UNCHANGED <<path, claims>>
      BY <1>1 DEF RequeueLease, Ownership, Recovering, RecoverPC
    <2>2. \A j \in Job : pending[j] # None => pending'[j] # None
      BY <2>1, MoveFacts
    <2>3. QED
      BY <2>1, <2>2
  <1>2. CASE ~ RequeueLease(w)
    BY <1>2 DEF Recover, ListRunning, LockLease, PeekPayload, JudgeLease, RewriteLease,
       UnmarkLease, RecoverPC
  <1>3. QED
    BY <1>1, <1>2

LEMMA ClaimCalm ==
  ASSUME LocalOK, Ownership, NEW w \in Worker, ListPending(w) \/ ClaimRead(w) \/ ClaimWrite(w)
  PROVE  Calm(w)
  <1> USE DEF LocalOK, TypeOK, PathOK, Goto, Calm, HoldPC, files, locals
  <1>1. CASE ListPending(w)
    BY <1>1 DEF ListPending
  <1>2. CASE ClaimRead(w)
    <2>1. lease[path[w]] # None
      BY <1>2 DEF ClaimRead, Ownership, Holding, HoldsWell
    <2>2. QED
      BY <1>2, <2>1 DEF ClaimRead
  <1>3. CASE ClaimWrite(w)
    BY <1>3 DEF ClaimWrite
  <1>4. QED
    BY <1>1, <1>2, <1>3

LEMMA WorkCalm ==
  ASSUME LocalOK, NEW w \in Worker, Work(w) \/ Scan(w)
  PROVE  Calm(w)
  BY DEF files, locals, LocalOK, TypeOK, PathOK, Goto, Calm, HoldPC, Work, Scan, StartHeartbeat, WorkSucceeds,
     WorkFails, WorkInterrupted, ScanPending, ReadPending, ScanRunning, ReadRunning

LEMMA BreakOffCalm ==
  ASSUME LocalOK, NEW w \in Worker, BreakOffRecovery(w)
  PROVE  Calm(w)
  BY DEF LocalOK, TypeOK, Goto, Calm, HoldPC, RecoverPC, BreakOffRecovery

LEMMA FinishCalm ==
  ASSUME LocalOK, Ownership, StopsLast, NEW w \in Worker, Finish(w)
  PROVE  Calm(w)
  <1> USE DEF LocalOK, TypeOK, PathOK, Goto, Calm, HoldPC, files, locals
  <1>1. /\ pc[w] \in BeatingPC \ {"stop"} => /\ path[w] \in Claim
                                             /\ lease[path[w]] # None
                                             /\ OwnsLease(w)
    BY DEF Ownership, Holding, HoldsWell, BeatingPC, OwnsLease
  <1>2. CASE UpdateExists(w) \/ UpdateRead(w) \/ UpdateWrite(w) \/ FinishExists(w) \/ FinishRead(w) \/ FinishWrite(w)
    BY <1>1, <1>2 DEF UpdateExists, UpdateRead, UpdateWrite, FinishExists, FinishRead, FinishWrite,
       BeatingPC
  <1>3. CASE FinishMove(w)
    <2>1. PICK dir \in {"done", "failed"} :
             /\ pc[w] = "fmove" /\ path[w] \in Claim /\ lease[path[w]] # None
             /\ MoveLease(path[w], dir)
             /\ pc' = [pc EXCEPT ![w] = "stop"]
             /\ UNCHANGED <<claims, path>>
      BY <1>1, <1>3 DEF FinishMove, BeatingPC
    <2>2. PICK i \in Job : i = JobOf(path[w])
      BY <2>1 DEF JobOf, Claim
    <2>3. pending' = pending /\ Finished(i)'
      BY <2>1, <2>2, MoveFacts DEF Finished
    <2>4. JobOf(path[w])' = i
      BY <2>1, <2>2 DEF JobOf
    <2>5. QED
      BY <2>1, <2>3, <2>4
  <1>4. CASE StopHeartbeat(w)
    <2>1. /\ pc[w] = "stop" /\ Finished(JobOf(path[w]))
          /\ UNCHANGED <<pending, done, failed, claims>>
          /\ \E l \in {"raised", "interrupted", "list"} : pc' = [pc EXCEPT ![w] = l]
          /\ path' = [path EXCEPT ![w] = None]
      BY <1>4 DEF StopHeartbeat, StopsLast
    <2>2. \A i \in Job : i = JobOf(path[w]) => Finished(i)'
      BY <2>1 DEF Finished
    <2>3. QED
      BY <2>1, <2>2
  <1>5. QED
    BY <1>2, <1>3, <1>4 DEF Finish

LEMMA RenameShape ==
  ASSUME LocalOK, Ownership, StopsLast, NEW w \in Worker, ClaimRename(w), DirectoriesKept
  PROVE  Shape /\ StopsLast'
  <1> USE DEF LocalOK, TypeOK, PathOK, Goto
  <1>1. PICK j \in cand[w] :
          \/ /\ UNCHANGED <<pending, claims, path>>
             /\ \E l \in {"scanpending", "claim"} : pc' = [pc EXCEPT ![w] = l]
          \/ /\ pending[j] # None /\ claims[j] < MaxClaims
             /\ pending' = [pending EXCEPT ![j] = None]
             /\ claims' = [claims EXCEPT ![j] = @ + 1]
             /\ path' = [path EXCEPT ![w] = <<j, claims[j] + 1>>]
             /\ pc' = [pc EXCEPT ![w] = "sign"]
    BY DEF ClaimRename, RenameToLease
  <1>2. pc[w] = "claim" /\ UNCHANGED <<done, failed>> /\ j \in Job
    BY DEF ClaimRename
  <1>3. CASE UNCHANGED <<pending, claims, path>> /\ \E l \in {"scanpending", "claim"} : pc' = [pc EXCEPT ![w] = l]
    <2>1. Calm(w)
      BY <1>2, <1>3 DEF Calm, HoldPC
    <2>2. QED
      BY <2>1, CalmShape
  <1>4. CASE /\ pending[j] # None /\ claims[j] < MaxClaims
             /\ pending' = [pending EXCEPT ![j] = None]
             /\ claims' = [claims EXCEPT ![j] = @ + 1]
             /\ path' = [path EXCEPT ![w] = <<j, claims[j] + 1>>]
             /\ pc' = [pc EXCEPT ![w] = "sign"]
    <2>1. /\ pc'[w] = "sign" /\ JobOf(path'[w]) = j
          /\ \A v \in Worker \ {w} : pc'[v] = pc[v] /\ path'[v] = path[v]
      BY <1>4 DEF JobOf
    <2>2. Occupied(j)' /\ \A i \in Job : Occupied(i) => Occupied(i)'
      BY <1>2, <2>1 DEF Occupied, HoldPC
    <2>3. Dead' = Dead
      BY <1>2, <2>1 DEF Dead
    <2>4. StopsLast'
      BY <1>2, <2>1 DEF StopsLast, Finished
    <2>5. Shape
      BY <1>2, <1>4, <2>2, <2>3 DEF Shape
    <2>6. QED
      BY <2>4, <2>5
  <1>5. QED
    BY <1>1, <1>3, <1>4

LEMMA EnvironmentShape ==
  ASSUME LocalOK, StopsLast, (\E w \in Worker : Beat(w)) \/ TimePasses \/ UNCHANGED vars, DirectoriesKept
  PROVE  Shape /\ StopsLast'
  <1>1. /\ UNCHANGED <<claims, pc, path>>
        /\ \A j \in Job : pending[j] # None => pending'[j] # None
    <2>1. CASE (\E w \in Worker : Beat(w)) \/ UNCHANGED vars
      BY <2>1 DEF Beat, vars, files, locals
    <2>2. ASSUME NEW t \in Claim, AgeBeat(t) \/ AgeLease(t)
          PROVE  UNCHANGED <<pending, claims, pc, path>>
      BY <2>2 DEF AgeBeat, AgeLease, locals
    <2>3. ASSUME NEW i \in Job, AgePending(i)
          PROVE  /\ UNCHANGED <<claims, pc, path>>
                 /\ \A j \in Job : pending[j] # None => pending'[j] # None
      <3>1. pending[i] \in File
        BY <2>3 DEF LocalOK, TypeOK, AgePending
      <3>2. [pending[i] EXCEPT !.old = TRUE] # None
        BY <3>1, AgedFile, NoneAssumption
      <3>3. QED
        BY <2>3, <3>2 DEF AgePending, LocalOK, TypeOK, locals
    <2>4. QED
      BY <2>1, <2>2, <2>3 DEF TimePasses
  <1>2. \A j \in Job : Finished(j) => Finished(j)'
    BY DEF DirectoriesKept, Kept
  <1>3. Dead' = Dead /\ \A j \in Job : Occupied(j) => Occupied(j)'
    BY <1>1 DEF Dead, Occupied
  <1>4. StopsLast'
    <2> SUFFICES ASSUME NEW v \in Worker, pc[v] = "stop"
                 PROVE  Finished(JobOf(path[v]))'
      BY <1>1 DEF StopsLast
    <2>1. path[v] \in Claim
      BY DEF LocalOK, PathOK, HoldPC
    <2>2. PICK j \in Job : j = JobOf(path[v]) /\ Finished(j)
      BY <2>1 DEF JobOf, Claim, StopsLast
    <2>3. JobOf(path[v])' = j
      BY <1>1, <2>2 DEF JobOf
    <2>4. QED
      BY <1>2, <2>2, <2>3
  <1>5. QED
    BY <1>1, <1>3, <1>4 DEF Shape

LEMMA CrashShape ==
  ASSUME LocalOK, StopsLast, NEW w \in Worker, Crash(w)
  PROVE  Shape /\ StopsLast'
  <1>1. /\ pc[w] # "dead" /\ pc'[w] = "dead"
        /\ \A v \in Worker \ {w} : pc'[v] = pc[v] /\ path'[v] = path[v]
        /\ UNCHANGED <<pending, done, failed, claims>>
    BY DEF Crash, LocalOK, TypeOK, Stopped, Goto, files
  <1>2. w \notin Dead /\ Dead' = Dead \union {w}
    BY <1>1 DEF Dead
  <1>3. StopsLast'
    BY <1>1 DEF StopsLast, Finished
  <1>4. QED
    BY <1>1, <1>2, <1>3 DEF Shape

LEMMA NextShape ==
  ASSUME LocalOK, Ownership, StopsLast, [Next]_vars
  PROVE  Shape /\ StopsLast'
  <1>1. DirectoriesKept
    BY NextKept
  <1>2. ASSUME NEW w \in Worker, WorkerStep(w)
        PROVE  Shape /\ StopsLast'
    <2>1. CASE ClaimRename(w)
      BY <1>1, <2>1, RenameShape
    <2>2. CASE ~ ClaimRename(w)
      <3>1. Calm(w)
        BY <1>2, <2>2, RecoverCalm, ClaimCalm, WorkCalm, FinishCalm DEF WorkerStep, ClaimJob
      <3>2. QED
        BY <1>1, <3>1, CalmShape
    <2>3. QED
      BY <2>1, <2>2
  <1>3. ASSUME NEW w \in Worker, BreakOffRecovery(w)
        PROVE  Shape /\ StopsLast'
    BY <1>1, <1>3, BreakOffCalm, CalmShape
  <1>4. QED
    BY <1>1, <1>2, <1>3, CrashShape, EnvironmentShape DEF Next, QueueStep, Terminated

(* A worker gets to its listings, and drains, by listing and reading only. *)
ScanPC == {"readpending", "scanrunning", "readrunning", "drained"}
Scanned == \A w \in Worker :
    \/ pc'[w] \notin ScanPC
    \/ pc'[w] = pc[w] /\ cand'[w] = cand[w] /\ seen'[w] = seen[w]
    \/ Scan(w)

LEMMA NextScanned ==
  ASSUME LocalOK, [Next]_vars
  PROVE  Scanned /\ done \subseteq done'
  <1> USE DEF LocalOK, TypeOK, Goto, files, locals
  <1> DEFINE Only(w) == \A v \in Worker \ {w} : pc'[v] = pc[v] /\ cand'[v] = cand[v] /\ seen'[v] = seen[v]
  <1>1. ASSUME NEW w \in Worker, Only(w), pc'[w] \notin ScanPC \/ Scan(w)
        PROVE  Scanned
    BY <1>1 DEF Scanned
  <1>2. ASSUME NEW w \in Worker, Recover(w) \/ BreakOffRecovery(w)
        PROVE  Only(w) /\ pc'[w] \notin ScanPC /\ done \subseteq done'
    BY <1>2 DEF Recover, ListRunning, LockLease, PeekPayload, JudgeLease, RewriteLease,
       RequeueLease, UnmarkLease, SkipLease, MoveLease, BreakOffRecovery, ScanPC
  <1>3. ASSUME NEW w \in Worker, ClaimJob(w)
        PROVE  Only(w) /\ pc'[w] \notin ScanPC /\ done \subseteq done'
    BY <1>3 DEF ClaimJob, ListPending, ClaimRename, ClaimRead, Raise, ClaimWrite, ScanPC
  <1>4. ASSUME NEW w \in Worker, Work(w)
        PROVE  Only(w) /\ pc'[w] \notin ScanPC /\ done \subseteq done'
    BY <1>4 DEF Work, StartHeartbeat, WorkSucceeds, WorkFails, WorkInterrupted, ScanPC
  <1>5. ASSUME NEW w \in Worker, Finish(w)
        PROVE  Only(w) /\ pc'[w] \notin ScanPC /\ done \subseteq done'
    BY <1>5 DEF Finish, UpdateExists, UpdateRead, UpdateWrite, FinishExists, FinishRead,
       FinishVanished, FinishWrite, FinishMove, StopHeartbeat, MoveLease, ScanPC
  <1>6. ASSUME NEW w \in Worker, Scan(w)
        PROVE  Only(w) /\ done \subseteq done'
    BY <1>6 DEF Scan, ScanPending, ReadPending, ScanRunning, ReadRunning
  <1>7. ASSUME NEW w \in Worker, Crash(w)
        PROVE  Only(w) /\ pc'[w] \notin ScanPC /\ done \subseteq done'
    BY <1>7 DEF Crash, ScanPC
  <1>8. CASE (\E w \in Worker : Beat(w)) \/ TimePasses \/ UNCHANGED vars
    <2>1. pc' = pc /\ done' = done /\ cand' = cand /\ seen' = seen
      BY <1>8 DEF Beat, TimePasses, AgeBeat, AgeLease, AgePending, vars
    <2>2. QED
      BY <2>1 DEF Scanned
  <1> HIDE DEF Only
  <1>9. QED
    BY <1>1, <1>2, <1>3, <1>4, <1>5, <1>6, <1>7, <1>8 DEF Next, QueueStep, WorkerStep, Terminated

LEMMA WaitingIsFree ==
  ASSUME LocalOK, Ownership, StopsLast, NEW j \in Job, pending[j] # None
  PROVE  ~ Finished(j) /\ ~ Occupied(j)
  <1>1. ~ Finished(j) /\ LeasesOf(j) = {}
    BY DEF Ownership, OneFile
  <1>2. ASSUME NEW w \in Worker, pc[w] \in HoldPC, JobOf(path[w]) = j
        PROVE  FALSE
    <2>1. path[w] \in Claim /\ pc[w] # "stop"
      BY <1>1, <1>2 DEF LocalOK, PathOK, StopsLast
    <2>2. lease[path[w]] # None
      BY <1>2, <2>1 DEF Ownership, Holding, HoldsWell
    <2>3. path[w] \in LeasesOf(j)
      BY <1>2, <2>1, <2>2 DEF LeasesOf
    <2>4. QED
      BY <1>1, <2>3
  <1>3. QED
    BY <1>1, <1>2 DEF Occupied

LEMMA LatestNext ==
  ASSUME LocalOK, Ownership, Latest, Regime, Shape, [Next]_vars
  PROVE  Latest'
  <1> SUFFICES ASSUME NEW t \in Claim, lease'[t] # None
               PROVE  t[2] = claims'[JobOf(t)]
    BY DEF Latest
  <1>1. PICK j \in Job : j = JobOf(t)
    BY DEF JobOf, Claim
  <1>2. lease[t] # None \/ t[2] = claims'[j]
    BY <1>1, QueueMoves DEF Moves
  <1>3. CASE lease[t] # None
    <2>1. t[2] = claims[j] /\ t \in LeasesOf(j)
      BY <1>1, <1>3 DEF Latest, LeasesOf
    <2>2. pending[j] = None
      BY <2>1 DEF Ownership, OneFile
    <2>3. claims'[j] = claims[j]
      BY <2>2 DEF Shape
    <2>4. QED
      BY <1>1, <2>1, <2>3
  <1>4. QED
    BY <1>1, <1>2, <1>3

LEMMA QueueNext ==
  ASSUME QueueOK, Regime, [Next]_vars
  PROVE  QueueOK'
  <1>1. LocalOK' /\ Ownership' /\ DirectoriesKept
    BY LocalNext, OwnershipNext, NextKept DEF QueueOK
  <1>2. Shape /\ StopsLast'
    BY NextShape DEF QueueOK
  <1>3. NoJobLost'
    BY <1>1 DEF QueueOK, NoJobLost, DirectoriesKept, Kept
  <1>0. Latest'
    BY <1>2, LatestNext DEF QueueOK
  <1>4. Cardinality(Dead) \in Nat
    BY FS_CardinalityType DEF QueueOK
  <1>5. CASE Dead' = Dead /\ \A j \in Job : Occupied(j) => Occupied(j)' \/ Finished(j)'
    <2>1. ASSUME NEW j \in Job
          PROVE  claims'[j] <= Cardinality(Dead) + (IF Finished(j)' \/ Occupied(j)' THEN 1 ELSE 0)
      <3>1. claims[j] \in Nat
        BY DEF QueueOK, LocalOK, TypeOK
      <3>2. claims[j] <= Cardinality(Dead) + (IF Finished(j) \/ Occupied(j) THEN 1 ELSE 0)
        BY DEF QueueOK, Toll
      <3>3. Finished(j) => Finished(j)'
        BY <1>1 DEF DirectoriesKept, Kept
      <3>4. CASE claims'[j] = claims[j]
        BY <1>4, <1>5, <3>1, <3>2, <3>3, <3>4
      <3>5. CASE claims'[j] = claims[j] + 1 /\ pending[j] # None /\ Occupied(j)'
        <4>1. ~ Finished(j) /\ ~ Occupied(j)
          BY <3>5, WaitingIsFree DEF QueueOK
        <4>2. QED
          BY <1>4, <3>1, <3>2, <3>5, <4>1
      <3>6. QED
        BY <1>2, <3>4, <3>5 DEF Shape
    <2>2. Toll'
      BY <1>5, <2>1 DEF Toll
    <2>3. QED
      BY <1>0, <1>1, <1>2, <1>3, <1>5, <2>2 DEF QueueOK
  <1>6. ASSUME NEW w \in Worker, w \notin Dead, Dead' = Dead \union {w}, claims' = claims
        PROVE  QueueOK'
    <2>1. IsFiniteSet(Dead') /\ Cardinality(Dead') = Cardinality(Dead) + 1
      BY <1>6, FS_AddElement DEF QueueOK
    <2>2. ASSUME NEW j \in Job
          PROVE  claims[j] <= (Cardinality(Dead) + 1) + (IF Finished(j)' \/ Occupied(j)' THEN 1 ELSE 0)
      <3>1. claims[j] \in Nat
        BY DEF QueueOK, LocalOK, TypeOK
      <3>2. claims[j] <= Cardinality(Dead) + (IF Finished(j) \/ Occupied(j) THEN 1 ELSE 0)
        BY DEF QueueOK, Toll
      <3>3. claims[j] <= Cardinality(Dead) + 1
        BY <1>4, <3>1, <3>2
      <3>4. QED
        BY <1>4, <3>1, <3>3
    <2>3. Toll'
      BY <1>6, <2>1, <2>2 DEF Toll
    <2>4. QED
      BY <1>0, <1>1, <1>2, <1>3, <2>1, <2>3 DEF QueueOK
  <1>7. QED
    BY <1>2, <1>5, <1>6 DEF Shape

LEMMA DeadStay ==
  ASSUME QueueOK, QueueOK', Shape
  PROVE  Cardinality(Dead) >= 2 => Cardinality(Dead)' >= 2
  <1>1. Dead \subseteq Dead'
    BY DEF Shape
  <1>2. IsFiniteSet(Dead) /\ IsFiniteSet(Dead')
    BY DEF QueueOK
  <1>3. Cardinality(Dead) <= Cardinality(Dead')
    BY <1>1, <1>2, FS_Subset
  <1>4. Cardinality(Dead) \in Nat /\ Cardinality(Dead') \in Nat
    BY <1>2, FS_CardinalityType
  <1>5. QED
    BY <1>3, <1>4

(* What is known of a job stays true.                                      *)
LEMMA KnowledgeStays ==
  ASSUME QueueOK, Shape, DirectoriesKept, NEW j \in Job, NEW k \in Nat
  PROVE  /\ Claimed(j, k) => Claimed(j, k)'
         /\ Requeued(j, k) => Requeued(j, k)'
  <1>1. claims[j] \in Nat /\ (claims'[j] = claims[j] \/ claims'[j] = claims[j] + 1)
    BY DEF QueueOK, LocalOK, TypeOK, Shape
  <1>2. Kept(j)
    BY DEF DirectoriesKept
  <1>3. Claimed(j, k) => Claimed(j, k)'
    BY <1>1, <1>2 DEF Claimed, Kept
  <1>4. ASSUME pending[j] # None, claims[j] >= k
        PROVE  Requeued(j, k)'
    <2>1. CASE pending'[j] # None
      BY <1>1, <1>4, <2>1 DEF Requeued
    <2>2. CASE pending'[j] = None
      <3>1. claims'[j] = claims[j] + 1 /\ LeasesOf(j)' # {}
        BY <1>2, <1>4, <2>2 DEF Shape, Kept
      <3>2. QED
        BY <1>1, <1>4, <3>1 DEF Requeued
    <2>3. QED
      BY <2>1, <2>2
  <1>5. ASSUME LeasesOf(j) # {}, claims[j] >= k + 1
        PROVE  Requeued(j, k)'
    BY <1>1, <1>2, <1>5 DEF Requeued, Kept
  <1>6. Requeued(j, k) => Requeued(j, k)'
    BY <1>2, <1>4, <1>5 DEF Requeued, Kept
  <1>7. QED
    BY <1>3, <1>6

LEMMA ListedStays ==
  ASSUME QueueOK, Shape, DirectoriesKept, NEW j \in Job, NEW k \in Nat,
         NEW ts \in SUBSET Claim, Listed(j, ts, k)
  PROVE  /\ \A t \in ts : JobOf(t) = j => k <= t[2] /\ t[2] <= claims'[j]
         /\ (\A t \in ts : JobOf(t) # j) => Requeued(j, k)'
  <1>1. claims[j] \in Nat /\ (claims'[j] = claims[j] \/ claims'[j] = claims[j] + 1)
    BY DEF QueueOK, LocalOK, TypeOK, Shape
  <1>2. \A t \in ts : t[2] \in Nat
    BY AttemptsAssumption DEF Claim
  <1>3. Requeued(j, k) => Requeued(j, k)'
    BY KnowledgeStays
  <1>4. QED
    BY <1>1, <1>2, <1>3 DEF Listed

(* What the listings and readings of a host tell it of j.                  *)
LEMMA NotPending ==
  ASSUME QueueOK, NEW j \in Job, NEW k \in Nat, pending[j] = None
  PROVE  /\ Claimed(j, 0)
         /\ Requeued(j, k) => Claimed(j, k)
  <1>1. ASSUME ~ Finished(j)
        PROVE  claims[j] >= 0 + 1
    <2>1. PICK t \in Claim : JobOf(t) = j /\ lease[t] # None
      BY <1>1 DEF QueueOK, NoJobLost, LeasesOf
    <2>2. t[2] = claims[j]
      BY <2>1 DEF QueueOK, Latest
    <2>3. QED
      BY <2>2, AttemptsAssumption DEF Claim
  <1>2. QED
    BY <1>1 DEF Claimed, Requeued

LEMMA ListRunningTells ==
  ASSUME QueueOK, NEW j \in Job, NEW k \in Nat, NEW n \in Nat, n = k + 1, Claimed(j, k)
  PROVE  Listed(j, {t \in Claim : lease[t] # None}, n)
  <1> DEFINE ts == {t \in Claim : lease[t] # None}
  <1>1. CASE ~ Finished(j)
    <2>1. claims[j] \in Nat /\ claims[j] >= k + 1
      BY <1>1 DEF Claimed, QueueOK, LocalOK, TypeOK
    <2>2. \A t \in ts : JobOf(t) = j => t[2] = claims[j]
      BY DEF QueueOK, Latest
    <2>3. ASSUME \A t \in ts : JobOf(t) # j
          PROVE  Requeued(j, n)
      <3>1. LeasesOf(j) = {}
        BY <2>3 DEF LeasesOf
      <3>2. QED
        BY <1>1, <2>1, <3>1 DEF QueueOK, NoJobLost, Requeued
    <2>4. QED
      BY <2>1, <2>2, <2>3 DEF Listed
  <1>2. CASE Finished(j)
    <2>1. \A t \in ts : JobOf(t) # j
      BY <1>2 DEF QueueOK, Ownership, OneFile, LeasesOf
    <2>2. QED
      BY <1>2, <2>1 DEF Listed, Requeued
  <1>3. QED
    BY <1>1, <1>2

LEMMA ReadGone ==
  ASSUME QueueOK, NEW j \in Job, NEW k \in Nat, NEW ts \in SUBSET Claim, Listed(j, ts, k),
         NEW t \in ts, lease[t] = None
  PROVE  Listed(j, ts \ {t}, k)
  <1>1. CASE JobOf(t) # j
    BY <1>1 DEF Listed
  <1>2. CASE JobOf(t) = j
    <2>1. t \in Claim /\ t[2] \in Nat /\ k <= t[2] /\ t[2] <= claims[j] /\ claims[j] \in Nat
      BY <1>2, AttemptsAssumption DEF Listed, Claim, QueueOK, LocalOK, TypeOK
    <2>2. CASE Finished(j)
      BY <2>2 DEF Listed, Requeued
    <2>3. CASE pending[j] # None
      BY <2>1, <2>3 DEF Listed, Requeued
    <2>4. ASSUME NEW u \in Claim, JobOf(u) = j, lease[u] # None
          PROVE  Requeued(j, k)
      <3>1. u # t /\ u[2] = claims[j]
        BY <2>4 DEF QueueOK, Latest
      <3>2. u[2] # t[2]
        BY <1>2, <2>1, <2>4, <3>1 DEF Claim, JobOf
      <3>3. claims[j] >= k + 1
        BY <2>1, <3>1, <3>2
      <3>4. QED
        BY <2>4, <3>3 DEF Requeued, LeasesOf
    <2>5. QED
      BY <2>2, <2>3, <2>4 DEF QueueOK, NoJobLost, LeasesOf, Listed, Requeued
  <1>3. QED
    BY <1>1, <1>2

(* The idle worker's listings and readings.                                *)
LEMMA ScanTells ==
  ASSUME QueueOK, NEW h \in Worker, NEW j \in Job, Scan(h), Unseen(h, j)
  PROVE  /\ pc'[h] = "readpending" /\ j \notin cand'[h] => Claimed(j, 0)
         /\ pc'[h] = "scanrunning" => Claimed(j, 0)
         /\ pc'[h] = "readrunning" => Listed(j, seen'[h], 1)
         /\ pc'[h] = "drained" => Requeued(j, 1)
  <1> USE DEF Goto
  <1>1. pc \in [Worker -> PC] /\ cand \in [Worker -> SUBSET Job] /\ seen \in [Worker -> SUBSET Claim]
    BY DEF QueueOK, LocalOK, TypeOK
  <1>2. pending[j] = None => Claimed(j, 0)
    BY NotPending
  <1>3. CASE ScanPending(h)
    BY <1>1, <1>2, <1>3 DEF ScanPending
  <1>4. CASE ReadPending(h)
    <2>1. j \notin cand[h] => Claimed(j, 0)
      BY <1>4 DEF ReadPending, Unseen
    <2>2. \/ pc'[h] = "list"
          \/ /\ pc'[h] \in {"scanrunning", "readpending"}
             /\ j \notin cand'[h] => j \notin cand[h] \/ pending[j] = None
             /\ pc'[h] = "scanrunning" => cand'[h] = {}
      BY <1>1, <1>4 DEF ReadPending
    <2>3. QED
      BY <1>2, <2>1, <2>2
  <1>5. CASE ScanRunning(h)
    <2>1. Claimed(j, 0)
      BY <1>5 DEF ScanRunning, Unseen
    <2>2. Listed(j, {t \in Claim : lease[t] # None}, 1)
      BY <2>1, ListRunningTells
    <2>3. /\ seen'[h] = {t \in Claim : lease[t] # None}
          /\ (pc'[h] = "drained" /\ seen'[h] = {}) \/ pc'[h] = "readrunning"
      BY <1>1, <1>5 DEF ScanRunning
    <2>4. QED
      BY <2>2, <2>3 DEF Listed
  <1>6. CASE ReadRunning(h)
    <2>1. Listed(j, seen[h], 1) /\ seen[h] \in SUBSET Claim
      BY <1>1, <1>6 DEF ReadRunning, Unseen
    <2>2. \/ pc'[h] = "list"
          \/ \E t \in seen[h] :
             /\ lease[t] = None
             /\ seen'[h] = seen[h] \ {t}
             /\ (pc'[h] = "drained" /\ seen'[h] = {}) \/ pc'[h] = "readrunning"
      BY <1>1, <1>6 DEF ReadRunning
    <2>3. CASE \E t \in seen[h] :
             /\ lease[t] = None
             /\ seen'[h] = seen[h] \ {t}
             /\ (pc'[h] = "drained" /\ seen'[h] = {}) \/ pc'[h] = "readrunning"
      <3>1. Listed(j, seen'[h], 1)
        BY <2>1, <2>3, ReadGone
      <3>2. QED
        BY <2>3, <3>1 DEF Listed
    <2>4. CASE pc'[h] = "list"
      BY <2>4
    <2>5. QED
      BY <2>2, <2>3, <2>4
  <1>7. QED
    BY <1>3, <1>4, <1>5, <1>6 DEF Scan

LEMMA UnseenNext ==
  ASSUME RunOK, QueueOK', Shape, Scanned, DirectoriesKept, done \subseteq done',
         UNCHANGED <<main, listed>>, NEW h \in Worker, NEW j \in Job
  PROVE  Unseen(h, j)'
  <1> USE DEF RunOK
  <1>1. Unseen(h, j) /\ (0 \in Nat /\ 1 \in Nat /\ 2 \in Nat)
    OBVIOUS
  <1>2. /\ Claimed(j, 0) => Claimed(j, 0)'
        /\ Claimed(j, 1) => Claimed(j, 1)'
        /\ Requeued(j, 1) => Requeued(j, 1)'
        /\ Requeued(j, 2) => Requeued(j, 2)'
    BY <1>1, KnowledgeStays
  <1>4. seen[h] \in SUBSET Claim /\ seen'[h] \in SUBSET Claim
    BY DEF QueueOK, LocalOK, TypeOK
  <1>5. /\ pc'[h] = "readpending" /\ j \notin cand'[h] => Claimed(j, 0)
        /\ pc'[h] = "scanrunning" => Claimed(j, 0)
        /\ pc'[h] = "readrunning" => Listed(j, seen'[h], 1)
        /\ pc'[h] = "drained" => Requeued(j, 1)
    <2>1. CASE pc'[h] \notin ScanPC
      BY <2>1 DEF ScanPC
    <2>2. CASE pc'[h] = pc[h] /\ cand'[h] = cand[h] /\ seen'[h] = seen[h]
      BY <1>1, <2>2 DEF Unseen
    <2>3. CASE Scan(h)
      BY <1>1, <2>3, ScanTells
    <2>4. QED
      BY <2>1, <2>2, <2>3 DEF Scanned
  <1>6. pc'[h] = "readrunning" => Listed(j, seen[h], 1)'
    <2> SUFFICES ASSUME pc'[h] = "readrunning"
                 PROVE  Listed(j, seen[h], 1)'
      OBVIOUS
    <2>1. Listed(j, seen'[h], 1)
      BY <1>5
    <2>2. /\ \A t \in seen'[h] : JobOf(t) = j => 1 <= t[2] /\ t[2] <= claims'[j]
          /\ (\A t \in seen'[h] : JobOf(t) # j) => Requeued(j, 1)'
      BY <1>1, <1>4, <2>1, ListedStays
    <2>3. QED
      BY <2>2 DEF Listed, JobOf
  <1>7. main[h] = "readrunning" => Listed(j, listed[h], 2)'
    <2> SUFFICES ASSUME main[h] = "readrunning"
                 PROVE  Listed(j, listed[h], 2)'
      OBVIOUS
    <2>1. Listed(j, listed[h], 2) /\ listed[h] \in SUBSET Claim
      BY <1>1 DEF Unseen, MainOK
    <2>2. /\ \A t \in listed[h] : JobOf(t) = j => 2 <= t[2] /\ t[2] <= claims'[j]
          /\ (\A t \in listed[h] : JobOf(t) # j) => Requeued(j, 2)'
      BY <1>1, <2>1, ListedStays
    <2>3. QED
      BY <2>2 DEF Listed, JobOf
  <1>8. ASSUME main[h] \in {"marker", "lock", "write"}
        PROVE  j \in done' \/ Cardinality(Dead)' >= 2
    BY <1>1, <1>8, DeadStay DEF Unseen
  <1>9. QED
    BY <1>1, <1>2, <1>5, <1>6, <1>7, <1>8 DEF Unseen

-----------------------------------------------------------------------------
(* The main processes.                                                     *)
LEMMA MainInit == RunInit => MainOK
  <1> SUFFICES ASSUME RunInit
               PROVE  MainOK
    OBVIOUS
  <1>1. /\ main = [h \in Worker |-> "loop"] /\ listed = [h \in Worker |-> {}] /\ marker = FALSE
        /\ holder = None /\ reports = 0 /\ late = {}
    BY DEF RunInit
  <1>2. \A h \in Worker : main[h] = "loop"
    BY <1>1
  <1>3. Once /\ main \in [Worker -> MainPC] /\ listed \in [Worker -> (SUBSET Job) \union (SUBSET Claim)]
    BY <1>1, <1>2 DEF Once, MainPC
  <1>4. QED
    BY <1>1, <1>2, <1>3 DEF MainOK

LEMMA HostMain ==
  ASSUME MainOK, NEW g \in Worker, HostStep(g)
  PROVE  MainOK'
  <1> USE DEF MainOK, MainPC, Ended, Proceed
  <1>1. ASSUME NEW l \in MainPC \ {"write", "mark"}, main' = [main EXCEPT ![g] = l],
               NEW ts \in (SUBSET Job) \union (SUBSET Claim), listed' = [listed EXCEPT ![g] = ts],
               l = "readrunning" => ts \subseteq Claim, l = "lock" => ~ marker,
               UNCHANGED <<marker, holder, reports, late>>
        PROVE  MainOK'
    <2>1. \A h \in Worker : main'[h] = IF h = g THEN l ELSE main[h]
      BY <1>1
    <2>2. Once'
      BY <1>1, <2>1 DEF Once
    <2>3. \A h \in Worker : listed'[h] = IF h = g THEN ts ELSE listed[h]
      BY <1>1
    <2>4. /\ main' \in [Worker -> MainPC]
          /\ listed' \in [Worker -> (SUBSET Job) \union (SUBSET Claim)]
      BY <1>1
    <2>5. /\ \A h \in Worker : main'[h] = "readrunning" => listed'[h] \subseteq Claim
          /\ \A h \in Worker : main'[h] \in {"write", "mark"} => holder' = h
          /\ marker' \/ (\E h \in Worker : main'[h] = "mark") => reports' > 0
      BY <1>1, <2>1, <2>3
    <2>6. QED
      BY <1>1, <2>2, <2>4, <2>5
  <1>2. CASE LoopReturns(g) \/ CheckFailures(g) \/ CheckFailed(g) \/ CheckMarker(g)
    <2>1. \E l \in MainPC \ {"write", "mark", "readrunning"} :
             main' = [main EXCEPT ![g] = l] /\ (l = "lock" => ~ marker)
      BY <1>2 DEF LoopReturns, CheckFailures, CheckFailed, CheckMarker, NextDir
    <2>2. UNCHANGED <<listed, marker, holder, reports, late>>
      BY <1>2 DEF LoopReturns, CheckFailures, CheckFailed, CheckMarker
    <2>3. listed' = [listed EXCEPT ![g] = listed[g]]
      BY <2>2
    <2>4. QED
      BY <1>1, <2>1, <2>2, <2>3
  <1>9. CASE CheckPending(g)
    <2>1. \E l \in {"readpending", "running", "incomplete"}, ts \in (SUBSET Job) \union (SUBSET Claim) :
             /\ main' = [main EXCEPT ![g] = l]
             /\ listed' = [listed EXCEPT ![g] = ts]
      <3>1. CASE main[g] = "pending"
        BY <1>9, <3>1 DEF CheckPending, Look, NextDir
      <3>2. CASE main[g] = "readpending"
        <4>1. \A x : listed[g] \ {x} \in (SUBSET Job) \union (SUBSET Claim)
          OBVIOUS
        <4>2. QED
          BY <1>9, <3>2, <4>1 DEF CheckPending, ReadListed, Look, NextDir
      <3>3. QED
        BY <1>9, <3>1, <3>2 DEF CheckPending
    <2>2. UNCHANGED <<marker, holder, reports, late>>
      BY <1>9 DEF CheckPending, ReadListed, Look
    <2>3. QED
      BY <1>1, <2>1, <2>2
  <1>10. CASE CheckRunning(g)
    <2>1. \E l \in {"readrunning", "failed", "incomplete"}, ts \in SUBSET Claim :
             /\ main' = [main EXCEPT ![g] = l]
             /\ listed' = [listed EXCEPT ![g] = ts]
      <3>1. CASE main[g] = "running"
        BY <1>10, <3>1 DEF CheckRunning, Look, NextDir
      <3>2. CASE main[g] = "readrunning"
        BY <1>10, <3>2 DEF CheckRunning, ReadListed, Look, NextDir
      <3>3. QED
        BY <1>10, <3>1, <3>2 DEF CheckRunning
    <2>2. UNCHANGED <<marker, holder, reports, late>>
      BY <1>10 DEF CheckRunning, ReadListed, Look
    <2>3. QED
      BY <1>1, <2>1, <2>2
  <1>3. CASE TakeLock(g)
    <2>1. CASE /\ LockIsFree /\ holder' = g /\ main' = [main EXCEPT ![g] = "write"]
               /\ UNCHANGED <<listed, marker, reports, late>>
      <3>1. main[g] = "lock" /\ holder = None /\ \A h \in Worker : h # None
        BY <1>3, <2>1, NoneAssumption DEF TakeLock, LockIsFree
      <3>2. \A h \in Worker : /\ main'[h] = IF h = g THEN "write" ELSE main[h]
                              /\ main[h] \notin {"write", "mark"}
        BY <2>1, <3>1
      <3>3. Once'
        BY <2>1, <3>1, <3>2 DEF Once
      <3>4. QED
        BY <2>1, <3>1, <3>2, <3>3
    <2>2. CASE UNCHANGED <<listed, marker, holder, reports, late>> /\ main' = [main EXCEPT ![g] = "ended"]
      <3>1. /\ listed' = [listed EXCEPT ![g] = listed[g]]
            /\ listed[g] \in (SUBSET Job) \union (SUBSET Claim)
            /\ "ended" \in MainPC \ {"write", "mark"}
        BY <2>2
      <3>2. UNCHANGED <<marker, holder, reports, late>>
        BY <2>2
      <3>3. QED
        BY <1>1, <2>2, <3>1, <3>2
    <2>3. QED
      BY <1>3, <2>1, <2>2 DEF TakeLock
  <1>4. CASE WriteReports(g)
    <2>1. /\ main[g] = "write" /\ main' = [main EXCEPT ![g] = "mark"] /\ reports' = reports + 1
          /\ UNCHANGED <<listed, marker, holder, late>>
      BY <1>4 DEF WriteReports
    <2>2. \A h \in Worker : /\ main'[h] = IF h = g THEN "mark" ELSE main[h]
                            /\ h # g => main[h] \notin {"write", "mark"}
      BY <2>1
    <2>3. holder' # None /\ \A h \in Worker : main'[h] # "write"
      BY <2>1, <2>2, NoneAssumption
    <2>4. Once'
      BY <2>1, <2>2, <2>3 DEF Once
    <2>5. QED
      BY <2>1, <2>2, <2>4
  <1>5. CASE MarkFinalized(g)
    <2>1. /\ main[g] = "mark" /\ main' = [main EXCEPT ![g] = "ended"] /\ holder' = None
          /\ marker' = TRUE /\ late' = late \union {h \in Worker : main[h] = "lock"}
          /\ UNCHANGED <<listed, reports>>
      BY <1>5 DEF MarkFinalized
    <2>2. \A h \in Worker : /\ main'[h] = IF h = g THEN "ended" ELSE main[h]
                            /\ main'[h] \notin {"write", "mark"}
      BY <2>1
    <2>3. Once'
      BY <2>1, <2>2 DEF Once
    <2>4. QED
      BY <2>1, <2>2, <2>3
  <1>6. CASE WriteFails(g)
    <2>1. /\ main[g] = "write" /\ main' = [main EXCEPT ![g] = "killed"] /\ holder' = None
          /\ UNCHANGED <<listed, marker, reports, late>>
      BY <1>6 DEF WriteFails
    <2>2. \A h \in Worker : /\ main'[h] = IF h = g THEN "killed" ELSE main[h]
                            /\ main'[h] \notin {"write", "mark"}
      BY <2>1
    <2>3. Once'
      BY <2>1, <2>2 DEF Once
    <2>4. QED
      BY <2>1, <2>2, <2>3
  <1>7. CASE CrashMain(g)
    BY <1>1, <1>7 DEF CrashMain
  <1>11. QED
    BY <1>2, <1>3, <1>4, <1>5, <1>6, <1>7, <1>9, <1>10 DEF HostStep, MainStep

LEMMA MainNext == MainOK /\ [RunNext]_allvars => MainOK'
  <1> SUFFICES ASSUME MainOK, [RunNext]_allvars
               PROVE  MainOK'
    OBVIOUS
  <1>1. CASE UNCHANGED rvars
    BY <1>1 DEF MainOK, Once, rvars
  <1>2. CASE \E g \in Worker : HostStep(g)
    BY <1>2, HostMain
  <1>3. QED
    BY <1>1, <1>2 DEF RunNext, RunTerminated, allvars

(* What the host has not seen, it has not seen because of what Unseen says *)
(* of it.                                                                  *)
LEMMA HostUnseen ==
  ASSUME RunOK, NEW g \in Worker, HostStep(g), UNCHANGED vars, NEW h \in Worker, NEW j \in Job
  PROVE  Unseen(h, j)'
  <1> USE DEF RunOK, MainOK, Proceed
  <1>1. Unseen(h, j)
    OBVIOUS
  <1>2. /\ UNCHANGED <<pc, done, Cardinality(Dead), Finished(j)>>
        /\ \A k \in Nat : Claimed(j, k)' = Claimed(j, k) /\ Requeued(j, k)' = Requeued(j, k)
    BY DEF vars, files, Finished, Dead, Claimed, Requeued, LeasesOf
  <1>3. /\ pc[h] = "scanrunning" => Claimed(j, 0)
        /\ pc[h] = "drained" => Requeued(j, 1)
    BY <1>1 DEF Unseen
  <1>4. ASSUME /\ main'[h] \in {"failures", "pending", "readpending"} => Requeued(j, 1)
               /\ main'[h] = "readpending" /\ j \notin listed'[h] => Claimed(j, 1)
               /\ main'[h] = "running" => Claimed(j, 1)
               /\ main'[h] = "readrunning" => Listed(j, listed'[h], 2)
               /\ main'[h] = "failed" => Requeued(j, 2)
               /\ main'[h] \in {"marker", "lock", "write"} => j \in done \/ Cardinality(Dead) >= 2
        PROVE  Unseen(h, j)'
    <2>1. Listed(j, listed'[h], 2) => Listed(j, listed[h], 2)'
      BY <1>2 DEF Listed, JobOf, vars, files
    <2>2. /\ pc[h] = "readpending" /\ j \notin cand[h] => Claimed(j, 0)'
          /\ pc[h] = "readrunning" => Listed(j, seen[h], 1)'
          /\ UNCHANGED <<cand, seen>>
      BY <1>1, <1>2 DEF Unseen, Listed, JobOf, vars, files, locals
    <2>3. QED
      BY <1>2, <1>3, <1>4, <2>1, <2>2 DEF Unseen
  <1>5. CASE g # h
    <2>1. main'[h] = main[h] /\ listed'[h] = listed[h]
      BY <1>5 DEF HostStep, MainStep, LoopReturns, CheckFailures, CheckPending, CheckRunning,
         ReadListed, Look, CheckFailed, CheckMarker, TakeLock, WriteReports, MarkFinalized,
         WriteFails, CrashMain
    <2>2. QED
      BY <1>1, <1>4, <2>1 DEF Unseen
  <1>6. CASE g = h
    <2>1. \A l : main' = [main EXCEPT ![g] = l] => main'[h] = l
      BY <1>6
    <2>2. CASE LoopReturns(g)
      <3>1. main'[h] = IF pc[h] = "drained" THEN "failures" ELSE "killed"
        BY <1>6, <2>1, <2>2 DEF LoopReturns
      <3>2. QED
        BY <1>3, <1>4, <3>1
    <2>3. CASE CheckFailures(g)
      <3>1. main[h] = "failures" /\ main'[h] \in {"incomplete", "pending"}
        BY <1>6, <2>1, <2>3 DEF CheckFailures
      <3>2. QED
        BY <1>1, <1>4, <3>1 DEF Unseen
    <2>4. CASE CheckPending(g)
      <3>1. main[h] \in {"pending", "readpending"} /\ Requeued(j, 1)
        BY <1>1, <1>6, <2>4 DEF CheckPending, Unseen
      <3>2. pending[j] = None => Claimed(j, 1)
        BY <3>1, NotPending
      <3>3. main[h] = "readpending" /\ j \notin listed[h] => Claimed(j, 1)
        BY <1>1 DEF Unseen
      <3>4. \/ main'[h] = "incomplete"
            \/ /\ main'[h] \in {"readpending", "running"}
               /\ \/ j \in listed'[h] /\ main'[h] = "readpending"
                  \/ pending[j] = None
                  \/ main[h] = "readpending" /\ j \notin listed[h]
        <4>1. CASE main[h] = "pending"
          BY <1>6, <2>1, <2>4, <4>1 DEF CheckPending, Look, NextDir
        <4>2. CASE main[h] = "readpending"
          BY <1>6, <2>1, <2>4, <4>2 DEF CheckPending, ReadListed, Look, NextDir
        <4>3. QED
          BY <3>1, <4>1, <4>2
      <3>5. QED
        BY <1>4, <3>1, <3>2, <3>3, <3>4
    <2>5. CASE CheckRunning(g)
      <3>1. \/ main'[h] = "incomplete"
            \/ /\ main'[h] \in {"readrunning", "failed"}
               /\ main'[h] = "failed" => listed'[h] = {}
               /\ Listed(j, listed'[h], 2)
        <4>1. CASE main[h] = "running"
          <5>1. Claimed(j, 1)
            BY <1>1, <4>1 DEF Unseen
          <5>2. Listed(j, {t \in Claim : lease[t] # None}, 2)
            BY <5>1, ListRunningTells
          <5>3. /\ listed'[h] = {t \in Claim : lease[t] # None}
                /\ main'[h] = IF listed'[h] = {} THEN "failed" ELSE "readrunning"
            BY <1>6, <2>1, <2>5, <4>1 DEF CheckRunning, Look, NextDir
          <5>4. QED
            BY <5>2, <5>3
        <4>2. CASE main[h] = "readrunning"
          <5>1. Listed(j, listed[h], 2) /\ listed[h] \in SUBSET Claim
            BY <1>1, <4>2 DEF Unseen
          <5>2. \/ main'[h] = "incomplete"
                \/ \E t \in listed[h] :
                      /\ lease[t] = None /\ listed'[h] = listed[h] \ {t}
                      /\ main'[h] = IF listed'[h] = {} THEN "failed" ELSE "readrunning"
            BY <1>6, <2>1, <2>5, <4>2 DEF CheckRunning, ReadListed, Look, NextDir
          <5>3. CASE \E t \in listed[h] :
                      /\ lease[t] = None /\ listed'[h] = listed[h] \ {t}
                      /\ main'[h] = IF listed'[h] = {} THEN "failed" ELSE "readrunning"
            <6>1. Listed(j, listed'[h], 2)
              BY <5>1, <5>3, ReadGone
            <6>2. QED
              BY <5>3, <6>1
          <5>4. QED
            BY <5>2, <5>3
        <4>3. QED
          BY <1>6, <2>5, <4>1, <4>2 DEF CheckRunning
      <3>2. main'[h] = "failed" => Requeued(j, 2)
        BY <3>1 DEF Listed
      <3>3. QED
        BY <1>4, <3>1, <3>2
    <2>6. CASE CheckFailed(g)
      <3>1. main[h] = "failed"
        BY <1>6, <2>6 DEF CheckFailed
      <3>2. \/ main'[h] = "incomplete"
            \/ main'[h] = "marker" /\ failed[j] = None
        BY <2>1, <2>6 DEF CheckFailed, NextDir
      <3>3. Requeued(j, 2)
        BY <1>1, <3>1 DEF Unseen
      <3>4. /\ claims[j] \in Nat /\ Cardinality(Dead) \in Nat
            /\ claims[j] <= Cardinality(Dead) + (IF Finished(j) \/ Occupied(j) THEN 1 ELSE 0)
        BY FS_CardinalityType DEF QueueOK, LocalOK, TypeOK, Toll
      <3>5. CASE Finished(j)
        BY <1>4, <3>2, <3>5 DEF Finished
      <3>6. CASE pending[j] # None /\ claims[j] >= 2
        <4>1. ~ Finished(j) /\ ~ Occupied(j)
          BY <3>6, WaitingIsFree DEF QueueOK
        <4>2. Cardinality(Dead) >= 2
          BY <3>4, <3>6, <4>1
        <4>3. QED
          BY <1>4, <3>2, <4>2
      <3>7. CASE claims[j] >= 2 + 1
        <4>1. Cardinality(Dead) >= 2
          BY <3>4, <3>7
        <4>2. QED
          BY <1>4, <3>2, <4>1
      <3>8. QED
        BY <3>3, <3>5, <3>6, <3>7 DEF Requeued
    <2>7. CASE CheckMarker(g)
      <3>1. main[h] = "marker" /\ main'[h] \in {"ended", "lock"}
        BY <1>6, <2>1, <2>7 DEF CheckMarker
      <3>2. QED
        BY <1>1, <1>4, <3>1 DEF Unseen
    <2>8. CASE TakeLock(g)
      <3>1. main[h] = "lock" /\ main'[h] \in {"ended", "write"}
        BY <1>6, <2>1, <2>8 DEF TakeLock
      <3>2. QED
        BY <1>1, <1>4, <3>1 DEF Unseen
    <2>9. CASE WriteReports(g) \/ MarkFinalized(g) \/ WriteFails(g) \/ CrashMain(g)
      <3>1. main'[h] \in {"mark", "ended", "killed"}
        BY <1>6, <2>1, <2>9 DEF WriteReports, MarkFinalized, WriteFails, CrashMain
      <3>2. QED
        BY <1>4, <3>1
    <2>10. QED
      BY <2>2, <2>3, <2>4, <2>5, <2>6, <2>7, <2>8, <2>9 DEF HostStep, MainStep
  <1>7. QED
    BY <1>5, <1>6

LEMMA RunInitOK == RunInit => RunOK
  <1> SUFFICES ASSUME RunInit
               PROVE  RunOK
    OBVIOUS
  <1>1. Init /\ \A h \in Worker : main[h] = "loop"
    BY DEF RunInit
  <1>2. LocalOK /\ Ownership /\ MainOK
    BY <1>1, LocalInit, OwnershipInit, MainInit
  <1>3. NoJobLost
    <2> DEFINE fresh == [attempt |-> 1, old |-> FALSE, signed |-> FALSE]
    <2>1. fresh \in File
      BY AttemptsAssumption DEF File
    <2>2. pending = [j \in Job |-> fresh]
      BY <1>1 DEF Init
    <2> HIDE DEF fresh
    <2>3. QED
      BY <2>1, <2>2, NoneAssumption DEF NoJobLost
  <1>4. \A w \in Worker : pc[w] = "list"
    BY <1>1 DEF Init
  <1>5. Dead = {}
    BY <1>4 DEF Dead
  <1>6. IsFiniteSet(Dead) /\ Cardinality(Dead) = 0
    BY <1>5, FS_EmptySet
  <1>7. Toll /\ Latest
    BY <1>1, <1>6 DEF Init, Toll, Latest
  <1>8. StopsLast /\ \A h \in Worker, j \in Job : Unseen(h, j)
    BY <1>1, <1>4 DEF StopsLast, Unseen
  <1>9. QED
    BY <1>2, <1>3, <1>6, <1>7, <1>8 DEF RunOK, QueueOK

LEMMA RunNextOK == RunOK /\ Regime /\ [RunNext]_allvars => RunOK'
  <1> SUFFICES ASSUME RunOK, Regime, [RunNext]_allvars
               PROVE  RunOK'
    OBVIOUS
  <1>1. [Next]_vars
    BY DEF RunNext, RunTerminated, allvars, Next
  <1>2. QueueOK' /\ MainOK'
    BY <1>1, QueueNext, MainNext DEF RunOK
  <1>3. CASE UNCHANGED <<main, listed>>
    <2>1. Shape /\ Scanned /\ DirectoriesKept /\ done \subseteq done'
      BY <1>1, NextShape, NextScanned, NextKept DEF RunOK, QueueOK
    <2>2. \A h \in Worker, j \in Job : Unseen(h, j)'
      BY <1>2, <1>3, <2>1, UnseenNext
    <2>3. QED
      BY <1>2, <2>2 DEF RunOK
  <1>4. CASE (\E g \in Worker : HostStep(g)) /\ UNCHANGED vars
    <2>1. \A h \in Worker, j \in Job : Unseen(h, j)'
      BY <1>4, HostUnseen
    <2>2. QED
      BY <1>2, <2>1 DEF RunOK
  <1>5. QED
    BY <1>3, <1>4 DEF RunNext, RunTerminated, allvars, rvars

-----------------------------------------------------------------------------
(* finalized.json means that the final reports have been written, whoever  *)
(* is slow, killed or fails, and in whatever regime the queue runs.        *)
THEOREM MarkerIsHonest == RunSpec => []MarkerMeansReports
  <1>1. MainOK => MarkerMeansReports
    BY DEF MainOK, MarkerMeansReports
  <1>2. QED
    BY MainInit, MainNext, <1>1, PTL DEF RunSpec

(* The invariant of a run: the queue's ownership and toll, the lock of the *)
(* main processes, and what every host knows of the jobs it has not seen.  *)
THEOREM RunKept ==
  ASSUME Regime
  PROVE  RunSpec => []RunOK
  <1>1. RunInit => RunOK
    BY RunInitOK
  <1>2. RunOK /\ [RunNext]_allvars => RunOK'
    BY RunNextOK
  <1>3. QED
    BY <1>1, <1>2, PTL DEF RunSpec

(* docs/rule-audit.md:62: a host writes the final reports alone, first or  *)
(* because it had looked for the marker before there was one, and when all *)
(* jobs are done unless two workers have died.                             *)
THEOREM ReportsAreComplete ==
  ASSUME Regime
  PROVE  RunSpec => []ReportsComplete
  <1>1. RunOK => ReportsComplete
    <2> SUFFICES ASSUME RunOK, NEW h \in Worker, main[h] = "write"
                 PROVE  /\ \A g \in Worker \ {h} : main[g] \notin {"write", "mark"}
                        /\ reports = 0 \/ h \in late
                        /\ Cardinality(Dead) <= 1 => done = Job
      BY DEF ReportsComplete, Dead
    <2>1. \A g \in Worker \ {h} : main[g] \notin {"write", "mark"}
      BY DEF RunOK, MainOK
    <2>4. reports = 0 \/ h \in late
      BY DEF RunOK, MainOK, Once
    <2>2. ASSUME Cardinality(Dead) <= 1
          PROVE  done = Job
      <3>1. done \subseteq Job /\ Cardinality(Dead) \in Nat
        BY FS_CardinalityType DEF RunOK, QueueOK, LocalOK, TypeOK
      <3>2. \A j \in Job : j \in done
        BY <2>2, <3>1 DEF RunOK, Unseen
      <3>3. QED
        BY <3>1, <3>2
    <2>3. QED
      BY <2>1, <2>2, <2>4
  <1>2. QED
    BY RunKept, <1>1, PTL

-----------------------------------------------------------------------------
(***************************************************************************)
(* AuditStart, for any number of hosts, jobs, attempts and                 *)
(* launches: nobody enters the worker loop on a queue in which a job is    *)
(* missing (in any regime), and, in the regime the queue is written for,   *)
(* no start gives a job a second file or forgets its attempts, unless a    *)
(* lease is requeued between two lookups of a start (slipped).             *)
(***************************************************************************)

Present(j) == pending[j] # None \/ LeasesOf(j) # {} \/ Finished(j)

(* Where a host has .init.lock, and where it is at a job.                  *)
AtJob == {"retry", "requeue", "findpending", "findrunning", "finddone", "findfailed", "create"}
Inside(h) == start[h] \in AtJob \union {"jobs", "markready", "unlock"}

StartTypeOK == /\ ready \in BOOLEAN /\ initlock \in BOOLEAN
               /\ start \in [Worker -> StartPC]
               /\ todo \in [Worker -> SUBSET Job]
               /\ current \in [Worker -> Job \union {None}]
               /\ retry \in [Worker -> BOOLEAN]
               /\ slipped \in BOOLEAN

(* A host that starts runs no worker; the one inside .init.lock is alone.  *)
Locked == /\ \A h \in Worker : start[h] # "loop" => pc[h] \in Stopped
          /\ \A h \in Worker : Inside(h) => initlock
          /\ \A g, h \in Worker : Inside(g) /\ Inside(h) => g = h

(* What it has gone through is there, and what it retries has failed.      *)
Done(h) == Job \ (todo[h] \union (IF start[h] \in AtJob THEN {current[h]} ELSE {}))
GoneThrough == \A h \in Worker :
    /\ Inside(h) => \A j \in Done(h) : Present(j)
    /\ start[h] \in AtJob => current[h] \in Job
    /\ start[h] \in {"markready", "unlock"} => todo[h] = {}
    /\ start[h] = "requeue" => failed[current[h]] # None

StartOK == LocalOK /\ StartTypeOK /\ Locked /\ GoneThrough /\ (ready => NoJobLost)

(* What the host inside the lock has found out about its job still holds.  *)
Found(h) ==
    LET j == current[h] IN
    /\ Looking(h) => pending[j] = None
    /\ start[h] \in {"finddone", "findfailed", "create"} => LeasesOf(j) = {}
    /\ start[h] \in {"findfailed", "create"} => j \notin done
    /\ start[h] = "create" => failed[j] = None
    /\ start[h] = "requeue" => ~ failed[j].old /\ failed[j].attempt > Used(j)

(* A failed file counts the attempts of its job; a job in use is not lost. *)
Account == \A j \in Job : /\ failed[j] # None => failed[j].attempt >= Used(j)
                          /\ Used(j) > 0 => Present(j)

FilesOK == Ownership /\ Counted /\ (\A h \in Worker : Found(h)) /\ Account

RestartOK == StartOK /\ (~ slipped => FilesOK)

USE DEF files, locals, vars

StartingStep(h) == Launch(h) \/ Starting(h) \/ TimeOut(h) \/ CrashStart(h) \/ BreakOffStart(h)

(* What the steps of the queue leave alone.                                *)
hostvars == <<ready, initlock, start, todo, current, retry, launches>>

-----------------------------------------------------------------------------
(* What the steps of the queue leave to the hosts that start.              *)
Undisturbed == /\ \A w \in Worker : pc[w] \in Stopped => pc'[w] = pc[w]
               /\ \A j \in Job : failed[j] # None => failed'[j] # None
               /\ \A j \in Job : Present(j) => Present(j)'

LEMMA QueueUndisturbing ==
  ASSUME LocalOK, [Next]_vars
  PROVE  Undisturbed
  <1> USE DEF LocalOK, TypeOK, Goto
  <1>1. \A j \in Job : Present(j) => Present(j)'
    BY NextKept DEF DirectoriesKept, Kept, Present
  <1> DEFINE Calmly(w) == /\ pc[w] \notin Stopped
                          /\ \A v \in Worker \ {w} : pc'[v] = pc[v]
                          /\ \A j \in Job : failed[j] # None => failed'[j] # None
  <1>2. ASSUME NEW w \in Worker, Calmly(w)
        PROVE  Undisturbed
    BY <1>1, <1>2 DEF Undisturbed
  <1>3. ASSUME NEW w \in Worker, NEW t \in Claim, NEW dir, lease[t] # None, MoveLease(t, dir)
        PROVE  \A j \in Job : failed[j] # None => failed'[j] # None
    BY <1>3, MoveFacts
  <1>4. ASSUME NEW w \in Worker, Recover(w)
        PROVE  Calmly(w)
    <2>1. CASE RequeueLease(w)
      BY <1>3, <2>1 DEF RequeueLease, Stopped, PathOK, RecoverPC
    <2>2. CASE ~ RequeueLease(w)
      BY <1>4, <2>2 DEF Recover, ListRunning, LockLease, PeekPayload, JudgeLease, RewriteLease,
         UnmarkLease, SkipLease, Stopped
    <2>3. QED
      BY <2>1, <2>2
  <1>5. ASSUME NEW w \in Worker, ClaimJob(w)
        PROVE  Calmly(w)
    BY <1>5 DEF ClaimJob, ListPending, ClaimRename, ClaimRead, Raise, ClaimWrite, Stopped
  <1>6. ASSUME NEW w \in Worker, Work(w) \/ Scan(w)
        PROVE  Calmly(w)
    BY <1>6 DEF Work, Scan, StartHeartbeat, WorkSucceeds, WorkFails, WorkInterrupted,
       ScanPending, ReadPending, ScanRunning, ReadRunning, Stopped
  <1>7. ASSUME NEW w \in Worker, Finish(w)
        PROVE  Calmly(w)
    <2>1. CASE FinishMove(w) /\ lease[path[w]] # None
      BY <1>3, <2>1 DEF FinishMove, Stopped, PathOK, HoldPC
    <2>2. CASE ~ (FinishMove(w) /\ lease[path[w]] # None)
      BY <1>7, <2>2 DEF Finish, UpdateExists, UpdateRead, UpdateWrite, FinishExists, FinishRead,
         FinishVanished, FinishWrite, FinishMove, StopHeartbeat, Stopped
    <2>3. QED
      BY <2>1, <2>2
  <1>8. ASSUME NEW w \in Worker, Crash(w) \/ BreakOffRecovery(w)
        PROVE  Calmly(w)
    BY <1>8 DEF Crash, BreakOffRecovery, RecoverPC, Stopped
  <1>9. CASE (\E w \in Worker : Beat(w)) \/ TimePasses \/ UNCHANGED vars
    <2>1. UNCHANGED <<pc, failed>>
      BY <1>9 DEF Beat, TimePasses, AgeBeat, AgeLease, AgePending
    <2>2. QED
      BY <1>1, <2>1 DEF Undisturbed
  <1> HIDE DEF Calmly
  <1>10. QED
    BY <1>2, <1>4, <1>5, <1>6, <1>7, <1>8, <1>9 DEF Next, QueueStep, WorkerStep, Terminated

-----------------------------------------------------------------------------
(* What the steps of a host that starts do to the queue.                   *)
LEMMA FreshIsFile == FreshFile \in File /\ FreshFile # None /\ ~ FreshFile.old
  <1>1. FreshFile \in File /\ ~ FreshFile.old
    BY AttemptsAssumption DEF FreshFile, File
  <1>2. QED
    BY <1>1, NoneAssumption

(* The files stay, but for the job of the host inside the lock, and the    *)
(* host's worker enters its loop when the host does.                       *)
HostFiles(h, j) ==
    \/ /\ start[h] = "create" /\ start'[h] = "jobs"
       /\ pending' = [pending EXCEPT ![j] = FreshFile]
       /\ UNCHANGED failed
    \/ /\ start[h] = "retry" /\ start'[h] = "requeue" /\ failed[j] # None
       /\ \E f \in File : /\ f.attempt = failed[j].attempt + 1 /\ ~ f.old
                          /\ failed' = [failed EXCEPT ![j] = f]
       /\ UNCHANGED pending
    \/ /\ start[h] = "requeue" /\ start'[h] = "findpending"
       /\ pending' = [pending EXCEPT ![j] = failed[j]]
       /\ failed' = [failed EXCEPT ![j] = None]

HostQueue(h) ==
    /\ UNCHANGED <<lease, done, beat, locked, claims, wasted, locals, slipped>>
    /\ \/ UNCHANGED <<pending, failed>>
       \/ \E j \in Job : j = current[h] /\ UNCHANGED <<current, todo, pc>> /\ HostFiles(h, j)
    /\ pc[h] \in Stopped
    /\ \/ pc' = pc /\ start'[h] # "loop"
       \/ pc' = [pc EXCEPT ![h] = "off"] /\ start'[h] # "loop"
       \/ pc' = [pc EXCEPT ![h] = "list"] /\ start'[h] = "loop" 

LEMMA HostQueueSteps ==
  ASSUME StartOK, NEW h \in Worker, StartingStep(h)
  PROVE  HostQueue(h)
  <1> USE DEF StartOK, StartTypeOK, LocalOK, TypeOK, Locked, To, EnterLoop, Goto, HostQueue
  <1>1. pc[h] \in Stopped
    BY DEF StartingStep, Launch, Starting, CheckReady, TakeInitLock, AwaitReady, NextJob, RetryRewrite,
       RetryMove, FindPending, FindRunning, FindDone, FindFailed, Find, CreateJob, MarkReady,
       ReleaseInitLock, TimeOut, CrashStart, BreakOffStart, Abort, AtRest
  <1>2. CASE Launch(h) \/ CheckReady(h) \/ AwaitReady(h) \/ ReleaseInitLock(h)
    BY <1>1, <1>2 DEF Launch, CheckReady, AwaitReady, ReleaseInitLock
  <1>3. CASE \/ TakeInitLock(h) \/ NextJob(h) \/ MarkReady(h) \/ TimeOut(h)
             \/ CrashStart(h) \/ BreakOffStart(h)
    BY <1>1, <1>3 DEF TakeInitLock, NextJob, NextLabel, MarkReady, TimeOut, CrashStart, BreakOffStart,
       Abort
  <1>4. CASE FindPending(h) \/ FindRunning(h) \/ FindDone(h) \/ FindFailed(h)
    BY <1>1, <1>4 DEF FindPending, FindRunning, FindDone, FindFailed, Find
  <1>5. CASE CreateJob(h)
    <2>1. PICK j \in Job : j = current[h]
      BY <1>5 DEF CreateJob, GoneThrough, AtJob
    <2>2. QED
      BY <1>1, <1>5, <2>1 DEF CreateJob, HostFiles
  <1>6. CASE RetryRewrite(h)
    <2>1. PICK j \in Job : j = current[h]
      BY <1>6 DEF RetryRewrite, GoneThrough, AtJob
    <2>2. CASE failed[j] # None /\ ~ ExhaustedAttempt(failed[j])
      <3> DEFINE f == [FreshFile EXCEPT !.attempt = NextAttempt(failed[j])]
      <3>1. failed[j] \in File
        BY <2>2
      <3>2. /\ NextAttempt(failed[j]) = failed[j].attempt + 1
            /\ NextAttempt(failed[j]) \in 1 .. MaxAttempts
        BY <2>2, <3>1, AttemptAdvances DEF NextAttempt
      <3>3. f \in File /\ f.attempt = failed[j].attempt + 1 /\ ~ f.old
        BY <3>2 DEF FreshFile, File
      <3>4. /\ start[h] = "retry" /\ start'[h] = "requeue"
            /\ failed' = [failed EXCEPT ![j] = f]
            /\ UNCHANGED <<pending, lease, done, beat, locked, claims, wasted, pc, locals, current,
                           todo, slipped>>
        BY <1>6, <2>1, <2>2 DEF RetryRewrite
      <3> HIDE DEF f
      <3>5. QED
        BY <1>1, <2>1, <2>2, <3>3, <3>4 DEF HostFiles
    <2>3. CASE ~ (failed[j] # None /\ ~ ExhaustedAttempt(failed[j]))
      BY <1>1, <1>6, <2>1, <2>3 DEF RetryRewrite
    <2>4. QED
      BY <2>2, <2>3
  <1>7. CASE RetryMove(h)
    <2>1. PICK j \in Job : j = current[h]
      BY <1>7 DEF RetryMove, GoneThrough, AtJob
    <2>2. QED
      BY <1>1, <1>7, <2>1 DEF RetryMove, HostFiles
  <1>8. QED
    BY <1>2, <1>3, <1>4, <1>5, <1>6, <1>7 DEF StartingStep, Starting

LEMMA HostLocal ==
  ASSUME StartOK, NEW h \in Worker, HostQueue(h)
  PROVE  LocalOK' /\ \A j \in Job : Present(j) => Present(j)'
  <1> USE DEF StartOK, HostQueue
  <1>1. \/ pc' = pc
        \/ \E l \in {"list", "off"} : pc' = [pc EXCEPT ![h] = l]
    OBVIOUS
  <1>2. ASSUME pending' \in [Job -> File \union {None}], failed' \in [Job -> File \union {None}]
        PROVE  LocalOK'
    BY <1>1, <1>2 DEF LocalOK, TypeOK, PathOK, CopyOK, VerdictOK, PC, Stopped, RecoverPC, HoldPC
  <1>3. CASE UNCHANGED <<pending, failed>>
    BY <1>2, <1>3 DEF LocalOK, TypeOK, Present, LeasesOf, Finished
  <1>4. ASSUME NEW j \in Job, j = current[h], HostFiles(h, j)
        PROVE  LocalOK' /\ \A i \in Job : Present(i) => Present(i)'
    <2>1. start[h] = "requeue" => failed[j] \in File
      BY <1>4 DEF GoneThrough, LocalOK, TypeOK
    <2>2. /\ pending' \in [Job -> File \union {None}] /\ failed' \in [Job -> File \union {None}]
          /\ \A i \in Job \ {j} : pending'[i] = pending[i] /\ failed'[i] = failed[i]
          /\ pending'[j] # None \/ (pending' = pending /\ failed'[j] # None)
      BY <1>4, <2>1, FreshIsFile, NoneAssumption DEF HostFiles, LocalOK, TypeOK
    <2>3. LocalOK'
      BY <1>2, <2>2
    <2>4. \A i \in Job : Present(i) => Present(i)'
      BY <2>2 DEF Present, LeasesOf, Finished
    <2>5. QED
      BY <2>3, <2>4
  <1>5. QED
    BY <1>3, <1>4

-----------------------------------------------------------------------------
LEMMA HostTyped ==
  ASSUME StartOK, NEW h \in Worker, StartingStep(h)
  PROVE  /\ StartTypeOK'
         /\ \A g \in Worker \ {h} : start'[g] = start[g] /\ todo'[g] = todo[g] /\ current'[g] = current[g]
         /\ ready' # ready => start[h] = "markready"
  <1> USE DEF StartOK, StartTypeOK, StartPC, To, EnterLoop
  <1>0. CASE Launch(h)
    BY <1>0, StartAssumption DEF Launch
  <1>1. CASE CheckReady(h) \/ AwaitReady(h) \/ ReleaseInitLock(h) \/ TimeOut(h)
    BY <1>1 DEF CheckReady, AwaitReady, ReleaseInitLock, TimeOut
  <1>2. CASE TakeInitLock(h) \/ MarkReady(h) \/ CrashStart(h) \/ BreakOffStart(h)
    BY <1>2 DEF TakeInitLock, MarkReady, CrashStart, BreakOffStart, Abort
  <1>3. CASE NextJob(h)
    BY <1>3 DEF NextJob, NextLabel
  <1>4. CASE FindPending(h) \/ FindRunning(h) \/ FindDone(h) \/ FindFailed(h)
    BY <1>4 DEF FindPending, FindRunning, FindDone, FindFailed, Find
  <1>5. CASE CreateJob(h) \/ RetryRewrite(h) \/ RetryMove(h)
    BY <1>5 DEF CreateJob, RetryRewrite, RetryMove
  <1>6. QED
    BY <1>0, <1>1, <1>2, <1>3, <1>4, <1>5 DEF StartingStep, Starting

LEMMA HostLocked ==
  ASSUME StartOK, NEW h \in Worker, StartingStep(h)
  PROVE  Locked'
  <1>1. /\ HostQueue(h)
        /\ \A g \in Worker \ {h} : start'[g] = start[g]
    BY HostQueueSteps, HostTyped
  <1> USE DEF StartOK, StartTypeOK, Locked, Inside, AtJob, To, EnterLoop
  <1>2. \A g \in Worker : start'[g] # "loop" => pc'[g] \in Stopped
    BY <1>1 DEF HostQueue, LocalOK, TypeOK, Stopped
  <1>3. ASSUME Inside(h)' => Inside(h), initlock' = initlock \/ (Inside(h) /\ ~ Inside(h)')
        PROVE  Locked'
    BY <1>1, <1>2, <1>3
  <1>4. CASE Launch(h) \/ CheckReady(h) \/ AwaitReady(h) \/ TimeOut(h)
    BY <1>3, <1>4 DEF Launch, CheckReady, AwaitReady, TimeOut, AtRest
  <1>5. CASE ReleaseInitLock(h) \/ MarkReady(h) \/ CrashStart(h)
    BY <1>3, <1>5 DEF ReleaseInitLock, MarkReady, CrashStart, Abort
  <1>11. CASE BreakOffStart(h)
    <2>1. Inside(h)
      BY <1>11 DEF BreakOffStart, Abort, AtRest, StartPC
    <2>2. start'[h] = "gone"
      BY <1>11 DEF BreakOffStart, Abort
    <2>3. QED
      BY <1>3, <2>1, <2>2
  <1>6. CASE NextJob(h)
    BY <1>3, <1>6 DEF NextJob, NextLabel
  <1>7. CASE FindPending(h) \/ FindRunning(h) \/ FindDone(h) \/ FindFailed(h)
    BY <1>3, <1>7 DEF FindPending, FindRunning, FindDone, FindFailed, Find
  <1>8. CASE CreateJob(h) \/ RetryRewrite(h) \/ RetryMove(h)
    BY <1>3, <1>8 DEF CreateJob, RetryRewrite, RetryMove
  <1>9. CASE TakeInitLock(h)
    <2>1. CASE initlock
      BY <1>3, <1>9, <2>1 DEF TakeInitLock, LockFree
    <2>2. CASE ~ initlock
      <3>1. initlock' /\ \A g \in Worker : ~ Inside(g)
        BY <1>9, <2>2 DEF TakeInitLock, LockFree
      <3>2. QED
        BY <1>1, <1>2, <3>1
    <2>3. QED
      BY <2>1, <2>2
  <1>12. QED
    BY <1>4, <1>5, <1>6, <1>7, <1>8, <1>9, <1>11 DEF StartingStep, Starting

(* What the host inside the lock has gone through, step by step.           *)
GoneThroughAt(h) ==
    /\ Inside(h) => \A j \in Done(h) : Present(j)
    /\ start[h] \in AtJob => current[h] \in Job
    /\ start[h] \in {"markready", "unlock"} => todo[h] = {}
    /\ start[h] = "requeue" => failed[current[h]] # None

LEMMA HostGoneThroughAt ==
  ASSUME StartOK, NEW h \in Worker, StartingStep(h), HostQueue(h),
         \A j \in Job : Present(j) => Present(j)'
  PROVE  GoneThroughAt(h)'
  <1> USE DEF StartOK, StartTypeOK, Inside, AtJob, To, EnterLoop
  <1>1. GoneThroughAt(h)
    BY DEF GoneThrough, GoneThroughAt
  <1>2. CASE Launch(h) \/ CheckReady(h) \/ AwaitReady(h) \/ ReleaseInitLock(h) \/ TimeOut(h)
    <2>1. start'[h] \in {"ready", "loop", "lock", "gone"}
      BY <1>2 DEF Launch, CheckReady, AwaitReady, ReleaseInitLock, TimeOut
    <2>2. QED
      BY <2>1 DEF GoneThroughAt
  <1>3. CASE TakeInitLock(h)
    <2>1. start'[h] = "waiting" \/ (start'[h] = "jobs" /\ todo'[h] = Job)
      BY <1>3 DEF TakeInitLock
    <2>2. QED
      BY <2>1 DEF GoneThroughAt, Done
  <1>4. CASE CrashStart(h) \/ BreakOffStart(h)
    <2>1. start'[h] = "gone"
      BY <1>4 DEF CrashStart, BreakOffStart, Abort
    <2>2. QED
      BY <2>1 DEF GoneThroughAt
  <1>5. CASE MarkReady(h)
    <2>1. start[h] = "markready" /\ start'[h] = "unlock" /\ todo' = todo
      BY <1>5 DEF MarkReady
    <2>2. QED
      BY <1>1, <2>1 DEF GoneThroughAt, Done
  <1>6. CASE NextJob(h)
    <2>1. start[h] = "jobs" /\ \A j \in Job \ todo[h] : Present(j)'
      BY <1>1, <1>6 DEF NextJob, GoneThroughAt, Done
    <2>2. CASE todo[h] = {}
      <3>1. start'[h] = "markready" /\ todo' = todo
        BY <1>6, <2>2 DEF NextJob, NextLabel
      <3>2. QED
        BY <2>1, <2>2, <3>1 DEF GoneThroughAt, Done
    <2>3. CASE todo[h] # {}
      <3>1. PICK j \in todo[h] : current'[h] = j /\ todo'[h] = todo[h] \ {j}
        BY <1>6, <2>3 DEF NextJob
      <3>2. start'[h] \in {"retry", "findpending"} /\ j \in Job
        BY <1>6, <2>3, <3>1 DEF NextJob, NextLabel
      <3>3. QED
        BY <2>1, <3>1, <3>2 DEF GoneThroughAt, Done
    <2>4. QED
      BY <2>2, <2>3
  <1>7. CASE FindPending(h) \/ FindRunning(h) \/ FindDone(h) \/ FindFailed(h)
    <2>1. PICK j \in Job : j = current[h]
      BY <1>1, <1>7 DEF FindPending, FindRunning, FindDone, FindFailed, Find, GoneThroughAt
    <2>2. /\ UNCHANGED <<todo, current>> /\ start[h] \in AtJob
          /\ \/ start'[h] = "jobs" /\ Present(j)
             \/ start'[h] \in {"findrunning", "finddone", "findfailed", "create"}
      BY <1>7, <2>1 DEF FindPending, FindRunning, FindDone, FindFailed, Find, Present, Finished
    <2>3. QED
      BY <1>1, <2>1, <2>2 DEF GoneThroughAt, Done
  <1>8. CASE CreateJob(h)
    <2>1. PICK j \in Job : j = current[h]
      BY <1>1, <1>8 DEF CreateJob, GoneThroughAt
    <2>2. /\ start[h] = "create" /\ start'[h] = "jobs" /\ UNCHANGED <<todo, current>>
          /\ pending'[j] # None
      BY <1>8, <2>1, FreshIsFile DEF CreateJob, LocalOK, TypeOK
    <2>3. QED
      BY <1>1, <2>1, <2>2 DEF GoneThroughAt, Done, Present
  <1>9. CASE RetryRewrite(h)
    <2>1. PICK j \in Job : j = current[h]
      BY <1>1, <1>9 DEF RetryRewrite, GoneThroughAt
    <2>2. /\ start[h] = "retry" /\ UNCHANGED <<todo, current>>
          /\ \/ start'[h] = "findpending"
             \/ start'[h] = "requeue" /\ failed'[j] # None
      <3>1. CASE failed[j] # None /\ ~ ExhaustedAttempt(failed[j])
        <4>1. \A i \in Job : failed[i] # None => failed'[i] # None
          BY <1>9, <2>1, NoneAssumption DEF HostQueue, HostFiles, RetryRewrite, LocalOK, TypeOK
        <4>2. QED
          BY <1>9, <2>1, <3>1, <4>1 DEF RetryRewrite
      <3>2. CASE ~ (failed[j] # None /\ ~ ExhaustedAttempt(failed[j]))
        BY <1>9, <2>1, <3>2 DEF RetryRewrite
      <3>3. QED
        BY <3>1, <3>2
    <2>3. QED
      BY <1>1, <2>1, <2>2 DEF GoneThroughAt, Done
  <1>10. CASE RetryMove(h)
    <2>1. start[h] = "requeue" /\ start'[h] = "findpending" /\ UNCHANGED <<todo, current>>
      BY <1>10 DEF RetryMove
    <2>2. QED
      BY <1>1, <2>1 DEF GoneThroughAt, Done
  <1>11. QED
    BY <1>2, <1>3, <1>4, <1>5, <1>6, <1>7, <1>8, <1>9, <1>10 DEF StartingStep, Starting

LEMMA HostStartOK ==
  ASSUME StartOK, NEW h \in Worker, StartingStep(h)
  PROVE  StartOK'
  <1>1. /\ HostQueue(h) /\ LocalOK' /\ StartTypeOK' /\ Locked'
        /\ \A j \in Job : Present(j) => Present(j)'
        /\ \A g \in Worker \ {h} : start'[g] = start[g] /\ todo'[g] = todo[g] /\ current'[g] = current[g]
        /\ ready' # ready => start[h] = "markready"
    BY HostQueueSteps, HostLocal, HostTyped, HostLocked
  <1>2. GoneThroughAt(h)'
    BY <1>1, HostGoneThroughAt
  <1>3. ASSUME NEW g \in Worker \ {h}
        PROVE  GoneThroughAt(g)'
    <2>1. GoneThroughAt(g)
      BY DEF StartOK, GoneThrough, GoneThroughAt
    <2>2. start[g] = "requeue" => failed' = failed
      <3> SUFFICES ASSUME start[g] = "requeue", NEW j \in Job, HostFiles(h, j)
                   PROVE  failed' = failed
        BY <1>1 DEF HostQueue
      <3>1. Inside(g) /\ ~ Inside(h)
        BY DEF StartOK, Locked, Inside, AtJob
      <3>2. QED
        BY <3>1 DEF HostFiles, Inside, AtJob
    <2>3. QED
      BY <1>1, <2>1, <2>2 DEF GoneThroughAt, Inside, Done
  <1>4. GoneThrough'
    BY <1>2, <1>3 DEF GoneThrough, GoneThroughAt
  <1>5. ready' => NoJobLost'
    <2>1. CASE ready' = ready
      BY <1>1, <2>1 DEF StartOK, NoJobLost, Present
    <2>2. CASE ready' # ready
      <3>1. start[h] = "markready" /\ todo[h] = {}
        BY <1>1, <2>2 DEF StartOK, GoneThrough
      <3>2. \A j \in Job : Present(j)
        BY <3>1 DEF StartOK, GoneThrough, Inside, Done, AtJob
      <3>3. QED
        BY <1>1, <3>2 DEF NoJobLost, Present
    <2>3. QED
      BY <2>1, <2>2
  <1>6. QED
    BY <1>1, <1>4, <1>5 DEF StartOK

LEMMA QueueStartOK ==
  ASSUME StartOK, [Next]_vars, UNCHANGED hostvars, slipped' \in BOOLEAN
  PROVE  StartOK'
  <1>1. LocalOK' /\ Undisturbed
    BY LocalNext, QueueUndisturbing DEF StartOK
  <1>2. StartTypeOK' /\ Locked'
    BY <1>1 DEF StartOK, StartTypeOK, Locked, Inside, hostvars, Undisturbed
  <1>3. ASSUME NEW h \in Worker
        PROVE  GoneThroughAt(h)'
    <2>1. GoneThroughAt(h) /\ UNCHANGED <<start, todo, current>>
      BY DEF StartOK, GoneThrough, GoneThroughAt, hostvars
    <2>2. start[h] = "requeue" => failed'[current[h]] # None
      <3>1. CASE start[h] = "requeue"
        <4>1. PICK j \in Job : j = current[h] /\ failed[j] # None
          BY <2>1, <3>1 DEF GoneThroughAt, AtJob
        <4>2. QED
          BY <1>1, <4>1 DEF Undisturbed
      <3>2. QED
        BY <3>1
    <2>3. QED
      BY <1>1, <2>1, <2>2 DEF GoneThroughAt, Inside, Done, Undisturbed
  <1>4. GoneThrough'
    BY <1>3 DEF GoneThrough, GoneThroughAt
  <1>5. ready' => NoJobLost'
    BY <1>1 DEF StartOK, hostvars, NoJobLost, Undisturbed, Present
  <1>6. QED
    BY <1>1, <1>2, <1>4, <1>5 DEF StartOK

LEMMA StartInitOK == StartInit => StartOK
  <1> SUFFICES ASSUME StartInit
               PROVE  StartOK
    OBVIOUS
  <1>1. LocalOK
    BY AttemptsAssumption
    DEF StartInit, LocalOK, TypeOK, PathOK, CopyOK, VerdictOK, File, PC, RecoverPC, HoldPC,
        Stopped, Verdict
  <1>2. \A h \in Worker : start[h] = "off" /\ pc[h] = "off"
    BY DEF StartInit
  <1>3. StartTypeOK /\ ~ ready
    BY DEF StartInit, StartTypeOK, StartPC
  <1>4. Locked /\ GoneThrough
    BY <1>2 DEF Locked, GoneThrough, Inside, AtJob, Stopped
  <1>5. QED
    BY <1>1, <1>3, <1>4 DEF StartOK

LEMMA StartNextShape ==
  ASSUME StartOK, [StartNext]_svars
  PROVE  \/ /\ [Next]_vars /\ UNCHANGED hostvars
            /\ slipped' \in BOOLEAN
            /\ slipped' <=> slipped \/ Slips
         \/ \E h \in Worker : StartingStep(h)
  <1>1. slipped \in BOOLEAN /\ Slips \in BOOLEAN
    BY DEF StartOK, StartTypeOK, Slips
  <1>2. CASE UNCHANGED svars
    <2>1. ~ Slips
      BY <1>2 DEF Slips, svars
    <2>2. QED
      BY <1>1, <1>2, <2>1 DEF svars, startvars, hostvars
  <1>3. CASE /\ \/ \E w \in Worker : \/ WorkerStep(w) \/ Beat(w)
                                     \/ BreakOffRecovery(w) \/ Crash(w)
                \/ TimePasses
             /\ slipped' = (slipped \/ Slips)
             /\ UNCHANGED hostvars
    BY <1>1, <1>3 DEF Next, QueueStep
  <1>4. QED
    BY <1>2, <1>3 DEF StartNext, StartTerminated, hostvars, StartingStep

LEMMA StartNextOK == StartOK /\ [StartNext]_svars => StartOK'
  BY StartNextShape, QueueStartOK, HostStartOK

(* The invariant of starting hosts: types, the exclusion that .init.lock   *)
(* gives, and what the host inside it has gone through; in any regime, and *)
(* however hosts are started, killed and resumed.                          *)
THEOREM StartKept == StartSpec => []StartOK
  BY StartInitOK, StartNextOK, PTL DEF StartSpec

(* audit/distributed.py, initialise_queue writes queue/ready last: once it *)
(* is there no job is missing from the queue, whoever was killed while it  *)
(* was filled, and none goes missing later.                                *)
THEOREM ReadyIsComplete == StartSpec => []ReadyMeansComplete
  <1>1. StartOK => ReadyMeansComplete
    BY DEF StartOK, ReadyMeansComplete
  <1>2. QED
    BY StartKept, <1>1, PTL

-----------------------------------------------------------------------------
(* Steps of the queue under hosts that start: as long as nothing is        *)
(* requeued behind the back of the host inside the lock, what it has found *)
(* out stays true.                                                         *)
LEMMA QueueFound ==
  ASSUME StartOK, FilesOK, Regime, [Next]_vars, UNCHANGED hostvars, ~ Slips, NEW h \in Worker
  PROVE  Found(h)'
  <1> USE DEF FilesOK
  <1>1. Found(h) /\ UNCHANGED <<start, current>>
    BY DEF hostvars
  <1>2. CASE start[h] \in AtJob
    <2>1. PICK j \in Job : j = current[h] /\ j = current'[h]
      BY <1>1, <1>2 DEF StartOK, GoneThrough
    <2>2. Moves(j) /\ Attempts
      BY QueueMoves DEF StartOK, Counted
    <2>3. /\ Looking(h) => pending[j] = None /\ pending'[j] = None
          /\ pending[j] = None /\ LeasesOf(j) = {} => LeasesOf(j)' = {}
          /\ LeasesOf(j) = {} => (j \in done' => j \in done) /\ failed'[j] = failed[j]
      BY <1>1, <2>1, <2>2 DEF Moves, Slips, Found
    <2>4. start[h] = "requeue" => failed'[j] = failed[j] /\ Used(j)' = Used(j)
      <3>1. start[h] = "requeue" => failed[j] # None
        BY <2>1 DEF StartOK, GoneThrough
      <3>2. failed[j] # None => pending[j] = None /\ LeasesOf(j) = {}
        BY DEF Ownership, OneFile, Finished
      <3>3. QED
        BY <2>2, <2>3, <3>1, <3>2 DEF Moves, Used
    <2>5. QED
      BY <1>1, <2>1, <2>3, <2>4 DEF Found, Looking
  <1>3. CASE start[h] \notin AtJob
    BY <1>1, <1>3 DEF Found, Looking, AtJob
  <1>4. QED
    BY <1>2, <1>3

LEMMA QueueAccount ==
  ASSUME StartOK, FilesOK, Regime, [Next]_vars
  PROVE  Account'
  <1> USE DEF FilesOK, StartOK
  <1> SUFFICES ASSUME NEW j \in Job
               PROVE  /\ failed'[j] # None => failed'[j].attempt >= Used(j)'
                      /\ Used(j)' > 0 => Present(j)'
    BY DEF Account
  <1>1. Moves(j) /\ (Present(j) => Present(j)')
    BY QueueMoves, QueueUndisturbing DEF Undisturbed
  <1>2. /\ failed[j] # None => failed[j].attempt >= Used(j)
        /\ Used(j) > 0 => Present(j)
    BY DEF Account
  <1>3. CASE UNCHANGED <<claims[j], wasted[j]>>
    <2>1. \A t \in LeasesOf(j) : lease[t].attempt >= Used(j)
      BY DEF LeasesOf, Counted, Attempts
    <2>2. Used(j)' = Used(j)
      BY <1>3 DEF Used
    <2>3. failed'[j] # None => failed'[j].attempt >= Used(j)'
      BY <1>1, <1>2, <2>1, <2>2 DEF Moves
    <2>4. QED
      BY <1>1, <1>2, <2>2, <2>3
  <1>4. CASE claims'[j] # claims[j]
    <2>1. pending[j] # None
      BY <1>1, <1>4 DEF Moves
    <2>2. failed[j] = None /\ LeasesOf(j) = {}
      BY <2>1 DEF Ownership, OneFile, Finished
    <2>3. failed'[j] = None
      BY <1>1, <2>2 DEF Moves
    <2>4. QED
      BY <1>1, <2>1, <2>3 DEF Present
  <1>5. CASE wasted'[j] # wasted[j]
    <2>1. LeasesOf(j) # {} /\ Present(j)
      BY <1>1, <1>5 DEF Moves, Present
    <2>2. failed'[j] = None
      BY <1>1, <1>5, <2>1 DEF Moves, Ownership, OneFile, Finished
    <2>3. QED
      BY <1>1, <2>1, <2>2
  <1>6. QED
    BY <1>3, <1>4, <1>5

LEMMA QueueRestartOK ==
  ASSUME RestartOK, Regime, [Next]_vars, UNCHANGED hostvars,
         slipped' \in BOOLEAN, slipped' <=> slipped \/ Slips
  PROVE  RestartOK'
  <1>1. StartOK'
    BY QueueStartOK DEF RestartOK
  <1>2. ASSUME ~ slipped'
        PROVE  FilesOK'
    <2>1. StartOK /\ FilesOK /\ ~ Slips
      BY <1>2 DEF RestartOK
    <2>2. Ownership' /\ Counted'
      BY <2>1, OwnershipNext, CountedNext DEF StartOK, FilesOK
    <2>3. (\A h \in Worker : Found(h)') /\ Account'
      BY <2>1, QueueFound, QueueAccount
    <2>4. QED
      BY <2>2, <2>3 DEF FilesOK
  <1>3. QED
    BY <1>1, <1>2 DEF RestartOK

-----------------------------------------------------------------------------
(* Steps of a host that starts.                                            *)
LEMMA HostKeepsOwnership ==
  ASSUME StartOK, FilesOK, NEW h \in Worker, HostQueue(h)
  PROVE  Ownership' /\ Counted' /\ Account'
  <1> USE DEF FilesOK, StartOK, Used, LocalOK, TypeOK, HostQueue
  <1>1. /\ pc[h] \in Stopped /\ pc'[h] \in {pc[h], "off", "list"}
        /\ \A w \in Worker \ {h} : pc'[w] = pc[w]
        /\ UNCHANGED <<lease, done, beat, locked, claims, wasted, locals>>
    OBVIOUS
  <1>2. \A w \in Worker : /\ \A l \in PC \ (Stopped \union {"list"}) : pc'[w] = l <=> pc[w] = l
                          /\ pc'[w] # "raised"
    BY <1>1 DEF Stopped, Ownership, NeverRaised
  <1>3. \A w \in Worker : /\ pc'[w] \in HoldPC <=> pc[w] \in HoldPC
                          /\ pc'[w] \in RecoverPC <=> pc[w] \in RecoverPC
                          /\ pc'[w] \in HoldPC \union RecoverPC => pc'[w] = pc[w]
    BY <1>1 DEF Stopped, HoldPC, RecoverPC
  <1>4. TokensNew'
    BY <1>1, <1>3 DEF Ownership, TokensNew, Holds
  <1>5. OneHolder' /\ Abandoned' /\ Locking'
    BY <1>1, <1>3 DEF Ownership, OneHolder, Abandoned, Locking
  <1>6. Holding'
    BY <1>1, <1>3 DEF Ownership, Holding, HoldsWell, BeatingPC
  <1>7. Recovering' /\ CopySigned' /\ NeverRaised'
    BY <1>1, <1>2, <1>3 DEF Ownership, Recovering, CopySigned, NeverRaised, HoldPC, RecoverPC
  <1>8. ASSUME NEW w \in Worker
        PROVE  /\ pc'[w] \in {"resign", "uwrite", "fwrite", "rewrite"}
                    \/ (pc'[w] = "judge" /\ path[w] \in due[w])
                     => copy[w].attempt >= Used(JobOf(path[w]))
               /\ pc'[w] = "rewrite" /\ verdict[w] = "pending"
                     => copy[w].attempt > Used(JobOf(path[w]))
               /\ pc'[w] = "move" /\ verdict[w] = "pending"
                     => lease[path[w]].attempt > Used(JobOf(path[w]))
    BY <1>3 DEF Counted, Attempts, HoldPC, RecoverPC
  <1>9. AttemptsBounded'
    BY <1>1 DEF Counted, AttemptsBounded
  <1>10. CASE UNCHANGED <<pending, failed>>
    <2>1. OneFile' /\ PendingYoung' /\ Account'
      BY <1>1, <1>10 DEF Ownership, OneFile, PendingYoung, Account, Present, LeasesOf, Finished
    <2>2. Attempts'
      BY <1>1, <1>8, <1>10 DEF Counted, Attempts
    <2>3. QED
      BY <1>4, <1>5, <1>6, <1>7, <1>9, <2>1, <2>2 DEF Ownership, Counted
  <1>11. ASSUME NEW j \in Job, j = current[h], HostFiles(h, j)
         PROVE  Ownership' /\ Counted' /\ Account'
    <2>1. /\ \A i \in Job \ {j} : pending'[i] = pending[i] /\ failed'[i] = failed[i]
          /\ \A i \in Job : LeasesOf(i)' = LeasesOf(i)
      BY <1>1, <1>11 DEF HostFiles, LeasesOf
    <2>2. Used(j) \in Nat
      OBVIOUS
    <2>3. /\ pending'[j] # None => /\ LeasesOf(j) = {} /\ ~ Finished(j)'
                                   /\ ~ pending'[j].old /\ pending'[j].attempt > Used(j)
          /\ failed'[j] # None => failed[j] # None /\ failed'[j].attempt >= Used(j)
          /\ Used(j) > 0 => Present(j)'
      <3>1. CASE start[h] = "create"
        <4>1. pending'[j] = FreshFile /\ failed' = failed /\ ~ Present(j)
          BY <1>11, <3>1 DEF HostFiles, Found, Looking, Present, Finished
        <4>2. ~ (Used(j) > 0)
          BY <4>1 DEF Account
        <4>3. FreshFile.attempt = 1
          BY DEF FreshFile
        <4>4. QED
          BY <1>1, <2>2, <4>1, <4>2, <4>3, FreshIsFile DEF Present, Finished
      <3>2. CASE start[h] = "retry"
        <4>1. pending' = pending /\ failed[j] # None /\ failed[j].attempt >= Used(j)
          BY <1>11, <3>2 DEF HostFiles, Account
        <4>2. PICK f \in File : /\ f.attempt = failed[j].attempt + 1
                                /\ failed' = [failed EXCEPT ![j] = f]
          BY <1>11, <3>2 DEF HostFiles
        <4>3. failed'[j] = f /\ f # None
          BY <4>2, NoneAssumption
        <4>4. failed[j] \in File
          BY <4>1
        <4>5. failed[j].attempt \in Nat
          BY <4>4 DEF File
        <4>6. pending[j] = None
          BY <4>1 DEF Ownership, OneFile, Finished
        <4>7. QED
          BY <2>2, <4>1, <4>2, <4>3, <4>5, <4>6 DEF Present, Finished
      <3>3. CASE start[h] = "requeue"
        <4>1. /\ pending'[j] = failed[j] /\ failed'[j] = None /\ failed[j] # None
              /\ ~ failed[j].old /\ failed[j].attempt > Used(j)
          BY <1>11, <3>3 DEF HostFiles, Found, GoneThrough
        <4>2. LeasesOf(j) = {} /\ j \notin done
          BY <4>1 DEF Ownership, OneFile, Finished
        <4>3. QED
          BY <1>1, <4>1, <4>2 DEF Present, Finished
      <3>4. QED
        BY <1>11, <3>1, <3>2, <3>3 DEF HostFiles
    <2>4. OneFile'
      <3>1. ASSUME NEW i \in Job \ {j}
            PROVE  /\ \A s, t \in LeasesOf(i) : s = t
                   /\ pending'[i] # None => LeasesOf(i) = {} /\ ~ Finished(i)'
                   /\ LeasesOf(i) # {} => ~ Finished(i)'
                   /\ ~ (i \in done' /\ failed'[i] # None)
        BY <1>1, <2>1 DEF Ownership, OneFile, Finished
      <3>2. /\ \A s, t \in LeasesOf(j) : s = t
            /\ LeasesOf(j) # {} => ~ Finished(j)'
            /\ ~ (j \in done' /\ failed'[j] # None)
        BY <1>1, <2>3 DEF Ownership, OneFile, Finished
      <3>3. QED
        BY <2>1, <2>3, <3>1, <3>2 DEF OneFile
    <2>5. PendingYoung'
      BY <2>1, <2>3 DEF Ownership, PendingYoung
    <2>6. Attempts'
      <3>1. \A i \in Job : pending'[i] # None => pending'[i].attempt > Used(i)
        BY <2>1, <2>3 DEF Counted, Attempts
      <3>2. \A t \in Claim : lease[t] # None => lease[t].attempt >= Used(JobOf(t))
        BY DEF Counted, Attempts
      <3>3. QED
        BY <1>1, <1>8, <3>1, <3>2 DEF Attempts
    <2>7. Account'
      <3>1. ASSUME NEW i \in Job \ {j}
            PROVE  /\ failed'[i] # None => failed'[i].attempt >= Used(i)'
                   /\ Used(i)' > 0 => Present(i)'
        BY <1>1, <2>1 DEF Account, Present, Finished
      <3>2. QED
        BY <1>1, <2>3, <3>1 DEF Account
    <2>8. QED
      BY <1>4, <1>5, <1>6, <1>7, <1>9, <2>4, <2>5, <2>6, <2>7 DEF Ownership, Counted
  <1>12. QED
    BY <1>10, <1>11

LEMMA HostFound ==
  ASSUME StartOK, FilesOK, NEW h \in Worker, StartingStep(h), HostQueue(h), NEW g \in Worker
  PROVE  Found(g)'
  <1> USE DEF FilesOK, StartOK, StartTypeOK, Used, Looking, To, EnterLoop
  <1>1. Found(g)
    OBVIOUS
  <1>2. CASE g # h
    <2>1. start'[g] = start[g] /\ current'[g] = current[g]
      BY <1>2, HostTyped
    <2>2. CASE start[g] \in AtJob
      <3>1. Inside(g) /\ ~ Inside(h)
        BY <1>2, <2>2 DEF Locked, Inside
      <3>2. UNCHANGED <<pending, lease, done, failed, claims, wasted>>
        BY <3>1 DEF HostQueue, HostFiles, Inside, AtJob
      <3>3. LeasesOf(current[g])' = LeasesOf(current'[g])
        BY <3>2 DEF LeasesOf
      <3>4. QED
        BY <1>1, <2>1, <3>2, <3>3 DEF Found
    <2>3. CASE start[g] \notin AtJob
      BY <2>1, <2>3 DEF Found, AtJob
    <2>4. QED
      BY <2>2, <2>3
  <1>3. CASE g = h
    <2>1. CASE start'[h] \notin AtJob
      BY <1>3, <2>1 DEF Found, AtJob
    <2>2. CASE start'[h] \in {"retry", "findpending"}
      BY <1>3, <2>2 DEF Found
    <2>3. CASE RetryRewrite(h) /\ start'[h] = "requeue"
      <3>1. PICK j \in Job : j = current[h] /\ current' = current
        BY <2>3 DEF RetryRewrite, GoneThrough, AtJob
      <3>2. failed[j] # None /\ failed[j].attempt >= Used(j) /\ UNCHANGED <<claims, wasted>>
        BY <2>3, <3>1 DEF RetryRewrite, Account
      <3>3. failed[j] \in File /\ claims[j] \in Nat /\ wasted[j] \in Nat
        BY <3>2 DEF LocalOK, TypeOK
      <3>4. PICK f \in File : /\ f.attempt = failed[j].attempt + 1 /\ ~ f.old
                              /\ failed'[j] = f
        <4>1. ~ ExhaustedAttempt(failed[j])
          BY <2>3, <3>1 DEF RetryRewrite
        <4> DEFINE f == [FreshFile EXCEPT !.attempt = NextAttempt(failed[j])]
        <4>2. /\ NextAttempt(failed[j]) = failed[j].attempt + 1
              /\ NextAttempt(failed[j]) \in 1 .. MaxAttempts
          BY <3>3, <4>1, AttemptAdvances DEF NextAttempt
        <4>3. f \in File /\ f.attempt = failed[j].attempt + 1 /\ ~ f.old
          BY <4>2 DEF FreshFile, File
        <4>4. failed'[j] = f
          BY <2>3, <3>1, <3>2, <4>1 DEF RetryRewrite, LocalOK, TypeOK
        <4> HIDE DEF f
        <4>5. QED
          BY <4>3, <4>4
      <3>5. ~ failed'[j].old /\ failed'[j].attempt > Used(j)'
        BY <3>2, <3>3, <3>4 DEF File
      <3>6. QED
        BY <1>3, <2>3, <3>1, <3>5 DEF Found
    <2>4. CASE FindPending(h) \/ FindRunning(h) \/ FindDone(h) \/ FindFailed(h)
      <3>1. PICK j \in Job : j = current[h] /\ current' = current
        BY <2>4 DEF FindPending, FindRunning, FindDone, FindFailed, Find, GoneThrough, AtJob
      <3>2. /\ UNCHANGED <<pending, lease, done, failed, claims, wasted>>
            /\ \/ start'[h] = "jobs"
               \/ start'[h] = "findrunning" /\ pending[j] = None
               \/ start[h] = "findrunning" /\ start'[h] = "finddone" /\ LeasesOf(j) = {}
               \/ start[h] = "finddone" /\ start'[h] = "findfailed" /\ j \notin done
               \/ start[h] = "findfailed" /\ start'[h] = "create" /\ failed[j] = None
        BY <2>4, <3>1 DEF FindPending, FindRunning, FindDone, FindFailed, Find
      <3>3. LeasesOf(j)' = LeasesOf(j)
        BY <3>2 DEF LeasesOf
      <3>4. QED
        BY <1>1, <1>3, <3>1, <3>2, <3>3 DEF Found
    <2>5. \/ start'[h] \in {"off", "ready", "lock", "waiting", "jobs", "markready", "unlock", "loop",
                            "gone", "retry", "findpending"}
          \/ RetryRewrite(h)
          \/ FindPending(h) \/ FindRunning(h) \/ FindDone(h) \/ FindFailed(h)
      BY DEF StartingStep, Starting, Launch, CheckReady, TakeInitLock, AwaitReady, NextJob, NextLabel,
         RetryMove, CreateJob, MarkReady, ReleaseInitLock, TimeOut, CrashStart, BreakOffStart,
         Abort
    <2>6. RetryRewrite(h) => start'[h] \in {"requeue", "findpending"}
      BY DEF RetryRewrite
    <2>7. QED
      BY <2>1, <2>2, <2>3, <2>4, <2>5, <2>6 DEF AtJob
  <1>4. QED
    BY <1>2, <1>3

LEMMA HostRestartOK ==
  ASSUME RestartOK, NEW h \in Worker, StartingStep(h)
  PROVE  RestartOK'
  <1>1. StartOK /\ StartOK' /\ HostQueue(h) /\ slipped' = slipped
    BY HostStartOK, HostQueueSteps DEF RestartOK, HostQueue
  <1>2. ASSUME ~ slipped
        PROVE  FilesOK'
    <2>1. FilesOK
      BY <1>2 DEF RestartOK
    <2>2. Ownership' /\ Counted' /\ Account'
      BY <1>1, <2>1, HostKeepsOwnership
    <2>3. \A g \in Worker : Found(g)'
      BY <1>1, <2>1, HostFound
    <2>4. QED
      BY <2>2, <2>3 DEF FilesOK
  <1>3. QED
    BY <1>1, <1>2 DEF RestartOK

LEMMA RestartInitOK == StartInit => RestartOK
  <1> SUFFICES ASSUME StartInit
               PROVE  RestartOK
    OBVIOUS
  <1>1. StartOK
    BY StartInitOK
  <1>2. Ownership
    BY DEF StartInit, Ownership, TokensNew, OneFile, OneHolder, Holding, HoldsWell, Abandoned,
           Locking, Recovering, PendingYoung, CopySigned, NeverRaised, Holds, HoldPC, RecoverPC,
           LeasesOf, Finished
  <1>3. Counted
    BY AttemptsAssumption DEF StartInit, Counted, Attempts, AttemptsBounded, Used, Claim, JobOf
  <1>4. /\ \A j \in Job : Used(j) = 0 /\ failed[j] = None
        /\ \A h \in Worker : start[h] = "off"
    BY DEF StartInit, Used
  <1>5. Account /\ \A h \in Worker : Found(h)
    BY <1>4 DEF Account, Found, Looking
  <1>6. QED
    BY <1>1, <1>2, <1>3, <1>5 DEF RestartOK, FilesOK

LEMMA RestartNextOK == RestartOK /\ Regime /\ [StartNext]_svars => RestartOK'
  BY StartNextShape, QueueRestartOK, HostRestartOK DEF RestartOK

(* The invariant behind it, for the regime the queue is written for: the   *)
(* queue's ownership and count of attempts, and what starting hosts know   *)
(* of their jobs, until one of them is deceived by a requeued lease.       *)
THEOREM RestartKept ==
  ASSUME Regime
  PROVE  StartSpec => []RestartOK
  <1>1. RestartOK /\ [StartNext]_svars => RestartOK'
    BY RestartNextOK
  <1>2. QED
    BY RestartInitOK, <1>1, PTL DEF StartSpec

(* _find_job_path looks into the directories one after the other while     *)
(* other hosts move files, and yet no host that is started late, again, or *)
(* with --resume, on however many servers, gives a job a second file or    *)
(* makes the queue forget an attempt, but for the one moment in which a    *)
(* stale lease returns to a directory it has already looked into.          *)
THEOREM StartsKeepFiles ==
  ASSUME Regime
  PROVE  StartSpec => []StartsKeepOneFile
  <1>1. RestartOK => StartsKeepOneFile
    BY DEF RestartOK, FilesOK, Ownership, Counted, StartsKeepOneFile
  <1>2. QED
    BY RestartKept, <1>1, PTL
=============================================================================
