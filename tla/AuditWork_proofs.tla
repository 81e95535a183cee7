-------------------------- MODULE AuditWork_proofs --------------------------
(***************************************************************************)
(* Proofs about the work on a shard: first about AuditShard, the row files *)
(* and the checkpoints around the audits of rules, for any databases,      *)
(* workers, shards, rules and restarts; then about AuditRules, what the    *)
(* audit of a rule writes into its row, for any schema, databases and      *)
(* rules.                                                                  *)
(*                                                                         *)
(* The invariant of the shards says, next to the types: the service's      *)
(* owner of a database is at work on it, and until a lease has been taken  *)
(* from a live worker nobody else is; what each shard's files hold when    *)
(* nobody is in the shard, by its checkpoint; and what they hold at each   *)
(* place in the loop over the rules for the worker that is there.  That    *)
(* the rows cover the rules from the first one to the checkpoint, that     *)
(* there is one row more for each time an attempt was cut short between    *)
(* row and checkpoint, and no other, are kept by one formula, FileOK, with *)
(* the number of rows the checkpoint does not count as its last argument.  *)
(*                                                                         *)
(* The invariant of the records says that each is the verdict on its rule, *)
(* in the database and the target of now, and that the cache holds what    *)
(* target rules derive.  What makes the verdicts agree is that rules of    *)
(* one canonical key are alike: the same up to the order of their atoms    *)
(* and the names of their variables (KeySays), and that none of the tests  *)
(* and SELECTs tells alike rules apart.                                    *)
(***************************************************************************)
EXTENDS AuditShard, AuditRules, FiniteSetTheorems, FunctionTheorems, WellFoundedInduction, TLAPS

-----------------------------------------------------------------------------
(* The shards                                                              *)

Working(w) == at[w] \notin {"idle", "dead"}

Inside == {"state", "open", "init", "before", "audit", "append", "checkpoint",
           "outputs", "complete", "fail"}

Auditing == {"open", "init", "before", "audit", "append", "checkpoint", "outputs",
             "complete", "fail"}

(* The last rule in a file, 0 when it is empty.                            *)
Tail1(c) == IF c = <<>> THEN 0 ELSE c[Len(c)]

Covers(c, p) == \A i \in 1 .. p : \E k \in DOMAIN c : c[k] = i

Consecutive(c) == \A k \in 1 .. Len(c) - 1 : c[k + 1] - c[k] \in {0, 1}

(* Rows that fit checkpoint p, with m rows that it does not count: they    *)
(* repeat another or are ahead of p.                                       *)
FileOK(c, p, m) == /\ Covers(c, p)
                   /\ Consecutive(c)
                   /\ Tail1(c) \in {p, p + 1}
                   /\ Len(c) = p + m

ShardTypeOK ==
    /\ phase \in [Job -> {"waiting", "running", "done", "failed"}]
    /\ owner \in [Job -> Worker \union {None}]
    /\ starts \in [Job -> Nat]
    /\ csv \in [Shard -> Seq(Nat)]
    /\ state \in [Shard -> [status : Status, processed : 0 .. Rules]]
    /\ at \in [Worker -> At]
    /\ job \in [Worker -> Job \union {None}]
    /\ nth \in [Worker -> Nat \ {0}]
    /\ pos \in [Worker -> 0 .. Rules]
    /\ resume \in [Worker -> BOOLEAN]
    /\ revoked \subseteq Job
    /\ stray \in [Worker -> 0 .. 1]
    /\ cuts \in [Shard -> Nat]

(* The owner the service names is at work on the job.                      *)
OwnersWork == \A j \in Job : owner[j] # None =>
    /\ Working(owner[j])
    /\ job[owner[j]] = j
    /\ phase[j] = "running"

(* Who works on a job nobody was deprived of is its owner.                 *)
WorkersOwn == \A w \in Worker :
    Working(w) /\ job[w] \notin revoked => owner[job[w]] = w

(* What a worker's place says about its own counters.                      *)
PlaceOK(w) ==
    /\ job[w] \in Job
    /\ at[w] \in Inside => nth[w] <= Shards
    /\ at[w] = "finish" => nth[w] > Shards
    /\ at[w] \in {"audit", "append", "checkpoint"} => pos[w] < Rules
    /\ at[w] \in {"outputs", "complete"} => pos[w] = Rules
    /\ at[w] = "init" => pos[w] = 0
    /\ stray[w] = 0 \/ (~ OwnsJob(w) /\ at[w] \notin {"audit", "append"})

(* The shards it has been through are completed; those it has not opened   *)
(* are as the attempts before this one have left them.                     *)
OthersOK(w) == \A n \in 1 .. Shards :
    LET s == <<job[w], n>> IN
    /\ n < nth[w] => state[s].status = "completed"
    /\ n > nth[w] \/ (n = nth[w] /\ at[w] \in {"shard", "state"}) =>
          state[s].processed = 0 \/ FileOK(csv[s], state[s].processed, cuts[s])

(* The files of the shard it is in.                                        *)
HereOK(w) ==
    /\ at[w] \in Auditing => state[Cur(w)].status # "completed"
    /\ at[w] \in Auditing \ {"open"} => state[Cur(w)].processed = pos[w]
    /\ at[w] = "open" => pos[w] = 0 \/ FileOK(csv[Cur(w)], pos[w], cuts[Cur(w)])
    /\ at[w] \in {"before", "audit", "append", "outputs", "complete", "fail"} =>
          FileOK(csv[Cur(w)], pos[w], cuts[Cur(w)])
    /\ at[w] = "checkpoint" => /\ FileOK(csv[Cur(w)], pos[w], cuts[Cur(w)] + 1)
                               /\ Covers(csv[Cur(w)], pos[w] + 1)
                               /\ Tail1(csv[Cur(w)]) = pos[w] + 1

WorkerOK(w) ==
    Working(w) => PlaceOK(w) /\ (job[w] \notin revoked => OthersOK(w) /\ HereOK(w))

(* A worker is between a row of the shard and its checkpoint.              *)
Between(s) == \E w \in Worker : at[w] = "checkpoint" /\ Cur(w) = s

(* The files of a shard, whoever looks at them.                            *)
ShardOK(s) ==
    /\ Between(s) \/ state[s].processed = 0 \/ FileOK(csv[s], state[s].processed, cuts[s])
    /\ state[s].status = "completed" =>
          FileOK(csv[s], Rules, cuts[s]) /\ state[s].processed = Rules
    /\ phase[s[1]] = "done" => state[s].status = "completed"

ShardsOK ==
    /\ ShardTypeOK
    /\ OwnersWork
    /\ WorkersOwn
    /\ \A w \in Worker : WorkerOK(w)
    /\ \A s \in Undisturbed : ShardOK(s)

-----------------------------------------------------------------------------
(* Files.                                                                  *)
LEMMA EmptyFile == FileOK(<<>>, 0, 0)
  BY DEF FileOK, Covers, Consecutive, Tail1

(* The row after the checkpoint is the next one, or repeats the last.      *)
LEMMA FileAppend ==
  ASSUME NEW c \in Seq(Nat), NEW p \in Nat, NEW m \in Int, FileOK(c, p, m)
  PROVE  LET d == Append(c, p + 1) IN
         FileOK(d, p, m + 1) /\ Covers(d, p + 1) /\ Tail1(d) = p + 1
  <1> DEFINE d == Append(c, p + 1)
  <1>1. /\ d \in Seq(Nat) /\ Len(d) = Len(c) + 1 /\ Len(c) \in Nat
        /\ \A k \in 1 .. Len(c) : d[k] = c[k]
        /\ d[Len(c) + 1] = p + 1
        /\ DOMAIN d = 1 .. Len(c) + 1 /\ DOMAIN c = 1 .. Len(c)
    OBVIOUS
  <1> HIDE DEF d
  <1>2. Covers(d, p + 1)
    <2> SUFFICES ASSUME NEW i \in 1 .. p + 1
                 PROVE  \E k \in DOMAIN d : d[k] = i
      BY DEF Covers
    <2>1. CASE i = p + 1
      <3>1. Len(c) + 1 \in DOMAIN d /\ d[Len(c) + 1] = i
        BY <1>1, <2>1
      <3>2. QED
        BY <3>1
    <2>2. CASE i # p + 1
      <3>1. PICK k \in DOMAIN c : c[k] = i
        BY <2>2 DEF FileOK, Covers
      <3>2. k \in DOMAIN d /\ d[k] = i
        BY <1>1, <3>1
      <3>3. QED
        BY <3>2
    <2>3. QED
      BY <2>1, <2>2
  <1>3. Covers(d, p)
    BY <1>2 DEF Covers
  <1>4. Tail1(d) = p + 1
    BY <1>1 DEF Tail1
  <1>5. Consecutive(d)
    <2> SUFFICES ASSUME NEW k \in 1 .. Len(d) - 1
                 PROVE  d[k + 1] - d[k] \in {0, 1}
      BY DEF Consecutive
    <2>1. CASE k < Len(c)
      <3>1. k \in 1 .. Len(c) - 1 /\ d[k] = c[k] /\ d[k + 1] = c[k + 1]
        BY <1>1, <2>1
      <3>2. c[k + 1] - c[k] \in {0, 1}
        BY <3>1 DEF FileOK, Consecutive
      <3>3. QED
        BY <3>1, <3>2
    <2>2. CASE k = Len(c)
      <3>1. c # <<>> /\ c[k] = Tail1(c)
        BY <1>1, <2>2 DEF Tail1
      <3>2. c[k] \in {p, p + 1}
        BY <3>1 DEF FileOK
      <3>3. d[k] \in {p, p + 1} /\ d[k + 1] = p + 1
        BY <1>1, <2>2, <3>2
      <3>4. QED
        BY <3>3
    <2>3. k < Len(c) \/ k = Len(c)
      <3>1. Len(d) = Len(c) + 1 /\ Len(c) \in Nat
        BY <1>1
      <3>2. QED
        BY <3>1
    <2>4. QED
      BY <2>1, <2>2, <2>3
  <1>6. Len(d) = p + (m + 1)
    BY <1>1 DEF FileOK
  <1>7. QED
    BY <1>2, <1>3, <1>4, <1>5, <1>6 DEF d, FileOK

(* The checkpoint after the row.                                           *)
LEMMA FileCheckpoint ==
  ASSUME NEW c \in Seq(Nat), NEW p \in Nat, NEW m \in Int,
         FileOK(c, p, m), Covers(c, p + 1), Tail1(c) = p + 1
  PROVE  FileOK(c, p + 1, m - 1)
  BY DEF FileOK

-----------------------------------------------------------------------------
(* What holds of the shard a worker is in.                                 *)
LEMMA CurFacts ==
  ASSUME ShardsOK, NEW w \in Worker, Working(w)
  PROVE  /\ PlaceOK(w) /\ job[w] \in Job /\ nth[w] \in Nat \ {0} /\ pos[w] \in 0 .. Rules
         /\ at[w] \in Inside => Cur(w) \in Shard
         /\ Cur(w) \in Undisturbed => /\ job[w] \notin revoked
                                      /\ OthersOK(w) /\ HereOK(w)
                                      /\ OwnsJob(w) /\ phase[job[w]] = "running"
         /\ Cur(w) \in Undisturbed => ShardOK(Cur(w))
  <1>1. WorkerOK(w) /\ PlaceOK(w) /\ job[w] \in Job
    BY DEF ShardsOK, WorkerOK, PlaceOK
  <1>2. nth[w] \in Nat \ {0} /\ pos[w] \in 0 .. Rules
    BY <1>1 DEF ShardsOK, ShardTypeOK
  <1>3. ASSUME at[w] \in Inside
        PROVE  Cur(w) \in Shard
    BY <1>1, <1>2, <1>3, ShardAssumption DEF PlaceOK, Cur, Shard
  <1>4. ASSUME Cur(w) \in Undisturbed
        PROVE  /\ job[w] \notin revoked
               /\ OthersOK(w) /\ HereOK(w)
               /\ OwnsJob(w) /\ phase[job[w]] = "running"
               /\ ShardOK(Cur(w))
    <2>1. job[w] \notin revoked
      BY <1>4 DEF Cur, Undisturbed
    <2>2. owner[job[w]] = w /\ w # None
      BY <2>1, NoOwnerAssumption DEF ShardsOK, WorkersOwn
    <2>3. phase[job[w]] = "running"
      BY <1>1, <2>2 DEF ShardsOK, OwnersWork
    <2>4. QED
      BY <1>1, <1>4, <2>1, <2>2, <2>3 DEF WorkerOK, ShardsOK, OwnsJob
  <1>5. QED
    BY <1>1, <1>2, <1>3, <1>4

(* A step of a worker on its job leaves the files of other shards, the     *)
(* service and the other workers alone ...                                 *)
StepOf(w) ==
    /\ UNCHANGED <<phase, owner, starts, job, revoked>>
    /\ \A v \in Worker \ {w} : /\ at'[v] = at[v] /\ nth'[v] = nth[v]
                               /\ pos'[v] = pos[v] /\ stray'[v] = stray[v]
    /\ \A s \in Shard \ {Cur(w)} : csv'[s] = csv[s] /\ state'[s] = state[s] /\ cuts'[s] = cuts[s]

(* ... and then only what it does to itself and to its shard matters.      *)
LEMMA StepKeeps ==
  ASSUME ShardsOK, NEW w \in Worker, Working(w), StepOf(w),
         ShardTypeOK', Working(w)', WorkerOK(w)',
         \A s \in Undisturbed : s = Cur(w) => ShardOK(s)'
  PROVE  ShardsOK'
  <1> USE DEF StepOf
  <1>1. OwnersWork'
    <2>1. \A j \in Job : owner[j] # None => owner[j] \in Worker
      BY DEF ShardsOK, ShardTypeOK
    <2>2. \A v \in Worker : Working(v) => Working(v)'
      BY DEF Working
    <2>3. QED
      BY <2>1, <2>2 DEF ShardsOK, OwnersWork
  <1>2. WorkersOwn'
    BY DEF ShardsOK, WorkersOwn, Working
  <1>3. ASSUME NEW v \in Worker
        PROVE  WorkerOK(v)'
    <2>1. CASE v = w
      BY <2>1
    <2>2. CASE v # w
      <3> SUFFICES ASSUME Working(v)'
                   PROVE  PlaceOK(v)' /\ (job[v] \notin revoked => OthersOK(v)' /\ HereOK(v)')
        BY DEF WorkerOK
      <3>1. /\ Working(v) /\ at'[v] = at[v] /\ nth'[v] = nth[v]
            /\ pos'[v] = pos[v] /\ stray'[v] = stray[v]
        BY <2>2 DEF Working
      <3>2. PlaceOK(v)'
        BY <3>1, CurFacts DEF PlaceOK, OwnsJob
      <3>3. ASSUME job[v] \notin revoked
            PROVE  OthersOK(v)' /\ HereOK(v)'
        <4>1. OthersOK(v) /\ HereOK(v) /\ PlaceOK(v) /\ owner[job[v]] = v
          BY <3>1, <3>3 DEF ShardsOK, WorkerOK, WorkersOwn
        <4>2. job[v] # job[w]
          BY <2>2, <3>3, <4>1 DEF ShardsOK, WorkersOwn
        <4>3. \A n \in 1 .. Shards : LET s == <<job[v], n>> IN
                 s \in Shard /\ csv'[s] = csv[s] /\ state'[s] = state[s] /\ cuts'[s] = cuts[s]
          BY <4>1, <4>2 DEF PlaceOK, Shard, Cur
        <4>4. OthersOK(v)'
          BY <3>1, <4>1, <4>3 DEF OthersOK
        <4>5. at[v] \in Inside => nth[v] \in 1 .. Shards
          BY <3>1, <4>1, CurFacts, ShardAssumption DEF PlaceOK
        <4>6. HereOK(v)'
          <5>1. CASE at[v] \in Inside
            <6>1. /\ csv'[Cur(v)] = csv[Cur(v)] /\ state'[Cur(v)] = state[Cur(v)]
                  /\ cuts'[Cur(v)] = cuts[Cur(v)] /\ Cur(v)' = Cur(v)
              BY <3>1, <4>3, <4>5, <5>1 DEF Cur
            <6>2. QED
              BY <3>1, <4>1, <6>1 DEF HereOK, Cur
          <5>2. CASE at[v] \notin Inside
            BY <3>1, <5>2 DEF HereOK, Auditing, Inside
          <5>3. QED
            BY <5>1, <5>2
        <4>7. QED
          BY <4>4, <4>6
      <3>4. QED
        BY <3>2, <3>3
    <2>3. QED
      BY <2>1, <2>2
  <1>4. ASSUME NEW s \in Undisturbed
        PROVE  ShardOK(s)'
    <2>1. CASE s = Cur(w)
      BY <2>1
    <2>2. CASE s # Cur(w)
      <3>1. /\ s \in Shard /\ csv'[s] = csv[s] /\ state'[s] = state[s] /\ ShardOK(s)
            /\ cuts'[s] = cuts[s]
        BY <2>2 DEF Undisturbed, ShardsOK
      <3>2. Between(s) => Between(s)'
        BY <2>2 DEF Between, Cur
      <3>3. QED
        BY <3>1, <3>2 DEF ShardOK
    <2>3. QED
      BY <2>1, <2>2
  <1>5. Undisturbed' = Undisturbed
    BY DEF Undisturbed
  <1>6. QED
    BY <1>1, <1>2, <1>3, <1>4, <1>5 DEF ShardsOK

-----------------------------------------------------------------------------
(* Steps that write no file.                                               *)
LEMMA QuietStep ==
  ASSUME ShardsOK, NEW w \in Worker, Working(w),
         UNCHANGED <<phase, owner, starts, csv, state, job, nth, pos, resume, revoked, stray, cuts>>,
         NEW a \in At, a \notin {"idle", "dead"}, at' = [at EXCEPT ![w] = a],
         PlaceOK(w)', HereOK(w) => HereOK(w)',
         a \in {"shard", "state"} => at[w] \in {"shard", "state"}, at[w] # "checkpoint"
  PROVE  ShardsOK'
  <1>1. at \in [Worker -> At] /\ ShardTypeOK
    BY DEF ShardsOK, ShardTypeOK
  <1>2. StepOf(w) /\ Working(w)'
    BY <1>1 DEF StepOf, Working
  <1>3. ShardTypeOK'
    BY <1>1 DEF ShardTypeOK
  <1>4. OthersOK(w) => OthersOK(w)'
    BY <1>1 DEF OthersOK
  <1>5. WorkerOK(w)'
    BY <1>4 DEF ShardsOK, WorkerOK
  <1>6. \A s \in Undisturbed : s = Cur(w) => ShardOK(s)'
    <2>1. \A s \in Undisturbed : Between(s) => Between(s)'
      BY <1>1 DEF Between, Cur
    <2>2. QED
      BY <2>1 DEF ShardsOK, ShardOK
  <1>7. QED
    BY <1>2, <1>3, <1>5, <1>6, StepKeeps

LEMMA NextShardKeeps ==
  ASSUME ShardsOK, NEW w \in Worker, NextShard(w)
  PROVE  ShardsOK'
  <1>1. at[w] = "shard" /\ Working(w) /\ w \in Worker /\ ShardTypeOK
    BY DEF NextShard, Working, ShardsOK
  <1>2. PlaceOK(w) /\ pos[w] \in 0 .. Rules /\ nth[w] \in Nat \ {0}
    BY <1>1, CurFacts
  <1>3. ASSUME MoveTo(w, "over"), ~ LeaseAsserted(w)
        PROVE  ShardsOK'
    <2>1. at' = [at EXCEPT ![w] = "over"] /\ at'[w] = "over"
      BY <1>1, <1>3 DEF MoveTo, ShardTypeOK
    <2>2. UNCHANGED <<phase, owner, starts, csv, state, job, nth, pos, resume, revoked, stray, cuts>>
      BY DEF NextShard, jvars
    <2>3. PlaceOK(w)'
      BY <1>1, <1>2, <1>3, <2>1, <2>2, ShardAssumption DEF PlaceOK, Inside, OwnsJob, LeaseAsserted
    <2>4. HereOK(w) => HereOK(w)'
      BY <1>1, <1>3, <2>1, <2>2 DEF HereOK, Auditing, Cur
    <2>5. QED
      BY <1>1, <2>1, <2>2, <2>3, <2>4, QuietStep DEF At
  <1>4. ASSUME MoveTo(w, "finish"), nth[w] > Shards
        PROVE  ShardsOK'
    <2>1. at' = [at EXCEPT ![w] = "finish"] /\ at'[w] = "finish"
      BY <1>1, <1>4 DEF MoveTo, ShardTypeOK
    <2>2. UNCHANGED <<phase, owner, starts, csv, state, job, nth, pos, resume, revoked, stray, cuts>>
      BY DEF NextShard, jvars
    <2>3. PlaceOK(w)'
      BY <1>1, <1>2, <1>4, <2>1, <2>2, ShardAssumption DEF PlaceOK, Inside, OwnsJob, LeaseAsserted
    <2>4. HereOK(w) => HereOK(w)'
      BY <1>1, <1>4, <2>1, <2>2 DEF HereOK, Auditing, Cur
    <2>5. QED
      BY <1>1, <2>1, <2>2, <2>3, <2>4, QuietStep DEF At
  <1>5. ASSUME MoveTo(w, "state"), LeaseAsserted(w), ~ (nth[w] > Shards)
        PROVE  ShardsOK'
    <2>1. at' = [at EXCEPT ![w] = "state"] /\ at'[w] = "state"
      BY <1>1, <1>5 DEF MoveTo, ShardTypeOK
    <2>2. UNCHANGED <<phase, owner, starts, csv, state, job, nth, pos, resume, revoked, stray, cuts>>
      BY DEF NextShard, jvars
    <2>3. PlaceOK(w)'
      BY <1>1, <1>2, <1>5, <2>1, <2>2, ShardAssumption DEF PlaceOK, Inside, OwnsJob, LeaseAsserted
    <2>4. HereOK(w) => HereOK(w)'
      BY <1>1, <1>5, <2>1, <2>2 DEF HereOK, Auditing, Cur
    <2>5. QED
      BY <1>1, <2>1, <2>2, <2>3, <2>4, QuietStep DEF At
  <1>6. QED
    BY <1>3, <1>4, <1>5 DEF NextShard

LEMMA NextRuleKeeps ==
  ASSUME ShardsOK, NEW w \in Worker, NextRule(w)
  PROVE  ShardsOK'
  <1>1. at[w] = "before" /\ Working(w) /\ w \in Worker /\ ShardTypeOK
    BY DEF NextRule, Working, ShardsOK
  <1>2. PlaceOK(w) /\ pos[w] \in 0 .. Rules /\ nth[w] \in Nat \ {0}
    BY <1>1, CurFacts
  <1>3. ASSUME MoveTo(w, "outputs"), AllAudited(w)
        PROVE  ShardsOK'
    <2>1. at' = [at EXCEPT ![w] = "outputs"] /\ at'[w] = "outputs"
      BY <1>1, <1>3 DEF MoveTo, ShardTypeOK
    <2>2. UNCHANGED <<phase, owner, starts, csv, state, job, nth, pos, resume, revoked, stray, cuts>>
      BY DEF NextRule, jvars
    <2>3. PlaceOK(w)'
      BY <1>1, <1>2, <1>3, <2>1, <2>2, ShardAssumption DEF PlaceOK, Inside, OwnsJob, LeaseAsserted, AllAudited
    <2>4. HereOK(w) => HereOK(w)'
      BY <1>1, <1>3, <2>1, <2>2 DEF HereOK, Auditing, Cur
    <2>5. QED
      BY <1>1, <2>1, <2>2, <2>3, <2>4, QuietStep DEF At
  <1>4. ASSUME MoveTo(w, "audit"), LeaseAsserted(w), ~ AllAudited(w)
        PROVE  ShardsOK'
    <2>1. at' = [at EXCEPT ![w] = "audit"] /\ at'[w] = "audit"
      BY <1>1, <1>4 DEF MoveTo, ShardTypeOK
    <2>2. UNCHANGED <<phase, owner, starts, csv, state, job, nth, pos, resume, revoked, stray, cuts>>
      BY DEF NextRule, jvars
    <2>3. PlaceOK(w)'
      BY <1>1, <1>2, <1>4, <2>1, <2>2, ShardAssumption DEF PlaceOK, Inside, OwnsJob, LeaseAsserted, AllAudited
    <2>4. HereOK(w) => HereOK(w)'
      BY <1>1, <1>4, <2>1, <2>2 DEF HereOK, Auditing, Cur
    <2>5. QED
      BY <1>1, <2>1, <2>2, <2>3, <2>4, QuietStep DEF At
  <1>5. ASSUME MoveTo(w, "fail")
        PROVE  ShardsOK'
    <2>1. at' = [at EXCEPT ![w] = "fail"] /\ at'[w] = "fail"
      BY <1>1, <1>5 DEF MoveTo, ShardTypeOK
    <2>2. UNCHANGED <<phase, owner, starts, csv, state, job, nth, pos, resume, revoked, stray, cuts>>
      BY DEF NextRule, jvars
    <2>3. PlaceOK(w)'
      BY <1>1, <1>2, <1>5, <2>1, <2>2, ShardAssumption DEF PlaceOK, Inside, OwnsJob, LeaseAsserted, AllAudited
    <2>4. HereOK(w) => HereOK(w)'
      BY <1>1, <1>5, <2>1, <2>2 DEF HereOK, Auditing, Cur
    <2>5. QED
      BY <1>1, <2>1, <2>2, <2>3, <2>4, QuietStep DEF At
  <1>6. \/ AllAudited(w) /\ MoveTo(w, "outputs")
        \/ ~ AllAudited(w) /\ LeaseAsserted(w) /\ MoveTo(w, "audit")
        \/ ~ AllAudited(w) /\ ~ LeaseAsserted(w) /\ MoveTo(w, "fail")
    <2> HIDE DEF ShardsOK
    <2>1. CASE AllAudited(w)
      BY <2>1 DEF NextRule
    <2>2. CASE ~ AllAudited(w) /\ LeaseAsserted(w)
      BY <2>2 DEF NextRule
    <2>3. CASE ~ AllAudited(w) /\ ~ LeaseAsserted(w)
      BY <2>3 DEF NextRule
    <2>4. QED
      BY <2>1, <2>2, <2>3
  <1>7. QED
    BY <1>3, <1>4, <1>5, <1>6

LEMMA AuditRuleKeeps ==
  ASSUME ShardsOK, NEW w \in Worker, AuditRule(w)
  PROVE  ShardsOK'
  <1>1. at[w] = "audit" /\ Working(w) /\ w \in Worker /\ ShardTypeOK
    BY DEF AuditRule, Working, ShardsOK
  <1>2. PlaceOK(w) /\ pos[w] \in 0 .. Rules /\ nth[w] \in Nat \ {0}
    BY <1>1, CurFacts
  <1>3. ASSUME MoveTo(w, "append"), LeaseAsserted(w)
        PROVE  ShardsOK'
    <2>1. at' = [at EXCEPT ![w] = "append"] /\ at'[w] = "append"
      BY <1>1, <1>3 DEF MoveTo, ShardTypeOK
    <2>2. UNCHANGED <<phase, owner, starts, csv, state, job, nth, pos, resume, revoked, stray, cuts>>
      BY DEF AuditRule, jvars
    <2>3. PlaceOK(w)'
      BY <1>1, <1>2, <1>3, <2>1, <2>2, ShardAssumption DEF PlaceOK, Inside, OwnsJob, LeaseAsserted
    <2>4. HereOK(w) => HereOK(w)'
      BY <1>1, <1>3, <2>1, <2>2 DEF HereOK, Auditing, Cur
    <2>5. QED
      BY <1>1, <2>1, <2>2, <2>3, <2>4, QuietStep DEF At
  <1>4. ASSUME MoveTo(w, "fail")
        PROVE  ShardsOK'
    <2>1. at' = [at EXCEPT ![w] = "fail"] /\ at'[w] = "fail"
      BY <1>1, <1>4 DEF MoveTo, ShardTypeOK
    <2>2. UNCHANGED <<phase, owner, starts, csv, state, job, nth, pos, resume, revoked, stray, cuts>>
      BY DEF AuditRule, jvars
    <2>3. PlaceOK(w)'
      BY <1>1, <1>2, <1>4, <2>1, <2>2, ShardAssumption DEF PlaceOK, Inside, OwnsJob, LeaseAsserted
    <2>4. HereOK(w) => HereOK(w)'
      BY <1>1, <1>4, <2>1, <2>2 DEF HereOK, Auditing, Cur
    <2>5. QED
      BY <1>1, <2>1, <2>2, <2>3, <2>4, QuietStep DEF At
  <1>5. QED
    BY <1>3, <1>4 DEF AuditRule

LEMMA WriteShardOutputsKeeps ==
  ASSUME ShardsOK, NEW w \in Worker, WriteShardOutputs(w)
  PROVE  ShardsOK'
  <1>1. at[w] = "outputs" /\ Working(w) /\ w \in Worker /\ ShardTypeOK
    BY DEF WriteShardOutputs, Working, ShardsOK
  <1>2. PlaceOK(w) /\ pos[w] \in 0 .. Rules /\ nth[w] \in Nat \ {0}
    BY <1>1, CurFacts
  <1>3. ASSUME MoveTo(w, "complete")
        PROVE  ShardsOK'
    <2>1. at' = [at EXCEPT ![w] = "complete"] /\ at'[w] = "complete"
      BY <1>1, <1>3 DEF MoveTo, ShardTypeOK
    <2>2. UNCHANGED <<phase, owner, starts, csv, state, job, nth, pos, resume, revoked, stray, cuts>>
      BY DEF WriteShardOutputs, jvars
    <2>3. PlaceOK(w)'
      BY <1>1, <1>2, <1>3, <2>1, <2>2, ShardAssumption DEF PlaceOK, Inside, OwnsJob, LeaseAsserted
    <2>4. HereOK(w) => HereOK(w)'
      BY <1>1, <1>3, <2>1, <2>2 DEF HereOK, Auditing, Cur
    <2>5. QED
      BY <1>1, <2>1, <2>2, <2>3, <2>4, QuietStep DEF At
  <1>4. ASSUME MoveTo(w, "fail")
        PROVE  ShardsOK'
    <2>1. at' = [at EXCEPT ![w] = "fail"] /\ at'[w] = "fail"
      BY <1>1, <1>4 DEF MoveTo, ShardTypeOK
    <2>2. UNCHANGED <<phase, owner, starts, csv, state, job, nth, pos, resume, revoked, stray, cuts>>
      BY DEF WriteShardOutputs, jvars
    <2>3. PlaceOK(w)'
      BY <1>1, <1>2, <1>4, <2>1, <2>2, ShardAssumption DEF PlaceOK, Inside, OwnsJob, LeaseAsserted
    <2>4. HereOK(w) => HereOK(w)'
      BY <1>1, <1>4, <2>1, <2>2 DEF HereOK, Auditing, Cur
    <2>5. QED
      BY <1>1, <2>1, <2>2, <2>3, <2>4, QuietStep DEF At
  <1>5. QED
    BY <1>3, <1>4 DEF WriteShardOutputs

-----------------------------------------------------------------------------
(* Steps that write the files of the worker's shard.                       *)
LEMMA FileStep ==
  ASSUME ShardsOK, NEW w \in Worker, at[w] \in Inside,
         UNCHANGED <<phase, owner, starts, job, nth, resume, revoked>>,
         NEW a \in Auditing \union {"over"}, at' = [at EXCEPT ![w] = a],
         NEW p \in 0 .. Rules, pos' = [pos EXCEPT ![w] = p],
         NEW n \in 0 .. 1, stray' = [stray EXCEPT ![w] = n],
         NEW r \in [status : Status, processed : 0 .. Rules],
         state' = [state EXCEPT ![Cur(w)] = r],
         NEW c \in Seq(Nat), csv' = [csv EXCEPT ![Cur(w)] = c],
         NEW k \in Nat, cuts' = [cuts EXCEPT ![Cur(w)] = k],
         PlaceOK(w)',
         Cur(w) \in Undisturbed =>
             HereOK(w)' /\ \A s \in Undisturbed : s = Cur(w) => ShardOK(s)'
  PROVE  ShardsOK'
  <1>1. Working(w) /\ ShardTypeOK
    BY DEF Working, Inside, ShardsOK
  <1>2. Cur(w) \in Shard
    BY <1>1, CurFacts
  <1>3. /\ a \in At /\ a \notin {"idle", "dead", "shard", "state"} /\ at'[w] = a
        /\ state'[Cur(w)] = r /\ csv'[Cur(w)] = c
        /\ \A s \in Shard \ {Cur(w)} : csv'[s] = csv[s] /\ state'[s] = state[s] /\ cuts'[s] = cuts[s]
    <2>1. a \in At /\ a \notin {"idle", "dead", "shard"}
      BY DEF Auditing, At
    <2>2. a # "state"
      BY DEF Auditing
    <2>3. at'[w] = a
      BY <1>1 DEF ShardTypeOK
    <2>4. QED
      BY <1>1, <1>2, <2>1, <2>2, <2>3 DEF ShardTypeOK
  <1>4. StepOf(w) /\ Working(w)'
    BY <1>1, <1>3 DEF StepOf, Working, ShardTypeOK
  <1>5. ShardTypeOK'
    BY <1>1, <1>2, <1>3 DEF ShardTypeOK
  <1>6. OthersOK(w) => OthersOK(w)'
    <2> SUFFICES ASSUME OthersOK(w), NEW i \in 1 .. Shards
                 PROVE  LET s == <<job[w], i>> IN
                        /\ i < nth[w] => state'[s].status = "completed"
                        /\ i > nth[w] =>
                             state'[s].processed = 0 \/ FileOK(csv'[s], state'[s].processed, cuts'[s])
      BY <1>3 DEF OthersOK
    <2>1. CASE i # nth[w]
      <3>1. <<job[w], i>> \in Shard \ {Cur(w)}
        BY <1>1, <2>1, CurFacts DEF Shard, Cur
      <3>2. QED
        BY <1>3, <3>1 DEF OthersOK
    <2>2. CASE i = nth[w]
      <3>1. nth[w] \in Nat
        BY <1>1 DEF ShardTypeOK
      <3>2. QED
        BY <2>2, <3>1
    <2>3. QED
      BY <2>1, <2>2
  <1>7. job[w] \notin revoked => Cur(w) \in Undisturbed /\ OthersOK(w)
    BY <1>1, <1>2 DEF ShardsOK, WorkerOK, Undisturbed, Cur
  <1>8. WorkerOK(w)'
    BY <1>6, <1>7 DEF WorkerOK
  <1>9. \A s \in Undisturbed : s = Cur(w) => ShardOK(s)'
    OBVIOUS
  <1>10. QED
    BY <1>1, <1>4, <1>5, <1>8, <1>9, StepKeeps

LEMMA ReadStateKeeps ==
  ASSUME ShardsOK, NEW w \in Worker, ReadState(w)
  PROVE  ShardsOK'
  <1>1. at[w] = "state" /\ Working(w) /\ ShardTypeOK
    BY DEF ReadState, Working, ShardsOK
  <1>2. /\ PlaceOK(w) /\ pos[w] \in 0 .. Rules /\ nth[w] \in Nat \ {0} /\ Cur(w) \in Shard
        /\ nth[w] <= Shards
    BY <1>1, CurFacts DEF PlaceOK, Inside
  <1>3. /\ UNCHANGED <<phase, owner, starts, csv, state, job, resume, revoked, stray, cuts>>
        /\ \A v \in Worker \ {w} : at'[v] = at[v] /\ nth'[v] = nth[v]
    BY <1>1 DEF ReadState, MoveTo, ShardTypeOK, jvars
  <1>4. \A s \in Undisturbed : s = Cur(w) => ShardOK(s)'
    <2>1. \A s \in Undisturbed : Between(s) => Between(s)'
      BY <1>1, <1>3 DEF Between, Cur
    <2>2. QED
      BY <1>3, <2>1 DEF ShardsOK, ShardOK
  <1>5. job[w] \notin revoked => OthersOK(w)
    BY <1>1 DEF ShardsOK, WorkerOK
  <1>6. ASSUME SkipsShard(w)
        PROVE  ShardsOK'
    <2>1. nth' = [nth EXCEPT ![w] = @ + 1] /\ at' = [at EXCEPT ![w] = "shard"] /\ pos' = pos
      BY <1>6 DEF ReadState, MoveTo
    <2>2. nth'[w] = nth[w] + 1 /\ at'[w] = "shard"
      BY <1>1, <2>1 DEF ShardTypeOK
    <2>3. ShardTypeOK'
      BY <1>1, <1>2, <1>3, <2>1 DEF ShardTypeOK, At
    <2>4. PlaceOK(w)'
      BY <1>1, <1>2, <1>3, <2>1, <2>2 DEF PlaceOK, Inside, OwnsJob
    <2>5. OthersOK(w) => OthersOK(w)'
      <3> SUFFICES ASSUME OthersOK(w), NEW i \in 1 .. Shards
                   PROVE  LET s == <<job[w], i>> IN
                          /\ i < nth[w] + 1 => state[s].status = "completed"
                          /\ i > nth[w] + 1 \/ i = nth[w] + 1 =>
                               state[s].processed = 0 \/ FileOK(csv[s], state[s].processed, cuts[s])
        BY <1>3, <2>2 DEF OthersOK
      <3>1. i = nth[w] => state[<<job[w], i>>].status = "completed"
        BY <1>6 DEF SkipsShard, Cur
      <3>2. QED
        BY <1>2, <3>1 DEF OthersOK
    <2>6. HereOK(w)'
      BY <2>2 DEF HereOK, Auditing
    <2>7. StepOf(w) /\ Working(w)'
      BY <1>1, <1>3, <2>1, <2>2 DEF StepOf, Working, ShardTypeOK
    <2>8. WorkerOK(w)'
      BY <1>3, <1>5, <2>4, <2>5, <2>6 DEF WorkerOK
    <2>9. QED
      BY <1>1, <1>4, <2>3, <2>7, <2>8, StepKeeps
  <1>7. ASSUME ~ SkipsShard(w)
        PROVE  ShardsOK'
    <2>1. pos' = [pos EXCEPT ![w] = StartIndex(w)] /\ at' = [at EXCEPT ![w] = "open"] /\ nth' = nth
      BY <1>7 DEF ReadState, MoveTo
    <2>2. state[Cur(w)].processed \in 0 .. Rules
      BY <1>1, <1>2 DEF ShardTypeOK
    <2>3. StartIndex(w) \in 0 .. Rules /\ StartIndex(w) \in {0, state[Cur(w)].processed}
      BY <2>2, ShardAssumption DEF StartIndex
    <2>4. PlaceOK(w)'
      BY <1>1, <1>2, <1>3, <2>1 DEF PlaceOK, Inside, OwnsJob, ShardTypeOK
    <2>5. ASSUME Cur(w) \in Undisturbed
          PROVE  HereOK(w)'
      <3>1. OthersOK(w)
        BY <1>1, <2>5, CurFacts
      <3>2. state[Cur(w)].processed = 0 \/ FileOK(csv[Cur(w)], state[Cur(w)].processed, cuts[Cur(w)])
        BY <1>1, <1>2, <3>1 DEF OthersOK, Cur
      <3>3. at'[w] = "open" /\ pos'[w] = StartIndex(w) /\ Cur(w)' = Cur(w)
        BY <1>1, <1>3, <2>1 DEF ShardTypeOK, Cur
      <3>4. state[Cur(w)].status # "completed"
        BY <1>7 DEF SkipsShard
      <3>5. StartIndex(w) = 0 \/ FileOK(csv[Cur(w)], StartIndex(w), cuts[Cur(w)])
        BY <2>3, <3>2
      <3>6. QED
        BY <1>3, <3>3, <3>4, <3>5 DEF HereOK, Auditing
    <2>6. csv[Cur(w)] \in Seq(Nat) /\ csv' = [csv EXCEPT ![Cur(w)] = csv[Cur(w)]]
      BY <1>1, <1>2, <1>3 DEF ShardTypeOK
    <2>7. /\ state[Cur(w)] \in [status : Status, processed : 0 .. Rules]
          /\ state' = [state EXCEPT ![Cur(w)] = state[Cur(w)]]
      BY <1>1, <1>2, <1>3 DEF ShardTypeOK
    <2>8. stray[w] \in 0 .. 1 /\ stray' = [stray EXCEPT ![w] = stray[w]]
      BY <1>1, <1>3 DEF ShardTypeOK
    <2>9. at[w] \in Inside /\ "open" \in Auditing
      BY <1>1 DEF Inside, Auditing
    <2>10. cuts[Cur(w)] \in Nat /\ cuts' = [cuts EXCEPT ![Cur(w)] = cuts[Cur(w)]]
      BY <1>1, <1>2, <1>3 DEF ShardTypeOK
    <2>11. QED
      BY <1>3, <1>4, <2>1, <2>3, <2>4, <2>5, <2>6, <2>7, <2>8, <2>9, <2>10, FileStep
  <1>8. QED
    BY <1>6, <1>7

LEMMA OpenShardKeeps ==
  ASSUME ShardsOK, NEW w \in Worker, OpenShard(w)
  PROVE  ShardsOK'
  <1> DEFINE s == Cur(w)
             c == csv[Cur(w)]
             p == pos[w]
             r == [status |-> "running", processed |-> pos[w]]
             n == stray[w]
             k == cuts[Cur(w)]
             a == IF pos[w] = 0 THEN "init" ELSE "before"
  <1>1. at[w] = "open" /\ at[w] \in Inside /\ Working(w) /\ ShardTypeOK
    BY DEF OpenShard, Working, Inside, ShardsOK
  <1>2. /\ PlaceOK(w) /\ pos[w] \in 0 .. Rules /\ nth[w] \in Nat \ {0}
        /\ s \in Shard /\ csv[s] \in Seq(Nat) /\ state[s] \in [status : Status, processed : 0 .. Rules]
        /\ stray[w] \in 0 .. 1 /\ cuts[s] \in Nat /\ Rules \in Nat
    <2>1. /\ PlaceOK(w) /\ pos[w] \in 0 .. Rules /\ nth[w] \in Nat \ {0}
          /\ s \in Shard
      BY <1>1, CurFacts
    <2>2. QED
      BY <1>1, <2>1, ShardAssumption DEF ShardTypeOK
  <1>3. /\ UNCHANGED <<phase, owner, starts, job, nth, resume, revoked>>
        /\ at' = [at EXCEPT ![w] = a]
        /\ pos' = [pos EXCEPT ![w] = p]
        /\ state' = [state EXCEPT ![s] = r]
        /\ csv' = [csv EXCEPT ![s] = c]
        /\ stray' = [stray EXCEPT ![w] = n]
        /\ cuts' = [cuts EXCEPT ![s] = k]
    BY <1>1, <1>2 DEF OpenShard, ShardTypeOK, jvars, MoveTo, WriteState, TruncateRows, After, CutShort
  <1>4. /\ p \in 0 .. Rules /\ c \in Seq(Nat) /\ n \in 0 .. 1
        /\ r \in [status : Status, processed : 0 .. Rules]
        /\ a \in Auditing \union {"over"} /\ k \in Nat
    BY <1>1, <1>2, ShardAssumption DEF Auditing, Status, PlaceOK
  <1>5. /\ at'[w] = a /\ pos'[w] = p /\ stray'[w] = n
        /\ csv'[s] = c /\ state'[s] = r /\ s' = s
        /\ nth'[w] = nth[w] /\ job'[w] = job[w] /\ owner'[job[w]] = owner[job[w]]
        /\ cuts'[s] = k
    BY <1>1, <1>2, <1>3 DEF ShardTypeOK, Cur
  <1> HIDE DEF c, p, r, n, a, k
  <1>6. PlaceOK(w)'
    BY <1>1, <1>2, <1>5 DEF PlaceOK, Inside, OwnsJob, a, p, n
  <1>7. ASSUME s \in Undisturbed
        PROVE  HereOK(w)' /\ \A u \in Undisturbed : u = s => ShardOK(u)'
    <2>1. /\ HereOK(w) /\ ShardOK(s) /\ s[1] = job[w]
          /\ phase[job[w]] = "running"
      BY <1>1, <1>7, CurFacts DEF Cur
    <2>2. pos[w] = 0 \/ FileOK(c, pos[w], k)
      BY <1>1, <2>1 DEF HereOK, c, k
    <2>4. HereOK(w)'
      <3> HIDE DEF s
      <3>1. QED
        BY <1>1, <1>2, <1>5, <2>2 DEF HereOK, Auditing, a, p, r, c, k, s
    <2>5. ShardOK(s)'
      <3>1. phase'[s[1]] # "done"
        BY <1>3, <2>1
      <3>2. QED
        BY <1>5, <2>1, <2>2, <3>1 DEF ShardOK, r
    <2>6. QED
      BY <1>5, <2>4, <2>5
  <1>8. QED
    BY <1>1, <1>3, <1>4, <1>6, <1>7, FileStep DEF s

LEMMA InitRulesKeeps ==
  ASSUME ShardsOK, NEW w \in Worker, InitRules(w)
  PROVE  ShardsOK'
  <1> DEFINE s == Cur(w)
             c == <<>>
             p == pos[w]
             r == state[Cur(w)]
             n == stray[w]
             k == 0
             a == "before"
  <1>1. at[w] = "init" /\ at[w] \in Inside /\ Working(w) /\ ShardTypeOK
    BY DEF InitRules, Working, Inside, ShardsOK
  <1>2. /\ PlaceOK(w) /\ pos[w] \in 0 .. Rules /\ nth[w] \in Nat \ {0}
        /\ s \in Shard /\ csv[s] \in Seq(Nat) /\ state[s] \in [status : Status, processed : 0 .. Rules]
        /\ stray[w] \in 0 .. 1 /\ cuts[s] \in Nat /\ Rules \in Nat
    <2>1. /\ PlaceOK(w) /\ pos[w] \in 0 .. Rules /\ nth[w] \in Nat \ {0}
          /\ s \in Shard
      BY <1>1, CurFacts
    <2>2. QED
      BY <1>1, <2>1, ShardAssumption DEF ShardTypeOK
  <1>3. /\ UNCHANGED <<phase, owner, starts, job, nth, resume, revoked>>
        /\ at' = [at EXCEPT ![w] = a]
        /\ pos' = [pos EXCEPT ![w] = p]
        /\ state' = [state EXCEPT ![s] = r]
        /\ csv' = [csv EXCEPT ![s] = c]
        /\ stray' = [stray EXCEPT ![w] = n]
        /\ cuts' = [cuts EXCEPT ![s] = k]
    BY <1>1, <1>2 DEF InitRules, ShardTypeOK, jvars, MoveTo, WriteState, TruncateRows, After, CutShort
  <1>4. /\ p \in 0 .. Rules /\ c \in Seq(Nat) /\ n \in 0 .. 1
        /\ r \in [status : Status, processed : 0 .. Rules]
        /\ a \in Auditing \union {"over"} /\ k \in Nat
    BY <1>1, <1>2, ShardAssumption DEF Auditing, Status, PlaceOK
  <1>5. /\ at'[w] = a /\ pos'[w] = p /\ stray'[w] = n
        /\ csv'[s] = c /\ state'[s] = r /\ s' = s
        /\ nth'[w] = nth[w] /\ job'[w] = job[w] /\ owner'[job[w]] = owner[job[w]]
        /\ cuts'[s] = k
    BY <1>1, <1>2, <1>3 DEF ShardTypeOK, Cur
  <1> HIDE DEF c, p, r, n, a, k
  <1>6. PlaceOK(w)'
    BY <1>1, <1>2, <1>5 DEF PlaceOK, Inside, OwnsJob, a, p, n
  <1>7. ASSUME s \in Undisturbed
        PROVE  HereOK(w)' /\ \A u \in Undisturbed : u = s => ShardOK(u)'
    <2>1. /\ HereOK(w) /\ ShardOK(s) /\ s[1] = job[w]
          /\ phase[job[w]] = "running"
      BY <1>1, <1>7, CurFacts DEF Cur
    <2>2. /\ pos[w] = 0 /\ state[s].processed = 0 /\ state[s].status # "completed"
          /\ FileOK(c, 0, k)
      BY <1>1, <1>2, <1>4, <2>1, EmptyFile DEF HereOK, PlaceOK, Auditing, c, k
    <2>3. r.processed = 0 /\ r.status # "completed"
      BY <2>2 DEF r
    <2>4. HereOK(w)'
      <3> HIDE DEF s
      <3>1. QED
        BY <1>1, <1>2, <1>5, <2>2 DEF HereOK, Auditing, a, p, r, c, k, s
    <2>5. ShardOK(s)'
      <3>1. phase'[s[1]] # "done"
        BY <1>3, <2>1
      <3>2. QED
        BY <1>5, <2>1, <2>3, <3>1 DEF ShardOK, r
    <2>6. QED
      BY <1>5, <2>4, <2>5
  <1>8. QED
    BY <1>1, <1>3, <1>4, <1>6, <1>7, FileStep DEF s

LEMMA AppendRecordKeeps ==
  ASSUME ShardsOK, NEW w \in Worker, AppendRecord(w)
  PROVE  ShardsOK'
  <1> DEFINE s == Cur(w)
             c == Append(csv[Cur(w)], pos[w] + 1)
             p == pos[w]
             r == state[Cur(w)]
             n == IF OwnsJob(w) THEN 0 ELSE 1
             k == cuts[Cur(w)]
             a == "checkpoint"
  <1>1. at[w] = "append" /\ at[w] \in Inside /\ Working(w) /\ ShardTypeOK
    BY DEF AppendRecord, Working, Inside, ShardsOK
  <1>2. /\ PlaceOK(w) /\ pos[w] \in 0 .. Rules /\ nth[w] \in Nat \ {0}
        /\ s \in Shard /\ csv[s] \in Seq(Nat) /\ state[s] \in [status : Status, processed : 0 .. Rules]
        /\ stray[w] \in 0 .. 1 /\ cuts[s] \in Nat /\ Rules \in Nat
    <2>1. /\ PlaceOK(w) /\ pos[w] \in 0 .. Rules /\ nth[w] \in Nat \ {0}
          /\ s \in Shard
      BY <1>1, CurFacts
    <2>2. QED
      BY <1>1, <2>1, ShardAssumption DEF ShardTypeOK
  <1>3. /\ UNCHANGED <<phase, owner, starts, job, nth, resume, revoked>>
        /\ at' = [at EXCEPT ![w] = a]
        /\ pos' = [pos EXCEPT ![w] = p]
        /\ state' = [state EXCEPT ![s] = r]
        /\ csv' = [csv EXCEPT ![s] = c]
        /\ stray' = [stray EXCEPT ![w] = n]
        /\ cuts' = [cuts EXCEPT ![s] = k]
    <2>1. stray[w] = 0 /\ MaxStray # 0
      BY <1>1, <1>2, ShardAssumption DEF PlaceOK
    <2>2. stray' = [stray EXCEPT ![w] = n]
      <3>1. CASE OwnsJob(w)
        BY <1>1, <2>1, <3>1 DEF AppendRecord, ShardTypeOK
      <3>2. CASE ~ OwnsJob(w)
        BY <1>1, <2>1, <3>2 DEF AppendRecord, ShardTypeOK
      <3>3. QED
        BY <3>1, <3>2
    <2>3. QED
      BY <1>1, <1>2, <2>2 DEF AppendRecord, ShardTypeOK, jvars, MoveTo
  <1>4. /\ p \in 0 .. Rules /\ c \in Seq(Nat) /\ n \in 0 .. 1
        /\ r \in [status : Status, processed : 0 .. Rules]
        /\ a \in Auditing \union {"over"} /\ k \in Nat
    BY <1>1, <1>2, ShardAssumption DEF Auditing, Status, PlaceOK
  <1>5. /\ at'[w] = a /\ pos'[w] = p /\ stray'[w] = n
        /\ csv'[s] = c /\ state'[s] = r /\ s' = s
        /\ nth'[w] = nth[w] /\ job'[w] = job[w] /\ owner'[job[w]] = owner[job[w]]
        /\ cuts'[s] = k
    BY <1>1, <1>2, <1>3 DEF ShardTypeOK, Cur
  <1> HIDE DEF c, p, r, n, a, k
  <1>6. PlaceOK(w)'
    BY <1>1, <1>2, <1>5 DEF PlaceOK, Inside, OwnsJob, a, p, n
  <1>7. ASSUME s \in Undisturbed
        PROVE  HereOK(w)' /\ \A u \in Undisturbed : u = s => ShardOK(u)'
    <2>1. /\ HereOK(w) /\ ShardOK(s) /\ s[1] = job[w]
          /\ phase[job[w]] = "running"
      BY <1>1, <1>7, CurFacts DEF Cur
    <2>2. /\ state[s].processed = pos[w] /\ state[s].status # "completed"
          /\ FileOK(c, pos[w], k + 1)
          /\ Covers(c, pos[w] + 1) /\ Tail1(c) = pos[w] + 1
      <3>1. FileOK(csv[s], pos[w], k)
        BY <1>1, <2>1 DEF HereOK, k
      <3>2. /\ FileOK(c, pos[w], k + 1)
            /\ Covers(c, pos[w] + 1) /\ Tail1(c) = pos[w] + 1
        <4>1. csv[s] \in Seq(Nat) /\ pos[w] \in Nat /\ k \in Int
          BY <1>2, <1>4
        <4>2. c = Append(csv[s], pos[w] + 1)
          BY DEF c
        <4> HIDE DEF s
        <4> QED
          BY <3>1, <4>1, <4>2, FileAppend
      <3>3. QED
        BY <1>1, <2>1, <3>2 DEF HereOK, Auditing
    <2>3. r.processed = pos[w] /\ r.status # "completed" /\ Between(s)'
      BY <1>5, <2>2 DEF r, a, Between
    <2>4. HereOK(w)'
      <3> HIDE DEF s
      <3>1. QED
        BY <1>1, <1>2, <1>5, <2>2 DEF HereOK, Auditing, a, p, r, c, k, s
    <2>5. ShardOK(s)'
      <3>1. phase'[s[1]] # "done"
        BY <1>3, <2>1
      <3>2. QED
        BY <1>5, <2>1, <2>3, <3>1 DEF ShardOK, r
    <2>6. QED
      BY <1>5, <2>4, <2>5
  <1>8. QED
    BY <1>1, <1>3, <1>4, <1>6, <1>7, FileStep DEF s

LEMMA CheckpointKeeps ==
  ASSUME ShardsOK, NEW w \in Worker, Checkpoint(w)
  PROVE  ShardsOK'
  <1> DEFINE s == Cur(w)
             c == csv[Cur(w)]
             p == pos[w] + 1
             r == [status |-> "running", processed |-> pos[w] + 1]
             n == stray[w]
             k == cuts[Cur(w)]
             a == "before"
  <1>1. at[w] = "checkpoint" /\ at[w] \in Inside /\ Working(w) /\ ShardTypeOK
    BY DEF Checkpoint, Working, Inside, ShardsOK
  <1>2. /\ PlaceOK(w) /\ pos[w] \in 0 .. Rules /\ nth[w] \in Nat \ {0}
        /\ s \in Shard /\ csv[s] \in Seq(Nat) /\ state[s] \in [status : Status, processed : 0 .. Rules]
        /\ stray[w] \in 0 .. 1 /\ cuts[s] \in Nat /\ Rules \in Nat
    <2>1. /\ PlaceOK(w) /\ pos[w] \in 0 .. Rules /\ nth[w] \in Nat \ {0}
          /\ s \in Shard
      BY <1>1, CurFacts
    <2>2. QED
      BY <1>1, <2>1, ShardAssumption DEF ShardTypeOK
  <1>3. /\ UNCHANGED <<phase, owner, starts, job, nth, resume, revoked>>
        /\ at' = [at EXCEPT ![w] = a]
        /\ pos' = [pos EXCEPT ![w] = p]
        /\ state' = [state EXCEPT ![s] = r]
        /\ csv' = [csv EXCEPT ![s] = c]
        /\ stray' = [stray EXCEPT ![w] = n]
        /\ cuts' = [cuts EXCEPT ![s] = k]
    BY <1>1, <1>2 DEF Checkpoint, ShardTypeOK, jvars, MoveTo, WriteState, TruncateRows, After, CutShort
  <1>4. /\ p \in 0 .. Rules /\ c \in Seq(Nat) /\ n \in 0 .. 1
        /\ r \in [status : Status, processed : 0 .. Rules]
        /\ a \in Auditing \union {"over"} /\ k \in Nat
    BY <1>1, <1>2, ShardAssumption DEF Auditing, Status, PlaceOK
  <1>5. /\ at'[w] = a /\ pos'[w] = p /\ stray'[w] = n
        /\ csv'[s] = c /\ state'[s] = r /\ s' = s
        /\ nth'[w] = nth[w] /\ job'[w] = job[w] /\ owner'[job[w]] = owner[job[w]]
        /\ cuts'[s] = k
    BY <1>1, <1>2, <1>3 DEF ShardTypeOK, Cur
  <1> HIDE DEF c, p, r, n, a, k
  <1>6. PlaceOK(w)'
    BY <1>1, <1>2, <1>5 DEF PlaceOK, Inside, OwnsJob, a, p, n
  <1>7. ASSUME s \in Undisturbed
        PROVE  HereOK(w)' /\ \A u \in Undisturbed : u = s => ShardOK(u)'
    <2>1. /\ HereOK(w) /\ ShardOK(s) /\ s[1] = job[w]
          /\ phase[job[w]] = "running"
      BY <1>1, <1>7, CurFacts DEF Cur
    <2>2. FileOK(c, pos[w] + 1, k)
      <3>1. FileOK(c, pos[w], k + 1) /\ Covers(c, pos[w] + 1) /\ Tail1(c) = pos[w] + 1
        BY <1>1, <2>1 DEF HereOK, c, k
      <3>2. FileOK(c, pos[w] + 1, (k + 1) - 1)
        <4>1. c \in Seq(Nat) /\ pos[w] \in Nat /\ k + 1 \in Int
          BY <1>2, <1>4
        <4> HIDE DEF s
        <4>2. QED
          BY <3>1, <4>1, FileCheckpoint
      <3>3. QED
        BY <1>4, <3>2
    <2>4. HereOK(w)'
      <3> HIDE DEF s
      <3>1. QED
        BY <1>1, <1>2, <1>5, <2>2 DEF HereOK, Auditing, a, p, r, c, k, s
    <2>5. ShardOK(s)'
      <3>1. phase'[s[1]] # "done"
        BY <1>3, <2>1
      <3>2. QED
        BY <1>5, <2>1, <2>2, <3>1 DEF ShardOK, r
    <2>6. QED
      BY <1>5, <2>4, <2>5
  <1>8. QED
    BY <1>1, <1>3, <1>4, <1>6, <1>7, FileStep DEF s

LEMMA FailShardKeeps ==
  ASSUME ShardsOK, NEW w \in Worker, FailShard(w)
  PROVE  ShardsOK'
  <1> DEFINE s == Cur(w)
             c == csv[Cur(w)]
             p == pos[w]
             r == [status |-> "failed", processed |-> pos[w]]
             n == stray[w]
             k == cuts[Cur(w)]
             a == "over"
  <1>1. at[w] = "fail" /\ at[w] \in Inside /\ Working(w) /\ ShardTypeOK
    BY DEF FailShard, Working, Inside, ShardsOK
  <1>2. /\ PlaceOK(w) /\ pos[w] \in 0 .. Rules /\ nth[w] \in Nat \ {0}
        /\ s \in Shard /\ csv[s] \in Seq(Nat) /\ state[s] \in [status : Status, processed : 0 .. Rules]
        /\ stray[w] \in 0 .. 1 /\ cuts[s] \in Nat /\ Rules \in Nat
    <2>1. /\ PlaceOK(w) /\ pos[w] \in 0 .. Rules /\ nth[w] \in Nat \ {0}
          /\ s \in Shard
      BY <1>1, CurFacts
    <2>2. QED
      BY <1>1, <2>1, ShardAssumption DEF ShardTypeOK
  <1>3. /\ UNCHANGED <<phase, owner, starts, job, nth, resume, revoked>>
        /\ at' = [at EXCEPT ![w] = a]
        /\ pos' = [pos EXCEPT ![w] = p]
        /\ state' = [state EXCEPT ![s] = r]
        /\ csv' = [csv EXCEPT ![s] = c]
        /\ stray' = [stray EXCEPT ![w] = n]
        /\ cuts' = [cuts EXCEPT ![s] = k]
    BY <1>1, <1>2 DEF FailShard, ShardTypeOK, jvars, MoveTo, WriteState, TruncateRows, After, CutShort
  <1>4. /\ p \in 0 .. Rules /\ c \in Seq(Nat) /\ n \in 0 .. 1
        /\ r \in [status : Status, processed : 0 .. Rules]
        /\ a \in Auditing \union {"over"} /\ k \in Nat
    BY <1>1, <1>2, ShardAssumption DEF Auditing, Status, PlaceOK
  <1>5. /\ at'[w] = a /\ pos'[w] = p /\ stray'[w] = n
        /\ csv'[s] = c /\ state'[s] = r /\ s' = s
        /\ nth'[w] = nth[w] /\ job'[w] = job[w] /\ owner'[job[w]] = owner[job[w]]
        /\ cuts'[s] = k
    BY <1>1, <1>2, <1>3 DEF ShardTypeOK, Cur
  <1> HIDE DEF c, p, r, n, a, k
  <1>6. PlaceOK(w)'
    BY <1>1, <1>2, <1>5 DEF PlaceOK, Inside, OwnsJob, a, p, n
  <1>7. ASSUME s \in Undisturbed
        PROVE  HereOK(w)' /\ \A u \in Undisturbed : u = s => ShardOK(u)'
    <2>1. /\ HereOK(w) /\ ShardOK(s) /\ s[1] = job[w]
          /\ phase[job[w]] = "running"
      BY <1>1, <1>7, CurFacts DEF Cur
    <2>2. FileOK(c, pos[w], k)
      BY <1>1, <2>1 DEF HereOK, c, k
    <2>4. HereOK(w)'
      <3> HIDE DEF s
      <3>1. QED
        BY <1>1, <1>2, <1>5, <2>2 DEF HereOK, Auditing, a, p, r, c, k, s
    <2>5. ShardOK(s)'
      <3>1. phase'[s[1]] # "done"
        BY <1>3, <2>1
      <3>2. QED
        BY <1>5, <2>1, <2>2, <3>1 DEF ShardOK, r
    <2>6. QED
      BY <1>5, <2>4, <2>5
  <1>8. QED
    BY <1>1, <1>3, <1>4, <1>6, <1>7, FileStep DEF s

LEMMA InterruptShardKeeps ==
  ASSUME ShardsOK, NEW w \in Worker, InterruptShard(w)
  PROVE  ShardsOK'
  <1> DEFINE s == Cur(w)
             c == csv[Cur(w)]
             p == pos[w]
             r == [status |-> "interrupted", processed |-> pos[w]]
             n == stray[w]
             k == IF at[w] = "checkpoint" THEN cuts[Cur(w)] + 1 ELSE cuts[Cur(w)]
             a == "over"
  <1>1. at[w] \in Auditing \ {"fail"} /\ at[w] \in Inside /\ Working(w) /\ ShardTypeOK
    BY DEF InterruptShard, Working, Inside, Auditing, ShardsOK
  <1>2. /\ PlaceOK(w) /\ pos[w] \in 0 .. Rules /\ nth[w] \in Nat \ {0}
        /\ s \in Shard /\ csv[s] \in Seq(Nat) /\ state[s] \in [status : Status, processed : 0 .. Rules]
        /\ stray[w] \in 0 .. 1 /\ cuts[s] \in Nat /\ Rules \in Nat
    <2>1. /\ PlaceOK(w) /\ pos[w] \in 0 .. Rules /\ nth[w] \in Nat \ {0}
          /\ s \in Shard
      BY <1>1, CurFacts
    <2>2. QED
      BY <1>1, <2>1, ShardAssumption DEF ShardTypeOK
  <1>3. /\ UNCHANGED <<phase, owner, starts, job, nth, resume, revoked>>
        /\ at' = [at EXCEPT ![w] = a]
        /\ pos' = [pos EXCEPT ![w] = p]
        /\ state' = [state EXCEPT ![s] = r]
        /\ csv' = [csv EXCEPT ![s] = c]
        /\ stray' = [stray EXCEPT ![w] = n]
        /\ cuts' = [cuts EXCEPT ![s] = k]
    BY <1>1, <1>2 DEF InterruptShard, ShardTypeOK, jvars, MoveTo, WriteState, TruncateRows, After, CutShort
  <1>4. /\ p \in 0 .. Rules /\ c \in Seq(Nat) /\ n \in 0 .. 1
        /\ r \in [status : Status, processed : 0 .. Rules]
        /\ a \in Auditing \union {"over"} /\ k \in Nat
    BY <1>1, <1>2, ShardAssumption DEF Auditing, Status, PlaceOK
  <1>5. /\ at'[w] = a /\ pos'[w] = p /\ stray'[w] = n
        /\ csv'[s] = c /\ state'[s] = r /\ s' = s
        /\ nth'[w] = nth[w] /\ job'[w] = job[w] /\ owner'[job[w]] = owner[job[w]]
        /\ cuts'[s] = k
    BY <1>1, <1>2, <1>3 DEF ShardTypeOK, Cur
  <1> HIDE DEF c, p, r, n, a, k
  <1>6. PlaceOK(w)'
    BY <1>1, <1>2, <1>5 DEF PlaceOK, Inside, OwnsJob, a, p, n
  <1>7. ASSUME s \in Undisturbed
        PROVE  HereOK(w)' /\ \A u \in Undisturbed : u = s => ShardOK(u)'
    <2>1. /\ HereOK(w) /\ ShardOK(s) /\ s[1] = job[w]
          /\ phase[job[w]] = "running"
      BY <1>1, <1>7, CurFacts DEF Cur
    <2>2. pos[w] = 0 \/ FileOK(c, pos[w], k)
      BY <1>1, <1>2, <2>1 DEF HereOK, PlaceOK, Auditing, c, k
    <2>4. HereOK(w)'
      <3> HIDE DEF s
      <3>1. QED
        BY <1>1, <1>2, <1>5, <2>2 DEF HereOK, Auditing, a, p, r, c, k, s
    <2>5. ShardOK(s)'
      <3>1. phase'[s[1]] # "done"
        BY <1>3, <2>1
      <3>2. QED
        BY <1>5, <2>1, <2>2, <3>1 DEF ShardOK, r
    <2>6. QED
      BY <1>5, <2>4, <2>5
  <1>8. QED
    BY <1>1, <1>3, <1>4, <1>6, <1>7, FileStep DEF s

LEMMA CompleteShardKeeps ==
  ASSUME ShardsOK, NEW w \in Worker, CompleteShard(w)
  PROVE  ShardsOK'
  <1> DEFINE s == Cur(w)
  <1>1. at[w] = "complete" /\ Working(w) /\ ShardTypeOK
    BY DEF CompleteShard, Working, ShardsOK
  <1>2. /\ PlaceOK(w) /\ pos[w] = Rules /\ nth[w] \in Nat \ {0} /\ nth[w] <= Shards
        /\ s \in Shard /\ csv[s] \in Seq(Nat) /\ Rules \in Nat
        /\ stray[w] \in 0 .. 1
    BY <1>1, CurFacts, ShardAssumption DEF PlaceOK, Inside, ShardTypeOK
  <1>3. /\ UNCHANGED <<phase, owner, starts, csv, job, pos, resume, revoked, stray, cuts>>
        /\ at' = [at EXCEPT ![w] = "shard"]
        /\ nth' = [nth EXCEPT ![w] = @ + 1]
        /\ state' = [state EXCEPT ![s] = [status |-> "completed", processed |-> Rules]]
    BY <1>2 DEF CompleteShard, jvars, MoveTo, WriteState
  <1>4. /\ at'[w] = "shard" /\ nth'[w] = nth[w] + 1
        /\ state'[s] = [status |-> "completed", processed |-> Rules]
        /\ \A u \in Shard \ {s} : state'[u] = state[u]
    BY <1>1, <1>2, <1>3 DEF ShardTypeOK
  <1>5. ShardTypeOK'
    BY <1>1, <1>2, <1>3 DEF ShardTypeOK, At, Status
  <1>6. StepOf(w) /\ Working(w)'
    BY <1>1, <1>3, <1>4 DEF StepOf, Working, ShardTypeOK
  <1>7. PlaceOK(w)'
    BY <1>1, <1>2, <1>3, <1>4 DEF PlaceOK, Inside, OwnsJob
  <1>8. OthersOK(w) => OthersOK(w)'
    <2> SUFFICES ASSUME OthersOK(w), NEW i \in 1 .. Shards
                 PROVE  LET u == <<job[w], i>> IN
                        /\ i < nth[w] + 1 => state'[u].status = "completed"
                        /\ i > nth[w] + 1 \/ i = nth[w] + 1 =>
                             state'[u].processed = 0 \/ FileOK(csv[u], state'[u].processed, cuts[u])
      BY <1>3, <1>4 DEF OthersOK
    <2>1. CASE i = nth[w]
      BY <1>2, <1>4, <2>1 DEF Cur
    <2>2. CASE i # nth[w]
      <3>1. <<job[w], i>> \in Shard \ {s}
        BY <1>2, <2>2 DEF PlaceOK, Shard, Cur
      <3>2. QED
        BY <1>2, <1>4, <2>2, <3>1 DEF OthersOK
    <2>3. QED
      BY <2>1, <2>2
  <1>9. HereOK(w)'
    BY <1>4 DEF HereOK, Auditing
  <1>10. WorkerOK(w)'
    BY <1>1, <1>3, <1>7, <1>8, <1>9 DEF ShardsOK, WorkerOK
  <1>11. ASSUME NEW u \in Undisturbed, u = s
         PROVE  ShardOK(u)'
    <2>1. HereOK(w) /\ s[1] = job[w] /\ phase[job[w]] = "running"
      BY <1>1, <1>11, CurFacts DEF Cur
    <2>2. FileOK(csv[s], Rules, cuts[s])
      BY <1>1, <1>2, <2>1 DEF HereOK
    <2>3. QED
      BY <1>3, <1>4, <1>11, <2>1, <2>2 DEF ShardOK
  <1>12. QED
    BY <1>1, <1>5, <1>6, <1>10, <1>11, StepKeeps

-----------------------------------------------------------------------------
(* Steps of the service, and a worker's first and last step on a job.      *)
LEMMA WorkerStays ==
  ASSUME ShardsOK, NEW v \in Worker, UNCHANGED <<csv, state>>,
         at'[v] = at[v], nth'[v] = nth[v], pos'[v] = pos[v], job'[v] = job[v], stray'[v] = stray[v],
         revoked \subseteq revoked',
         Working(v) => (owner'[job[v]] = v => owner[job[v]] = v),
         Working(v) /\ job[v] \notin revoked' =>
             \A n \in 1 .. Shards : cuts'[<<job[v], n>>] = cuts[<<job[v], n>>]
  PROVE  WorkerOK(v)'
  <1> SUFFICES ASSUME Working(v)
               PROVE  PlaceOK(v)' /\ (job[v] \notin revoked' => OthersOK(v)' /\ HereOK(v)')
    BY DEF WorkerOK, Working
  <1>1. PlaceOK(v) /\ (job[v] \notin revoked => OthersOK(v) /\ HereOK(v))
    BY DEF ShardsOK, WorkerOK
  <1>2. PlaceOK(v)'
    BY <1>1 DEF PlaceOK, OwnsJob
  <1>3. ASSUME job[v] \notin revoked'
        PROVE  OthersOK(v)' /\ HereOK(v)'
    <2>1. /\ OthersOK(v) /\ HereOK(v) /\ Cur(v)' = Cur(v)
          /\ \A n \in 1 .. Shards : cuts'[<<job[v], n>>] = cuts[<<job[v], n>>]
      BY <1>1, <1>3 DEF Cur
    <2>2. OthersOK(v)'
      BY <2>1 DEF OthersOK
    <2>3. HereOK(v)'
      <3>1. CASE at[v] \in Inside
        <4>1. nth[v] \in 1 .. Shards
          BY <1>1, <3>1, CurFacts, ShardAssumption DEF PlaceOK
        <4>2. cuts'[Cur(v)] = cuts[Cur(v)]
          BY <2>1, <4>1 DEF Cur
        <4>3. QED
          BY <2>1, <4>2 DEF HereOK
      <3>2. CASE at[v] \notin Inside
        BY <3>2 DEF HereOK, Auditing, Inside
      <3>3. QED
        BY <3>1, <3>2
    <2>4. QED
      BY <2>2, <2>3
  <1>4. QED
    BY <1>2, <1>3

LEMMA ShardStays ==
  ASSUME ShardsOK, NEW s \in Undisturbed, UNCHANGED <<csv, state, cuts>>,
         Between(s) => Between(s)',
         phase'[s[1]] = "done" => phase[s[1]] = "done" \/ state[s].status = "completed"
  PROVE  ShardOK(s)'
  BY DEF ShardsOK, ShardOK

LEMMA FinishJobKeeps ==
  ASSUME ShardsOK, NEW w \in Worker, FinishJob(w)
  PROVE  ShardsOK'
  <1>1. at[w] \in {"over", "finish"} /\ Working(w) /\ ShardTypeOK
    BY DEF FinishJob, Working, ShardsOK
  <1>2. PlaceOK(w) /\ job[w] \in Job /\ nth[w] \in Nat
    BY <1>1, CurFacts
  <1>3. /\ UNCHANGED <<csv, state, revoked, stray, starts, cuts>>
        /\ at' = [at EXCEPT ![w] = "idle"]
        /\ job' = [job EXCEPT ![w] = None] /\ pos' = [pos EXCEPT ![w] = 0]
        /\ resume' = [resume EXCEPT ![w] = FALSE] /\ nth' = [nth EXCEPT ![w] = 1]
    BY DEF FinishJob, MoveTo, jvars, End
  <1>4. PICK o \in {"done", "failed"} :
           /\ \/ /\ phase' = [phase EXCEPT ![job[w]] = o]
                 /\ owner' = [owner EXCEPT ![job[w]] = None]
                 /\ o = "done" => at[w] = "finish"
              \/ UNCHANGED <<phase, owner>>
    <2>1. CASE OwnsJob(w)
      <3>1. PICK o \in {"done", "failed"} : phase' = [phase EXCEPT ![job[w]] = o]
        BY <2>1 DEF FinishJob, End
      <3>2. phase'[job[w]] = o
        BY <1>1, <1>2, <3>1 DEF ShardTypeOK
      <3>3. o = "done" => at[w] = "finish"
        BY <2>1, <3>2 DEF FinishJob
      <3>4. QED
        BY <2>1, <3>1, <3>3 DEF FinishJob, End
    <2>2. CASE ~ OwnsJob(w)
      BY <2>2 DEF FinishJob, jvars
    <2>3. QED
      BY <2>1, <2>2
  <1>5. ShardTypeOK'
    <2>1. 0 \in 0 .. Rules /\ "idle" \in At
      BY ShardAssumption DEF At
    <2>2. /\ phase' \in [Job -> {"waiting", "running", "done", "failed"}]
          /\ owner' \in [Job -> Worker \union {None}]
      BY <1>1, <1>2, <1>4 DEF ShardTypeOK
    <2>3. QED
      BY <1>1, <1>3, <2>1, <2>2 DEF ShardTypeOK
  <1>6. /\ ~ Working(w)'
        /\ \A v \in Worker \ {w} : /\ at'[v] = at[v] /\ nth'[v] = nth[v] /\ pos'[v] = pos[v]
                                   /\ job'[v] = job[v] /\ stray'[v] = stray[v]
                                   /\ Working(v)' = Working(v)
    BY <1>1, <1>3 DEF ShardTypeOK, Working
  <1>7. \A j \in Job : /\ owner'[j] = owner[j] \/ owner'[j] = None
                       /\ j # job[w] => owner'[j] = owner[j] /\ phase'[j] = phase[j]
                       /\ owner'[j] # None => phase'[j] = phase[j]
    BY <1>1, <1>2, <1>4 DEF ShardTypeOK
  <1>8. w # None /\ (owner[job[w]] = w => owner'[job[w]] = None)
    BY <1>1, <1>2, NoOwnerAssumption DEF FinishJob, End, OwnsJob, ShardTypeOK
  <1>9. OwnersWork'
    <2> SUFFICES ASSUME NEW j \in Job, owner'[j] # None
                 PROVE  /\ at'[owner'[j]] \notin {"idle", "dead"} /\ job'[owner'[j]] = j
                        /\ phase'[j] = "running"
      BY DEF OwnersWork, Working
    <2>1. /\ owner'[j] = owner[j] /\ phase'[j] = phase[j] /\ owner[j] \in Worker
          /\ Working(owner[j]) /\ job[owner[j]] = j /\ phase[j] = "running"
      BY <1>1, <1>7 DEF ShardsOK, OwnersWork, ShardTypeOK
    <2>2. owner[j] # w
      BY <1>8, <2>1
    <2>3. at'[owner[j]] \notin {"idle", "dead"} /\ job'[owner[j]] = j
      BY <1>6, <2>1, <2>2 DEF Working
    <2>4. QED
      BY <1>3, <2>1, <2>3
  <1>10. WorkersOwn'
    <2> SUFFICES ASSUME NEW v \in Worker, Working(v)', job'[v] \notin revoked
                 PROVE  owner'[job'[v]] = v
      BY <1>3 DEF WorkersOwn
    <2>1. v # w /\ job'[v] = job[v] /\ Working(v)
      BY <1>6
    <2>2. owner[job[v]] = v /\ job[v] \in Job
      BY <2>1, CurFacts DEF ShardsOK, WorkersOwn
    <2>3. job[v] # job[w]
      BY <1>1, <1>8, <2>1, <2>2 DEF ShardsOK, WorkersOwn
    <2>4. QED
      BY <1>7, <2>1, <2>2, <2>3
  <1>11. ASSUME NEW v \in Worker
         PROVE  WorkerOK(v)'
    <2>1. CASE v = w
      BY <1>6, <2>1 DEF WorkerOK
    <2>2. CASE v # w
      <3>1. v # None
        BY NoOwnerAssumption
      <3>2. Working(v) => (owner'[job[v]] = v => owner[job[v]] = v)
        BY <1>7, <3>1, CurFacts
      <3>3. QED
        BY <1>3, <1>6, <2>2, <3>2, WorkerStays
    <2>3. QED
      BY <2>1, <2>2
  <1>12. ASSUME NEW s \in Undisturbed
         PROVE  ShardOK(s)'
    <2>1. s \in Shard /\ s[1] \in Job /\ s[1] \notin revoked
      BY DEF Undisturbed, Shard
    <2>2. Between(s) => Between(s)'
      BY <1>1, <1>6 DEF Between, Cur
    <2>3. ASSUME phase'[s[1]] = "done", phase[s[1]] # "done"
          PROVE  state[s].status = "completed"
      <3>1. s[1] = job[w] /\ at[w] = "finish"
        BY <1>1, <1>2, <1>4, <2>1, <2>3 DEF ShardTypeOK
      <3>2. nth[w] > Shards /\ OthersOK(w)
        BY <1>1, <1>2, <2>1, <3>1 DEF PlaceOK, ShardsOK, WorkerOK
      <3>3. PICK i \in 1 .. Shards : s = <<job[w], i>>
        BY <2>1, <3>1 DEF Shard
      <3>4. i < nth[w]
        BY <1>2, <3>2, ShardAssumption
      <3>5. QED
        BY <3>2, <3>3, <3>4 DEF OthersOK
    <2>4. QED
      BY <1>3, <2>2, <2>3, ShardStays
  <1>13. Undisturbed' = Undisturbed
    BY <1>3 DEF Undisturbed
  <1>14. QED
    BY <1>5, <1>9, <1>10, <1>11, <1>12, <1>13 DEF ShardsOK

LEMMA KillKeeps ==
  ASSUME ShardsOK, NEW w \in Worker, Kill(w)
  PROVE  ShardsOK'
  <1>1. Working(w) /\ ShardTypeOK
    BY DEF Kill, Working, ShardsOK
  <1>2. PlaceOK(w) /\ job[w] \in Job
    BY <1>1, CurFacts
  <1>3. /\ UNCHANGED <<phase, starts, csv, state, job, nth, pos, resume, revoked, stray>>
        /\ at' = [at EXCEPT ![w] = "dead"]
        /\ owner' = owner \/ owner' = [owner EXCEPT ![job[w]] = None]
        /\ \/ at[w] = "checkpoint" /\ cuts' = [cuts EXCEPT ![Cur(w)] = @ + 1]
           \/ at[w] # "checkpoint" /\ cuts' = cuts
    BY DEF Kill, CutShort, MoveTo, jvars, Die
  <1>4. ShardTypeOK'
    <2>1. CASE at[w] = "checkpoint"
      <3>1. Cur(w) \in Shard /\ cuts' = [cuts EXCEPT ![Cur(w)] = @ + 1]
        BY <1>1, <1>3, <2>1, CurFacts DEF Inside
      <3>2. cuts' \in [Shard -> Nat]
        BY <1>1, <3>1 DEF ShardTypeOK
      <3>3. QED
        BY <1>1, <1>2, <1>3, <3>2 DEF ShardTypeOK, At
    <2>2. CASE at[w] # "checkpoint"
      BY <1>1, <1>2, <1>3, <2>2 DEF ShardTypeOK, At
    <2>3. QED
      BY <2>1, <2>2
  <1>5. /\ ~ Working(w)'
        /\ \A v \in Worker \ {w} : at'[v] = at[v] /\ Working(v)' = Working(v)
        /\ \A s \in Shard : s # Cur(w) => cuts'[s] = cuts[s]
    BY <1>1, <1>3 DEF ShardTypeOK, Working
  <1>6. \A j \in Job : /\ owner'[j] = owner[j] \/ owner'[j] = None
                       /\ j # job[w] => owner'[j] = owner[j]
    BY <1>1, <1>2, <1>3 DEF ShardTypeOK
  <1>7. w # None /\ (owner[job[w]] = w => owner'[job[w]] = None)
    BY <1>1, <1>2, NoOwnerAssumption DEF Kill, Die, OwnsJob, ShardTypeOK
  <1>8. OwnersWork'
    <2> SUFFICES ASSUME NEW j \in Job, owner'[j] # None
                 PROVE  /\ at'[owner'[j]] \notin {"idle", "dead"} /\ job'[owner'[j]] = j
                        /\ phase'[j] = "running"
      BY DEF OwnersWork, Working
    <2>1. /\ owner'[j] = owner[j] /\ owner[j] \in Worker
          /\ Working(owner[j]) /\ job[owner[j]] = j /\ phase[j] = "running"
      BY <1>1, <1>6 DEF ShardsOK, OwnersWork, ShardTypeOK
    <2>2. owner[j] # w
      BY <1>7, <2>1
    <2>3. at'[owner[j]] \notin {"idle", "dead"}
      BY <1>5, <2>1, <2>2 DEF Working
    <2>4. QED
      BY <1>3, <2>1, <2>3
  <1>9. WorkersOwn'
    <2> SUFFICES ASSUME NEW v \in Worker, Working(v)', job[v] \notin revoked
                 PROVE  owner'[job[v]] = v
      BY <1>3 DEF WorkersOwn
    <2>1. v # w /\ Working(v)
      BY <1>5
    <2>2. owner[job[v]] = v /\ job[v] \in Job
      BY <2>1, CurFacts DEF ShardsOK, WorkersOwn
    <2>3. job[v] # job[w]
      BY <1>1, <2>1, <2>2 DEF ShardsOK, WorkersOwn
    <2>4. QED
      BY <1>6, <2>1, <2>2, <2>3
  <1>10. ASSUME NEW v \in Worker
         PROVE  WorkerOK(v)'
    <2>1. CASE v = w
      BY <1>5, <2>1 DEF WorkerOK
    <2>2. CASE v # w
      <3>1. v # None
        BY NoOwnerAssumption
      <3>2. Working(v) => (owner'[job[v]] = v => owner[job[v]] = v)
        BY <1>6, <3>1, CurFacts
      <3>3. Working(v) /\ job[v] \notin revoked =>
               \A n \in 1 .. Shards : cuts'[<<job[v], n>>] = cuts[<<job[v], n>>]
        <4> SUFFICES ASSUME Working(v), job[v] \notin revoked, NEW n \in 1 .. Shards
                     PROVE  cuts'[<<job[v], n>>] = cuts[<<job[v], n>>]
          OBVIOUS
        <4>1. job[v] # job[w] /\ job[v] \in Job
          BY <1>1, <2>2, CurFacts DEF ShardsOK, WorkersOwn
        <4>2. <<job[v], n>> \in Shard /\ <<job[v], n>> # Cur(w)
          BY <4>1 DEF Shard, Cur
        <4>3. QED
          BY <1>5, <4>2
      <3>4. QED
        BY <1>3, <1>5, <2>2, <3>2, <3>3, WorkerStays
    <2>3. QED
      BY <2>1, <2>2
  <1>11. ASSUME NEW s \in Undisturbed
         PROVE  ShardOK(s)'
    <2>1. s \in Shard /\ ShardOK(s)
      BY DEF Undisturbed, ShardsOK
    <2>2. CASE at[w] = "checkpoint" /\ s = Cur(w)
      <3>1. HereOK(w) /\ pos[w] \in Nat /\ phase[s[1]] = "running"
        BY <1>1, <2>2, CurFacts, ShardAssumption DEF Cur
      <3>2. /\ state[s].processed = pos[w] /\ state[s].status # "completed"
            /\ FileOK(csv[s], pos[w], cuts[s] + 1)
        BY <2>2, <3>1 DEF HereOK, Auditing
      <3>3. cuts'[s] = cuts[s] + 1
        BY <1>1, <1>3, <2>1, <2>2 DEF ShardTypeOK
      <3>4. QED
        BY <1>3, <3>1, <3>2, <3>3 DEF ShardOK
    <2>3. CASE ~ (at[w] = "checkpoint" /\ s = Cur(w))
      <3>1. cuts'[s] = cuts[s]
        BY <1>3, <1>5, <2>1, <2>3
      <3>2. Between(s) => Between(s)'
        BY <1>3, <1>5, <2>3 DEF Between, Cur
      <3>3. QED
        BY <1>3, <2>1, <3>1, <3>2 DEF ShardOK
    <2>4. QED
      BY <2>2, <2>3
  <1>12. Undisturbed' = Undisturbed
    BY <1>3 DEF Undisturbed
  <1>13. QED
    BY <1>4, <1>8, <1>9, <1>10, <1>11, <1>12 DEF ShardsOK

LEMMA RestartKeeps ==
  ASSUME ShardsOK, NEW w \in Worker, Restart(w)
  PROVE  ShardsOK'
  <1>1. at[w] = "dead" /\ ShardTypeOK
    BY DEF Restart, ShardsOK
  <1>2. /\ UNCHANGED <<phase, owner, starts, csv, state, revoked, stray, cuts>>
        /\ at' = [at EXCEPT ![w] = "idle"]
        /\ job' = [job EXCEPT ![w] = None] /\ pos' = [pos EXCEPT ![w] = 0]
        /\ resume' = [resume EXCEPT ![w] = FALSE] /\ nth' = [nth EXCEPT ![w] = 1]
    BY DEF Restart, MoveTo, jvars
  <1>3. ShardTypeOK'
    <2>1. 0 \in 0 .. Rules /\ "idle" \in At
      BY ShardAssumption DEF At
    <2>2. QED
      BY <1>1, <1>2, <2>1 DEF ShardTypeOK
  <1>4. /\ ~ Working(w) /\ ~ Working(w)'
        /\ \A v \in Worker \ {w} : /\ at'[v] = at[v] /\ nth'[v] = nth[v] /\ pos'[v] = pos[v]
                                   /\ job'[v] = job[v] /\ Working(v)' = Working(v)
    BY <1>1, <1>2 DEF ShardTypeOK, Working
  <1>5. OwnersWork'
    <2> SUFFICES ASSUME NEW j \in Job, owner[j] # None
                 PROVE  /\ at'[owner[j]] \notin {"idle", "dead"} /\ job'[owner[j]] = j
                        /\ phase[j] = "running"
      BY <1>2 DEF OwnersWork, Working
    <2>1. /\ owner[j] \in Worker
          /\ Working(owner[j]) /\ job[owner[j]] = j /\ phase[j] = "running"
      BY <1>1 DEF ShardsOK, OwnersWork, ShardTypeOK
    <2>2. QED
      BY <1>4, <2>1 DEF Working
  <1>6. WorkersOwn'
    BY <1>2, <1>4 DEF ShardsOK, WorkersOwn
  <1>7. ASSUME NEW v \in Worker
        PROVE  WorkerOK(v)'
    <2>1. CASE v = w
      BY <1>4, <2>1 DEF WorkerOK
    <2>2. CASE v # w
      BY <1>2, <1>4, <2>2, WorkerStays
    <2>3. QED
      BY <2>1, <2>2
  <1>8. ASSUME NEW s \in Undisturbed
        PROVE  ShardOK(s)'
    <2>1. Between(s) => Between(s)'
      BY <1>1, <1>4 DEF Between, Cur
    <2>2. QED
      BY <1>2, <2>1, ShardStays
  <1>9. Undisturbed' = Undisturbed
    BY <1>2 DEF Undisturbed
  <1>10. QED
    BY <1>3, <1>5, <1>6, <1>7, <1>8, <1>9 DEF ShardsOK

LEMMA BeginKeeps ==
  ASSUME ShardsOK, NEW w \in Worker, NEW j \in Job, Begin(w, j)
  PROVE  ShardsOK'
  <1>1. at[w] = "idle" /\ ~ Working(w) /\ ShardTypeOK /\ phase[j] = "waiting"
    BY DEF Begin, Start, Working, ShardsOK
  <1>2. PICK r \in ResumeModes :
           /\ UNCHANGED <<csv, state, pos, revoked, cuts>>
           /\ phase' = [phase EXCEPT ![j] = "running"]
           /\ owner' = [owner EXCEPT ![j] = w]
           /\ starts' = [starts EXCEPT ![j] = @ + 1]
           /\ at' = [at EXCEPT ![w] = "shard"]
           /\ job' = [job EXCEPT ![w] = j] /\ nth' = [nth EXCEPT ![w] = 1]
           /\ resume' = [resume EXCEPT ![w] = r] /\ stray' = [stray EXCEPT ![w] = 0]
    BY DEF Begin, Start, MoveTo
  <1>3. ShardTypeOK'
    BY <1>1, <1>2, ShardAssumption DEF ShardTypeOK, At
  <1>4. /\ Working(w)' /\ at'[w] = "shard" /\ job'[w] = j /\ nth'[w] = 1 /\ stray'[w] = 0
        /\ \A v \in Worker \ {w} : /\ at'[v] = at[v] /\ nth'[v] = nth[v] /\ pos'[v] = pos[v]
                                   /\ job'[v] = job[v] /\ stray'[v] = stray[v]
                                   /\ Working(v)' = Working(v)
    BY <1>1, <1>2 DEF ShardTypeOK, Working
  <1>5. /\ owner'[j] = w /\ phase'[j] = "running"
        /\ \A i \in Job \ {j} : owner'[i] = owner[i] /\ phase'[i] = phase[i]
    BY <1>1, <1>2 DEF ShardTypeOK
  <1>6. owner[j] = None
    BY <1>1 DEF ShardsOK, OwnersWork
  <1>7. \A v \in Worker : Working(v) /\ job[v] \notin revoked => job[v] # j /\ v # w
    BY <1>1, <1>6, NoOwnerAssumption DEF ShardsOK, WorkersOwn
  <1>8. OwnersWork'
    <2> SUFFICES ASSUME NEW i \in Job, owner'[i] # None
                 PROVE  /\ at'[owner'[i]] \notin {"idle", "dead"} /\ job'[owner'[i]] = i
                        /\ phase'[i] = "running"
      BY DEF OwnersWork, Working
    <2>1. CASE i = j
      BY <1>4, <1>5, <2>1
    <2>2. CASE i # j
      <3>1. /\ owner'[i] = owner[i] /\ owner[i] \in Worker
            /\ Working(owner[i]) /\ job[owner[i]] = i /\ phase[i] = "running"
        BY <1>1, <1>5, <2>2 DEF ShardsOK, OwnersWork, ShardTypeOK
      <3>2. owner[i] # w
        BY <1>1, <3>1
      <3>3. at'[owner[i]] \notin {"idle", "dead"} /\ job'[owner[i]] = i
        BY <1>4, <3>1, <3>2 DEF Working
      <3>4. QED
        BY <1>5, <2>2, <3>1, <3>3
    <2>3. QED
      BY <2>1, <2>2
  <1>9. WorkersOwn'
    <2> SUFFICES ASSUME NEW v \in Worker, Working(v)', job'[v] \notin revoked
                 PROVE  owner'[job'[v]] = v
      BY <1>2 DEF WorkersOwn
    <2>1. CASE v = w
      BY <1>4, <1>5, <2>1
    <2>2. CASE v # w
      <3>1. Working(v) /\ job'[v] = job[v]
        BY <1>4, <2>2
      <3>2. job[v] # j /\ owner[job[v]] = v /\ job[v] \in Job
        BY <1>7, <3>1, CurFacts DEF ShardsOK, WorkersOwn
      <3>3. QED
        BY <1>5, <3>1, <3>2
    <2>3. QED
      BY <2>1, <2>2
  <1>10. ASSUME NEW v \in Worker
         PROVE  WorkerOK(v)'
    <2>1. CASE v = w
      <3>1. PlaceOK(w)'
        BY <1>4 DEF PlaceOK, Inside
      <3>2. HereOK(w)'
        BY <1>4 DEF HereOK, Auditing
      <3>3. ASSUME j \notin revoked
            PROVE  OthersOK(w)'
        <4> SUFFICES ASSUME NEW i \in 1 .. Shards
                     PROVE  LET s == <<j, i>> IN
                            /\ ~ (i < 1)
                            /\ state[s].processed = 0 \/ FileOK(csv[s], state[s].processed, cuts[s])
          BY <1>2, <1>4, <1>5 DEF OthersOK
        <4>1. <<j, i>> \in Undisturbed
          BY <3>3 DEF Undisturbed, Shard
        <4>2. ShardOK(<<j, i>>)
          BY <4>1 DEF ShardsOK
        <4>3. ~ Between(<<j, i>>)
          BY <1>7, <3>3 DEF Between, Working, Cur
        <4>4. QED
          BY <4>2, <4>3, ShardAssumption DEF ShardOK
      <3>4. QED
        BY <1>2, <1>4, <2>1, <3>1, <3>2, <3>3 DEF WorkerOK
    <2>2. CASE v # w
      <3>1. Working(v) => (owner'[job[v]] = v => owner[job[v]] = v)
        BY <1>5, <2>2, CurFacts
      <3>2. QED
        BY <1>2, <1>4, <2>2, <3>1, WorkerStays
    <2>3. QED
      BY <2>1, <2>2
  <1>11. ASSUME NEW s \in Undisturbed
         PROVE  ShardOK(s)'
    <2>1. s[1] \in Job
      BY DEF Undisturbed, Shard
    <2>2. Between(s) => Between(s)'
      BY <1>1, <1>4 DEF Between, Cur
    <2>3. phase'[s[1]] = "done" => phase[s[1]] = "done"
      BY <1>5, <2>1
    <2>4. QED
      BY <1>2, <2>2, <2>3, ShardStays
  <1>12. Undisturbed' = Undisturbed
    BY <1>2 DEF Undisturbed
  <1>13. QED
    BY <1>3, <1>8, <1>9, <1>10, <1>11, <1>12 DEF ShardsOK

(* WriteOff: an attempt on a job nobody works on is used up.               *)
LEMMA WriteOffKeeps ==
  ASSUME ShardsOK, NEW j \in Job, WriteOff(j), UNCHANGED wvars
  PROVE  ShardsOK'
  <1>1. /\ ShardTypeOK /\ owner[j] = None /\ starts' = [starts EXCEPT ![j] = @ + 1]
        /\ UNCHANGED <<phase, owner, csv, state, at, job, nth, pos, resume, revoked, stray, cuts>>
    BY DEF WriteOff, wvars, ShardsOK
  <1>2. ShardTypeOK'
    BY <1>1 DEF ShardTypeOK
  <1>3. OwnersWork' /\ WorkersOwn'
    BY <1>1 DEF ShardsOK, OwnersWork, WorkersOwn, Working
  <1>4. ASSUME NEW v \in Worker
        PROVE  WorkerOK(v)'
    BY <1>1, WorkerStays
  <1>5. ASSUME NEW s \in Undisturbed'
        PROVE  ShardOK(s)'
    <2>1. s \in Undisturbed /\ (Between(s) => Between(s)')
      BY <1>1 DEF Undisturbed, Between, Cur
    <2>2. QED
      BY <1>1, <2>1, ShardStays
  <1>6. QED
    BY <1>2, <1>3, <1>4, <1>5 DEF ShardsOK

(* Reclaim, RetryFailed and Revoke.                                        *)
LEMMA ServiceKeeps ==
  ASSUME ShardsOK, NEW j \in Job,
         ((Reclaim(j) \/ RetryFailed(j)) /\ UNCHANGED wvars) \/ Revoke(j)
  PROVE  ShardsOK'
  <1>1. ShardTypeOK
    BY DEF ShardsOK
  <1>2. PICK p \in {"waiting", "failed"} :
           /\ UNCHANGED <<starts, csv, state, at, job, nth, pos, resume, stray, cuts>>
           /\ phase' = [phase EXCEPT ![j] = p]
           /\ owner' = [owner EXCEPT ![j] = None]
           /\ revoked' = revoked \union (IF owner[j] # None THEN {j} ELSE {})
    <2>1. CASE Reclaim(j) /\ UNCHANGED wvars
      <3>1. owner' = [owner EXCEPT ![j] = None] /\ owner[j] = None
        BY <1>1, <2>1 DEF Reclaim, ShardTypeOK
      <3>2. QED
        BY <2>1, <3>1 DEF Reclaim, wvars
    <2>2. CASE RetryFailed(j) /\ UNCHANGED wvars
      <3>1. owner[j] = None
        BY <2>2 DEF RetryFailed, ShardsOK, OwnersWork
      <3>2. owner' = [owner EXCEPT ![j] = None]
        BY <1>1, <2>2, <3>1 DEF RetryFailed, ShardTypeOK
      <3>3. QED
        BY <2>2, <3>1, <3>2 DEF RetryFailed, wvars
    <2>3. CASE Revoke(j)
      BY <2>3 DEF Revoke
    <2>4. QED
      BY <2>1, <2>2, <2>3
  <1>3. ShardTypeOK'
    BY <1>1, <1>2 DEF ShardTypeOK
  <1>4. /\ owner'[j] = None
        /\ \A i \in Job \ {j} : owner'[i] = owner[i] /\ phase'[i] = phase[i]
        /\ phase'[j] # "done" /\ revoked \subseteq revoked'
    BY <1>1, <1>2 DEF ShardTypeOK
  <1>5. OwnersWork'
    BY <1>2, <1>4 DEF ShardsOK, OwnersWork, Working
  <1>6. WorkersOwn'
    <2> SUFFICES ASSUME NEW v \in Worker, Working(v), job[v] \notin revoked'
                 PROVE  owner'[job[v]] = v
      BY <1>2 DEF WorkersOwn, Working
    <2>1. owner[job[v]] = v /\ job[v] \in Job /\ v # None
      BY <1>4, CurFacts, NoOwnerAssumption DEF ShardsOK, WorkersOwn
    <2>2. job[v] # j
      BY <1>2, <2>1
    <2>3. QED
      BY <1>4, <2>1, <2>2
  <1>7. ASSUME NEW v \in Worker
        PROVE  WorkerOK(v)'
    <2>1. Working(v) => (owner'[job[v]] = v => owner[job[v]] = v)
      BY <1>4, CurFacts, NoOwnerAssumption
    <2>2. QED
      BY <1>2, <1>4, <2>1, WorkerStays
  <1>8. ASSUME NEW s \in Undisturbed'
        PROVE  ShardOK(s)'
    <2>1. s \in Undisturbed /\ s[1] \in Job
      BY <1>4 DEF Undisturbed, Shard
    <2>2. Between(s) => Between(s)'
      BY <1>2 DEF Between, Cur
    <2>3. phase'[s[1]] = "done" => phase[s[1]] = "done"
      BY <1>4, <2>1
    <2>4. QED
      BY <1>2, <2>1, <2>2, <2>3, ShardStays
  <1>9. QED
    BY <1>3, <1>5, <1>6, <1>7, <1>8 DEF ShardsOK

-----------------------------------------------------------------------------
LEMMA ShardsInit == ShardInit => ShardsOK
  <1> SUFFICES ASSUME ShardInit
               PROVE  ShardsOK
    OBVIOUS
  <1> USE DEF ShardInit, JobsInit
  <1>1. ShardTypeOK
    BY ShardAssumption DEF ShardTypeOK, At, Status
  <1>2. OwnersWork /\ WorkersOwn /\ \A w \in Worker : WorkerOK(w)
    BY DEF OwnersWork, WorkersOwn, WorkerOK, Working
  <1>3. \A s \in Undisturbed : ShardOK(s)
    BY DEF ShardOK, Undisturbed, Shard
  <1>4. QED
    BY <1>1, <1>2, <1>3 DEF ShardsOK

LEMMA ShardsNext == ShardsOK /\ [ShardNext]_svars => ShardsOK'
  <1> SUFFICES ASSUME ShardsOK, [ShardNext]_svars
               PROVE  ShardsOK'
    OBVIOUS
  <1>1. ASSUME NEW w \in Worker, NEW j \in Job, Begin(w, j)
        PROVE  ShardsOK'
    BY <1>1, BeginKeeps
  <1>2. ASSUME NEW w \in Worker, AuditStep(w)
        PROVE  ShardsOK'
    BY <1>2, NextShardKeeps, ReadStateKeeps, OpenShardKeeps, InitRulesKeeps, NextRuleKeeps,
       AuditRuleKeeps, AppendRecordKeeps, CheckpointKeeps, WriteShardOutputsKeeps,
       CompleteShardKeeps, FailShardKeeps, FinishJobKeeps DEF AuditStep
  <1>3. ASSUME NEW w \in Worker, InterruptShard(w)
        PROVE  ShardsOK'
    BY <1>3, InterruptShardKeeps
  <1>4. ASSUME NEW w \in Worker, Kill(w) \/ Restart(w)
        PROVE  ShardsOK'
    BY <1>4, KillKeeps, RestartKeeps
  <1>5. ASSUME NEW j \in Job, ServiceStep(j) \/ Revoke(j)
        PROVE  ShardsOK'
    BY <1>5, ServiceKeeps, WriteOffKeeps DEF ServiceStep
  <1>6. CASE UNCHANGED svars
    <2>1. UNCHANGED <<phase, owner, starts, csv, state, at, job, nth, pos, resume, revoked, stray, cuts>>
      BY <1>6 DEF svars, jvars, wvars
    <2>2. ShardTypeOK' /\ OwnersWork' /\ WorkersOwn'
      BY <2>1 DEF ShardsOK, ShardTypeOK, OwnersWork, WorkersOwn, Working
    <2>3. \A w \in Worker : WorkerOK(w)'
      BY <2>1, WorkerStays
    <2>4. \A s \in Undisturbed' : ShardOK(s)'
      BY <2>1 DEF ShardsOK, ShardOK, Undisturbed, Between, Cur
    <2>5. QED
      BY <2>2, <2>3, <2>4 DEF ShardsOK
  <1>7. QED
    BY <1>1, <1>2, <1>3, <1>4, <1>5, <1>6 DEF ShardNext, ShardTerminated

(* What every attempt on a shard finds and leaves behind, in every reachable *)
(* state.                                                                  *)
THEOREM ShardsKept == ShardSpec => []ShardsOK
  <1>1. ShardInit => ShardsOK
    BY ShardsInit
  <1>2. ShardsOK /\ [ShardNext]_svars => ShardsOK'
    BY ShardsNext
  <1>3. QED
    BY <1>1, <1>2, PTL DEF ShardSpec

(* AuditShard.RowsComplete: once a shard is completed, or its job done,    *)
(* its rows are all there and in order, one for each rule and exactly one  *)
(* more for each attempt that was cut short between a row and its          *)
(* checkpoint; and a worker whose lease was taken appends no more than one *)
(* row.                                                                    *)
THEOREM RowsAreComplete == ShardSpec => []RowsComplete
  <1>1. ShardsOK => RowsComplete
    <2> SUFFICES ASSUME ShardsOK
                 PROVE  RowsComplete
      OBVIOUS
    <2>1. ASSUME NEW s \in Undisturbed, Completed(s) \/ phase[s[1]] = "done"
          PROVE  /\ \A i \in 1 .. Rules : \E k \in DOMAIN csv[s] : csv[s][k] = i
                 /\ \A k \in 1 .. Len(csv[s]) - 1 : csv[s][k + 1] - csv[s][k] \in {0, 1}
                 /\ Len(csv[s]) = Rules + cuts[s]
      <3>1. ShardOK(s)
        BY DEF ShardsOK
      <3>2. state[s].status = "completed"
        BY <2>1, <3>1 DEF ShardOK, Completed
      <3>3. FileOK(csv[s], Rules, cuts[s])
        BY <3>1, <3>2 DEF ShardOK
      <3>4. QED
        BY <3>3 DEF FileOK, Covers, Consecutive
    <2>2. \A w \in Worker : stray[w] <= 1
      <3>1. stray \in [Worker -> 0 .. 1]
        BY DEF ShardsOK, ShardTypeOK
      <3>2. QED
        BY <3>1
    <2>3. QED
      BY <2>1, <2>2 DEF RowsComplete
  <1>2. QED
    BY <1>1, ShardsKept, PTL

(* AuditShard.CheckpointCovered: no state file counts a rule whose row is  *)
(* not in the file, whatever cut the attempts short.                       *)
THEOREM CheckpointsAreCovered == ShardSpec => []CheckpointCovered
  <1>1. ShardsOK => CheckpointCovered
    <2> SUFFICES ASSUME ShardsOK, NEW s \in Undisturbed
                 PROVE  Covers(csv[s], state[s].processed)
      BY DEF CheckpointCovered, Covers
    <2>1. CASE Between(s)
      <3>1. PICK w \in Worker : at[w] = "checkpoint" /\ Cur(w) = s
        BY <2>1 DEF Between
      <3>2. HereOK(w)
        BY <3>1, CurFacts DEF Working
      <3>3. state[s].processed = pos[w] /\ FileOK(csv[s], pos[w], cuts[s] + 1)
        BY <3>1, <3>2 DEF HereOK, Auditing
      <3>4. QED
        BY <3>3 DEF FileOK
    <2>2. CASE ~ Between(s)
      <3>1. state[s].processed = 0 \/ FileOK(csv[s], state[s].processed, cuts[s])
        BY <2>2 DEF ShardsOK, ShardOK
      <3>2. QED
        BY <3>1 DEF FileOK, Covers
    <2>3. QED
      BY <2>1, <2>2
  <1>2. QED
    BY <1>1, ShardsKept, PTL

(* AuditShard.CompletedForGood: no step of any worker touches the files of *)
(* a shard that was completed.                                             *)
THEOREM CompletedStays == ShardSpec => CompletedForGood
  <1>1. ASSUME ShardsOK, [ShardNext]_svars, NEW s \in Undisturbed, Completed(s)
        PROVE  Completed(s)' /\ csv'[s] = csv[s]
    <2>1. ASSUME NEW w \in Worker, at[w] \in Auditing,
                 NEW r, state' = [state EXCEPT ![Cur(w)] = r],
                 NEW c, csv' = [csv EXCEPT ![Cur(w)] = c]
          PROVE  state'[s] = state[s] /\ csv'[s] = csv[s]
      <3>1. Working(w)
        BY <2>1 DEF Working, Auditing
      <3>2. Cur(w) = s => HereOK(w)
        BY <1>1, <3>1, CurFacts
      <3>3. Cur(w) # s
        BY <1>1, <2>1, <3>2 DEF HereOK, Completed
      <3>4. s \in Shard
        BY DEF Undisturbed
      <3>5. QED
        BY <1>1, <2>1, <3>3, <3>4 DEF ShardsOK, ShardTypeOK
    <2>2. \A w \in Worker : /\ csv = [csv EXCEPT ![Cur(w)] = csv[Cur(w)]]
                            /\ state = [state EXCEPT ![Cur(w)] = state[Cur(w)]]
      BY <1>1 DEF ShardsOK, ShardTypeOK
    <2>3. ASSUME NEW w \in Worker, OpenShard(w)
          PROVE  state'[s] = state[s] /\ csv'[s] = csv[s]
      BY <2>1, <2>2, <2>3 DEF OpenShard, WriteState, Auditing
    <2>4. ASSUME NEW w \in Worker, InitRules(w)
          PROVE  state'[s] = state[s] /\ csv'[s] = csv[s]
      BY <2>1, <2>2, <2>4 DEF InitRules, TruncateRows, Auditing
    <2>5. ASSUME NEW w \in Worker, AppendRecord(w)
          PROVE  state'[s] = state[s] /\ csv'[s] = csv[s]
      BY <2>1, <2>2, <2>5 DEF AppendRecord, Auditing
    <2>6. ASSUME NEW w \in Worker, Checkpoint(w) \/ CompleteShard(w) \/ FailShard(w) \/ InterruptShard(w)
          PROVE  state'[s] = state[s] /\ csv'[s] = csv[s]
      BY <2>1, <2>2, <2>6 DEF Checkpoint, CompleteShard, FailShard, InterruptShard, WriteState, Auditing
    <2>7. ASSUME NEW w \in Worker,
                 \/ \E j \in Job : Begin(w, j)
                 \/ NextShard(w) \/ ReadState(w) \/ NextRule(w) \/ AuditRule(w)
                 \/ WriteShardOutputs(w) \/ FinishJob(w) \/ Kill(w) \/ Restart(w)
          PROVE  state' = state /\ csv' = csv
      BY <2>7 DEF Begin, NextShard, ReadState, NextRule, AuditRule, WriteShardOutputs, FinishJob,
         Kill, Restart
    <2>8. ASSUME NEW j \in Job, ServiceStep(j) \/ Revoke(j)
          PROVE  state' = state /\ csv' = csv
      BY <2>8 DEF ServiceStep, Revoke, wvars
    <2>9. state'[s] = state[s] /\ csv'[s] = csv[s]
      <3> HIDE DEF ShardsOK
      <3>1. ASSUME NEW w \in Worker, AuditStep(w)
            PROVE  state'[s] = state[s] /\ csv'[s] = csv[s]
        BY <2>3, <2>4, <2>5, <2>6, <2>7, <3>1 DEF AuditStep
      <3>2. CASE UNCHANGED svars
        BY <3>2 DEF svars, wvars
      <3>3. QED
        BY <1>1, <2>6, <2>7, <2>8, <3>1, <3>2 DEF ShardNext, ShardTerminated
    <2>10. QED
      BY <1>1, <2>9 DEF Completed
  <1>2. ShardsOK /\ [ShardNext]_svars =>
          [\A s \in Undisturbed : Completed(s) => Completed(s)' /\ csv'[s] = csv[s]]_svars
    BY <1>1
  <1>3. QED
    BY <1>2, ShardsKept, PTL DEF ShardSpec, CompletedForGood

-----------------------------------------------------------------------------
(* Orders                                                                  *)

StrictOrder(S, R) ==
    /\ \A i \in S : <<i, i>> \notin R
    /\ \A i, j, k \in S : <<i, j>> \in R /\ <<j, k>> \in R => <<i, k>> \in R
    /\ \A i, j \in S : i = j \/ <<i, j>> \in R \/ <<j, i>> \in R

(* A part of a finite set that is not all of it has fewer members.         *)
LEMMA Fewer ==
    ASSUME NEW S, IsFiniteSet(S), NEW T, T \subseteq S, T # S
    PROVE  /\ IsFiniteSet(T)
           /\ Cardinality(T) \in Nat
           /\ Cardinality(S) \in Nat
           /\ Cardinality(T) < Cardinality(S)
  <1>1. /\ IsFiniteSet(T)
        /\ Cardinality(T) <= Cardinality(S)
        /\ Cardinality(S) # Cardinality(T)
    BY FS_Subset
  <1>2. Cardinality(T) \in Nat /\ Cardinality(S) \in Nat
    BY <1>1, FS_CardinalityType
  <1>3. QED
    BY <1>1, <1>2

(* In a strict order on a finite set the members have different places.    *)
LEMMA PlacesDiffer ==
    ASSUME NEW S, IsFiniteSet(S), NEW R, StrictOrder(S, R)
    PROVE  /\ \A i \in S : /\ Place(S, R, i) \in Nat
                           /\ Place(S, R, i) + 1 \in 1 .. Cardinality(S)
           /\ \A i, j \in S : <<i, j>> \in R => Place(S, R, i) < Place(S, R, j)
           /\ \A i, j \in S : Place(S, R, i) = Place(S, R, j) => i = j
  <1> DEFINE Below(i) == {j \in S : <<j, i>> \in R}
  <1>1. \A i \in S : Below(i) \subseteq S /\ Below(i) # S
    BY DEF StrictOrder
  <1>2. \A i, j \in S : <<i, j>> \in R => Below(i) \subseteq Below(j) /\ Below(i) # Below(j)
    BY DEF StrictOrder
  <1>3. \A i \in S : Place(S, R, i) = Cardinality(Below(i))
    BY DEF Place
  <1> HIDE DEF Below
  <1>4. \A i \in S : /\ IsFiniteSet(Below(i))
                     /\ Cardinality(Below(i)) \in Nat
                     /\ Cardinality(S) \in Nat
                     /\ Cardinality(Below(i)) < Cardinality(S)
    BY <1>1, Fewer
  <1>5. \A i, j \in S : <<i, j>> \in R => Cardinality(Below(i)) < Cardinality(Below(j))
    BY <1>2, <1>4, Fewer
  <1>6. \A i, j \in S : i = j \/ <<i, j>> \in R \/ <<j, i>> \in R
    BY DEF StrictOrder
  <1>7. \A i \in S : Place(S, R, i) \in Nat /\ Place(S, R, i) + 1 \in 1 .. Cardinality(S)
    BY <1>3, <1>4
  <1>8. \A i, j \in S : <<i, j>> \in R => Place(S, R, i) < Place(S, R, j)
    BY <1>3, <1>5
  <1>9. ASSUME NEW i \in S, NEW j \in S, Place(S, R, i) = Place(S, R, j)
        PROVE  i = j
    <2>1. ~ (Place(S, R, i) < Place(S, R, j)) /\ ~ (Place(S, R, j) < Place(S, R, i))
      BY <1>7, <1>9
    <2>2. QED
      BY <1>6, <1>8, <2>1
  <1>10. QED
    BY <1>7, <1>8, <1>9

(* So InOrder is a list of all members, each of them once.                 *)
LEMMA InOrderLists ==
    ASSUME NEW S, IsFiniteSet(S), NEW R, StrictOrder(S, R)
    PROVE  /\ Cardinality(S) \in Nat
           /\ InOrder(S, R) \in [1 .. Cardinality(S) -> S]
           /\ \A i \in S : \E k \in 1 .. Cardinality(S) : InOrder(S, R)[k] = i
           /\ \A k, l \in 1 .. Cardinality(S) : InOrder(S, R)[k] = InOrder(S, R)[l] => k = l
  <1> DEFINE n == Cardinality(S)
             f == [i \in S |-> Place(S, R, i) + 1]
             g == InOrder(S, R)
  <1>1. n \in Nat /\ IsFiniteSet(1 .. n) /\ Cardinality(1 .. n) = n
    BY FS_CardinalityType, FS_Interval
  <1>2. f \in [S -> 1 .. n] /\ \A i \in S : f[i] = Place(S, R, i) + 1 /\ Place(S, R, i) \in Nat
    BY PlacesDiffer
  <1>3. \A i, j \in S : f[i] = f[j] => i = j
    BY PlacesDiffer, <1>2
  <1>4. f \in Injection(S, 1 .. n)
    BY <1>2, <1>3, Fun_IsInj
  <1>5. f \in Surjection(S, 1 .. n)
    BY <1>4, <1>1, FS_Injection
  <1>6. \A k \in 1 .. n : \E i \in S : f[i] = k
    BY <1>5 DEF Surjection
  <1>7. ASSUME NEW k \in 1 .. n
        PROVE  g[k] \in S /\ f[g[k]] = k
    <2>1. g[k] = CHOOSE i \in S : Place(S, R, i) = k - 1
      BY DEF InOrder
    <2>2. \E i \in S : Place(S, R, i) = k - 1
      BY <1>6, <1>2
    <2>3. g[k] \in S /\ Place(S, R, g[k]) = k - 1
      BY <2>1, <2>2
    <2>4. QED
      BY <2>3, <1>2, <1>1
  <1>8. g = [k \in 1 .. n |-> g[k]]
    BY DEF InOrder
  <1> HIDE DEF f, n, g
  <1>9. \A i \in S : f[i] \in 1 .. n /\ g[f[i]] = i
    BY <1>2, <1>7, <1>3
  <1>10. g \in [1 .. n -> S]
    BY <1>7, <1>8
  <1>11. QED
    BY <1>1, <1>7, <1>9, <1>10 DEF n, g

(* A set of numbers has a least one.                                       *)
LEMMA Least ==
    ASSUME NEW T, T \subseteq Nat, T # {}
    PROVE  \E x \in T : \A y \in T : x <= y
  <1>1. \E x \in T : \A y \in T : ~ (<<y, x>> \in OpToRel(<, Nat))
    BY NatLessThanWellFounded, WFMin
  <1>2. \A x, y \in T : ~ (<<y, x>> \in OpToRel(<, Nat)) => x <= y
    BY DEF OpToRel
  <1>3. QED
    BY <1>1, <1>2

Pairs == Nat \X Nat

LEMMA LessOrders ==
    /\ \A p \in Pairs : ~ Less(p, p)
    /\ \A p, q, r \in Pairs : Less(p, q) /\ Less(q, r) => Less(p, r)
    /\ \A p, q \in Pairs : p = q \/ Less(p, q) \/ Less(q, p)
  BY DEF Less, Pairs

(* A set of pairs has a least one.                                         *)
LEMMA LeastPair ==
    ASSUME NEW T, T \subseteq Pairs, T # {}
    PROVE  \E p \in T : \A q \in T : p = q \/ Less(p, q)
  <1> DEFINE F == {p[1] : p \in T}
  <1>1. PICK a \in F : \A b \in F : a <= b
    <2>1. F \subseteq Nat /\ F # {}
      BY DEF Pairs
    <2>2. QED
      BY <2>1, Least
  <1> DEFINE G == {p[2] : p \in {q \in T : q[1] = a}}
  <1>2. PICK c \in G : \A d \in G : c <= d
    <2>1. G \subseteq Nat /\ G # {}
      BY DEF Pairs
    <2>2. QED
      BY <2>1, Least
  <1>3. PICK p \in T : p[1] = a /\ p[2] = c
    OBVIOUS
  <1>4. ASSUME NEW q \in T PROVE p = q \/ Less(p, q)
    <2>1. a <= q[1] /\ (q[1] = a => c <= q[2])
      BY <1>1, <1>2
    <2>2. p \in Pairs /\ q \in Pairs
      OBVIOUS
    <2>3. QED
      BY <1>3, <2>1, <2>2 DEF Less, Pairs
  <1>5. QED
    BY <1>4

(* Sequences of pairs are ordered as Python orders tuples.                 *)
LEMMA BeforeOrders ==
    /\ \A s \in Seq(Pairs) : ~ Before(s, s)
    /\ \A s, t, u \in Seq(Pairs) : Before(s, t) /\ Before(t, u) => Before(s, u)
    /\ \A s, t \in Seq(Pairs) : s = t \/ Before(s, t) \/ Before(t, s)
  <1>0. \A s \in Seq(Pairs) : Len(s) \in Nat /\ \A i \in 1 .. Len(s) : s[i] \in Pairs
    OBVIOUS
  <1>1. ASSUME NEW s \in Seq(Pairs) PROVE ~ Before(s, s)
    BY <1>0, LessOrders DEF Before
  <1>2. ASSUME NEW s \in Seq(Pairs), NEW t \in Seq(Pairs), NEW u \in Seq(Pairs),
               Before(s, t), Before(t, u)
        PROVE  Before(s, u)
    <2>1. PICK i \in 1 .. Len(t) : /\ \A j \in 1 .. i - 1 : j <= Len(s) /\ s[j] = t[j]
                                   /\ i > Len(s) \/ Less(s[i], t[i])
      BY <1>2 DEF Before
    <2>2. PICK k \in 1 .. Len(u) : /\ \A j \in 1 .. k - 1 : j <= Len(t) /\ t[j] = u[j]
                                   /\ k > Len(t) \/ Less(t[k], u[k])
      BY <1>2 DEF Before
    <2>3. CASE i < k
      <3>1. i \in 1 .. Len(u) /\ t[i] = u[i] /\ \A j \in 1 .. i - 1 : t[j] = u[j]
        <4> DEFINE l == Len(u)
                   n == Len(t)
        <4>1. l \in Nat /\ n \in Nat /\ i \in 1 .. n /\ k \in 1 .. l /\ i < k
          BY <1>0, <2>3
        <4> HIDE DEF l, n
        <4>2. i \in 1 .. l /\ i \in 1 .. k - 1 /\ \A j \in 1 .. i - 1 : j \in 1 .. k - 1
          BY <4>1
        <4> QED
          BY <2>2, <4>2 DEF l
      <3>2. QED
        BY <2>1, <3>1 DEF Before
    <2>4. CASE i = k
      <3>1. Less(t[i], u[i])
        BY <1>0, <2>2, <2>4
      <3>2. \A j \in 1 .. i - 1 : j <= Len(s) /\ s[j] = u[j]
        BY <2>1, <2>2, <2>4
      <3>3. i > Len(s) \/ Less(s[i], u[i])
        <4>1. CASE i > Len(s)
          BY <4>1
        <4>2. CASE ~ (i > Len(s))
          <5>1. s[i] \in Pairs /\ t[i] \in Pairs /\ u[i] \in Pairs
            BY <1>0, <4>2, <2>4
          <5>2. Less(s[i], t[i])
            BY <2>1, <4>2
          <5>3. QED
            BY <5>1, <5>2, <3>1, LessOrders
        <4>3. QED
          BY <4>1, <4>2
      <3>4. QED
        BY <2>4, <3>2, <3>3 DEF Before
    <2>5. CASE k < i
      <3>1. k \in 1 .. Len(t) /\ k \in 1 .. i - 1 /\ s[k] = t[k] /\ Less(t[k], u[k])
        BY <1>0, <2>1, <2>2, <2>5
      <3>2. \A j \in 1 .. k - 1 : j <= Len(s) /\ s[j] = u[j]
        BY <1>0, <2>1, <2>2, <2>5
      <3>3. QED
        BY <3>1, <3>2 DEF Before
    <2>6. QED
      BY <1>0, <2>3, <2>4, <2>5
  <1>3. ASSUME NEW s \in Seq(Pairs), NEW t \in Seq(Pairs), s # t
        PROVE  Before(s, t) \/ Before(t, s)
    <2> DEFINE D == {i \in Nat \ {0} : /\ i <= Len(s) \/ i <= Len(t)
                                       /\ i <= Len(s) /\ i <= Len(t) => s[i] # t[i]}
    <2>1. D # {}
      <3> SUFFICES ASSUME D = {} PROVE FALSE
        OBVIOUS
      <3>1. \A i \in Nat \ {0} : i <= Len(s) \/ i <= Len(t) => i <= Len(s) /\ i <= Len(t) /\ s[i] = t[i]
        OBVIOUS
      <3>2. Len(s) = Len(t)
        <4>1. Len(s) > 0 => Len(s) <= Len(t)
          BY <1>0, <3>1
        <4>2. Len(t) > 0 => Len(t) <= Len(s)
          BY <1>0, <3>1
        <4>3. QED
          BY <1>0, <4>1, <4>2
      <3>3. \A i \in 1 .. Len(s) : s[i] = t[i]
        BY <1>0, <3>1
      <3>4. QED
        <4>1. s = t
          BY <3>2, <3>3
        <4>2. QED
          BY <1>3, <4>1
    <2>2. /\ D \subseteq Nat
          /\ \A i \in D : /\ i \in Nat \ {0}
                          /\ i <= Len(s) \/ i <= Len(t)
                          /\ i <= Len(s) /\ i <= Len(t) => s[i] # t[i]
      OBVIOUS
    <2>3. PICK i : i \in D /\ \A j \in D : i <= j
      BY <2>1, <2>2, Least
    <2>4. ASSUME NEW j \in 1 .. i - 1
          PROVE  j <= Len(s) /\ j <= Len(t) /\ s[j] = t[j]
      <3>1. i \in Nat \ {0} /\ (i <= Len(s) \/ i <= Len(t))
        BY <2>2, <2>3
      <3>2. j \notin D /\ j \in Nat \ {0} /\ (j <= Len(s) \/ j <= Len(t))
        <4>1. j \in Nat \ {0} /\ j < i
          BY <3>1
        <4>2. Len(s) \in Nat /\ Len(t) \in Nat
          BY <1>0
        <4>3. j <= Len(s) \/ j <= Len(t)
          BY <3>1, <4>1, <4>2
        <4> HIDE DEF D
        <4>4. j \notin D
          BY <2>3, <3>1, <4>1
        <4>5. QED
          BY <4>1, <4>3, <4>4
      <3>3. QED
        BY <3>2
    <2>5. i \in Nat \ {0} /\ (i <= Len(s) \/ i <= Len(t)) /\ (i <= Len(s) /\ i <= Len(t) => s[i] # t[i])
      BY <2>2, <2>3
    <2> HIDE DEF D
    <2>6. CASE i > Len(s)
      BY <1>0, <2>4, <2>5, <2>6 DEF Before
    <2>7. CASE i > Len(t)
      BY <1>0, <2>4, <2>5, <2>7 DEF Before
    <2>8. CASE i <= Len(s) /\ i <= Len(t)
      <3>1. Less(s[i], t[i]) \/ Less(t[i], s[i])
        BY <1>0, <2>5, <2>8, LessOrders
      <3>2. i \in 1 .. Len(s) /\ i \in 1 .. Len(t)
        BY <1>0, <2>5, <2>8
      <3>3. QED
        BY <2>4, <3>1, <3>2 DEF Before
    <2>9. QED
      BY <1>0, <2>5, <2>6, <2>7, <2>8
  <1>4. QED
    BY <1>1, <1>2, <1>3

(* canonical_key's order of atoms is one.                                  *)
LEMMA PrecedesOrders ==
    ASSUME NEW n \in Nat, NEW ranks \in [1 .. n -> Seq(Pairs)]
    PROVE  StrictOrder(1 .. n, Precedes(ranks))
  <1> DEFINE P(i, j) == Before(ranks[i], ranks[j]) \/ (ranks[i] = ranks[j] /\ i < j)
  <1>1. \A i, j \in 1 .. n : <<i, j>> \in Precedes(ranks) <=> P(i, j)
    BY DEF Precedes
  <1>2. \A i \in 1 .. n : ranks[i] \in Seq(Pairs)
    OBVIOUS
  <1>3. \A i \in 1 .. n : ~ P(i, i)
    BY <1>2, BeforeOrders
  <1>4. ASSUME NEW i \in 1 .. n, NEW j \in 1 .. n, NEW k \in 1 .. n, P(i, j), P(j, k)
        PROVE  P(i, k)
    <2>1. Before(ranks[i], ranks[j]) /\ Before(ranks[j], ranks[k]) => Before(ranks[i], ranks[k])
      BY <1>2, BeforeOrders
    <2>2. i < j /\ j < k => i < k
      OBVIOUS
    <2>3. QED
      BY <1>4, <2>1, <2>2
  <1>5. \A i, j \in 1 .. n : i = j \/ P(i, j) \/ P(j, i)
    <2> SUFFICES ASSUME NEW i \in 1 .. n, NEW j \in 1 .. n
                 PROVE  i = j \/ P(i, j) \/ P(j, i)
      OBVIOUS
    <2>1. ranks[i] = ranks[j] \/ Before(ranks[i], ranks[j]) \/ Before(ranks[j], ranks[i])
      BY <1>2, BeforeOrders
    <2>2. i = j \/ i < j \/ j < i
      OBVIOUS
    <2>3. QED
      BY <2>1, <2>2
  <1> HIDE DEF P
  <1>6. QED
    BY <1>1, <1>3, <1>4, <1>5 DEF StrictOrder

-----------------------------------------------------------------------------
(* Atoms                                                                   *)

LEMMA AtomFacts ==
    ASSUME NEW atoms, WellFormed(atoms)
    PROVE  /\ Len(atoms) \in Nat
           /\ atoms = [i \in 1 .. Len(atoms) |-> atoms[i]]
           /\ \A i \in 1 .. Len(atoms) : /\ atoms[i].table \in Nat
                                         /\ atoms[i].occ \in Nat
                                         /\ Columns(atoms[i]) \subseteq Nat
                                         /\ IsFiniteSet(Columns(atoms[i]))
                                         /\ atoms[i].terms \in [Columns(atoms[i]) -> Nat]
           /\ \A i \in 1 .. Len(atoms) : \A c \in Columns(atoms[i]) :
                 atoms[i].terms[c] \in Nat /\ atoms[i].terms[c] \in Variables(atoms)
           /\ \A v \in Variables(atoms) : \E i \in 1 .. Len(atoms) : \E c \in Columns(atoms[i]) :
                 v = atoms[i].terms[c]
  <1>1. /\ Len(atoms) \in Nat
        /\ atoms = [i \in 1 .. Len(atoms) |-> atoms[i]]
    BY DEF WellFormed
  <1>2. \A i \in 1 .. Len(atoms) : /\ atoms[i].table \in Nat
                                   /\ atoms[i].occ \in Nat
                                   /\ Columns(atoms[i]) \subseteq Nat
                                   /\ IsFiniteSet(Columns(atoms[i]))
                                   /\ atoms[i].terms \in [Columns(atoms[i]) -> Nat]
    BY DEF WellFormed
  <1>3. \A i \in 1 .. Len(atoms) : \A c \in Columns(atoms[i]) :
           atoms[i].terms[c] \in AtomVariables(atoms[i])
    BY DEF AtomVariables
  <1>4. \A i \in 1 .. Len(atoms) : AtomVariables(atoms[i]) \subseteq Variables(atoms)
    BY DEF Variables
  <1>5. ASSUME NEW v \in Variables(atoms)
        PROVE  \E i \in 1 .. Len(atoms) : \E c \in Columns(atoms[i]) : v = atoms[i].terms[c]
    <2>1. PICK i \in 1 .. Len(atoms) : v \in AtomVariables(atoms[i])
      BY <1>5 DEF Variables
    <2>2. QED
      BY <2>1 DEF AtomVariables
  <1>6. \A i \in 1 .. Len(atoms) : \A c \in Columns(atoms[i]) :
           atoms[i].terms[c] \in Nat /\ atoms[i].terms[c] \in Variables(atoms)
    BY <1>2, <1>3, <1>4
  <1>7. QED
    BY <1>1, <1>2, <1>5, <1>6

LEMMA RankIsPairs ==
    ASSUME NEW atom, {atom.table, atom.occ} \subseteq Nat, Columns(atom) \subseteq Nat,
           IsFiniteSet(Columns(atom)), atom.terms \in [Columns(atom) -> Nat]
    PROVE  Rank(atom) \in Seq(Pairs)
  <1> DEFINE C == Columns(atom)
             R == {p \in C \X C : p[1] < p[2]}
             cols == InOrder(C, R)
             n == Cardinality(C)
  <1>1. StrictOrder(C, R)
    <2>1. \A i, j \in C : <<i, j>> \in R <=> i < j
      OBVIOUS
    <2> HIDE DEF R
    <2>2. \A i, j, k \in C : i \in Int /\ j \in Int /\ k \in Int
      OBVIOUS
    <2>3. QED
      BY <2>1, <2>2 DEF StrictOrder
  <1>2. n \in Nat /\ cols \in [1 .. n -> C]
    BY <1>1, InOrderLists
  <1>3. TermSeq(atom) = [k \in 1 .. n |-> <<cols[k], atom.terms[cols[k]]>>]
    BY DEF TermSeq
  <1> HIDE DEF cols, n
  <1>4. \A k \in 1 .. n : <<cols[k], atom.terms[cols[k]]>> \in Pairs
    BY <1>2 DEF Pairs
  <1>5. TermSeq(atom) \in Seq(Pairs)
    BY <1>2, <1>3, <1>4
  <1>6. << <<atom.table, atom.occ>> >> \in Seq(Pairs)
    BY DEF Pairs
  <1>7. QED
    BY <1>5, <1>6 DEF Rank

Permutes(n, o) ==
    /\ o \in [1 .. n -> 1 .. n]
    /\ \A k, l \in 1 .. n : o[k] = o[l] => k = l
    /\ \A i \in 1 .. n : \E k \in 1 .. n : o[k] = i

(* Sorting moves atoms about and does nothing else.                        *)
LEMMA SortedPermutes ==
    ASSUME NEW atoms, WellFormed(atoms)
    PROVE  /\ WellFormed(Sorted(atoms))
           /\ Len(Sorted(atoms)) = Len(atoms)
           /\ \E o : /\ Permutes(Len(atoms), o)
                     /\ \A k \in 1 .. Len(atoms) : Sorted(atoms)[k] = atoms[o[k]]
  <1> DEFINE n == Len(atoms)
             ranks == [i \in 1 .. n |-> Rank(atoms[i])]
             o == InOrder(1 .. n, Precedes(ranks))
  <1>1. n \in Nat /\ atoms = [i \in 1 .. n |-> atoms[i]]
    BY AtomFacts
  <1>2. ranks \in [1 .. n -> Seq(Pairs)]
    <2>1. \A i \in 1 .. n : Rank(atoms[i]) \in Seq(Pairs)
      BY AtomFacts, RankIsPairs
    <2>2. QED
      BY <2>1
  <1>3. StrictOrder(1 .. n, Precedes(ranks))
    BY <1>1, <1>2, PrecedesOrders
  <1>4. IsFiniteSet(1 .. n) /\ Cardinality(1 .. n) = n
    <2>1. n \in Int
      BY <1>1
    <2> HIDE DEF n
    <2>2. QED
      BY <1>1, <2>1, FS_Interval
  <1>5. Permutes(n, o)
    BY <1>3, <1>4, InOrderLists DEF Permutes
  <1>6. Sorted(atoms) = [k \in 1 .. n |-> atoms[o[k]]]
    BY <1>4 DEF Sorted
  <1> HIDE DEF o, ranks
  <1>7. \A k \in 1 .. n : o[k] \in 1 .. n
    BY <1>5 DEF Permutes
  <1>8. Len(Sorted(atoms)) = n /\ \A k \in 1 .. n : Sorted(atoms)[k] = atoms[o[k]]
    BY <1>1, <1>6
  <1>9. WellFormed(Sorted(atoms))
    <2> DEFINE s == Sorted(atoms)
    <2>1. s = [k \in 1 .. n |-> s[k]] /\ Len(s) = n
      BY <1>6, <1>8
    <2> HIDE DEF s
    <2>2. s \in Seq({s[i] : i \in 1 .. Len(s)})
      BY <1>1, <2>1
    <2>3. \A k \in 1 .. Len(s) : \E i \in 1 .. n : s[k] = atoms[i]
      BY <1>7, <1>8, <2>1 DEF s
    <2>4. QED
      BY <2>2, <2>3 DEF WellFormed, s
  <1>10. QED
    BY <1>5, <1>8, <1>9

(* Atoms of a body and of a head together.                                 *)
LEMMA AtomsTogether ==
    ASSUME NEW a, NEW b, WellFormed(a), WellFormed(b)
    PROVE  /\ WellFormed(a \o b)
           /\ Len(a \o b) = Len(a) + Len(b)
           /\ \A i \in 1 .. Len(a) : (a \o b)[i] = a[i]
           /\ \A i \in 1 .. Len(b) : (a \o b)[Len(a) + i] = b[i]
           /\ \A i \in 1 .. Len(a) + Len(b) : i > Len(a) => (a \o b)[i] = b[i - Len(a)]
           /\ Variables(a \o b) = Variables(a) \cup Variables(b)
  <1> DEFINE A == {a[i] : i \in 1 .. Len(a)}
             B == {b[i] : i \in 1 .. Len(b)}
             s == a \o b
  <1>1. a \in Seq(A) /\ b \in Seq(B)
    BY DEF WellFormed
  <1>2. a \in Seq(A \cup B) /\ b \in Seq(A \cup B)
    <2> HIDE DEF A, B
    <2>1. QED
      BY <1>1
  <1>3. /\ s \in Seq(A \cup B)
        /\ Len(s) = Len(a) + Len(b)
        /\ \A i \in 1 .. Len(a) : s[i] = a[i]
        /\ \A i \in 1 .. Len(b) : s[Len(a) + i] = b[i]
        /\ \A i \in 1 .. Len(a) + Len(b) : i > Len(a) => s[i] = b[i - Len(a)]
    <2> HIDE DEF A, B
    <2>1. QED
      BY <1>2
  <1>4. Len(a) \in Nat /\ Len(b) \in Nat
    BY <1>1
  <1> HIDE DEF s
  <1>5. s \in Seq({s[i] : i \in 1 .. Len(s)})
    <2> HIDE DEF A, B
    <2>1. Len(s) \in Nat /\ s = [i \in 1 .. Len(s) |-> s[i]]
      BY <1>3
    <2>2. QED
      BY <2>1
  <1>6. \A i \in 1 .. Len(s) : \/ i \in 1 .. Len(a) /\ s[i] = a[i]
                               \/ i - Len(a) \in 1 .. Len(b) /\ s[i] = b[i - Len(a)]
    BY <1>3, <1>4
  <1>7. WellFormed(s)
    <2> HIDE DEF A, B
    <2>1. \A i \in 1 .. Len(s) : \/ \E k \in 1 .. Len(a) : s[i] = a[k]
                                 \/ \E k \in 1 .. Len(b) : s[i] = b[k]
      BY <1>6
    <2>2. \A i \in 1 .. Len(s) : /\ {s[i].table, s[i].occ} \subseteq Nat
                                 /\ Columns(s[i]) \subseteq Nat
                                 /\ IsFiniteSet(Columns(s[i]))
                                 /\ s[i].terms \in [Columns(s[i]) -> Nat]
      <3> SUFFICES ASSUME NEW i \in 1 .. Len(s)
                   PROVE  /\ s[i].table \in Nat /\ s[i].occ \in Nat
                          /\ Columns(s[i]) \subseteq Nat
                          /\ IsFiniteSet(Columns(s[i]))
                          /\ s[i].terms \in [Columns(s[i]) -> Nat]
        OBVIOUS
      <3>1. CASE \E k \in 1 .. Len(a) : s[i] = a[k]
        BY <3>1, AtomFacts
      <3>2. CASE \E k \in 1 .. Len(b) : s[i] = b[k]
        BY <3>2, AtomFacts
      <3>3. QED
        BY <2>1, <3>1, <3>2
    <2>3. QED
      BY <1>5, <2>2 DEF WellFormed
  <1>8. Variables(s) \subseteq Variables(a) \cup Variables(b)
    BY <1>6 DEF Variables
  <1>9. Variables(a) \subseteq Variables(s)
    <2>1. \A i \in 1 .. Len(a) : i \in 1 .. Len(s)
      BY <1>3, <1>4
    <2>2. QED
      BY <1>3, <2>1 DEF Variables
  <1>10. Variables(b) \subseteq Variables(s)
    <2>1. \A i \in 1 .. Len(b) : Len(a) + i \in 1 .. Len(s)
      BY <1>3, <1>4
    <2>2. QED
      BY <1>3, <2>1 DEF Variables
  <1>11. QED
    BY <1>3, <1>7, <1>8, <1>9, <1>10 DEF s

(* Rules have finitely many variables.                                     *)
LEMMA FiniteVariables ==
    ASSUME NEW atoms, WellFormed(atoms)
    PROVE  IsFiniteSet(Variables(atoms))
  <1> DEFINE n == Len(atoms)
             V == {AtomVariables(atoms[i]) : i \in 1 .. n}
             f == [i \in 1 .. n |-> AtomVariables(atoms[i])]
  <1>1. n \in Nat
    BY AtomFacts
  <1>2. ASSUME NEW i \in 1 .. n
        PROVE  IsFiniteSet(AtomVariables(atoms[i]))
    <2>1. /\ IsFiniteSet(Columns(atoms[i]))
          /\ atoms[i].terms \in [Columns(atoms[i]) -> Nat]
      BY AtomFacts
    <2>2. atoms[i].terms \in Surjection(Columns(atoms[i]), AtomVariables(atoms[i]))
      BY <2>1 DEF AtomVariables, Surjection
    <2>3. QED
      BY <2>1, <2>2, FS_Surjection
  <1>3. f \in Surjection(1 .. n, V)
    BY DEF Surjection
  <1>4. IsFiniteSet(1 .. n)
    BY <1>1, FS_Interval
  <1>5. IsFiniteSet(V)
    <2> HIDE DEF f, V, n
    <2>1. QED
      BY <1>3, <1>4, FS_Surjection
  <1>6. \A T \in V : IsFiniteSet(T)
    BY <1>2
  <1>7. Variables(atoms) = UNION V
    BY DEF Variables
  <1> HIDE DEF V
  <1>8. QED
    BY <1>5, <1>6, <1>7, FS_UNION

LEMMA FirstReadReads ==
    ASSUME NEW atoms, WellFormed(atoms), NEW v \in Variables(atoms)
    PROVE  /\ FirstRead(atoms, v) \in Pairs
           /\ FirstRead(atoms, v)[1] \in 1 .. Len(atoms)
           /\ FirstRead(atoms, v)[2] \in Columns(atoms[FirstRead(atoms, v)[1]])
           /\ atoms[FirstRead(atoms, v)[1]].terms[FirstRead(atoms, v)[2]] = v
  <1> DEFINE T == Reads(atoms, v)
  <1>1. \A p : p \in T <=> \E i \in 1 .. Len(atoms) : \E c \in Columns(atoms[i]) :
                              p = <<i, c>> /\ atoms[i].terms[c] = v
    BY DEF Reads
  <1>2. T # {}
    <2>1. \E i \in 1 .. Len(atoms) : \E c \in Columns(atoms[i]) : v = atoms[i].terms[c]
      BY AtomFacts
    <2> HIDE DEF T
    <2>2. QED
      BY <1>1, <2>1
  <1>3. T \subseteq Pairs
    BY <1>1, AtomFacts DEF Pairs
  <1>4. FirstRead(atoms, v) = CHOOSE p \in T : \A q \in T : p = q \/ Less(p, q)
    BY DEF FirstRead
  <1> HIDE DEF T
  <1>5. FirstRead(atoms, v) \in T
    BY <1>2, <1>3, <1>4, LeastPair
  <1>6. \E i \in 1 .. Len(atoms) : \E c \in Columns(atoms[i]) :
           FirstRead(atoms, v) = <<i, c>> /\ atoms[i].terms[c] = v
    BY <1>1, <1>5
  <1>7. QED
    BY <1>3, <1>5, <1>6

(* Normalized gives the variables numbers, different ones.                 *)
LEMMA NumbersDiffer ==
    ASSUME NEW atoms, WellFormed(atoms)
    PROVE  \E number :
              /\ Normalized(atoms) =
                    [i \in 1 .. Len(atoms) |->
                        [table |-> atoms[i].table,
                         terms |-> [c \in Columns(atoms[i]) |-> number[atoms[i].terms[c]]]]]
              /\ \A v, w \in Variables(atoms) : number[v] = number[w] => v = w
  <1> DEFINE V == Variables(atoms)
             first == [v \in V |-> FirstRead(atoms, v)]
             firsts == {first[v] : v \in V}
             R == {p \in firsts \X firsts : Less(p[1], p[2])}
             number == [v \in V |-> Cardinality({p \in firsts : Less(p, first[v])})]
  <1>1. Normalized(atoms) =
           [i \in 1 .. Len(atoms) |->
               [table |-> atoms[i].table,
                terms |-> [c \in Columns(atoms[i]) |-> number[atoms[i].terms[c]]]]]
    BY DEF Normalized
  <1>2. \A v, w \in V : first[v] = first[w] => v = w
    BY FirstReadReads
  <1>3. \A p, q \in firsts : <<p, q>> \in R <=> Less(p, q)
    OBVIOUS
  <1>4. firsts \subseteq Pairs
    BY FirstReadReads
  <1>5. IsFiniteSet(firsts)
    <2>1. first \in Surjection(V, firsts)
      BY DEF Surjection
    <2>2. IsFiniteSet(V)
      BY FiniteVariables
    <2> HIDE DEF V, first, firsts
    <2>3. QED
      BY <2>1, <2>2, FS_Surjection
  <1>6. StrictOrder(firsts, R)
    <2> HIDE DEF firsts, R
    <2>1. /\ \A p \in firsts : ~ Less(p, p)
          /\ \A p, q, r \in firsts : Less(p, q) /\ Less(q, r) => Less(p, r)
          /\ \A p, q \in firsts : p = q \/ Less(p, q) \/ Less(q, p)
      BY <1>4, LessOrders
    <2>2. QED
      BY <1>3, <2>1 DEF StrictOrder
  <1>7. \A v \in V : first[v] \in firsts /\ number[v] = Place(firsts, R, first[v])
    <2> SUFFICES ASSUME NEW v \in V
                 PROVE  first[v] \in firsts /\ number[v] = Place(firsts, R, first[v])
      OBVIOUS
    <2>1. first[v] \in firsts
      OBVIOUS
    <2>2. number[v] = Cardinality({p \in firsts : Less(p, first[v])})
      OBVIOUS
    <2> HIDE DEF firsts, R, first, number
    <2>3. {p \in firsts : Less(p, first[v])} = {p \in firsts : <<p, first[v]>> \in R}
      BY <1>3, <2>1
    <2>4. QED
      BY <2>1, <2>2, <2>3 DEF Place
  <1> HIDE DEF firsts, R, first, number
  <1>8. \A v, w \in V : number[v] = number[w] => v = w
    BY <1>2, <1>5, <1>6, <1>7, PlacesDiffer
  <1>9. QED
    BY <1>1, <1>8

-----------------------------------------------------------------------------
(* Atoms that differ in the names of their variables only                  *)

SameAt(a, b, i, j) ==
    /\ a[i].table = b[j].table
    /\ Columns(a[i]) = Columns(b[j])

SamePattern(a, b, i, j, k, l) ==
    \A c \in Columns(a[i]), d \in Columns(a[j]) :
       a[i].terms[c] = a[j].terms[d] <=> b[k].terms[c] = b[l].terms[d]

(* Atoms are normalized to the same when they are, one by one, of the same *)
(* table and columns, and variables are the same in the same places.       *)
LEMMA NormalizedSays ==
    ASSUME NEW a, NEW b, WellFormed(a), WellFormed(b), Normalized(a) = Normalized(b)
    PROVE  /\ Len(a) = Len(b)
           /\ \A i \in 1 .. Len(a) : SameAt(a, b, i, i)
           /\ \A i, j \in 1 .. Len(a) : SamePattern(a, b, i, j, i, j)
  <1>1. PICK f : /\ Normalized(a) =
                       [i \in 1 .. Len(a) |->
                           [table |-> a[i].table,
                            terms |-> [c \in Columns(a[i]) |-> f[a[i].terms[c]]]]]
                 /\ \A v, w \in Variables(a) : f[v] = f[w] => v = w
    BY NumbersDiffer
  <1>2. PICK g : /\ Normalized(b) =
                       [i \in 1 .. Len(b) |->
                           [table |-> b[i].table,
                            terms |-> [c \in Columns(b[i]) |-> g[b[i].terms[c]]]]]
                 /\ \A v, w \in Variables(b) : g[v] = g[w] => v = w
    BY NumbersDiffer
  <1> DEFINE N == Normalized(a)
  <1>3. Len(a) \in Nat /\ Len(b) \in Nat
    BY AtomFacts
  <1>4. Len(a) = Len(b)
    <2>1. DOMAIN N = 1 .. Len(a) /\ DOMAIN N = 1 .. Len(b)
      BY <1>1, <1>2
    <2>2. QED
      BY <1>3, <2>1
  <1>5. \A i \in 1 .. Len(a) :
           /\ N[i].table = a[i].table
           /\ N[i].terms = [c \in Columns(a[i]) |-> f[a[i].terms[c]]]
           /\ N[i].table = b[i].table
           /\ N[i].terms = [c \in Columns(b[i]) |-> g[b[i].terms[c]]]
    <2> SUFFICES ASSUME NEW i \in 1 .. Len(a)
                 PROVE  /\ N[i].table = a[i].table
                        /\ N[i].terms = [c \in Columns(a[i]) |-> f[a[i].terms[c]]]
                        /\ N[i].table = b[i].table
                        /\ N[i].terms = [c \in Columns(b[i]) |-> g[b[i].terms[c]]]
      OBVIOUS
    <2>1. N[i] = [table |-> a[i].table,
                  terms |-> [c \in Columns(a[i]) |-> f[a[i].terms[c]]]]
      BY <1>1
    <2>2. N[i] = [table |-> b[i].table,
                  terms |-> [c \in Columns(b[i]) |-> g[b[i].terms[c]]]]
      BY <1>2, <1>4
    <2> HIDE DEF N
    <2>3. QED
      BY <2>1, <2>2
  <1> HIDE DEF N
  <1>6. \A i \in 1 .. Len(a) : /\ SameAt(a, b, i, i)
                               /\ \A c \in Columns(a[i]) : f[a[i].terms[c]] = g[b[i].terms[c]]
    <2> SUFFICES ASSUME NEW i \in 1 .. Len(a)
                 PROVE  /\ SameAt(a, b, i, i)
                        /\ \A c \in Columns(a[i]) : f[a[i].terms[c]] = g[b[i].terms[c]]
      OBVIOUS
    <2>1. /\ a[i].table = b[i].table
          /\ N[i].terms = [c \in Columns(a[i]) |-> f[a[i].terms[c]]]
          /\ N[i].terms = [c \in Columns(b[i]) |-> g[b[i].terms[c]]]
      BY <1>5
    <2>2. DOMAIN N[i].terms = Columns(a[i]) /\ DOMAIN N[i].terms = Columns(b[i])
      BY <2>1
    <2>3. \A c \in Columns(a[i]) : N[i].terms[c] = f[a[i].terms[c]] /\ N[i].terms[c] = g[b[i].terms[c]]
      BY <2>1, <2>2
    <2>4. QED
      BY <2>1, <2>2, <2>3 DEF SameAt
  <1>7. ASSUME NEW i \in 1 .. Len(a), NEW j \in 1 .. Len(a)
        PROVE  SamePattern(a, b, i, j, i, j)
    <2> SUFFICES ASSUME NEW c \in Columns(a[i]), NEW d \in Columns(a[j])
                 PROVE  a[i].terms[c] = a[j].terms[d] <=> b[i].terms[c] = b[j].terms[d]
      BY DEF SamePattern
    <2>1. /\ f[a[i].terms[c]] = g[b[i].terms[c]]
          /\ f[a[j].terms[d]] = g[b[j].terms[d]]
          /\ c \in Columns(b[i]) /\ d \in Columns(b[j])
      BY <1>6 DEF SameAt
    <2>2. /\ a[i].terms[c] \in Variables(a) /\ a[j].terms[d] \in Variables(a)
          /\ b[i].terms[c] \in Variables(b) /\ b[j].terms[d] \in Variables(b)
      BY <1>4, <2>1, AtomFacts
    <2>3. QED
      BY <1>1, <1>2, <2>1, <2>2
  <1>8. QED
    BY <1>4, <1>6, <1>7

(* And the other way round.                                                *)
LEMMA SaidSoNormalized ==
    ASSUME NEW a, NEW b, WellFormed(a), WellFormed(b), Len(a) = Len(b),
           \A i \in 1 .. Len(a) : SameAt(a, b, i, i),
           \A i, j \in 1 .. Len(a) : SamePattern(a, b, i, j, i, j)
    PROVE  Normalized(a) = Normalized(b)
  <1> DEFINE V(x) == Variables(x)
             first(x) == [v \in V(x) |-> FirstRead(x, v)]
             firsts(x) == {first(x)[v] : v \in V(x)}
             number(x) == [v \in V(x) |-> Cardinality({p \in firsts(x) : Less(p, first(x)[v])})]
  <1>1. \A i \in 1 .. Len(a) : a[i].table = b[i].table /\ Columns(a[i]) = Columns(b[i])
    BY DEF SameAt
  <1>2. \A i, j \in 1 .. Len(a) : \A c \in Columns(a[i]), d \in Columns(a[j]) :
           a[i].terms[c] = a[j].terms[d] <=> b[i].terms[c] = b[j].terms[d]
    BY DEF SamePattern
  <1>3. ASSUME NEW i \in 1 .. Len(a), NEW c \in Columns(a[i])
        PROVE  FirstRead(a, a[i].terms[c]) = FirstRead(b, b[i].terms[c])
    <2>1. \A p : p \in Reads(a, a[i].terms[c]) <=>
                    \E j \in 1 .. Len(a) : \E d \in Columns(a[j]) :
                       p = <<j, d>> /\ a[j].terms[d] = a[i].terms[c]
      BY DEF Reads
    <2>2. \A p : p \in Reads(b, b[i].terms[c]) <=>
                    \E j \in 1 .. Len(a) : \E d \in Columns(a[j]) :
                       p = <<j, d>> /\ b[j].terms[d] = b[i].terms[c]
      BY <1>1 DEF Reads
    <2>3. \A p : p \in Reads(a, a[i].terms[c]) <=> p \in Reads(b, b[i].terms[c])
      <3> SUFFICES ASSUME NEW p
                   PROVE  p \in Reads(a, a[i].terms[c]) <=> p \in Reads(b, b[i].terms[c])
        OBVIOUS
      <3>1. \A j \in 1 .. Len(a) : \A d \in Columns(a[j]) :
               a[j].terms[d] = a[i].terms[c] <=> b[j].terms[d] = b[i].terms[c]
        BY <1>2
      <3>2. QED
        BY <2>1, <2>2, <3>1
    <2>4. Reads(a, a[i].terms[c]) = Reads(b, b[i].terms[c])
      BY <2>3
    <2>5. QED
      BY <2>4 DEF FirstRead
  <1>4. \A i \in 1 .. Len(a) : \A c \in Columns(a[i]) :
           /\ a[i].terms[c] \in V(a) /\ b[i].terms[c] \in V(b)
           /\ first(a)[a[i].terms[c]] = first(b)[b[i].terms[c]]
    BY <1>1, <1>3, AtomFacts
  <1>5. /\ \A v \in V(a) : \E i \in 1 .. Len(a) : \E c \in Columns(a[i]) : v = a[i].terms[c]
        /\ \A v \in V(b) : \E i \in 1 .. Len(a) : \E c \in Columns(a[i]) : v = b[i].terms[c]
    <2>1. \A v \in V(a) : \E i \in 1 .. Len(a) : \E c \in Columns(a[i]) : v = a[i].terms[c]
      BY AtomFacts
    <2>2. \A v \in V(b) : \E i \in 1 .. Len(b) : \E c \in Columns(b[i]) : v = b[i].terms[c]
      BY AtomFacts
    <2>3. QED
      BY <1>1, <2>1, <2>2
  <1>6. firsts(a) = firsts(b)
    <2>1. /\ \A p : p \in firsts(a) <=> \E v \in V(a) : p = first(a)[v]
          /\ \A p : p \in firsts(b) <=> \E v \in V(b) : p = first(b)[v]
      OBVIOUS
    <2> HIDE DEF first, V, firsts
    <2>2. \A p \in firsts(a) : p \in firsts(b)
      BY <1>4, <1>5, <2>1
    <2>3. \A p \in firsts(b) : p \in firsts(a)
      BY <1>4, <1>5, <2>1
    <2>4. QED
      BY <2>2, <2>3
  <1>7. \A i \in 1 .. Len(a) : \A c \in Columns(a[i]) :
           number(a)[a[i].terms[c]] = number(b)[b[i].terms[c]]
    <2>1. \A v \in V(a) : number(a)[v] = Cardinality({p \in firsts(a) : Less(p, first(a)[v])})
      OBVIOUS
    <2>2. \A v \in V(b) : number(b)[v] = Cardinality({p \in firsts(b) : Less(p, first(b)[v])})
      OBVIOUS
    <2> HIDE DEF first, V, firsts, number
    <2> SUFFICES ASSUME NEW i \in 1 .. Len(a), NEW c \in Columns(a[i])
                 PROVE  number(a)[a[i].terms[c]] = number(b)[b[i].terms[c]]
      OBVIOUS
    <2> DEFINE f == first(a)[a[i].terms[c]]
    <2>3. f = first(b)[b[i].terms[c]] /\ a[i].terms[c] \in V(a) /\ b[i].terms[c] \in V(b)
      BY <1>4
    <2>4. number(a)[a[i].terms[c]] = Cardinality({p \in firsts(a) : Less(p, f)})
      BY <2>1, <2>3
    <2>5. number(b)[b[i].terms[c]] = Cardinality({p \in firsts(b) : Less(p, f)})
      BY <2>2, <2>3
    <2>6. QED
      BY <1>6, <2>4, <2>5
  <1>8. Normalized(a) =
           [i \in 1 .. Len(a) |->
               [table |-> a[i].table,
                terms |-> [c \in Columns(a[i]) |-> number(a)[a[i].terms[c]]]]]
    BY DEF Normalized
  <1>9. Normalized(b) =
           [i \in 1 .. Len(b) |->
               [table |-> b[i].table,
                terms |-> [c \in Columns(b[i]) |-> number(b)[b[i].terms[c]]]]]
    BY DEF Normalized
  <1> HIDE DEF number
  <1>10. \A i \in 1 .. Len(a) :
            [c \in Columns(a[i]) |-> number(a)[a[i].terms[c]]]
               = [c \in Columns(b[i]) |-> number(b)[b[i].terms[c]]]
    BY <1>1, <1>7
  <1>11. QED
    BY <1>1, <1>8, <1>9, <1>10

(* b's atoms are a's with other variables, rearranged by p, and back by s. *)
Similar(a, b, p, s) ==
    /\ Len(a) = Len(b)
    /\ \A i \in 1 .. Len(a) : p[i] \in 1 .. Len(b) /\ s[p[i]] = i
    /\ \A i \in 1 .. Len(b) : s[i] \in 1 .. Len(a) /\ p[s[i]] = i
    /\ \A i \in 1 .. Len(a) : SameAt(a, b, i, p[i])
    /\ \A i, j \in 1 .. Len(a) : SamePattern(a, b, i, j, p[i], p[j])

LEMMA SimilarBack ==
    ASSUME NEW a, NEW b, NEW p, NEW s, Similar(a, b, p, s)
    PROVE  Similar(b, a, s, p)
  <1>1. ASSUME NEW i \in 1 .. Len(b)
        PROVE  s[i] \in 1 .. Len(a) /\ p[s[i]] = i /\ SameAt(b, a, i, s[i])
    BY DEF Similar, SameAt
  <1>2. ASSUME NEW i \in 1 .. Len(b), NEW j \in 1 .. Len(b)
        PROVE  SamePattern(b, a, i, j, s[i], s[j])
    <2>1. SamePattern(a, b, s[i], s[j], i, j)
      BY <1>1 DEF Similar
    <2>2. Columns(a[s[i]]) = Columns(b[i]) /\ Columns(a[s[j]]) = Columns(b[j])
      BY <1>1 DEF SameAt
    <2>3. QED
      BY <2>1, <2>2 DEF SamePattern
  <1>3. QED
    BY <1>1, <1>2 DEF Similar

(* Rules that are the same up to the order of body and of head atoms and   *)
(* the names of their variables.                                           *)
AlikeBy(r, q, p, s) ==
    /\ Similar(AllAtoms(r), AllAtoms(q), p, s)
    /\ Len(r.body) = Len(q.body)
    /\ \A i \in 1 .. Len(AllAtoms(r)) : i <= Len(r.body) <=> p[i] <= Len(r.body)
    /\ \A i \in 1 .. Len(AllAtoms(r)) : i <= Len(r.body) <=> s[i] <= Len(r.body)

Alike(r, q) == \E p, s : AlikeBy(r, q, p, s)

ProperRule(r) == WellFormed(r.body) /\ WellFormed(r.head)

LEMMA AlikeBack ==
    ASSUME NEW r, NEW q, NEW p, NEW s, AlikeBy(r, q, p, s)
    PROVE  AlikeBy(q, r, s, p)
  BY SimilarBack DEF AlikeBy, Similar

LEMMA PermutesBack ==
    ASSUME NEW n \in Nat, NEW o, Permutes(n, o)
    PROVE  \E u : \A i \in 1 .. n : u[i] \in 1 .. n /\ o[u[i]] = i /\ u[o[i]] = i
  <1> DEFINE u == [i \in 1 .. n |-> CHOOSE k \in 1 .. n : o[k] = i]
  <1>1. \A i \in 1 .. n : u[i] \in 1 .. n /\ o[u[i]] = i
    BY DEF Permutes
  <1>2. \A i \in 1 .. n : o[i] \in 1 .. n /\ u[o[i]] = i
    <2> HIDE DEF u
    <2>1. QED
      BY <1>1 DEF Permutes
  <1> HIDE DEF u
  <1>3. QED
    BY <1>1, <1>2

(* canonical_key sorts the body and the head, each of them.                *)
LEMMA SortedRule ==
    ASSUME NEW r, ProperRule(r)
    PROVE  LET all == Sorted(r.body) \o Sorted(r.head)
               n == Len(AllAtoms(r))
           IN /\ WellFormed(all)
              /\ Len(all) = n
              /\ n \in Nat
              /\ \E o : /\ Permutes(n, o)
                        /\ \A k \in 1 .. n : /\ all[k] = AllAtoms(r)[o[k]]
                                             /\ k <= Len(r.body) <=> o[k] <= Len(r.body)
  <1> DEFINE b == r.body
             h == r.head
             m == Len(b)
             l == Len(h)
             all == Sorted(b) \o Sorted(h)
  <1>0. WellFormed(b) /\ WellFormed(h)
    BY DEF ProperRule
  <1>1. PICK f : Permutes(m, f) /\ \A k \in 1 .. m : Sorted(b)[k] = b[f[k]]
    BY <1>0, SortedPermutes
  <1>2. PICK g : Permutes(l, g) /\ \A k \in 1 .. l : Sorted(h)[k] = h[g[k]]
    BY <1>0, SortedPermutes
  <1>3. m \in Nat /\ l \in Nat
    BY <1>0, AtomFacts
  <1>4. /\ WellFormed(Sorted(b)) /\ Len(Sorted(b)) = m
        /\ WellFormed(Sorted(h)) /\ Len(Sorted(h)) = l
    BY <1>0, SortedPermutes
  <1>5. /\ WellFormed(all)
        /\ Len(all) = m + l
        /\ \A i \in 1 .. m : all[i] = Sorted(b)[i]
        /\ \A i \in 1 .. m + l : i > m => all[i] = Sorted(h)[i - m]
    <2> DEFINE sb == Sorted(b)
               sh == Sorted(h)
    <2>1. /\ WellFormed(sb) /\ Len(sb) = m
          /\ WellFormed(sh) /\ Len(sh) = l
      BY <1>4
    <2> HIDE DEF sb, sh, m, l
    <2>2. /\ WellFormed(sb \o sh)
          /\ Len(sb \o sh) = Len(sb) + Len(sh)
          /\ \A i \in 1 .. Len(sb) : (sb \o sh)[i] = sb[i]
          /\ \A i \in 1 .. Len(sb) + Len(sh) : i > Len(sb) => (sb \o sh)[i] = sh[i - Len(sb)]
      BY <2>1, AtomsTogether
    <2>3. QED
      BY <2>1, <2>2 DEF sb, sh
  <1>6. /\ Len(AllAtoms(r)) = m + l
        /\ \A i \in 1 .. m : AllAtoms(r)[i] = b[i]
        /\ \A i \in 1 .. l : AllAtoms(r)[m + i] = h[i]
    <2>1. AllAtoms(r) = b \o h
      BY DEF AllAtoms
    <2> HIDE DEF b, h
    <2>2. /\ Len(b \o h) = Len(b) + Len(h)
          /\ \A i \in 1 .. Len(b) : (b \o h)[i] = b[i]
          /\ \A i \in 1 .. Len(h) : (b \o h)[Len(b) + i] = h[i]
      BY <1>0, AtomsTogether
    <2>3. QED
      BY <2>1, <2>2
  <1> DEFINE o == [k \in 1 .. m + l |-> IF k <= m THEN f[k] ELSE m + g[k - m]]
  <1>7. \A k \in 1 .. m : f[k] \in 1 .. m
    BY <1>1 DEF Permutes
  <1>8. \A k \in 1 .. l : g[k] \in 1 .. l
    BY <1>2 DEF Permutes
  <1>9. \A k \in 1 .. m + l : \/ k \in 1 .. m /\ o[k] = f[k] /\ f[k] \in 1 .. m
                              \/ k > m /\ k - m \in 1 .. l /\ o[k] = m + g[k - m] /\ g[k - m] \in 1 .. l
    <2> HIDE DEF m, l, o
    <2> SUFFICES ASSUME NEW k \in 1 .. m + l
                 PROVE  \/ k \in 1 .. m /\ o[k] = f[k] /\ f[k] \in 1 .. m
                        \/ k > m /\ k - m \in 1 .. l /\ o[k] = m + g[k - m] /\ g[k - m] \in 1 .. l
      OBVIOUS
    <2>1. o[k] = IF k <= m THEN f[k] ELSE m + g[k - m]
      BY DEF o
    <2>2. QED
      BY <1>3, <1>7, <1>8, <2>1
  <1> HIDE DEF b, h, m, l, all, o
  <1>10. Permutes(m + l, o)
    <2>1. \A k \in 1 .. m + l : o[k] \in 1 .. m + l
      BY <1>3, <1>9
    <2>2. o = [k \in 1 .. m + l |-> o[k]]
      BY DEF o
    <2>3. ASSUME NEW k \in 1 .. m + l, NEW j \in 1 .. m + l, o[k] = o[j]
          PROVE  k = j
      <3>1. CASE k \in 1 .. m /\ j \in 1 .. m
        BY <1>1, <1>3, <1>9, <2>3, <3>1 DEF Permutes
      <3>2. CASE k > m /\ j > m
        <4>1. /\ k - m \in 1 .. l /\ j - m \in 1 .. l
              /\ g[k - m] = g[j - m]
          <5>1. o[k] = m + g[k - m] /\ k - m \in 1 .. l /\ g[k - m] \in 1 .. l
            BY <1>3, <1>9, <3>2
          <5>2. o[j] = m + g[j - m] /\ j - m \in 1 .. l /\ g[j - m] \in 1 .. l
            BY <1>3, <1>9, <3>2
          <5>3. \A x, y \in 1 .. l : m + x = m + y => x = y
            BY <1>3
          <5>4. QED
            BY <2>3, <5>1, <5>2, <5>3
        <4>2. k - m = j - m
          BY <1>2, <4>1 DEF Permutes
        <4>3. QED
          BY <1>3, <4>2
      <3>3. CASE k \in 1 .. m /\ j > m
        BY <1>3, <1>9, <2>3, <3>3
      <3>4. CASE k > m /\ j \in 1 .. m
        BY <1>3, <1>9, <2>3, <3>4
      <3>5. QED
        BY <1>3, <3>1, <3>2, <3>3, <3>4
    <2>4. ASSUME NEW i \in 1 .. m + l
          PROVE  \E k \in 1 .. m + l : o[k] = i
      <3>1. CASE i \in 1 .. m
        <4>1. PICK k \in 1 .. m : f[k] = i
          BY <1>1, <3>1 DEF Permutes
        <4>2. k \in 1 .. m + l /\ o[k] = i
          BY <1>3, <1>9, <4>1
        <4>3. QED
          BY <4>2
      <3>2. CASE i > m
        <4>1. i - m \in 1 .. l
          BY <1>3, <3>2
        <4>2. PICK k \in 1 .. l : g[k] = i - m
          BY <1>2, <4>1 DEF Permutes
        <4>3. m + k \in 1 .. m + l /\ m + k > m /\ (m + k) - m = k
          BY <1>3
        <4>4. o[m + k] = m + g[k]
          BY <1>3, <1>9, <4>3
        <4>5. QED
          BY <1>3, <4>2, <4>3, <4>4
      <3>3. QED
        BY <1>3, <3>1, <3>2
    <2>5. QED
      BY <2>1, <2>2, <2>3, <2>4 DEF Permutes
  <1>11. ASSUME NEW k \in 1 .. m + l
         PROVE  all[k] = AllAtoms(r)[o[k]] /\ (k <= m <=> o[k] <= m)
    <2>1. CASE k \in 1 .. m
      BY <1>1, <1>3, <1>5, <1>6, <1>9, <2>1
    <2>2. CASE k > m
      <3>1. k - m \in 1 .. l /\ o[k] = m + g[k - m] /\ g[k - m] \in 1 .. l
        BY <1>3, <1>9, <2>2
      <3>2. all[k] = Sorted(h)[k - m]
        BY <1>5, <2>2
      <3>3. AllAtoms(r)[o[k]] = h[g[k - m]]
        BY <1>6, <3>1
      <3>4. o[k] > m
        BY <1>3, <3>1
      <3>5. QED
        BY <1>2, <1>3, <2>2, <3>1, <3>2, <3>3, <3>4
    <2>3. QED
      BY <1>3, <2>1, <2>2
  <1>12. \E u : /\ Permutes(Len(AllAtoms(r)), u)
                /\ \A k \in 1 .. Len(AllAtoms(r)) : /\ all[k] = AllAtoms(r)[u[k]]
                                                    /\ k <= Len(r.body) <=> u[k] <= Len(r.body)
    BY <1>6, <1>10, <1>11 DEF m, b
  <1>13. QED
    BY <1>3, <1>5, <1>6, <1>12 DEF all, b, h

(* Rules of one canonical key are alike (canonical_key).                   *)
THEOREM KeySays ==
    ASSUME NEW r, NEW q, ProperRule(r), ProperRule(q), CanonicalKey(r) = CanonicalKey(q)
    PROVE  Alike(r, q)
  <1> DEFINE A == AllAtoms(r)
             B == AllAtoms(q)
             a == Sorted(r.body) \o Sorted(r.head)
             b == Sorted(q.body) \o Sorted(q.head)
             n == Len(A)
             m == Len(r.body)
  <1>1. Len(q.body) = m /\ Normalized(a) = Normalized(b)
    BY DEF CanonicalKey
  <1>2. /\ WellFormed(a) /\ Len(a) = n /\ n \in Nat
        /\ \E o : /\ Permutes(n, o)
                  /\ \A k \in 1 .. n : a[k] = A[o[k]] /\ (k <= m <=> o[k] <= m)
    BY SortedRule
  <1>3. /\ WellFormed(b) /\ Len(b) = Len(B)
        /\ \E o : /\ Permutes(Len(B), o)
                  /\ \A k \in 1 .. Len(B) : b[k] = B[o[k]] /\ (k <= Len(q.body) <=> o[k] <= Len(q.body))
    BY SortedRule
  <1> HIDE DEF a, b, A, B, n, m
  <1>4. /\ Len(a) = Len(b)
        /\ \A i \in 1 .. n : SameAt(a, b, i, i)
        /\ \A i, j \in 1 .. n : SamePattern(a, b, i, j, i, j)
    BY <1>1, <1>2, <1>3, NormalizedSays
  <1>5. Len(B) = n
    BY <1>2, <1>3, <1>4
  <1>6. PICK f : /\ Permutes(n, f)
                 /\ \A k \in 1 .. n : a[k] = A[f[k]] /\ (k <= m <=> f[k] <= m)
    BY <1>2
  <1>7. PICK g : /\ Permutes(n, g)
                 /\ \A k \in 1 .. n : b[k] = B[g[k]] /\ (k <= m <=> g[k] <= m)
    BY <1>1, <1>3, <1>5
  <1>8. PICK u : \A i \in 1 .. n : u[i] \in 1 .. n /\ f[u[i]] = i /\ u[f[i]] = i
    BY <1>2, <1>6, PermutesBack
  <1>9. PICK v : \A i \in 1 .. n : v[i] \in 1 .. n /\ g[v[i]] = i /\ v[g[i]] = i
    BY <1>2, <1>7, PermutesBack
  <1> DEFINE p == [i \in 1 .. n |-> g[u[i]]]
             s == [i \in 1 .. n |-> f[v[i]]]
  <1>10. \A i \in 1 .. n : f[i] \in 1 .. n /\ g[i] \in 1 .. n
    BY <1>6, <1>7 DEF Permutes
  <1>11. \A i \in 1 .. n : /\ p[i] = g[u[i]] /\ p[i] \in 1 .. n
                           /\ s[i] = f[v[i]] /\ s[i] \in 1 .. n
    BY <1>8, <1>9, <1>10
  <1> HIDE DEF p, s
  <1>12. \A i \in 1 .. n : s[p[i]] = i /\ p[s[i]] = i
    BY <1>8, <1>9, <1>10, <1>11
  <1>13. \A i \in 1 .. n : (i <= m <=> p[i] <= m) /\ (i <= m <=> s[i] <= m)
    BY <1>6, <1>7, <1>8, <1>9, <1>11
  <1>14. \A i \in 1 .. n : a[u[i]] = A[i] /\ b[u[i]] = B[p[i]]
    BY <1>6, <1>7, <1>8, <1>11
  <1>15. \A i \in 1 .. n : SameAt(A, B, i, p[i])
    BY <1>4, <1>8, <1>14 DEF SameAt
  <1>16. ASSUME NEW i \in 1 .. n, NEW j \in 1 .. n
         PROVE  SamePattern(A, B, i, j, p[i], p[j])
    <2>1. SamePattern(a, b, u[i], u[j], u[i], u[j])
      BY <1>4, <1>8
    <2>2. QED
      BY <1>14, <2>1 DEF SamePattern
  <1>17. Similar(A, B, p, s)
    BY <1>5, <1>11, <1>12, <1>15, <1>16 DEF Similar, n
  <1>18. AlikeBy(r, q, p, s)
    BY <1>1, <1>13, <1>17 DEF AlikeBy, A, B, n, m
  <1>19. QED
    BY <1>18 DEF Alike

LEMMA RuleFacts ==
    ASSUME NEW r, ProperRule(r)
    PROVE  /\ WellFormed(r.body) /\ WellFormed(r.head) /\ WellFormed(AllAtoms(r))
           /\ Len(r.body) \in Nat /\ Len(r.head) \in Nat
           /\ Len(AllAtoms(r)) = Len(r.body) + Len(r.head)
           /\ \A i \in 1 .. Len(r.body) : /\ i \in 1 .. Len(AllAtoms(r))
                                          /\ AllAtoms(r)[i] = r.body[i]
           /\ \A i \in 1 .. Len(r.head) : /\ Len(r.body) + i \in 1 .. Len(AllAtoms(r))
                                          /\ AllAtoms(r)[Len(r.body) + i] = r.head[i]
           /\ \A i \in 1 .. Len(AllAtoms(r)) :
                 \/ i \in 1 .. Len(r.body) /\ AllAtoms(r)[i] = r.body[i]
                 \/ /\ i > Len(r.body)
                    /\ i - Len(r.body) \in 1 .. Len(r.head)
                    /\ AllAtoms(r)[i] = r.head[i - Len(r.body)]
           /\ Variables(AllAtoms(r)) = Variables(r.body) \cup Variables(r.head)
  <1> DEFINE b == r.body
             h == r.head
  <1>1. WellFormed(b) /\ WellFormed(h) /\ AllAtoms(r) = b \o h
    BY DEF ProperRule, AllAtoms
  <1> HIDE DEF b, h
  <1>2. Len(b) \in Nat /\ Len(h) \in Nat
    BY <1>1, AtomFacts
  <1>3. /\ WellFormed(b \o h)
        /\ Len(b \o h) = Len(b) + Len(h)
        /\ \A i \in 1 .. Len(b) : (b \o h)[i] = b[i]
        /\ \A i \in 1 .. Len(h) : (b \o h)[Len(b) + i] = h[i]
        /\ \A i \in 1 .. Len(b) + Len(h) : i > Len(b) => (b \o h)[i] = h[i - Len(b)]
        /\ Variables(b \o h) = Variables(b) \cup Variables(h)
    BY <1>1, AtomsTogether
  <1>4. /\ \A i \in 1 .. Len(b) : i \in 1 .. Len(b) + Len(h)
        /\ \A i \in 1 .. Len(h) : Len(b) + i \in 1 .. Len(b) + Len(h)
        /\ \A i \in 1 .. Len(b) + Len(h) : i \in 1 .. Len(b) \/ (i > Len(b) /\ i - Len(b) \in 1 .. Len(h))
    <2>1. \A m, l \in Nat :
             /\ \A i \in 1 .. m : i \in 1 .. m + l
             /\ \A i \in 1 .. l : m + i \in 1 .. m + l
             /\ \A i \in 1 .. m + l : i \in 1 .. m \/ (i > m /\ i - m \in 1 .. l)
      OBVIOUS
    <2>2. QED
      BY <1>2, <2>1
  <1>5. QED
    BY <1>1, <1>2, <1>3, <1>4 DEF b, h

LEMMA SimilarFacts ==
    ASSUME NEW a, NEW b, NEW p, NEW s, Similar(a, b, p, s)
    PROVE  /\ Len(a) = Len(b)
           /\ \A i \in 1 .. Len(a) : /\ p[i] \in 1 .. Len(b) /\ p[i] \in 1 .. Len(a)
                                     /\ s[p[i]] = i
                                     /\ a[i].table = b[p[i]].table
                                     /\ Columns(a[i]) = Columns(b[p[i]])
           /\ \A i, j \in 1 .. Len(a) : \A c \in Columns(a[i]), d \in Columns(a[j]) :
                 a[i].terms[c] = a[j].terms[d] <=> b[p[i]].terms[c] = b[p[j]].terms[d]
  <1>1. Len(a) = Len(b) /\ \A i \in 1 .. Len(a) : p[i] \in 1 .. Len(b) /\ s[p[i]] = i
    BY DEF Similar
  <1>2. \A i \in 1 .. Len(a) : a[i].table = b[p[i]].table /\ Columns(a[i]) = Columns(b[p[i]])
    BY DEF Similar, SameAt
  <1>3. \A i, j \in 1 .. Len(a) : SamePattern(a, b, i, j, p[i], p[j])
    BY DEF Similar
  <1>4. \A i, j \in 1 .. Len(a) : \A c \in Columns(a[i]), d \in Columns(a[j]) :
           a[i].terms[c] = a[j].terms[d] <=> b[p[i]].terms[c] = b[p[j]].terms[d]
    BY <1>3 DEF SamePattern
  <1>5. QED
    BY <1>1, <1>2, <1>4

(* Alike rules have alike bodies, and heads of as many atoms.              *)
LEMMA AlikeParts ==
    ASSUME NEW r, NEW q, NEW p, NEW s, ProperRule(r), ProperRule(q), AlikeBy(r, q, p, s)
    PROVE  /\ Similar(r.body, q.body, p, s)
           /\ Len(r.head) = Len(q.head)
  <1> DEFINE A == AllAtoms(r)
             B == AllAtoms(q)
             m == Len(r.body)
  <1>1. /\ Len(q.body) = m /\ m \in Nat
        /\ Len(A) = m + Len(r.head) /\ Len(B) = m + Len(q.head)
        /\ Len(r.head) \in Nat /\ Len(q.head) \in Nat
        /\ \A i \in 1 .. m : /\ A[i] = r.body[i] /\ i \in 1 .. Len(A)
                             /\ B[i] = q.body[i] /\ i \in 1 .. Len(B)
    BY RuleFacts DEF AlikeBy
  <1>2. /\ Len(A) = Len(B)
        /\ \A i \in 1 .. Len(A) : p[i] \in 1 .. Len(B) /\ s[p[i]] = i
        /\ \A i \in 1 .. Len(B) : s[i] \in 1 .. Len(A) /\ p[s[i]] = i
        /\ \A i \in 1 .. Len(A) : SameAt(A, B, i, p[i])
        /\ \A i, j \in 1 .. Len(A) : SamePattern(A, B, i, j, p[i], p[j])
    BY DEF AlikeBy, Similar
  <1>3. \A i \in 1 .. Len(A) : (i <= m <=> p[i] <= m) /\ (i <= m <=> s[i] <= m)
    BY DEF AlikeBy
  <1> HIDE DEF A, B, m
  <1>4. Len(r.head) = Len(q.head)
    <2>1. m + Len(r.head) = m + Len(q.head)
      BY <1>1, <1>2
    <2>2. \A x, y, z \in Nat : x + y = x + z => y = z
      OBVIOUS
    <2>3. QED
      BY <1>1, <2>1, <2>2
  <1>5. \A i \in 1 .. m : p[i] \in 1 .. m /\ s[p[i]] = i /\ s[i] \in 1 .. m /\ p[s[i]] = i
    <2> SUFFICES ASSUME NEW i \in 1 .. m
                 PROVE  p[i] \in 1 .. m /\ s[p[i]] = i /\ s[i] \in 1 .. m /\ p[s[i]] = i
      OBVIOUS
    <2>1. i \in 1 .. Len(A) /\ i \in 1 .. Len(B) /\ i <= m
      BY <1>1
    <2>2. /\ p[i] \in Nat /\ p[i] >= 1 /\ s[p[i]] = i
          /\ s[i] \in Nat /\ s[i] >= 1 /\ p[s[i]] = i
      BY <1>1, <1>2, <2>1
    <2>3. p[i] <= m /\ s[i] <= m
      BY <1>3, <2>1
    <2>4. QED
      BY <1>1, <2>2, <2>3
  <1>6. \A i \in 1 .. m : SameAt(r.body, q.body, i, p[i])
    BY <1>1, <1>2, <1>5 DEF SameAt
  <1>7. ASSUME NEW i \in 1 .. m, NEW j \in 1 .. m
        PROVE  SamePattern(r.body, q.body, i, j, p[i], p[j])
    <2>1. SamePattern(A, B, i, j, p[i], p[j])
      BY <1>1, <1>2
    <2>2. A[i] = r.body[i] /\ A[j] = r.body[j] /\ B[p[i]] = q.body[p[i]] /\ B[p[j]] = q.body[p[j]]
      BY <1>1, <1>5
    <2>3. QED
      BY <2>1, <2>2 DEF SamePattern
  <1>8. Similar(r.body, q.body, p, s)
    BY <1>1, <1>5, <1>6, <1>7 DEF Similar, m
  <1>9. QED
    BY <1>4, <1>8

(* What a variable of a is called in b.                                    *)
LEMMA Renamed ==
    ASSUME NEW a, NEW b, NEW p, NEW s, WellFormed(a), WellFormed(b), Similar(a, b, p, s)
    PROVE  \E ren \in Bijection(Variables(a), Variables(b)) :
              \A i \in 1 .. Len(a) : \A c \in Columns(a[i]) : ren[a[i].terms[c]] = b[p[i]].terms[c]
  <1> DEFINE V == Variables(a)
             W == Variables(b)
             Named(v, w) == \E i \in 1 .. Len(a) : \E c \in Columns(a[i]) :
                               v = a[i].terms[c] /\ w = b[p[i]].terms[c]
             ren == [v \in V |-> CHOOSE w : Named(v, w)]
  <1>1. \A i, j \in 1 .. Len(a) : \A c \in Columns(a[i]), d \in Columns(a[j]) :
           a[i].terms[c] = a[j].terms[d] <=> b[p[i]].terms[c] = b[p[j]].terms[d]
    BY SimilarFacts
  <1>2. /\ \A v \in V : \E i \in 1 .. Len(a) : \E c \in Columns(a[i]) : v = a[i].terms[c]
        /\ \A w \in W : \E i \in 1 .. Len(b) : \E c \in Columns(b[i]) : w = b[i].terms[c]
    BY AtomFacts
  <1>3. \A v \in V : Named(v, ren[v])
    <2>1. \A v \in V : \E w : Named(v, w)
      BY <1>2
    <2>2. \A v \in V : ren[v] = CHOOSE w : Named(v, w)
      OBVIOUS
    <2> HIDE DEF Named, ren
    <2>3. QED
      BY <2>1, <2>2
  <1> HIDE DEF ren
  <1>4. ASSUME NEW i \in 1 .. Len(a), NEW c \in Columns(a[i])
        PROVE  ren[a[i].terms[c]] = b[p[i]].terms[c]
    <2>1. a[i].terms[c] \in V
      BY AtomFacts
    <2>2. \E j \in 1 .. Len(a) : \E d \in Columns(a[j]) :
             a[i].terms[c] = a[j].terms[d] /\ ren[a[i].terms[c]] = b[p[j]].terms[d]
      BY <1>3, <2>1
    <2>3. QED
      BY <1>1, <2>2
  <1>5. ren \in [V -> W]
    <2>1. \A i \in 1 .. Len(a) : \A c \in Columns(a[i]) : b[p[i]].terms[c] \in W
      BY AtomFacts, SimilarFacts
    <2>2. \A v \in V : ren[v] \in W
      BY <1>3, <2>1
    <2>3. ren = [v \in V |-> ren[v]]
      BY DEF ren
    <2> HIDE DEF V, W
    <2>4. QED
      BY <2>2, <2>3
  <1>6. \A v, w \in V : ren[v] = ren[w] => v = w
    BY <1>1, <1>2, <1>4
  <1>7. ASSUME NEW w \in W PROVE \E v \in V : ren[v] = w
    <2>1. PICK k \in 1 .. Len(b) : \E c \in Columns(b[k]) : w = b[k].terms[c]
      BY <1>2
    <2>2. PICK c \in Columns(b[k]) : w = b[k].terms[c]
      BY <2>1
    <2>3. s[k] \in 1 .. Len(a) /\ p[s[k]] = k
      BY DEF Similar
    <2>4. c \in Columns(a[s[k]])
      BY <2>3, SimilarFacts
    <2>5. ren[a[s[k]].terms[c]] = w /\ a[s[k]].terms[c] \in V
      BY <1>4, <2>2, <2>3, <2>4, AtomFacts
    <2>6. QED
      BY <2>5
  <1> HIDE DEF V, W
  <1>8. ren \in Bijection(V, W)
    BY <1>5, <1>6, <1>7, Fun_IsBij
  <1>9. QED
    BY <1>4, <1>8 DEF V, W

-----------------------------------------------------------------------------
(* Alike rules pass the same tests                                         *)

LEMMA SimilarInvalid ==
    ASSUME NEW a, NEW b, NEW p, NEW s, Similar(a, b, p, s), Invalid(a)
    PROVE  Invalid(b)
  <1>1. PICK i \in 1 .. Len(a) : \/ a[i].table \notin DOMAIN Schema
                                 \/ ~ Columns(a[i]) \subseteq Schema[a[i].table]
    BY DEF Invalid
  <1>2. p[i] \in 1 .. Len(b) /\ a[i].table = b[p[i]].table /\ Columns(a[i]) = Columns(b[p[i]])
    BY SimilarFacts
  <1>3. QED
    BY <1>1, <1>2 DEF Invalid

(* Two atoms of one table, in either order.                                *)
LEMMA TwoOfTable ==
    ASSUME NEW a, NEW n \in Nat, Len(a) = n, NEW i \in 1 .. n, NEW j \in 1 .. n, i # j,
           a[i].table = a[j].table
    PROVE  <<i, j>> \in SameTable(a) \/ <<j, i>> \in SameTable(a)
  BY DEF SameTable

LEMMA TableFacts ==
    ASSUME NEW a, NEW n \in Nat, Len(a) = n, NEW e \in SameTable(a)
    PROVE  /\ e[1] \in 1 .. n /\ e[2] \in 1 .. n /\ e[1] # e[2] /\ e = <<e[1], e[2]>>
           /\ a[e[1]].table = a[e[2]].table
  BY DEF SameTable

LEMMA SimilarTables ==
    ASSUME NEW a, NEW b, NEW p, NEW s, WellFormed(a), WellFormed(b), Similar(a, b, p, s),
           NEW e \in SameTable(a)
    PROVE  /\ a[e[1]].table = b[p[e[1]]].table
           /\ \/ <<p[e[1]], p[e[2]]>> \in SameTable(b)
              \/ <<p[e[2]], p[e[1]]>> \in SameTable(b)
  <1>1. Len(a) \in Nat /\ Len(b) \in Nat /\ Len(a) = Len(b)
    BY AtomFacts, SimilarFacts
  <1>2. /\ e[1] \in 1 .. Len(a) /\ e[2] \in 1 .. Len(a) /\ e[1] # e[2]
        /\ a[e[1]].table = a[e[2]].table
    BY <1>1, TableFacts
  <1>3. /\ p[e[1]] \in 1 .. Len(b) /\ p[e[2]] \in 1 .. Len(b) /\ p[e[1]] # p[e[2]]
        /\ a[e[1]].table = b[p[e[1]]].table /\ a[e[2]].table = b[p[e[2]]].table
    <2>1. \A i \in 1 .. Len(a) : p[i] \in 1 .. Len(b) /\ s[p[i]] = i /\ a[i].table = b[p[i]].table
      BY SimilarFacts
    <2>2. QED
      BY <1>2, <2>1
  <1>4. QED
    BY <1>1, <1>2, <1>3, TwoOfTable

LEMMA SimilarNoKey ==
    ASSUME NEW a, NEW b, NEW p, NEW s, WellFormed(a), WellFormed(b), Similar(a, b, p, s), NoKey(a)
    PROVE  NoKey(b)
  <1>1. PICK e \in SameTable(a) : PrimaryKey[a[e[1]].table] = {}
    BY DEF NoKey
  <1>2. Len(b) \in Nat
    BY AtomFacts
  <1>3. \E f \in SameTable(b) : b[f[1]].table = a[e[1]].table
    <2> DEFINE k == p[e[1]]
               l == p[e[2]]
    <2>0. a[e[1]].table = b[k].table /\ (<<k, l>> \in SameTable(b) \/ <<l, k>> \in SameTable(b))
      BY SimilarTables
    <2> HIDE DEF k, l
    <2>1. CASE <<k, l>> \in SameTable(b)
      BY <2>0, <2>1
    <2>2. CASE <<l, k>> \in SameTable(b)
      <3>1. b[<<l, k>>[1]].table = b[<<l, k>>[2]].table
        BY <1>2, <2>2, TableFacts
      <3>2. QED
        BY <2>0, <2>2, <3>1
    <2>3. QED
      BY <2>0, <2>1, <2>2
  <1>4. QED
    BY <1>1, <1>3 DEF NoKey

LEMMA AlikeExistential ==
    ASSUME NEW r, NEW q, NEW p, NEW s, ProperRule(r), ProperRule(q), AlikeBy(r, q, p, s),
           Existential(r) = {}
    PROVE  Existential(q) = {}
  <1> DEFINE A == AllAtoms(r)
             B == AllAtoms(q)
             m == Len(r.body)
  <1> SUFFICES ASSUME NEW w \in Variables(q.head)
               PROVE  w \in Variables(q.body)
    BY DEF Existential
  <1>1. PICK k \in 1 .. Len(q.head) : \E c \in Columns(q.head[k]) : w = q.head[k].terms[c]
    BY AtomFacts DEF ProperRule
  <1>2. PICK c \in Columns(q.head[k]) : w = q.head[k].terms[c]
    BY <1>1
  <1>3. m = Len(q.body) /\ m \in Nat
    BY RuleFacts DEF AlikeBy
  <1> DEFINE j == m + k
             i == s[j]
  <1>4. j \in 1 .. Len(B) /\ B[j] = q.head[k] /\ j > m
    <2>1. \A x \in 1 .. Len(q.head) : Len(q.body) + x \in 1 .. Len(B) /\ B[Len(q.body) + x] = q.head[x]
      BY RuleFacts
    <2>2. Len(q.head) \in Nat /\ k > 0
      BY RuleFacts
    <2> HIDE DEF m, B
    <2>3. QED
      BY <1>3, <2>1, <2>2
  <1>5. i \in 1 .. Len(A) /\ p[i] = j /\ Columns(A[i]) = Columns(B[j])
    <2>1. \A x \in 1 .. Len(B) : s[x] \in 1 .. Len(A) /\ p[s[x]] = x
      BY DEF AlikeBy, Similar
    <2>2. \A x \in 1 .. Len(A) : Columns(A[x]) = Columns(B[p[x]])
      BY SimilarFacts DEF AlikeBy
    <2> HIDE DEF A, B, j
    <2>3. QED
      BY <1>4, <2>1, <2>2
  <1>6. ~ (i <= m)
    BY <1>3, <1>4, <1>5 DEF AlikeBy
  <1>7. i - m \in 1 .. Len(r.head) /\ A[i] = r.head[i - m]
    <2>1. \A x \in 1 .. Len(A) : \/ x \in 1 .. m /\ A[x] = r.body[x]
                                 \/ /\ x > m
                                    /\ x - m \in 1 .. Len(r.head)
                                    /\ A[x] = r.head[x - m]
      BY RuleFacts
    <2> HIDE DEF A, m, i
    <2>2. QED
      BY <1>3, <1>5, <1>6, <2>1
  <1>8. c \in Columns(A[i])
    BY <1>2, <1>4, <1>5
  <1> HIDE DEF i, j
  <1>9. A[i].terms[c] \in Variables(r.head)
    <2>1. WellFormed(r.head) /\ c \in Columns(r.head[i - m])
      BY <1>7, <1>8, RuleFacts
    <2>2. QED
      BY <1>7, <2>1, AtomFacts
  <1>10. A[i].terms[c] \in Variables(r.body)
    BY <1>9 DEF Existential
  <1>11. PICK l \in 1 .. m : \E d \in Columns(r.body[l]) : A[i].terms[c] = r.body[l].terms[d]
    <2>1. WellFormed(r.body)
      BY DEF ProperRule
    <2>2. \A v \in Variables(r.body) : \E x \in 1 .. Len(r.body) : \E d \in Columns(r.body[x]) :
             v = r.body[x].terms[d]
      BY <2>1, AtomFacts
    <2>3. QED
      BY <1>10, <2>2
  <1>12. PICK d \in Columns(r.body[l]) : A[i].terms[c] = r.body[l].terms[d]
    BY <1>11
  <1>13. l \in 1 .. Len(A) /\ A[l] = r.body[l]
    BY RuleFacts
  <1>14. B[p[l]].terms[d] = B[j].terms[c]
    <2>1. \A x, y \in 1 .. Len(A) : \A z \in Columns(A[x]), u \in Columns(A[y]) :
             A[x].terms[z] = A[y].terms[u] <=> B[p[x]].terms[z] = B[p[y]].terms[u]
      BY SimilarFacts DEF AlikeBy
    <2> HIDE DEF A, B
    <2>2. QED
      BY <1>5, <1>8, <1>12, <1>13, <2>1
  <1>15. p[l] \in 1 .. m /\ Columns(r.body[l]) = Columns(q.body[p[l]]) /\ B[p[l]] = q.body[p[l]]
    <2>1. p[l] \in 1 .. m /\ Columns(r.body[l]) = Columns(q.body[p[l]])
      BY <1>3, AlikeParts, SimilarFacts
    <2>2. \A x \in 1 .. Len(q.body) : B[x] = q.body[x]
      BY RuleFacts
    <2>3. QED
      BY <1>3, <2>1, <2>2
  <1>16. w = q.body[p[l]].terms[d] /\ d \in Columns(q.body[p[l]])
    BY <1>2, <1>4, <1>14, <1>15
  <1>17. QED
    BY <1>3, <1>15, <1>16, AtomFacts DEF ProperRule

LEMMA AlikeHorn ==
    ASSUME NEW r, NEW q, ProperRule(r), ProperRule(q), Alike(r, q)
    PROVE  /\ Existential(r) = {} <=> Existential(q) = {}
           /\ Horn(r) <=> Horn(q)
  <1>1. PICK p, s : AlikeBy(r, q, p, s)
    BY DEF Alike
  <1>2. AlikeBy(q, r, s, p)
    BY <1>1, AlikeBack
  <1>3. Existential(r) = {} <=> Existential(q) = {}
    BY <1>1, <1>2, AlikeExistential
  <1>4. Len(r.head) = Len(q.head)
    BY <1>1, AlikeParts
  <1>5. QED
    BY <1>3, <1>4 DEF Horn

LEMMA AlikeInBounds ==
    ASSUME NEW r, NEW q, NEW p, NEW s, ProperRule(r), ProperRule(q), AlikeBy(r, q, p, s),
           InBounds(r)
    PROVE  InBounds(q)
  <1> DEFINE A == AllAtoms(r)
             B == AllAtoms(q)
  <1>1. Similar(A, B, p, s) /\ Similar(B, A, s, p) /\ WellFormed(A) /\ WellFormed(B)
    BY SimilarBack, RuleFacts DEF AlikeBy
  <1> HIDE DEF A, B
  <1>2. Len(A) = Len(B)
    BY <1>1, SimilarFacts
  <1>3. {A[i].table : i \in 1 .. Len(A)} = {B[i].table : i \in 1 .. Len(B)}
    <2>1. \A i \in 1 .. Len(A) : p[i] \in 1 .. Len(B) /\ A[i].table = B[p[i]].table
      BY <1>1, SimilarFacts
    <2>2. \A i \in 1 .. Len(B) : s[i] \in 1 .. Len(A) /\ B[i].table = A[s[i]].table
      BY <1>1, SimilarFacts
    <2>3. QED
      BY <2>1, <2>2
  <1>4. Cardinality(Variables(B)) = Cardinality(Variables(A))
    <2>1. ExistsBijection(Variables(A), Variables(B))
      BY <1>1, Renamed DEF ExistsBijection
    <2>2. IsFiniteSet(Variables(A))
      BY <1>1, FiniteVariables
    <2>3. QED
      BY <2>1, <2>2, FS_Bijection
  <1>5. QED
    BY <1>2, <1>3, <1>4 DEF InBounds, A, B

LEMMA AlikeConnected ==
    ASSUME NEW r, NEW q, NEW p, NEW s, ProperRule(r), ProperRule(q), AlikeBy(r, q, p, s),
           Connected(r)
    PROVE  Connected(q)
  <1> DEFINE A == AllAtoms(r)
             B == AllAtoms(q)
             all == 1 .. Len(B)
  <1>1. Similar(A, B, p, s) /\ Similar(B, A, s, p) /\ WellFormed(A) /\ WellFormed(B)
    BY SimilarBack, RuleFacts DEF AlikeBy
  <1>2. \A S \in (SUBSET (1 .. Len(A))) \ {{}, 1 .. Len(A)} :
           \E i \in S, j \in (1 .. Len(A)) \ S : AtomVariables(A[i]) \cap AtomVariables(A[j]) # {}
    BY DEF Connected
  <1> DEFINE Joined(S) == \E i \in S, j \in all \ S : AtomVariables(B[i]) \cap AtomVariables(B[j]) # {}
  <1>a. (\A S \in (SUBSET all) \ {{}, all} : Joined(S)) => Connected(q)
    BY DEF Connected
  <1> HIDE DEF Joined
  <1>3. SUFFICES ASSUME NEW S \in (SUBSET all) \ {{}, all}
                 PROVE  \E i \in S, j \in all \ S : AtomVariables(B[i]) \cap AtomVariables(B[j]) # {}
    BY <1>a DEF Joined
  <1> HIDE DEF A, B
  <1>4. Len(A) = Len(B) /\ \A i \in all : /\ p[i] \in all /\ s[i] \in all
                                          /\ s[p[i]] = i /\ p[s[i]] = i
                                          /\ Columns(A[i]) = Columns(B[p[i]])
    BY <1>1, SimilarFacts
  <1> DEFINE T == {i \in all : p[i] \in S}
  <1>5. T \in (SUBSET all) \ {{}, all}
    <2> HIDE DEF all
    <2>1. PICK k \in S : k \in all
      BY <1>3
    <2>2. s[k] \in T
      BY <1>4, <2>1
    <2>3. PICK l \in all : l \notin S
      BY <1>3
    <2>4. s[l] \in all /\ s[l] \notin T
      BY <1>4, <2>3
    <2>5. QED
      BY <2>2, <2>4
  <1>6. PICK i \in T, j \in all \ T : AtomVariables(A[i]) \cap AtomVariables(A[j]) # {}
    <2>1. all = 1 .. Len(A)
      BY <1>4
    <2> HIDE DEF T, all
    <2>2. QED
      BY <1>2, <1>5, <2>1
  <1>7. PICK v : v \in AtomVariables(A[i]) /\ v \in AtomVariables(A[j])
    BY <1>6
  <1>8. PICK c \in Columns(A[i]) : v = A[i].terms[c]
    BY <1>7 DEF AtomVariables
  <1>9. PICK d \in Columns(A[j]) : v = A[j].terms[d]
    BY <1>7 DEF AtomVariables
  <1>10. i \in all /\ p[i] \in S /\ j \in all /\ p[j] \in all \ S
    BY <1>4
  <1>11. B[p[i]].terms[c] = B[p[j]].terms[d]
    <2>1. \A x, y \in 1 .. Len(A) : \A z \in Columns(A[x]), u \in Columns(A[y]) :
             A[x].terms[z] = A[y].terms[u] <=> B[p[x]].terms[z] = B[p[y]].terms[u]
      BY <1>1, SimilarFacts
    <2>2. A[i].terms[c] = A[j].terms[d]
      BY <1>8, <1>9
    <2>3. i \in 1 .. Len(A) /\ j \in 1 .. Len(A)
      BY <1>4, <1>10
    <2> HIDE DEF T, all
    <2>4. QED
      BY <1>8, <1>9, <2>1, <2>2, <2>3
  <1>12. c \in Columns(B[p[i]]) /\ d \in Columns(B[p[j]])
    BY <1>4, <1>10
  <1>13. B[p[i]].terms[c] \in AtomVariables(B[p[i]]) /\ B[p[j]].terms[d] \in AtomVariables(B[p[j]])
    BY <1>12 DEF AtomVariables
  <1>14. AtomVariables(B[p[i]]) \cap AtomVariables(B[p[j]]) # {}
    BY <1>11, <1>13
  <1>15. QED
    BY <1>10, <1>14

LEMMA AlikeFkJoinable ==
    ASSUME NEW r, NEW q, NEW p, NEW s, ProperRule(r), ProperRule(q), AlikeBy(r, q, p, s),
           FkJoinable(r)
    PROVE  FkJoinable(q)
  <1> DEFINE A == AllAtoms(r)
             B == AllAtoms(q)
             Fk(l, t) == <<l, t>> \in ForeignKeys \/ <<t, l>> \in ForeignKeys
  <1>1. Similar(A, B, p, s) /\ Similar(B, A, s, p) /\ WellFormed(A) /\ WellFormed(B)
    BY SimilarBack, RuleFacts DEF AlikeBy
  <1>2. \A i, j \in 1 .. Len(A) : i < j =>
           \A c \in Columns(A[i]), d \in Columns(A[j]) :
              A[i].terms[c] = A[j].terms[d] => Fk(<<A[i].table, c>>, <<A[j].table, d>>)
    BY DEF FkJoinable
  <1>3. SUFFICES ASSUME NEW i \in 1 .. Len(B), NEW j \in 1 .. Len(B), i < j,
                        NEW c \in Columns(B[i]), NEW d \in Columns(B[j]),
                        B[i].terms[c] = B[j].terms[d]
                 PROVE  Fk(<<B[i].table, c>>, <<B[j].table, d>>)
    BY DEF FkJoinable
  <1>4. \A l, t : Fk(l, t) <=> Fk(t, l)
    OBVIOUS
  <1> HIDE DEF A, B, Fk
  <1>5. Len(A) \in Nat /\ Len(A) = Len(B)
    BY <1>1, AtomFacts, SimilarFacts
  <1>6. /\ s[i] \in 1 .. Len(A) /\ s[j] \in 1 .. Len(A) /\ s[i] # s[j]
        /\ A[s[i]].table = B[i].table /\ A[s[j]].table = B[j].table
        /\ c \in Columns(A[s[i]]) /\ d \in Columns(A[s[j]])
    <2>1. \A x \in 1 .. Len(B) : /\ s[x] \in 1 .. Len(A) /\ p[s[x]] = x
                                 /\ B[x].table = A[s[x]].table /\ Columns(B[x]) = Columns(A[s[x]])
      BY <1>1, SimilarFacts
    <2>2. i # j
      BY <1>3, <1>5
    <2>3. QED
      BY <2>1, <2>2
  <1>7. A[s[i]].terms[c] = A[s[j]].terms[d]
    BY <1>1, <1>3, SimilarFacts
  <1>8. s[i] < s[j] \/ s[j] < s[i]
    BY <1>5, <1>6
  <1>9. QED
    BY <1>2, <1>4, <1>6, <1>7, <1>8

LEMMA AlikeStructural ==
    ASSUME NEW r, NEW q, ProperRule(r), ProperRule(q), Alike(r, q)
    PROVE  Structural(r) <=> Structural(q)
  <1>1. PICK p, s : AlikeBy(r, q, p, s)
    BY DEF Alike
  <1>2. AlikeBy(q, r, s, p)
    BY <1>1, AlikeBack
  <1>3. /\ InBounds(r) <=> InBounds(q)
        /\ Connected(r) <=> Connected(q)
        /\ FkJoinable(r) <=> FkJoinable(q)
    BY <1>1, <1>2, AlikeInBounds, AlikeConnected, AlikeFkJoinable
  <1>4. QED
    BY <1>3 DEF Structural

(* Where a head atom of an alike rule comes from.                          *)
LEMMA AlikeHeads ==
    ASSUME NEW r, NEW q, NEW p, NEW s, ProperRule(r), ProperRule(q), AlikeBy(r, q, p, s),
           NEW h \in 1 .. Len(q.head)
    PROVE  LET m == Len(r.body)
               i == s[m + h]
           IN /\ Len(q.body) = m /\ m \in Nat
              /\ m + h \in 1 .. Len(AllAtoms(q)) /\ AllAtoms(q)[m + h] = q.head[h]
              /\ i \in 1 .. Len(AllAtoms(r)) /\ p[i] = m + h
              /\ i - m \in 1 .. Len(r.head) /\ AllAtoms(r)[i] = r.head[i - m]
  <1> DEFINE A == AllAtoms(r)
             B == AllAtoms(q)
             m == Len(r.body)
             j == m + h
             i == s[j]
  <1>1. m = Len(q.body) /\ m \in Nat
    BY RuleFacts DEF AlikeBy
  <1>2. j \in 1 .. Len(B) /\ B[j] = q.head[h] /\ j > m
    <2>1. \A x \in 1 .. Len(q.head) : Len(q.body) + x \in 1 .. Len(B) /\ B[Len(q.body) + x] = q.head[x]
      BY RuleFacts
    <2>2. Len(q.head) \in Nat /\ h > 0
      BY RuleFacts
    <2> HIDE DEF m, B
    <2>3. QED
      BY <1>1, <2>1, <2>2
  <1>3. i \in 1 .. Len(A) /\ p[i] = j
    <2>1. \A x \in 1 .. Len(B) : s[x] \in 1 .. Len(A) /\ p[s[x]] = x
      BY DEF AlikeBy, Similar
    <2> HIDE DEF A, B, j
    <2>2. QED
      BY <1>2, <2>1
  <1>4. ~ (i <= m)
    <2>1. \A x \in 1 .. Len(A) : x <= m <=> p[x] <= m
      BY DEF AlikeBy
    <2> HIDE DEF A, B, j, i, m
    <2>2. QED
      BY <1>1, <1>2, <1>3, <2>1
  <1>5. i - m \in 1 .. Len(r.head) /\ A[i] = r.head[i - m]
    <2>1. \A x \in 1 .. Len(A) : \/ x \in 1 .. m /\ A[x] = r.body[x]
                                 \/ /\ x > m
                                    /\ x - m \in 1 .. Len(r.head)
                                    /\ A[x] = r.head[x - m]
      BY RuleFacts
    <2> HIDE DEF A, m, i
    <2>2. QED
      BY <1>1, <1>3, <1>4, <2>1
  <1>6. QED
    BY <1>1, <1>2, <1>3, <1>5

LEMMA AlikeHeadEntailed ==
    ASSUME NEW r, NEW q, NEW p, NEW s, ProperRule(r), ProperRule(q), AlikeBy(r, q, p, s),
           HeadEntailed(r)
    PROVE  HeadEntailed(q)
  <1> DEFINE A == AllAtoms(r)
             B == AllAtoms(q)
             m == Len(r.body)
  <1> SUFFICES ASSUME NEW h \in 1 .. Len(q.head)
               PROVE  \E k \in 1 .. Len(q.body) :
                         q.head[h].table = q.body[k].table /\ q.head[h].terms = q.body[k].terms
    BY DEF HeadEntailed
  <1> DEFINE j == m + h
             i == s[j]
  <1>1. /\ Len(q.body) = m /\ m \in Nat
        /\ j \in 1 .. Len(B) /\ B[j] = q.head[h]
        /\ i \in 1 .. Len(A) /\ p[i] = j
        /\ i - m \in 1 .. Len(r.head) /\ A[i] = r.head[i - m]
    BY AlikeHeads
  <1>2. PICK l \in 1 .. m : A[i].table = r.body[l].table /\ A[i].terms = r.body[l].terms
    <2>1. \A x \in 1 .. Len(r.head) : \E l \in 1 .. m :
             r.head[x].table = r.body[l].table /\ r.head[x].terms = r.body[l].terms
      BY DEF HeadEntailed
    <2> HIDE DEF m, A, i
    <2>2. QED
      BY <1>1, <2>1
  <1>3. l \in 1 .. Len(A) /\ A[l] = r.body[l]
    BY RuleFacts
  <1>4. p[l] \in 1 .. m /\ p[l] \in 1 .. Len(B) /\ B[p[l]] = q.body[p[l]]
    <2>1. p[l] \in 1 .. m
      BY <1>1, AlikeParts, SimilarFacts
    <2>2. \A x \in 1 .. Len(q.body) : x \in 1 .. Len(B) /\ B[x] = q.body[x]
      BY RuleFacts
    <2> HIDE DEF m, B
    <2>3. QED
      BY <1>1, <2>1, <2>2
  <1>5. /\ \A x \in 1 .. Len(A) : A[x].table = B[p[x]].table /\ Columns(A[x]) = Columns(B[p[x]])
        /\ \A x, y \in 1 .. Len(A) : \A z \in Columns(A[x]), u \in Columns(A[y]) :
              A[x].terms[z] = A[y].terms[u] <=> B[p[x]].terms[z] = B[p[y]].terms[u]
    BY SimilarFacts DEF AlikeBy
  <1>6. \A x \in 1 .. Len(B) : B[x].terms \in [Columns(B[x]) -> Nat]
    BY RuleFacts, AtomFacts
  <1> HIDE DEF A, B, m, i, j
  <1>7. A[l].terms = A[i].terms /\ Columns(A[l]) = Columns(A[i])
    BY <1>2, <1>3 DEF Columns
  <1>8. Columns(B[p[l]]) = Columns(B[j]) /\ \A c \in Columns(B[j]) : B[p[l]].terms[c] = B[j].terms[c]
    <2>1. Columns(B[p[l]]) = Columns(A[l]) /\ Columns(B[j]) = Columns(A[i])
      BY <1>1, <1>3, <1>5
    <2>2. \A c \in Columns(A[i]) : A[l].terms[c] = A[i].terms[c] => B[p[l]].terms[c] = B[p[i]].terms[c]
      <3> SUFFICES ASSUME NEW c \in Columns(A[i])
                   PROVE  A[l].terms[c] = A[i].terms[c] => B[p[l]].terms[c] = B[p[i]].terms[c]
        OBVIOUS
      <3>1. c \in Columns(A[l]) /\ c \in Columns(A[i]) /\ l \in 1 .. Len(A) /\ i \in 1 .. Len(A)
        BY <1>1, <1>3, <1>7
      <3>2. QED
        BY <1>5, <3>1
    <2>3. QED
      BY <1>1, <1>7, <2>1, <2>2
  <1>9. B[p[l]].terms = B[j].terms
    <2>1. B[p[l]].terms \in [Columns(B[j]) -> Nat] /\ B[j].terms \in [Columns(B[j]) -> Nat]
      BY <1>1, <1>4, <1>6, <1>8
    <2> DEFINE f == B[p[l]].terms
               g == B[j].terms
               C == Columns(B[j])
    <2>2. f \in [C -> Nat] /\ g \in [C -> Nat] /\ \A c \in C : f[c] = g[c]
      BY <1>8, <2>1
    <2> HIDE DEF f, g, C
    <2>3. f = g
      BY <2>2
    <2>4. QED
      BY <2>3 DEF f, g
  <1>10. B[p[l]].table = B[j].table
    BY <1>1, <1>2, <1>3, <1>5
  <1>11. QED
    BY <1>1, <1>4, <1>9, <1>10

LEMMA AlikeForcedSameTuple ==
    ASSUME NEW r, NEW q, NEW p, NEW s, ProperRule(r), ProperRule(q), AlikeBy(r, q, p, s),
           ForcedSameTuple(r)
    PROVE  ForcedSameTuple(q)
  <1> DEFINE A == AllAtoms(r)
             B == AllAtoms(q)
             Forced(a, e) == /\ PrimaryKey[a[e[1]].table] # {}
                             /\ \A k \in PrimaryKey[a[e[1]].table] :
                                   /\ k \in Columns(a[e[1]]) \cap Columns(a[e[2]])
                                   /\ a[e[1]].terms[k] = a[e[2]].terms[k]
  <1>1. PICK e \in SameTable(A) : Forced(A, e)
    BY DEF ForcedSameTuple
  <1>2. (\E e1 \in SameTable(B) : Forced(B, e1)) => ForcedSameTuple(q)
    BY DEF ForcedSameTuple
  <1>3. Similar(A, B, p, s) /\ WellFormed(A) /\ WellFormed(B)
    BY RuleFacts DEF AlikeBy
  <1> HIDE DEF A, B
  <1>4. /\ Len(A) \in Nat
        /\ \A x \in 1 .. Len(A) : A[x].table = B[p[x]].table /\ Columns(A[x]) = Columns(B[p[x]])
        /\ \A x, y \in 1 .. Len(A) : \A z \in Columns(A[x]), u \in Columns(A[y]) :
              A[x].terms[z] = A[y].terms[u] <=> B[p[x]].terms[z] = B[p[y]].terms[u]
    <2>1. Len(A) \in Nat
      BY <1>3, AtomFacts
    <2>2. QED
      BY <1>3, <2>1, SimilarFacts
  <1>5. /\ e[1] \in 1 .. Len(A) /\ e[2] \in 1 .. Len(A)
        /\ A[e[1]].table = A[e[2]].table
    BY <1>4, TableFacts
  <1> DEFINE x == p[e[1]]
             y == p[e[2]]
  <1>6. <<x, y>> \in SameTable(B) \/ <<y, x>> \in SameTable(B)
    BY <1>3, SimilarTables
  <1>7. /\ B[x].table = A[e[1]].table /\ B[y].table = A[e[1]].table
        /\ Columns(B[x]) = Columns(A[e[1]]) /\ Columns(B[y]) = Columns(A[e[2]])
    BY <1>4, <1>5
  <1>8. \A k \in PrimaryKey[A[e[1]].table] :
           /\ k \in Columns(B[x]) \cap Columns(B[y])
           /\ B[x].terms[k] = B[y].terms[k]
    <2> SUFFICES ASSUME NEW k \in PrimaryKey[A[e[1]].table]
                 PROVE  /\ k \in Columns(B[x]) /\ k \in Columns(B[y])
                        /\ B[x].terms[k] = B[y].terms[k]
      OBVIOUS
    <2>1. k \in Columns(A[e[1]]) /\ k \in Columns(A[e[2]]) /\ A[e[1]].terms[k] = A[e[2]].terms[k]
      BY <1>1
    <2> HIDE DEF Forced
    <2>2. QED
      BY <1>4, <1>5, <1>7, <2>1
  <1> HIDE DEF x, y
  <1>9. Forced(B, <<x, y>>) /\ Forced(B, <<y, x>>)
    BY <1>1, <1>7, <1>8
  <1> HIDE DEF Forced
  <1>10. QED
    BY <1>2, <1>6, <1>9

LEMMA AlikeTests ==
    ASSUME NEW r, NEW q, ProperRule(r), ProperRule(q), Alike(r, q)
    PROVE  /\ Invalid(AllAtoms(r)) <=> Invalid(AllAtoms(q))
           /\ NoKey(AllAtoms(r)) <=> NoKey(AllAtoms(q))
           /\ Evaluable(r) <=> Evaluable(q)
           /\ HeadEntailed(r) <=> HeadEntailed(q)
           /\ ForcedSameTuple(r) <=> ForcedSameTuple(q)
  <1>1. PICK p, s : AlikeBy(r, q, p, s)
    BY DEF Alike
  <1>2. AlikeBy(q, r, s, p)
    BY <1>1, AlikeBack
  <1>3. /\ HeadEntailed(r) <=> HeadEntailed(q)
        /\ ForcedSameTuple(r) <=> ForcedSameTuple(q)
    BY <1>1, <1>2, AlikeHeadEntailed, AlikeForcedSameTuple
  <1>4. /\ Similar(AllAtoms(r), AllAtoms(q), p, s) /\ Similar(AllAtoms(q), AllAtoms(r), s, p)
        /\ WellFormed(AllAtoms(r)) /\ WellFormed(AllAtoms(q))
    BY <1>1, <1>2, RuleFacts DEF AlikeBy
  <1>5. /\ Invalid(AllAtoms(r)) <=> Invalid(AllAtoms(q))
        /\ NoKey(AllAtoms(r)) <=> NoKey(AllAtoms(q))
    BY <1>4, SimilarInvalid, SimilarNoKey
  <1>6. QED
    BY <1>3, <1>5 DEF Evaluable

-----------------------------------------------------------------------------
(* What rules match on the database                                        *)

Rows == UNION {db[t] : t \in DOMAIN db}

LEMMA FiniteFunctions ==
    ASSUME NEW D, NEW R, IsFiniteSet(D), IsFiniteSet(R)
    PROVE  IsFiniteSet([D -> R])
  <1> DEFINE graph == [f \in [D -> R] |-> {x \in D \X R : x[2] = f[x[1]]}]
  <1>1. IsFiniteSet(SUBSET (D \X R))
    BY FS_Product, FS_SUBSET
  <1>2. graph \in [[D -> R] -> SUBSET (D \X R)]
    OBVIOUS
  <1>3. ASSUME NEW f \in [D -> R], NEW g \in [D -> R], graph[f] = graph[g]
        PROVE  f = g
    <2>1. ASSUME NEW d \in D PROVE f[d] = g[d]
      <3>1. <<d, f[d]>> \in graph[f]
        OBVIOUS
      <3>2. QED
        BY <1>3, <3>1
    <2>2. QED
      BY <2>1
  <1> HIDE DEF graph
  <1>4. graph \in Injection([D -> R], SUBSET (D \X R))
    BY <1>2, <1>3, Fun_IsInj
  <1>5. QED
    BY <1>1, <1>4, FS_Injection

LEMMA JoinFacts ==
    ASSUME NEW a, NEW disjoint, NEW m \in Joins(a, disjoint)
    PROVE  /\ m \in [1 .. Len(a) -> Rows]
           /\ \A i \in 1 .. Len(a) : m[i] \in db[a[i].table]
           /\ \A i, j \in 1 .. Len(a) : \A c \in Columns(a[i]), d \in Columns(a[j]) :
                 a[i].terms[c] = a[j].terms[d] => m[i][c] = m[j][d]
           /\ disjoint => Disjoint(a, m)
  <1>1. \A i, j \in 1 .. Len(a) : \A c \in Columns(a[i]), d \in Columns(a[j]) :
           a[i].terms[c] = a[j].terms[d] /\ <<i, c>> # <<j, d>> => SqlEqual(m[i][c], m[j][d])
    BY DEF Joins
  <1>2. \A i, j \in 1 .. Len(a) : \A c \in Columns(a[i]), d \in Columns(a[j]) :
           a[i].terms[c] = a[j].terms[d] => m[i][c] = m[j][d]
    <2> TAKE i, j \in 1 .. Len(a)
    <2> TAKE c \in Columns(a[i]), d \in Columns(a[j])
    <2>1. CASE i = j /\ c = d
      BY <2>1
    <2>2. CASE ~ (i = j /\ c = d)
      <3>1. <<i, c>> # <<j, d>>
        BY <2>2
      <3> QED
        BY <1>1, <3>1 DEF SqlEqual
    <2> QED
      BY <2>1, <2>2
  <1> QED
    BY <1>2 DEF Joins, Rows

(* Two references to a variable are equal as SQL has it.                   *)
LEMMA JoinSql ==
    ASSUME NEW a, NEW disjoint, NEW m \in Joins(a, disjoint),
           NEW i \in 1 .. Len(a), NEW j \in 1 .. Len(a),
           NEW c \in Columns(a[i]), NEW d \in Columns(a[j]),
           a[i].terms[c] = a[j].terms[d], <<i, c>> # <<j, d>>
    PROVE  SqlEqual(m[i][c], m[j][d])
  BY DEF Joins

LEMMA IsJoin ==
    ASSUME NEW a, NEW disjoint, NEW m \in [1 .. Len(a) -> Rows],
           \A i \in 1 .. Len(a) : m[i] \in db[a[i].table],
           \A i, j \in 1 .. Len(a) : \A c \in Columns(a[i]), d \in Columns(a[j]) :
              a[i].terms[c] = a[j].terms[d] /\ <<i, c>> # <<j, d>> => SqlEqual(m[i][c], m[j][d]),
           disjoint => Disjoint(a, m)
    PROVE  m \in Joins(a, disjoint)
  BY DEF Joins, Rows

(* Without NULLs they are equal when their values are.                     *)
Clean == NoNulls /\ DOMAIN db = DOMAIN Schema

LEMMA IsCleanJoin ==
    ASSUME NEW a, ~ Invalid(a), Clean, NEW disjoint, NEW m \in [1 .. Len(a) -> Rows],
           \A i \in 1 .. Len(a) : m[i] \in db[a[i].table],
           \A i, j \in 1 .. Len(a) : \A c \in Columns(a[i]), d \in Columns(a[j]) :
              a[i].terms[c] = a[j].terms[d] => m[i][c] = m[j][d],
           disjoint => Disjoint(a, m)
    PROVE  m \in Joins(a, disjoint)
  <1>1. \A i \in 1 .. Len(a) : /\ a[i].table \in DOMAIN db
                               /\ Columns(a[i]) \subseteq Schema[a[i].table]
    BY DEF Invalid, Clean
  <1>2. \A i \in 1 .. Len(a) : \A c \in Columns(a[i]) : m[i][c] # Null
    BY <1>1 DEF Clean, NoNulls
  <1>3. \A i, j \in 1 .. Len(a) : \A c \in Columns(a[i]), d \in Columns(a[j]) :
           a[i].terms[c] = a[j].terms[d] => SqlEqual(m[i][c], m[j][d])
    BY <1>2 DEF SqlEqual
  <1> QED
    BY <1>3, IsJoin

LEMMA FiniteJoins ==
    ASSUME NEW a, WellFormed(a), NEW disjoint, IsFiniteSet(Rows)
    PROVE  IsFiniteSet(Joins(a, disjoint))
  <1>1. Len(a) \in Nat
    BY AtomFacts
  <1>2. IsFiniteSet([1 .. Len(a) -> Rows])
    <2>1. IsFiniteSet(1 .. Len(a))
      BY <1>1, FS_Interval
    <2>2. QED
      BY <2>1, FiniteFunctions
  <1>3. Joins(a, disjoint) \subseteq [1 .. Len(a) -> Rows]
    BY DEF Joins, Rows
  <1>4. QED
    BY <1>2, <1>3, FS_Subset

(* A variable has the value that the tuple of any atom with it has there.  *)
LEMMA BindingIs ==
    ASSUME NEW a, NEW disjoint, NEW m \in Joins(a, disjoint),
           NEW i \in 1 .. Len(a), NEW c \in Columns(a[i])
    PROVE  Binding(a, m, a[i].terms[c]) = m[i][c]
  <1> DEFINE v == a[i].terms[c]
             j == CHOOSE j \in 1 .. Len(a) : v \in AtomVariables(a[j])
             d == CHOOSE d \in Columns(a[j]) : a[j].terms[d] = v
  <1>1. Binding(a, m, v) = m[j][d]
    BY DEF Binding
  <1>2. j \in 1 .. Len(a) /\ v \in AtomVariables(a[j])
    <2>1. v \in AtomVariables(a[i])
      BY DEF AtomVariables
    <2> HIDE DEF v
    <2>2. QED
      BY <2>1
  <1> HIDE DEF j
  <1>3. d \in Columns(a[j]) /\ a[j].terms[d] = v
    <2>1. \E x \in Columns(a[j]) : a[j].terms[x] = v
      BY <1>2 DEF AtomVariables
    <2> HIDE DEF v
    <2>2. QED
      BY <2>1
  <1> HIDE DEF d
  <1>4. QED
    BY <1>1, <1>2, <1>3, JoinFacts

(* A row of the SELECT DISTINCT of vs.                                     *)
Seen(a, m, vs) == [v \in vs |-> Binding(a, m, v)]

LEMMA SeenFacts ==
    ASSUME NEW a, NEW V, NEW disjoint
    PROVE  /\ \A x : x \in Assignments(a, V, disjoint)
                        <=> \E m \in Joins(a, disjoint) : x = Seen(a, m, V)
           /\ \A m : \A v \in V : Seen(a, m, V)[v] = Binding(a, m, v)
  BY DEF Assignments, Seen

(* Tuples agree where the variables of vs are read.                        *)
Agree(a, m, k, vs) ==
    \A i \in 1 .. Len(a) : \A c \in Columns(a[i]) : a[i].terms[c] \in vs => m[i][c] = k[i][c]

LEMMA SameAssignment ==
    ASSUME NEW a, WellFormed(a), NEW disjoint, NEW V, V \subseteq Variables(a),
           NEW m \in Joins(a, disjoint), NEW k \in Joins(a, disjoint)
    PROVE  Seen(a, m, V) = Seen(a, k, V) <=> Agree(a, m, k, V)
  <1>1. \A i \in 1 .. Len(a) : \A c \in Columns(a[i]) :
           /\ Binding(a, m, a[i].terms[c]) = m[i][c]
           /\ Binding(a, k, a[i].terms[c]) = k[i][c]
    BY BindingIs
  <1>2. \A v \in V : \E i \in 1 .. Len(a) : \E c \in Columns(a[i]) : v = a[i].terms[c]
    BY AtomFacts
  <1>3. [v \in V |-> Binding(a, m, v)] = [v \in V |-> Binding(a, k, v)]
           <=> \A v \in V : Binding(a, m, v) = Binding(a, k, v)
    <2> DEFINE f == [v \in V |-> Binding(a, m, v)]
               g == [v \in V |-> Binding(a, k, v)]
    <2>1. \A v \in V : f[v] = Binding(a, m, v) /\ g[v] = Binding(a, k, v)
      OBVIOUS
    <2>2. f = [v \in V |-> f[v]] /\ g = [v \in V |-> g[v]]
      OBVIOUS
    <2> HIDE DEF f, g
    <2>3. f = g <=> \A v \in V : f[v] = g[v]
      BY <2>2
    <2>4. QED
      BY <2>1, <2>3 DEF f, g
  <1>4. QED
    BY <1>1, <1>2, <1>3 DEF Seen, Agree

(* Rearranged tuples of similar atoms.                                     *)
LEMMA MovedJoin ==
    ASSUME NEW a, NEW b, NEW p, NEW s, WellFormed(a), WellFormed(b), Similar(a, b, p, s),
           NEW disjoint, NEW m \in Joins(a, disjoint)
    PROVE  [j \in 1 .. Len(b) |-> m[s[j]]] \in Joins(b, disjoint)
  <1> DEFINE k == [j \in 1 .. Len(b) |-> m[s[j]]]
  <1>1. /\ \A j \in 1 .. Len(b) : /\ s[j] \in 1 .. Len(a)
                                  /\ b[j].table = a[s[j]].table
                                  /\ Columns(b[j]) = Columns(a[s[j]])
        /\ \A i, j \in 1 .. Len(b) : \A c \in Columns(b[i]), d \in Columns(b[j]) :
              b[i].terms[c] = b[j].terms[d] <=> a[s[i]].terms[c] = a[s[j]].terms[d]
    BY SimilarBack, SimilarFacts
  <1>2. \A j \in 1 .. Len(b) : k[j] = m[s[j]]
    OBVIOUS
  <1>3. k \in [1 .. Len(b) -> Rows]
    BY <1>1, JoinFacts
  <1> HIDE DEF k
  <1>4. \A j \in 1 .. Len(b) : k[j] \in db[b[j].table]
    BY <1>1, <1>2, JoinFacts
  <1>5. ASSUME NEW i \in 1 .. Len(b), NEW j \in 1 .. Len(b), NEW c \in Columns(b[i]),
               NEW d \in Columns(b[j]), b[i].terms[c] = b[j].terms[d], <<i, c>> # <<j, d>>
        PROVE  SqlEqual(k[i][c], k[j][d])
    <2>1. /\ s[i] \in 1 .. Len(a) /\ s[j] \in 1 .. Len(a)
          /\ c \in Columns(a[s[i]]) /\ d \in Columns(a[s[j]])
          /\ a[s[i]].terms[c] = a[s[j]].terms[d]
      BY <1>1, <1>5
    <2>2. <<s[i], c>> # <<s[j], d>>
      <3>1. p[s[i]] = i /\ p[s[j]] = j
        BY DEF Similar
      <3> QED
        BY <1>5, <3>1
    <2>3. SqlEqual(m[s[i]][c], m[s[j]][d])
      BY <2>1, <2>2, JoinSql
    <2>4. QED
      BY <1>2, <2>3
  <1>6. ASSUME disjoint PROVE Disjoint(b, k)
    <2> SUFFICES ASSUME NEW e \in SameTable(b)
                 PROVE  \E x \in PrimaryKey[b[e[1]].table] : SqlDiffers(k[e[1]][x], k[e[2]][x])
      BY DEF Disjoint
    <2> DEFINE f == s[e[1]]
               g == s[e[2]]
    <2>1. /\ b[e[1]].table = a[f].table
          /\ <<f, g>> \in SameTable(a) \/ <<g, f>> \in SameTable(a)
      BY SimilarBack, SimilarTables
    <2>2. /\ e[1] \in 1 .. Len(b) /\ e[2] \in 1 .. Len(b)
          /\ b[e[1]].table = b[e[2]].table
      <3>1. Len(b) \in Nat
        BY AtomFacts
      <3>2. QED
        BY <3>1, TableFacts
    <2>3. a[g].table = a[f].table /\ k[e[1]] = m[f] /\ k[e[2]] = m[g]
      BY <1>1, <1>2, <2>1, <2>2
    <2>4. \A z \in SameTable(a) : \E x \in PrimaryKey[a[z[1]].table] : SqlDiffers(m[z[1]][x], m[z[2]][x])
      <3>1. Disjoint(a, m)
        BY <1>6, JoinFacts
      <3>2. QED
        BY <3>1 DEF Disjoint
    <2> HIDE DEF f, g
    <2>5. \E x \in PrimaryKey[a[f].table] : SqlDiffers(m[f][x], m[g][x])
      <3>1. CASE <<f, g>> \in SameTable(a)
        BY <2>4, <3>1
      <3>2. CASE <<g, f>> \in SameTable(a)
        <4>1. \E x \in PrimaryKey[a[<<g, f>>[1]].table] : SqlDiffers(m[<<g, f>>[1]][x], m[<<g, f>>[2]][x])
          BY <2>4, <3>2
        <4>2. QED
          BY <2>3, <4>1 DEF SqlDiffers
      <3>3. QED
        BY <2>1, <3>1, <3>2
    <2>6. QED
      BY <2>1, <2>3, <2>5
  <1>7. k \in Joins(b, disjoint)
    BY <1>3, <1>4, <1>5, <1>6, IsJoin
  <1>8. QED
    BY <1>7 DEF k

(* Functions that tell the same arguments apart have as many values.       *)
Values(P, g, G) == \A y : y \in G <=> \E x \in P : y = g[x]
TellApart(P, g, h) == \A x, y \in P : g[x] = g[y] <=> h[x] = h[y]

LEMMA AsManyValues ==
    ASSUME NEW P, NEW g, NEW h, NEW G, NEW H, IsFiniteSet(G),
           Values(P, g, G), Values(P, h, H), TellApart(P, g, h)
    PROVE  Cardinality(H) = Cardinality(G)
  <1> DEFINE f == [a \in G |-> h[CHOOSE x \in P : g[x] = a]]
  <1>0. /\ \A x \in P : g[x] \in G /\ h[x] \in H
        /\ \A a \in G : \E x \in P : g[x] = a
        /\ \A b \in H : \E x \in P : h[x] = b
        /\ \A x, y \in P : g[x] = g[y] <=> h[x] = h[y]
    BY DEF Values, TellApart
  <1>1. \A x \in P : f[g[x]] = h[x]
    <2> SUFFICES ASSUME NEW x \in P
                 PROVE  f[g[x]] = h[x]
      OBVIOUS
    <2> DEFINE y == CHOOSE z \in P : g[z] = g[x]
    <2>1. y \in P /\ g[y] = g[x]
      OBVIOUS
    <2>2. f[g[x]] = h[y]
      BY <1>0
    <2> HIDE DEF f, y
    <2>3. QED
      BY <1>0, <2>1, <2>2
  <1>2. f \in [G -> H]
    <2>1. \A a \in G : f[a] \in H
      BY <1>0, <1>1
    <2>2. QED
      BY <2>1
  <1> HIDE DEF f
  <1>3. \A a, b \in G : f[a] = f[b] => a = b
    <2> SUFFICES ASSUME NEW a \in G, NEW b \in G, f[a] = f[b]
                 PROVE  a = b
      OBVIOUS
    <2>1. PICK x \in P, y \in P : a = g[x] /\ b = g[y]
      BY <1>0
    <2>2. QED
      BY <1>0, <1>1, <2>1
  <1>4. \A b \in H : \E a \in G : f[a] = b
    BY <1>0, <1>1
  <1>5. ExistsBijection(G, H)
    BY <1>2, <1>3, <1>4, Fun_IsBij DEF ExistsBijection
  <1>6. QED
    BY <1>5, FS_Bijection

(* Assignments as a set of values of functions of the joins.               *)
LEMMA FiniteAssignments ==
    ASSUME NEW a, WellFormed(a), NEW V, NEW disjoint, IsFiniteSet(Rows)
    PROVE  /\ IsFiniteSet(Assignments(a, V, disjoint))
           /\ Cardinality(Assignments(a, V, disjoint)) \in Nat
  <1> DEFINE P == Joins(a, disjoint)
             G == Assignments(a, V, disjoint)
             g == [m \in P |-> Seen(a, m, V)]
  <1>1. IsFiniteSet(P)
    BY FiniteJoins
  <1>2. \A y : y \in G <=> \E m \in P : y = g[m]
    BY SeenFacts
  <1> HIDE DEF P, G, g
  <1>3. g \in Surjection(P, G)
    <2>1. g = [m \in P |-> g[m]]
      BY DEF g
    <2>2. QED
      BY <1>2, <2>1 DEF Surjection
  <1>4. IsFiniteSet(G)
    BY <1>1, <1>3, FS_Surjection
  <1>5. QED
    BY <1>4, FS_CardinalityType DEF G

(* Similar atoms have as many matches, seen at corresponding variables.    *)
LEMMA AsManyAssignments ==
    ASSUME NEW a, NEW b, NEW p, NEW s, WellFormed(a), WellFormed(b), Similar(a, b, p, s),
           NEW V, NEW W, V \subseteq Variables(a), W \subseteq Variables(b),
           \A i \in 1 .. Len(a) : \A c \in Columns(a[i]) :
              a[i].terms[c] \in V <=> b[p[i]].terms[c] \in W,
           NEW disjoint, IsFiniteSet(Rows)
    PROVE  Cardinality(Assignments(b, W, disjoint)) = Cardinality(Assignments(a, V, disjoint))
  <1> DEFINE P == Joins(a, disjoint)
             moved(m) == [j \in 1 .. Len(b) |-> m[s[j]]]
             g == [m \in P |-> Seen(a, m, V)]
             h == [m \in P |-> Seen(b, moved(m), W)]
  <1>1. \A y : y \in Assignments(a, V, disjoint) <=> \E m \in P : y = g[m]
    BY SeenFacts
  <1>2. \A m \in P : moved(m) \in Joins(b, disjoint)
    BY MovedJoin
  <1>3. \A k \in Joins(b, disjoint) : \E m \in P : moved(m) = k
    <2> SUFFICES ASSUME NEW k \in Joins(b, disjoint)
                 PROVE  \E m \in P : moved(m) = k
      OBVIOUS
    <2> DEFINE m == [i \in 1 .. Len(a) |-> k[p[i]]]
    <2>1. m \in P
      BY SimilarBack, MovedJoin
    <2>2. k \in [1 .. Len(b) -> Rows]
      BY JoinFacts
    <2>3. \A j \in 1 .. Len(b) : s[j] \in 1 .. Len(a) /\ p[s[j]] = j
      BY DEF Similar
    <2>4. \A j \in 1 .. Len(b) : moved(m)[j] = k[j]
      BY <2>3
    <2>5. moved(m) = [j \in 1 .. Len(b) |-> moved(m)[j]]
      OBVIOUS
    <2>6. moved(m) = k
      <3> DEFINE n == moved(m)
      <3> HIDE DEF n
      <3>1. n = k
        BY <2>2, <2>4, <2>5 DEF n
      <3>2. QED
        BY <3>1 DEF n
    <2>7. QED
      BY <2>1, <2>6
  <1>4. \A y : y \in Assignments(b, W, disjoint) <=> \E m \in P : y = h[m]
    <2>1. \A m \in P : h[m] = Seen(b, moved(m), W)
      OBVIOUS
    <2>2. \A y : y \in Assignments(b, W, disjoint)
                    <=> \E k \in Joins(b, disjoint) : y = Seen(b, k, W)
      BY SeenFacts
    <2> HIDE DEF P, h, moved
    <2>3. QED
      BY <1>2, <1>3, <2>1, <2>2
  <1>5. ASSUME NEW m \in P, NEW k \in P
        PROVE  g[m] = g[k] <=> h[m] = h[k]
    <2>1. g[m] = g[k] <=> \A i \in 1 .. Len(a) : \A c \in Columns(a[i]) :
                             a[i].terms[c] \in V => m[i][c] = k[i][c]
      <3>1. g[m] = Seen(a, m, V) /\ g[k] = Seen(a, k, V)
        OBVIOUS
      <3> HIDE DEF g
      <3>2. QED
        BY <3>1, SameAssignment DEF Agree
    <2>2. h[m] = h[k] <=> \A j \in 1 .. Len(b) : \A c \in Columns(b[j]) :
                             b[j].terms[c] \in W => m[s[j]][c] = k[s[j]][c]
      <3> DEFINE n == moved(m)
                 l == moved(k)
      <3>1. n \in Joins(b, disjoint) /\ l \in Joins(b, disjoint)
        BY <1>2
      <3>2. \A j \in 1 .. Len(b) : n[j] = m[s[j]] /\ l[j] = k[s[j]]
        OBVIOUS
      <3>3. h[m] = Seen(b, n, W) /\ h[k] = Seen(b, l, W)
        OBVIOUS
      <3> HIDE DEF n, l, h, P
      <3>4. Seen(b, n, W) = Seen(b, l, W) <=> Agree(b, n, l, W)
        BY <3>1, SameAssignment
      <3>5. QED
        BY <3>2, <3>3, <3>4 DEF Agree
    <2> HIDE DEF g, h, P
    <2>3. /\ \A i \in 1 .. Len(a) : p[i] \in 1 .. Len(b) /\ s[p[i]] = i /\ Columns(a[i]) = Columns(b[p[i]])
          /\ \A j \in 1 .. Len(b) : s[j] \in 1 .. Len(a) /\ p[s[j]] = j /\ Columns(a[s[j]]) = Columns(b[j])
      BY SimilarFacts, SimilarBack
    <2>4. ASSUME g[m] = g[k] PROVE h[m] = h[k]
      <3> SUFFICES ASSUME NEW j \in 1 .. Len(b), NEW c \in Columns(b[j]), b[j].terms[c] \in W
                   PROVE  m[s[j]][c] = k[s[j]][c]
        BY <2>2
      <3>1. s[j] \in 1 .. Len(a) /\ p[s[j]] = j /\ c \in Columns(a[s[j]])
        BY <2>3
      <3>2. a[s[j]].terms[c] \in V
        BY <3>1
      <3>3. QED
        BY <2>1, <2>4, <3>1, <3>2
    <2>5. ASSUME h[m] = h[k] PROVE g[m] = g[k]
      <3> SUFFICES ASSUME NEW i \in 1 .. Len(a), NEW c \in Columns(a[i]), a[i].terms[c] \in V
                   PROVE  m[i][c] = k[i][c]
        BY <2>1
      <3>1. p[i] \in 1 .. Len(b) /\ s[p[i]] = i /\ c \in Columns(b[p[i]]) /\ b[p[i]].terms[c] \in W
        BY <2>3
      <3>2. QED
        BY <2>2, <2>5, <3>1
    <2>6. QED
      BY <2>4, <2>5
  <1>6. IsFiniteSet(Assignments(a, V, disjoint))
    BY FiniteAssignments
  <1> DEFINE G == Assignments(a, V, disjoint)
             H == Assignments(b, W, disjoint)
  <1> HIDE DEF P, g, h, moved
  <1>7. Values(P, g, G) /\ Values(P, h, H) /\ TellApart(P, g, h) /\ IsFiniteSet(G)
    BY <1>1, <1>4, <1>5, <1>6 DEF Values, TellApart
  <1> HIDE DEF G, H
  <1>8. Cardinality(H) = Cardinality(G)
    BY <1>7, AsManyValues
  <1>9. QED
    BY <1>8 DEF G, H

LEMMA BodyVariableMoves ==
    ASSUME NEW r, NEW q, NEW p, NEW s, ProperRule(r), ProperRule(q), AlikeBy(r, q, p, s),
           NEW i \in 1 .. Len(AllAtoms(r)), NEW c \in Columns(AllAtoms(r)[i]),
           AllAtoms(r)[i].terms[c] \in Variables(r.body)
    PROVE  AllAtoms(q)[p[i]].terms[c] \in Variables(q.body)
  <1> DEFINE A == AllAtoms(r)
             B == AllAtoms(q)
             m == Len(r.body)
             v == A[i].terms[c]
  <1>1. m = Len(q.body) /\ WellFormed(r.body) /\ WellFormed(q.body)
    BY DEF ProperRule, AlikeBy
  <1>2. \A x \in Variables(r.body) : \E l \in 1 .. m : \E d \in Columns(r.body[l]) : x = r.body[l].terms[d]
    BY <1>1, AtomFacts
  <1>3. /\ \A x \in 1 .. Len(A) : Columns(A[x]) = Columns(B[p[x]])
        /\ \A x, y \in 1 .. Len(A) : \A z \in Columns(A[x]), u \in Columns(A[y]) :
              A[x].terms[z] = A[y].terms[u] <=> B[p[x]].terms[z] = B[p[y]].terms[u]
    BY SimilarFacts DEF AlikeBy
  <1>4. \A x \in 1 .. m : x \in 1 .. Len(A) /\ A[x] = r.body[x]
    BY RuleFacts
  <1>5. \A x \in 1 .. m : p[x] \in 1 .. m /\ B[p[x]] = q.body[p[x]]
    <2>1. \A x \in 1 .. m : p[x] \in 1 .. Len(q.body)
      BY AlikeParts, SimilarFacts
    <2>2. \A x \in 1 .. Len(q.body) : B[x] = q.body[x]
      BY RuleFacts
    <2>3. QED
      BY <1>1, <2>1, <2>2
  <1>6. \A x \in 1 .. m : \A d \in Columns(q.body[x]) : q.body[x].terms[d] \in Variables(q.body)
    BY <1>1, AtomFacts
  <1> HIDE DEF A, B, m
  <1>7. PICK l \in 1 .. m : \E d \in Columns(r.body[l]) : v = r.body[l].terms[d]
    BY <1>2 DEF A
  <1>8. PICK d \in Columns(r.body[l]) : v = r.body[l].terms[d]
    BY <1>7
  <1>9. i \in 1 .. Len(A) /\ c \in Columns(A[i]) /\ d \in Columns(A[l]) /\ A[i].terms[c] = A[l].terms[d]
    BY <1>4, <1>8 DEF A
  <1>10. B[p[i]].terms[c] = B[p[l]].terms[d]
    BY <1>3, <1>4, <1>9
  <1>11. d \in Columns(q.body[p[l]])
    BY <1>3, <1>4, <1>5, <1>9
  <1>12. QED
    BY <1>5, <1>6, <1>10, <1>11 DEF B

(* Alike rules predict as much, and have as much support.                  *)
LEMMA AlikeCounts ==
    ASSUME NEW r, NEW q, ProperRule(r), ProperRule(q), Alike(r, q), IsFiniteSet(Rows), NEW disjoint
    PROVE  /\ Predictions(r, disjoint) = Predictions(q, disjoint)
           /\ Support(r, disjoint) = Support(q, disjoint)
  <1>1. PICK p, s : AlikeBy(r, q, p, s)
    BY DEF Alike
  <1>2. AlikeBy(q, r, s, p)
    BY <1>1, AlikeBack
  <1> DEFINE A == AllAtoms(r)
             B == AllAtoms(q)
             a == r.body
             b == q.body
             V == Variables(r.body)
             W == Variables(q.body)
  <1>3. /\ WellFormed(A) /\ WellFormed(B) /\ WellFormed(a) /\ WellFormed(b)
        /\ V \subseteq Variables(A) /\ W \subseteq Variables(B)
    BY RuleFacts
  <1>4. Predictions(r, disjoint) = Predictions(q, disjoint)
    <2>1. Similar(a, b, p, s)
      BY <1>1, AlikeParts
    <2>2. \A i \in 1 .. Len(a) : \A c \in Columns(a[i]) : a[i].terms[c] \in Variables(a)
      BY <1>3, AtomFacts
    <2>3. \A i \in 1 .. Len(a) : \A c \in Columns(a[i]) : b[p[i]].terms[c] \in Variables(b)
      BY <1>3, <2>1, AtomFacts, SimilarFacts
    <2> HIDE DEF a, b
    <2>4. Cardinality(Assignments(b, Variables(b), disjoint)) = Cardinality(Assignments(a, Variables(a), disjoint))
      BY <1>3, <2>1, <2>2, <2>3, AsManyAssignments
    <2>5. QED
      BY <2>4 DEF Predictions, a, b
  <1>5. Support(r, disjoint) = Support(q, disjoint)
    <2>1. Similar(A, B, p, s)
      BY <1>1 DEF AlikeBy
    <2>2. ASSUME NEW i \in 1 .. Len(A), NEW c \in Columns(A[i])
          PROVE  A[i].terms[c] \in V <=> B[p[i]].terms[c] \in W
      <3>1. A[i].terms[c] \in V => B[p[i]].terms[c] \in W
        BY <1>1, BodyVariableMoves
      <3>2. p[i] \in 1 .. Len(B) /\ s[p[i]] = i /\ Columns(A[i]) = Columns(B[p[i]])
        BY <2>1, SimilarFacts
      <3>3. \A j \in 1 .. Len(B) : \A d \in Columns(B[j]) :
               B[j].terms[d] \in W => A[s[j]].terms[d] \in V
        BY <1>2, BodyVariableMoves
      <3> HIDE DEF A, B, V, W
      <3>4. B[p[i]].terms[c] \in W => A[i].terms[c] \in V
        BY <3>2, <3>3
      <3>5. QED
        BY <3>1, <3>4
    <2> HIDE DEF A, B, V, W
    <2>3. Cardinality(Assignments(B, W, disjoint)) = Cardinality(Assignments(A, V, disjoint))
      BY <1>3, <2>1, <2>2, AsManyAssignments
    <2>4. QED
      BY <2>3 DEF Support, A, B, V, W
  <1>6. QED
    BY <1>4, <1>5

LEMMA HornFacts ==
    ASSUME NEW r, ProperRule(r), Horn(r)
    PROVE  LET n == Len(r.body) + 1
           IN /\ Len(r.head) = 1
              /\ Len(AllAtoms(r)) = n
              /\ n \in 1 .. Len(AllAtoms(r)) /\ n \in Nat /\ n > Len(r.body)
              /\ AllAtoms(r)[n] = r.head[1]
              /\ Variables(r.head) \subseteq Variables(r.body)
  <1>1. Len(r.head) = 1 /\ Variables(r.head) \subseteq Variables(r.body)
    BY DEF Horn, Existential
  <1>2. /\ Len(r.body) \in Nat
        /\ Len(AllAtoms(r)) = Len(r.body) + Len(r.head)
        /\ \A i \in 1 .. Len(r.head) : AllAtoms(r)[Len(r.body) + i] = r.head[i]
    BY RuleFacts
  <1>3. 1 \in 1 .. Len(r.head)
    BY <1>1
  <1>4. QED
    BY <1>1, <1>2, <1>3

(* The one head atom stays where it is.                                    *)
LEMMA AlikeHornHeads ==
    ASSUME NEW r, NEW q, NEW p, NEW s, ProperRule(r), ProperRule(q), AlikeBy(r, q, p, s), Horn(r)
    PROVE  /\ Horn(q)
           /\ Len(q.body) = Len(r.body)
           /\ p[Len(r.body) + 1] = Len(r.body) + 1
           /\ s[Len(r.body) + 1] = Len(r.body) + 1
  <1> DEFINE n == Len(r.body) + 1
  <1>1. Horn(q)
    BY AlikeHorn DEF Alike
  <1>2. Len(q.body) = Len(r.body)
    BY DEF AlikeBy
  <1>3. n \in 1 .. Len(AllAtoms(r)) /\ n \in Nat /\ n > Len(r.body) /\ Len(AllAtoms(r)) = n
    BY HornFacts
  <1>4. /\ p[n] \in 1 .. Len(AllAtoms(r)) /\ s[n] \in 1 .. Len(AllAtoms(r))
        /\ ~ (p[n] <= Len(r.body)) /\ ~ (s[n] <= Len(r.body))
    <2>1. /\ Len(AllAtoms(q)) = Len(AllAtoms(r))
          /\ \A i \in 1 .. Len(AllAtoms(r)) : p[i] \in 1 .. Len(AllAtoms(q))
          /\ \A i \in 1 .. Len(AllAtoms(q)) : s[i] \in 1 .. Len(AllAtoms(r))
          /\ \A i \in 1 .. Len(AllAtoms(r)) : i <= Len(r.body) <=> p[i] <= Len(r.body)
          /\ \A i \in 1 .. Len(AllAtoms(r)) : i <= Len(r.body) <=> s[i] <= Len(r.body)
      BY DEF AlikeBy, Similar
    <2>2. ~ (n <= Len(r.body))
      BY <1>3
    <2> HIDE DEF n
    <2>3. QED
      BY <1>3, <2>1, <2>2
  <1>5. Len(r.body) \in Nat
    BY RuleFacts
  <1>6. \A x \in 1 .. n : ~ (x <= Len(r.body)) => x = n
    BY <1>5
  <1> HIDE DEF n
  <1>7. p[n] = n /\ s[n] = n
    BY <1>3, <1>4, <1>6
  <1>8. QED
    BY <1>1, <1>2, <1>7 DEF n

(* The head tuples a rule derives, seen at the tuple of its head atom.     *)
HeadRow(r, m) == [c \in Columns(r.head[1]) |-> m[Len(r.body) + 1][c]]

LEMMA HeadRowsAre ==
    ASSUME NEW r, ProperRule(r), Horn(r), NEW x
    PROVE  x \in HeadRows(r) <=> \E m \in Joins(AllAtoms(r), TRUE) : x = HeadRow(r, m)
  <1> DEFINE A == AllAtoms(r)
             n == Len(r.body) + 1
             H == r.head[1]
             V == Variables(r.head)
             Row(a) == [c \in Columns(H) |-> a[H.terms[c]]]
  <1>1. n \in 1 .. Len(A) /\ A[n] = H
    BY HornFacts
  <1>2. \A c \in Columns(H) : H.terms[c] \in V
    <2>1. 1 \in 1 .. Len(r.head) /\ WellFormed(r.head)
      BY HornFacts DEF ProperRule
    <2>2. QED
      BY <2>1, AtomFacts
  <1>3. ASSUME NEW m \in Joins(A, TRUE)
        PROVE  Row(Seen(A, m, V)) = HeadRow(r, m)
    <2>1. \A c \in Columns(H) : Seen(A, m, V)[H.terms[c]] = m[n][c]
      <3> SUFFICES ASSUME NEW c \in Columns(H)
                   PROVE  Seen(A, m, V)[H.terms[c]] = m[n][c]
        OBVIOUS
      <3>1. Seen(A, m, V)[H.terms[c]] = Binding(A, m, H.terms[c])
        BY <1>2 DEF Seen
      <3>2. c \in Columns(A[n])
        BY <1>1
      <3>3. \A i \in 1 .. Len(A) : \A d \in Columns(A[i]) : Binding(A, m, A[i].terms[d]) = m[i][d]
        <4> HIDE DEF A
        <4>1. \A y : m \in Joins(A, y) => \A i \in 1 .. Len(A) : \A d \in Columns(A[i]) :
                 Binding(A, m, A[i].terms[d]) = m[i][d]
          BY BindingIs
        <4>2. QED
          BY <4>1
      <3> HIDE DEF A, n
      <3>4. QED
        BY <1>1, <3>1, <3>2, <3>3
    <2>2. QED
      BY <2>1 DEF HeadRow
  <1>4. x \in HeadRows(r) <=> \E a \in Assignments(A, V, TRUE) : x = Row(a)
    BY DEF HeadRows
  <1>5. \A y : y \in Assignments(A, V, TRUE) <=> \E m \in Joins(A, TRUE) : y = Seen(A, m, V)
    BY SeenFacts
  <1> HIDE DEF A, V, Row
  <1>6. x \in HeadRows(r) <=> \E m \in Joins(A, TRUE) : x = Row(Seen(A, m, V))
    BY <1>4, <1>5
  <1>7. QED
    BY <1>3, <1>6 DEF A

LEMMA AlikeHeadRowsOneWay ==
    ASSUME NEW r, NEW q, NEW p, NEW s, ProperRule(r), ProperRule(q), AlikeBy(r, q, p, s), Horn(r),
           NEW x \in HeadRows(r)
    PROVE  x \in HeadRows(q)
  <1> DEFINE A == AllAtoms(r)
             B == AllAtoms(q)
             n == Len(r.body) + 1
  <1>1. PICK m \in Joins(A, TRUE) : x = HeadRow(r, m)
    BY HeadRowsAre
  <1> DEFINE k == [j \in 1 .. Len(B) |-> m[s[j]]]
  <1>2. k \in Joins(B, TRUE)
    <2>1. WellFormed(A) /\ WellFormed(B) /\ Similar(A, B, p, s)
      BY RuleFacts DEF AlikeBy
    <2> HIDE DEF A, B
    <2>2. QED
      BY <2>1, MovedJoin
  <1>3. Horn(q) /\ Len(q.body) = Len(r.body) /\ p[n] = n /\ s[n] = n
    BY AlikeHornHeads
  <1>4. n \in 1 .. Len(B) /\ A[n] = r.head[1] /\ B[n] = q.head[1] /\ n \in 1 .. Len(A)
    BY <1>3, HornFacts
  <1>5. Columns(A[n]) = Columns(B[n])
    <2>1. \A i \in 1 .. Len(A) : Columns(A[i]) = Columns(B[p[i]])
      BY SimilarFacts DEF AlikeBy
    <2>2. QED
      BY <1>3, <1>4, <2>1
  <1>6. k[n] = m[n]
    BY <1>3, <1>4
  <1> HIDE DEF k
  <1>7. HeadRow(q, k) = HeadRow(r, m)
    BY <1>3, <1>4, <1>5, <1>6 DEF HeadRow
  <1>8. QED
    BY <1>1, <1>2, <1>3, <1>7, HeadRowsAre

(* The candidates of alike rules are the same: their heads normalize so.   *)
LEMMA AlikeHeadKey ==
    ASSUME NEW r, NEW q, NEW p, NEW s, ProperRule(r), ProperRule(q), AlikeBy(r, q, p, s), Horn(r)
    PROVE  HeadKey(r) = HeadKey(q)
  <1> DEFINE A == AllAtoms(r)
             B == AllAtoms(q)
             a == r.head
             b == q.head
             n == Len(r.body) + 1
  <1>1. Horn(q) /\ Len(q.body) = Len(r.body) /\ p[n] = n
    BY AlikeHornHeads
  <1>2. /\ n \in 1 .. Len(A) /\ A[n] = a[1] /\ B[n] = b[1]
        /\ Len(a) = 1 /\ Len(b) = 1
    BY <1>1, HornFacts
  <1>3. SameAt(A, B, n, p[n]) /\ SamePattern(A, B, n, n, p[n], p[n])
    BY <1>2 DEF AlikeBy, Similar
  <1>4. SameAt(a, b, 1, 1)
    BY <1>1, <1>2, <1>3 DEF SameAt
  <1>5. SamePattern(a, b, 1, 1, 1, 1)
    BY <1>1, <1>2, <1>3 DEF SamePattern
  <1>6. \A i \in 1 .. Len(a) : i = 1
    BY <1>2
  <1>7. WellFormed(a) /\ WellFormed(b)
    BY DEF ProperRule
  <1> HIDE DEF a, b
  <1>8. /\ Len(a) = Len(b)
        /\ \A i \in 1 .. Len(a) : SameAt(a, b, i, i)
        /\ \A i, j \in 1 .. Len(a) : SamePattern(a, b, i, j, i, j)
    BY <1>2, <1>4, <1>5, <1>6
  <1>9. Normalized(a) = Normalized(b)
    BY <1>7, <1>8, SaidSoNormalized
  <1>10. QED
    BY <1>9 DEF HeadKey, a, b

(* A homomorphism goes on into alike rules.                                *)
LEMMA AlikeSubsumed ==
    ASSUME NEW t, NEW r, NEW q, NEW p, NEW s, ProperRule(t), ProperRule(r), ProperRule(q),
           AlikeBy(r, q, p, s), Horn(t), Horn(r), Subsumes(t, r)
    PROVE  Subsumes(t, q)
  <1> DEFINE A == AllAtoms(r)
             B == AllAtoms(q)
             T == AllAtoms(t)
             n == Len(r.body) + 1
  <1>1. PICK h \in [Variables(T) -> Variables(A)] :
           /\ MapsInto(h, t.head[1], r.head[1])
           /\ \A i \in 1 .. Len(t.body) : \E j \in 1 .. Len(r.body) : MapsInto(h, t.body[i], r.body[j])
    BY DEF Subsumes
  <1>2. WellFormed(A) /\ WellFormed(B) /\ WellFormed(T) /\ Similar(A, B, p, s)
    BY RuleFacts DEF AlikeBy
  <1>3. PICK ren \in Bijection(Variables(A), Variables(B)) :
           \A i \in 1 .. Len(A) : \A c \in Columns(A[i]) : ren[A[i].terms[c]] = B[p[i]].terms[c]
    BY <1>2, Renamed
  <1>4. ren \in [Variables(A) -> Variables(B)]
    BY DEF Bijection, Injection
  <1> DEFINE g == [v \in Variables(T) |-> ren[h[v]]]
  <1>5. g \in [Variables(T) -> Variables(B)] /\ \A v \in Variables(T) : g[v] = ren[h[v]]
    BY <1>4
  <1> HIDE DEF g
  <1>6. \A k \in 1 .. Len(T) : \A c \in Columns(T[k]) : T[k].terms[c] \in Variables(T)
    BY <1>2, AtomFacts
  <1>7. \A i \in 1 .. Len(A) : A[i].table = B[p[i]].table /\ Columns(A[i]) = Columns(B[p[i]])
    BY <1>2, SimilarFacts
  <1>8. ASSUME NEW k \in 1 .. Len(T), NEW i \in 1 .. Len(A), MapsInto(h, T[k], A[i])
        PROVE  MapsInto(g, T[k], B[p[i]])
    <2>1. T[k].table = A[i].table /\ \A c \in Columns(T[k]) : c \in Columns(A[i]) /\ h[T[k].terms[c]] = A[i].terms[c]
      BY <1>8 DEF MapsInto
    <2>2. \A c \in Columns(T[k]) : g[T[k].terms[c]] = B[p[i]].terms[c]
      BY <1>3, <1>5, <1>6, <2>1
    <2>3. QED
      BY <1>7, <2>1, <2>2 DEF MapsInto
  <1>9. MapsInto(g, t.head[1], q.head[1])
    <2> DEFINE k == Len(t.body) + 1
    <2>1. k \in 1 .. Len(T) /\ T[k] = t.head[1]
      BY HornFacts
    <2>2. n \in 1 .. Len(A) /\ A[n] = r.head[1]
      BY HornFacts
    <2>3. p[n] = n /\ B[n] = q.head[1]
      BY AlikeHornHeads, HornFacts
    <2> HIDE DEF k, n
    <2>4. MapsInto(g, T[k], B[p[n]])
      BY <1>1, <1>8, <2>1, <2>2
    <2>5. QED
      BY <2>1, <2>3, <2>4
  <1>10. ASSUME NEW i \in 1 .. Len(t.body)
         PROVE  \E j \in 1 .. Len(q.body) : MapsInto(g, t.body[i], q.body[j])
    <2>1. i \in 1 .. Len(T) /\ T[i] = t.body[i]
      BY RuleFacts
    <2>2. PICK j \in 1 .. Len(r.body) : MapsInto(h, t.body[i], r.body[j])
      BY <1>1
    <2>3. j \in 1 .. Len(A) /\ A[j] = r.body[j]
      BY RuleFacts
    <2>4. p[j] \in 1 .. Len(q.body)
      BY AlikeParts, SimilarFacts
    <2>5. B[p[j]] = q.body[p[j]]
      BY <2>4, RuleFacts
    <2>6. MapsInto(g, T[i], B[p[j]])
      BY <1>8, <2>1, <2>2, <2>3
    <2>7. QED
      BY <2>1, <2>4, <2>5, <2>6
  <1>11. QED
    BY <1>5, <1>9, <1>10 DEF Subsumes

-----------------------------------------------------------------------------
(* Rules of one canonical key                                              *)

TargetsOK ==
    /\ targets \in Seq(Dependencies)
    /\ \A i \in 1 .. Len(targets) : /\ Parsed(targets[i]) /\ Horn(targets[i])
                                    /\ ProperRule(targets[i])

LEMMA FirstIs ==
    ASSUME NEW S, S \subseteq Nat, S # {}
    PROVE  First(S) \in S
  <1>1. \E i \in S : \A j \in S : i <= j
    BY Least
  <1>2. QED
    BY <1>1 DEF First

LEMMA SameKeySame ==
    ASSUME NEW r, NEW q, ProperRule(r), ProperRule(q), Horn(r), CanonicalKey(r) = CanonicalKey(q)
    PROVE  /\ Horn(q)
           /\ HeadKey(r) = HeadKey(q)
           /\ HeadRows(r) = HeadRows(q)
           /\ \A t : ProperRule(t) /\ Horn(t) => (Subsumes(t, r) <=> Subsumes(t, q))
  <1>1. PICK p, s : AlikeBy(r, q, p, s)
    BY KeySays DEF Alike
  <1>2. AlikeBy(q, r, s, p)
    BY <1>1, AlikeBack
  <1>3. Horn(q)
    BY <1>1, AlikeHornHeads
  <1>4. HeadKey(r) = HeadKey(q)
    BY <1>1, AlikeHeadKey
  <1>5. \A x : x \in HeadRows(r) <=> x \in HeadRows(q)
    BY <1>1, <1>2, <1>3, AlikeHeadRowsOneWay
  <1>6. HeadRows(r) = HeadRows(q)
    <2> DEFINE H == HeadRows(r)
               G == HeadRows(q)
    <2>1. \A x : x \in H <=> x \in G
      BY <1>5
    <2>2. /\ H = {[c \in Columns(r.head[1]) |-> a[r.head[1].terms[c]]] :
                     a \in Assignments(AllAtoms(r), Variables(r.head), TRUE)}
          /\ G = {[c \in Columns(q.head[1]) |-> a[q.head[1].terms[c]]] :
                     a \in Assignments(AllAtoms(q), Variables(q.head), TRUE)}
      BY DEF HeadRows
    <2> HIDE DEF H, G
    <2>3. H \subseteq G /\ G \subseteq H
      BY <2>1
    <2>4. H = G
      BY <2>3
    <2>5. QED
      BY <2>4 DEF H, G
  <1>7. ASSUME NEW t, ProperRule(t), Horn(t)
        PROVE  Subsumes(t, r) <=> Subsumes(t, q)
    BY <1>1, <1>2, <1>3, <1>7, AlikeSubsumed
  <1>8. QED
    BY <1>3, <1>4, <1>6, <1>7

(* They are matched with the same target rule in the same way.             *)
LEMMA SameKeyMatch ==
    ASSUME NEW r, NEW q, ProperRule(r), ProperRule(q), Horn(r), CanonicalKey(r) = CanonicalKey(q),
           TargetsOK
    PROVE  Match(r) = Match(q)
  <1>1. Candidates(r) = Candidates(q)
    BY SameKeySame DEF Candidates
  <1>2. \A i \in 1 .. Len(targets) : Subsumes(targets[i], r) <=> Subsumes(targets[i], q)
    BY SameKeySame DEF TargetsOK
  <1>3. Candidates(r) \subseteq 1 .. Len(targets)
    BY DEF Candidates
  <1>4. {i \in Candidates(r) : Subsumes(targets[i], r)} = {i \in Candidates(q) : Subsumes(targets[i], q)}
    BY <1>1, <1>2, <1>3
  <1>5. {i \in 1 .. Len(targets) : CanonicalKey(targets[i]) = CanonicalKey(r)}
           = {i \in 1 .. Len(targets) : CanonicalKey(targets[i]) = CanonicalKey(q)}
    OBVIOUS
  <1>6. QED
    BY <1>4, <1>5 DEF Match

LEMMA SubsumesItself ==
    ASSUME NEW r, ProperRule(r), Horn(r)
    PROVE  Subsumes(r, r)
  <1> DEFINE A == AllAtoms(r)
             V == Variables(A)
             h == [v \in V |-> v]
  <1>1. \A i \in 1 .. Len(A) : \A c \in Columns(A[i]) : A[i].terms[c] \in V
    BY RuleFacts, AtomFacts
  <1>2. h \in [V -> V]
    OBVIOUS
  <1>3. \A v \in V : h[v] = v
    OBVIOUS
  <1> HIDE DEF h, V
  <1>4. \A i \in 1 .. Len(A) : MapsInto(h, A[i], A[i])
    BY <1>1, <1>3 DEF MapsInto
  <1>5. MapsInto(h, r.head[1], r.head[1])
    <2>1. Len(r.body) + 1 \in 1 .. Len(A) /\ A[Len(r.body) + 1] = r.head[1]
      BY HornFacts
    <2>2. QED
      BY <1>4, <2>1
  <1>6. \A i \in 1 .. Len(r.body) : MapsInto(h, r.body[i], r.body[i])
    <2>1. \A i \in 1 .. Len(r.body) : i \in 1 .. Len(A) /\ A[i] = r.body[i]
      BY RuleFacts
    <2>2. QED
      BY <1>4, <2>1
  <1>7. QED
    BY <1>2, <1>5, <1>6 DEF Subsumes, V

LEMMA SameKeyAlpha ==
    ASSUME NEW t, NEW r, ProperRule(t), ProperRule(r), Horn(t), CanonicalKey(t) = CanonicalKey(r)
    PROVE  AlphaEquivalent(t, r)
  <1>1. Horn(r) /\ Subsumes(t, t) /\ Subsumes(r, r)
    BY SameKeySame, SubsumesItself
  <1>2. Subsumes(t, r) /\ Subsumes(r, t)
    BY <1>1, SameKeySame
  <1>3. Len(t.body) = Len(r.body)
    BY DEF CanonicalKey
  <1>4. QED
    BY <1>2, <1>3 DEF AlphaEquivalent

(* The cache holds what target rules derive.                               *)
CacheOK ==
    \A k \in DOMAIN cache : \E i \in 1 .. Len(targets) :
       CanonicalKey(targets[i]) = k /\ cache[k] = HeadRows(targets[i])

(* covered_on_instance, without a cache.                                   *)
Derived(rule) ==
    /\ HeadRows(rule) # {}
    /\ \A row \in HeadRows(rule) : \E i \in 1 .. Len(targets) :
          /\ Evaluable(targets[i]) /\ HeadKey(targets[i]) = HeadKey(rule)
          /\ SameHeadShape(rule, targets[i])
          /\ row \in HeadRows(targets[i])

LEMMA RememberedRows ==
    ASSUME NEW rule, TargetsOK, CacheOK, NEW k \in DOMAIN Remember(rule)
    PROVE  /\ \E i \in 1 .. Len(targets) :
                 CanonicalKey(targets[i]) = k /\ Remember(rule)[k] = HeadRows(targets[i])
           /\ \A i \in 1 .. Len(targets) :
                 CanonicalKey(targets[i]) = k => Remember(rule)[k] = HeadRows(targets[i])
  <1>1. \A i, j \in 1 .. Len(targets) :
           CanonicalKey(targets[i]) = CanonicalKey(targets[j]) => HeadRows(targets[i]) = HeadRows(targets[j])
    BY SameKeySame DEF TargetsOK
  <1> DEFINE F == {i \in Able(rule) : CacheKey(targets[i]) = k}
  <1>2. /\ k \in DOMAIN cache \cup {CacheKey(targets[i]) : i \in Able(rule)}
        /\ Remember(rule)[k] = IF k \in DOMAIN cache THEN cache[k] ELSE HeadRows(targets[First(F)])
    BY DEF Remember
  <1>3. Able(rule) \subseteq 1 .. Len(targets) /\ Len(targets) \in Nat
    BY DEF Able, Candidates, TargetsOK
  <1>4. \E i \in 1 .. Len(targets) : CanonicalKey(targets[i]) = k /\ Remember(rule)[k] = HeadRows(targets[i])
    <2>1. CASE k \in DOMAIN cache
      BY <1>2, <2>1 DEF CacheOK
    <2>2. CASE k \notin DOMAIN cache
      <3>1. F # {} /\ F \subseteq Nat /\ F \subseteq 1 .. Len(targets)
        BY <1>2, <1>3, <2>2
      <3>2. First(F) \in F
        <4> HIDE DEF F
        <4>1. QED
          BY <3>1, FirstIs
      <3>3. CanonicalKey(targets[First(F)]) = k
        BY <3>2 DEF CacheKey
      <3> HIDE DEF F
      <3>4. QED
        BY <1>2, <2>2, <3>1, <3>2, <3>3
    <2>3. QED
      BY <2>1, <2>2
  <1>5. QED
    BY <1>1, <1>4

LEMMA CoveredIsDerived ==
    ASSUME NEW rule, TargetsOK, CacheOK
    PROVE  Covered(rule) <=> Derived(rule)
  <1>1. \A i : i \in Able(rule) <=> /\ i \in 1 .. Len(targets)
                                    /\ HeadKey(targets[i]) = HeadKey(rule)
                                    /\ SameHeadShape(rule, targets[i])
                                    /\ Evaluable(targets[i])
    BY DEF Able, Candidates
  <1>2. \A i \in Able(rule) : Remember(rule)[CacheKey(targets[i])] = HeadRows(targets[i])
    <2> SUFFICES ASSUME NEW i \in Able(rule)
                 PROVE  Remember(rule)[CacheKey(targets[i])] = HeadRows(targets[i])
      OBVIOUS
    <2>1. CacheKey(targets[i]) \in DOMAIN Remember(rule)
      BY DEF Remember
    <2>2. i \in 1 .. Len(targets) /\ CanonicalKey(targets[i]) = CacheKey(targets[i])
      BY <1>1 DEF CacheKey
    <2>3. QED
      BY <2>1, <2>2, RememberedRows
  <1>3. Covered(rule) <=> /\ HeadRows(rule) # {}
                          /\ \A x \in HeadRows(rule) : \E i \in Able(rule) :
                                x \in Remember(rule)[CacheKey(targets[i])]
    BY DEF Covered
  <1>4. QED
    BY <1>1, <1>2, <1>3 DEF Derived

(* And so alike rules whose heads have one shape are covered alike.        *)
LEMMA SameKeyCovered ==
    ASSUME NEW r, NEW q, ProperRule(r), ProperRule(q), Horn(r), CanonicalKey(r) = CanonicalKey(q),
           SameHeadShape(r, q), TargetsOK, CacheOK
    PROVE  Covered(r) <=> Covered(q)
  <1>1. Derived(r) <=> Derived(q)
    BY SameKeySame DEF Derived, SameHeadShape
  <1>2. QED
    BY <1>1, CoveredIsDerived

-----------------------------------------------------------------------------
(* Verdicts                                                                *)

DatabaseOK == db = Nothing \/ IsFiniteSet(Rows)

LEMMA MatchCases ==
    ASSUME NEW rule, TargetsOK
    PROVE  \/ /\ Match(rule)[1] = "recalled_alpha"
              /\ \E i \in 1 .. Len(targets) : /\ CanonicalKey(targets[i]) = CanonicalKey(rule)
                                              /\ Match(rule)[2] = targets[i]
           \/ /\ Match(rule)[1] = "recalled_subsumed"
              /\ \E i \in 1 .. Len(targets) : /\ HeadKey(targets[i]) = HeadKey(rule)
                                              /\ Subsumes(targets[i], rule)
                                              /\ Match(rule)[2] = targets[i]
           \/ Match(rule)[1] = "unmatched" /\ Match(rule)[2] = Nothing
  <1> DEFINE alpha == {i \in 1 .. Len(targets) : CanonicalKey(targets[i]) = CanonicalKey(rule)}
             general == {i \in Candidates(rule) : Subsumes(targets[i], rule)}
  <1>1. Match(rule) = IF alpha # {} THEN <<"recalled_alpha", targets[First(alpha)]>>
                      ELSE IF general # {} THEN <<"recalled_subsumed", targets[First(general)]>>
                      ELSE <<"unmatched", Nothing>>
    BY DEF Match
  <1>2. alpha \subseteq Nat /\ general \subseteq Nat
    BY DEF Candidates, TargetsOK
  <1>3. \A i \in alpha : i \in 1 .. Len(targets) /\ CanonicalKey(targets[i]) = CanonicalKey(rule)
    OBVIOUS
  <1>4. \A i \in general : /\ i \in 1 .. Len(targets)
                           /\ HeadKey(targets[i]) = HeadKey(rule)
                           /\ Subsumes(targets[i], rule)
    BY DEF Candidates
  <1> HIDE DEF alpha, general
  <1>5. CASE alpha # {}
    <2>1. First(alpha) \in alpha
      BY <1>2, <1>5, FirstIs
    <2>2. QED
      BY <1>1, <1>3, <1>5, <2>1
  <1>6. CASE alpha = {} /\ general # {}
    <2>1. First(general) \in general
      BY <1>2, <1>6, FirstIs
    <2>2. QED
      BY <1>1, <1>4, <1>6, <2>1
  <1>7. CASE alpha = {} /\ general = {}
    BY <1>1, <1>7
  <1>8. QED
    BY <1>5, <1>6, <1>7

Statuses == {"recalled_alpha", "recalled_subsumed", "covered_on_instance", "unmatched", "not_applicable"}
Categories == {"technical_exclusion", "vacuous", "non_exact", "exact_non_horn_tgd",
               "other_out_of_scope", "comparable_exact"}

(* A comparable rule: it has been evaluated and is looked up.              *)
Comparable(rule, a) ==
    /\ a.category = "comparable_exact" /\ a.class = "comparable_true" /\ a.evaluable /\ a.eligible
    /\ Parsed(rule) /\ db # Nothing /\ ~ Invalid(AllAtoms(rule)) /\ Exact(rule)
    /\ Horn(rule) /\ Structural(rule)
    /\ \/ /\ a.status = "covered_on_instance" /\ a.matched = Nothing
          /\ Match(rule)[1] = "unmatched" /\ coverage = "instance" /\ Covered(rule)
       \/ /\ a.status = Match(rule)[1] /\ a.matched = Match(rule)[2]
          /\ ~ (Match(rule)[1] = "unmatched" /\ coverage = "instance" /\ Covered(rule))

(* Any other: it has no match.                                             *)
Incomparable(rule, a) ==
    /\ a.status = "not_applicable" /\ a.matched = Nothing
    /\ \/ a.category = "technical_exclusion" /\ a.class \in {"out_of_scope", "parse_failed"}
       \/ /\ a.category = "vacuous" /\ a.class = "vacuous"
          /\ Parsed(rule) /\ db # Nothing /\ ~ Invalid(AllAtoms(rule))
          /\ HeadEntailed(rule) \/ ForcedSameTuple(rule) \/ NoEvidence(rule)
       \/ a.category = "other_out_of_scope" /\ a.class = "out_of_scope"
       \/ a.category = "exact_non_horn_tgd" /\ a.class = "out_of_scope"
       \/ /\ a.category = "non_exact" /\ a.class = "approximate"
          /\ a.evaluable /\ a.eligible = Eligible(rule)
          /\ Parsed(rule) /\ db # Nothing /\ ~ Invalid(AllAtoms(rule)) /\ ~ Exact(rule)

(* _audit_rule ends in one of two ways.                                    *)
LEMMA AuditCases ==
    ASSUME NEW rule
    PROVE  /\ Audit(rule).rule = rule
           /\ Comparable(rule, Audit(rule)) \/ Incomparable(rule, Audit(rule))
  <1>1. CASE ~ Parsed(rule) \/ db = Nothing \/ Invalid(AllAtoms(rule))
    BY <1>1 DEF Audit, Technical, Record, NotApplicable, Incomparable
  <1>2. CASE /\ Parsed(rule) /\ db # Nothing /\ ~ Invalid(AllAtoms(rule))
             /\ HeadEntailed(rule) \/ ForcedSameTuple(rule)
    BY <1>2 DEF Audit, Record, NotApplicable, Incomparable
  <1>3. CASE /\ Parsed(rule) /\ db # Nothing /\ ~ Invalid(AllAtoms(rule))
             /\ ~ HeadEntailed(rule) /\ ~ ForcedSameTuple(rule) /\ ~ Structural(rule)
    BY <1>3 DEF Audit, Record, NotApplicable, Incomparable
  <1>4. CASE /\ Parsed(rule) /\ db # Nothing /\ ~ Invalid(AllAtoms(rule))
             /\ ~ HeadEntailed(rule) /\ ~ ForcedSameTuple(rule) /\ Structural(rule)
    <2>1. Audit(rule) = Evaluated(rule)
      BY <1>4 DEF Audit
    <2>2. CASE NoKey(AllAtoms(rule))
      BY <1>4, <2>1, <2>2 DEF Evaluated, Technical, Record, NotApplicable, Incomparable
    <2>3. CASE ~ NoKey(AllAtoms(rule)) /\ NoEvidence(rule)
      BY <1>4, <2>1, <2>3 DEF Evaluated, Record, NotApplicable, Incomparable
    <2>4. CASE ~ NoKey(AllAtoms(rule)) /\ ~ NoEvidence(rule) /\ ~ Exact(rule)
      BY <1>4, <2>1, <2>4 DEF Evaluated, Record, NotApplicable, Incomparable
    <2>5. CASE ~ NoKey(AllAtoms(rule)) /\ ~ NoEvidence(rule) /\ Exact(rule) /\ ~ Horn(rule)
      BY <1>4, <2>1, <2>5 DEF Evaluated, Record, NotApplicable, Incomparable
    <2>6. CASE ~ NoKey(AllAtoms(rule)) /\ ~ NoEvidence(rule) /\ Exact(rule) /\ Horn(rule)
      <3> DEFINE found == Match(rule)
                 covered == found[1] = "unmatched" /\ coverage = "instance" /\ Covered(rule)
                 match == IF covered THEN <<"covered_on_instance", Nothing>> ELSE found
      <3>1. Audit(rule) = Record(rule, "comparable_true", "comparable_exact", TRUE, TRUE, match)
        BY <2>1, <2>6 DEF Evaluated
      <3>2. /\ Audit(rule).category = "comparable_exact" /\ Audit(rule).class = "comparable_true"
            /\ Audit(rule).evaluable /\ Audit(rule).eligible /\ Audit(rule).rule = rule
            /\ Audit(rule).status = match[1] /\ Audit(rule).matched = match[2]
        BY <3>1 DEF Record
      <3>3. \/ covered /\ match[1] = "covered_on_instance" /\ match[2] = Nothing
            \/ ~ covered /\ match[1] = found[1] /\ match[2] = found[2]
        OBVIOUS
      <3> HIDE DEF match
      <3>4. QED
        BY <1>4, <2>6, <3>2, <3>3 DEF Comparable
    <2>7. QED
      BY <2>2, <2>3, <2>4, <2>5, <2>6
  <1>5. QED
    BY <1>1, <1>2, <1>3, <1>4

LEMMA AuditKinds ==
    ASSUME NEW rule, TargetsOK
    PROVE  /\ Audit(rule).status \in Statuses
           /\ Audit(rule).category \in Categories
  <1>1. Match(rule)[1] \in {"recalled_alpha", "recalled_subsumed", "unmatched"}
    BY MatchCases
  <1>2. QED
    BY <1>1, AuditCases DEF Comparable, Incomparable, Statuses, Categories

(* Rules of one canonical key have one verdict (_audit_rule, _match_rule): *)
(* they are of one category and, unless they list the columns of their     *)
(* heads differently under instance coverage, have one match.              *)
THEOREM SameVerdict ==
    ASSUME NEW r, NEW q, ProperRule(r), ProperRule(q), Parsed(r), Parsed(q),
           CanonicalKey(r) = CanonicalKey(q), TargetsOK, CacheOK, DatabaseOK
    PROVE  /\ Audit(r).category = Audit(q).category
           /\ (coverage = "instance" => SameHeadShape(r, q)) => Audit(r).status = Audit(q).status
  <1>1. CASE db = Nothing
    BY <1>1 DEF Audit, Technical, Record, NotApplicable
  <1>2. CASE db # Nothing
    <2>0. Alike(r, q) /\ IsFiniteSet(Rows)
      BY <1>2, KeySays DEF DatabaseOK
    <2>1. /\ Invalid(AllAtoms(r)) <=> Invalid(AllAtoms(q))
          /\ NoKey(AllAtoms(r)) <=> NoKey(AllAtoms(q))
          /\ HeadEntailed(r) <=> HeadEntailed(q)
          /\ ForcedSameTuple(r) <=> ForcedSameTuple(q)
      BY <2>0, AlikeTests
    <2>2. (Structural(r) <=> Structural(q)) /\ (Horn(r) <=> Horn(q))
      BY <2>0, AlikeStructural, AlikeHorn
    <2>3. (NoEvidence(r) <=> NoEvidence(q)) /\ (Exact(r) <=> Exact(q))
      <3>1. \A d : Predictions(r, d) = Predictions(q, d) /\ Support(r, d) = Support(q, d)
        BY <2>0, AlikeCounts
      <3>2. /\ Predictions(r, TRUE) = Predictions(q, TRUE)
            /\ Support(r, TRUE) = Support(q, TRUE) /\ Support(r, FALSE) = Support(q, FALSE)
        BY <3>1
      <3>3. QED
        BY <3>2 DEF NoEvidence, Exact
    <2>4. Horn(r) => Match(r) = Match(q) /\ (SameHeadShape(r, q) => (Covered(r) <=> Covered(q)))
      BY SameKeyMatch, SameKeyCovered
    <2>5. CASE /\ ~ Invalid(AllAtoms(r)) /\ ~ HeadEntailed(r) /\ ~ ForcedSameTuple(r)
               /\ Structural(r) /\ ~ NoKey(AllAtoms(r)) /\ ~ NoEvidence(r) /\ Exact(r) /\ Horn(r)
      <3> DEFINE match(x) == IF Match(x)[1] = "unmatched" /\ coverage = "instance" /\ Covered(x)
                             THEN <<"covered_on_instance", Nothing>> ELSE Match(x)
      <3>1. /\ Audit(r) = Record(r, "comparable_true", "comparable_exact", TRUE, TRUE, match(r))
            /\ Audit(q) = Record(q, "comparable_true", "comparable_exact", TRUE, TRUE, match(q))
        BY <1>2, <2>1, <2>2, <2>3, <2>5 DEF Audit, Evaluated
      <3>2. (coverage = "instance" => SameHeadShape(r, q)) => match(r) = match(q)
        BY <2>4, <2>5
      <3> HIDE DEF match
      <3>3. /\ Audit(r).category = "comparable_exact" /\ Audit(r).status = match(r)[1]
            /\ Audit(q).category = "comparable_exact" /\ Audit(q).status = match(q)[1]
        BY <3>1 DEF Record
      <3>4. QED
        BY <3>2, <3>3
    <2>6. CASE ~ (/\ ~ Invalid(AllAtoms(r)) /\ ~ HeadEntailed(r) /\ ~ ForcedSameTuple(r)
                  /\ Structural(r) /\ ~ NoKey(AllAtoms(r)) /\ ~ NoEvidence(r) /\ Exact(r) /\ Horn(r))
      BY <1>2, <2>1, <2>2, <2>3, <2>6 DEF Audit, Evaluated, Technical, Record, NotApplicable
    <2>7. QED
      BY <2>5, <2>6
  <1>3. QED
    BY <1>1, <1>2

(* The fields of a record.                                                 *)
Fields == {"rule", "class", "category", "evaluable", "eligible", "status", "matched"}

(* Also once the cache has been reused (_rematch_cached_record).           *)
Excluded == {"parse_failed", "out_of_scope", "vacuous"}

LEMMA ExcludedCategories ==
    ASSUME NEW rule
    PROVE  /\ Audit(rule).class \in Excluded
                 <=> Audit(rule).category \notin {"non_exact", "comparable_exact"}
           /\ Audit(rule).class \notin Excluded => db # Nothing
  <1>1. Comparable(rule, Audit(rule)) \/ Incomparable(rule, Audit(rule))
    BY AuditCases
  <1> QED
    BY <1>1 DEF Comparable, Incomparable, Excluded

LEMMA SameRematch ==
    ASSUME NEW r, NEW q, ProperRule(r), ProperRule(q), CanonicalKey(r) = CanonicalKey(q),
           TargetsOK, DatabaseOK, NEW a, NEW b,
           DOMAIN a = Fields, DOMAIN b = Fields, a.rule = r, b.rule = q,
           a.class \in Excluded <=> b.class \in Excluded,
           a.class \notin Excluded => db # Nothing
    PROVE  Rematch(a).status = Rematch(b).status
  <1>1. PICK p, s : AlikeBy(r, q, p, s)
    BY KeySays DEF Alike
  <1>2. Reparses(r) <=> Reparses(q)
    BY <1>1 DEF AlikeBy, Reparses
  <1>3. InTargetClass(r) <=> InTargetClass(q)
    BY <1>1, AlikeHorn, AlikeStructural DEF Alike, InTargetClass
  <1>4. InTargetClass(r) => Match(r) = Match(q)
    BY SameKeyMatch DEF InTargetClass
  <1>5. a.class \notin Excluded => /\ Support(r, TRUE) = Support(q, TRUE)
                                  /\ Predictions(r, TRUE) = Predictions(q, TRUE)
    BY <1>1, AlikeCounts DEF Alike, DatabaseOK
  <1>6. CASE a.class \in Excluded \/ ~ InTargetClass(r)
    <2>1. b.class \in Excluded \/ ~ InTargetClass(q)
      BY <1>3, <1>6
    <2> QED
      BY <1>6, <2>1 DEF Rematch, Excluded, Fields
  <1>7. CASE a.class \notin Excluded /\ InTargetClass(r)
    <2> DEFINE low == 100 * Support(r, TRUE) < threshold * Predictions(r, TRUE)
    <2>1. /\ Rematch(a).status = IF low \/ ~ Reparses(r) THEN "not_applicable" ELSE Match(r)[1]
          /\ Rematch(b).status = IF low \/ ~ Reparses(q) THEN "not_applicable" ELSE Match(q)[1]
      BY <1>3, <1>5, <1>7 DEF Rematch, Excluded, Fields
    <2> HIDE DEF low
    <2>2. Match(r)[1] = Match(q)[1]
      BY <1>4, <1>7
    <2> QED
      BY <1>2, <2>1, <2>2
  <1> QED
    BY <1>6, <1>7

-----------------------------------------------------------------------------
(* The inductive invariant: what is in the target and in the cache, and    *)
(* that the records are the verdicts on rules, now that the target is      *)
(* complete.                                                               *)
Verdicts ==
    IF rematched THEN {Rematch(Audit(rule)) : rule \in Dependencies}
    ELSE {Audit(rule) : rule \in Dependencies}

RecordsOK ==
    /\ db \in Databases
    /\ threshold \in Thresholds
    /\ rematched \in BOOLEAN
    /\ rematched => coverage # "instance"
    /\ records \in Seq(Verdicts)

RulesOK == TargetsOK /\ CacheOK /\ RecordsOK

LEMMA TheDatabase ==
    ASSUME db \in Databases
    PROVE  DatabaseOK
  <1>1. db = Nothing \/ (DOMAIN db = DOMAIN Schema /\ \A t \in DOMAIN db : IsFiniteSet(db[t]))
    BY RulesAssumption
  <1>2. ASSUME DOMAIN db = DOMAIN Schema, \A t \in DOMAIN db : IsFiniteSet(db[t])
        PROVE  IsFiniteSet(Rows)
    <2> DEFINE T == {db[t] : t \in DOMAIN db}
    <2>1. IsFiniteSet(DOMAIN db)
      BY <1>2, RulesAssumption
    <2>2. IsFiniteSet(T)
      <3> DEFINE f == [t \in DOMAIN db |-> db[t]]
      <3>1. f \in Surjection(DOMAIN db, T)
        BY DEF Surjection
      <3> QED
        BY <2>1, <3>1, FS_Surjection
    <2>3. \A x \in T : IsFiniteSet(x)
      BY <1>2
    <2>4. IsFiniteSet(UNION T)
      <3> HIDE DEF T
      <3> QED
        BY <2>2, <2>3, FS_UNION
    <2> QED
      BY <2>4 DEF Rows
  <1> QED
    BY <1>1, <1>2 DEF DatabaseOK

LEMMA CleanDatabase ==
    ASSUME db \in Databases, db # Nothing, NoNulls
    PROVE  Clean
  BY RulesAssumption DEF Clean

LEMMA CoveredBefore ==
    ASSUME NEW rule
    PROVE  TargetsOK /\ CacheOK => (Covered(rule) <=> Derived(rule))
  BY CoveredIsDerived

LEMMA CoveredAfter ==
    ASSUME NEW rule
    PROVE  (TargetsOK /\ CacheOK => (Covered(rule) <=> Derived(rule)))'
  <1>1. TargetsOK /\ CacheOK => (Covered(rule) <=> Derived(rule))
    BY CoveredBefore
  <1> QED
    BY <1>1, PTL

(* The verdict on a rule is the same after a step that leaves the target   *)
(* and the database alone, whatever it adds to the cache.                  *)
LEMMA AuditStable ==
    ASSUME NEW rule, TargetsOK, CacheOK, TargetsOK', CacheOK',
           UNCHANGED <<db, coverage, threshold, targets>>
    PROVE  /\ Audit(rule)' = Audit(rule)
           /\ \A r : Rematch(r)' = Rematch(r)
  <1>1. \A a, d : Joins(a, d)' = Joins(a, d)
    BY DEF Joins
  <1>2. \A a, V, d : Assignments(a, V, d)' = Assignments(a, V, d)
    BY <1>1 DEF Assignments
  <1>3. \A r, d : /\ Predictions(r, d)' = Predictions(r, d)
                  /\ Support(r, d)' = Support(r, d)
    BY <1>2 DEF Predictions, Support
  <1>4. \A r : /\ HeadRows(r)' = HeadRows(r)
               /\ Exact(r)' = Exact(r)
               /\ NoEvidence(r)' = NoEvidence(r)
    BY <1>2, <1>3 DEF HeadRows, Exact, NoEvidence
  <1>5. \A r : Match(r)' = Match(r)
    BY DEF Match, Candidates
  <1>6. Derived(rule)' = Derived(rule)
    BY <1>4 DEF Derived
  <1>7. Covered(rule)' <=> Covered(rule)
    <2>1. Covered(rule) <=> Derived(rule)
      BY CoveredBefore
    <2>2. Covered(rule)' <=> Derived(rule)'
      BY CoveredAfter
    <2> QED
      BY <1>6, <2>1, <2>2
  <1>8. \A c : Technical(rule, c)' = Technical(rule, c)
    BY DEF Technical, Record, NotApplicable
  <1>9. Evaluated(rule)' = Evaluated(rule)
    BY <1>4, <1>5, <1>7, <1>8 DEF Evaluated
  <1>10. Audit(rule)' = Audit(rule)
    BY <1>8, <1>9 DEF Audit
  <1>11. \A r : Rematch(r)' = Rematch(r)
    BY <1>3, <1>5 DEF Rematch
  <1> QED
    BY <1>10, <1>11

LEMMA TargetsStep ==
    ASSUME TargetsOK, [Next]_vars
    PROVE  /\ TargetsOK'
           /\ Len(targets) \in Nat /\ Len(targets) <= Len(targets')
           /\ \A i \in 1 .. Len(targets) : targets'[i] = targets[i]
  <1>1. Len(targets) \in Nat /\ targets \in Seq(Dependencies)
    BY DEF TargetsOK
  <1>2. CASE targets' = targets
    BY <1>1, <1>2 DEF TargetsOK
  <1>3. ASSUME NEW rule \in Dependencies, LoadTarget(rule)
        PROVE  /\ TargetsOK'
               /\ Len(targets) <= Len(targets')
               /\ \A i \in 1 .. Len(targets) : targets'[i] = targets[i]
    <2>1. Parsed(rule) /\ Horn(rule) /\ targets' = Append(targets, rule)
      BY <1>3 DEF LoadTarget
    <2>2. ProperRule(rule)
      BY <2>1, RulesAssumption DEF ProperRule
    <2>3. /\ targets' \in Seq(Dependencies) /\ Len(targets') = Len(targets) + 1
          /\ \A i \in 1 .. Len(targets) : targets'[i] = targets[i]
          /\ targets'[Len(targets) + 1] = rule
      BY <1>1, <2>1
    <2>4. \A i \in 1 .. Len(targets') : i \in 1 .. Len(targets) \/ i = Len(targets) + 1
      BY <1>1, <2>3
    <2>5. \A i \in 1 .. Len(targets') : /\ Parsed(targets'[i]) /\ Horn(targets'[i])
                                        /\ ProperRule(targets'[i])
      BY <2>1, <2>2, <2>3, <2>4 DEF TargetsOK
    <2>6. TargetsOK'
      BY <2>3, <2>5 DEF TargetsOK
    <2> QED
      BY <1>1, <2>3, <2>6
  <1>4. (\E rule \in Dependencies : LoadTarget(rule)) \/ targets' = targets
    BY DEF Next, vars, AuditDependency, ReuseCache
  <1> QED
    BY <1>1, <1>2, <1>3, <1>4

LEMMA CacheStep ==
    ASSUME RulesOK, [Next]_vars
    PROVE  CacheOK'
  <1>1. TargetsOK /\ CacheOK
    BY DEF RulesOK
  <1>2. /\ TargetsOK'
        /\ Len(targets) \in Nat /\ Len(targets) <= Len(targets')
        /\ \A i \in 1 .. Len(targets) : targets'[i] = targets[i]
    BY <1>1, TargetsStep
  <1>3. Len(targets') \in Nat /\ \A i \in 1 .. Len(targets) : i \in 1 .. Len(targets')
    BY <1>2 DEF TargetsOK
  <1>4. db' = db
    BY DEF Next, vars, LoadTarget, AuditDependency, ReuseCache
  <1>5. \A a, V, d : Assignments(a, V, d)' = Assignments(a, V, d)
    BY <1>4 DEF Assignments, Joins
  <1>6. \A r : HeadRows(r)' = HeadRows(r)
    BY <1>5 DEF HeadRows
  <1>7. ASSUME cache' = cache
        PROVE  CacheOK'
    <2>1. \A k \in DOMAIN cache : \E i \in 1 .. Len(targets) :
             CanonicalKey(targets[i]) = k /\ cache[k] = HeadRows(targets[i])
      BY <1>1 DEF CacheOK
    <2>2. \A k \in DOMAIN cache : \E i \in 1 .. Len(targets') :
             CanonicalKey(targets'[i]) = k /\ cache[k] = HeadRows(targets'[i])
      BY <2>1, <1>2, <1>3
    <2> QED
      BY <2>2, <1>6, <1>7 DEF CacheOK
  <1>8. ASSUME NEW rule, cache' = Remember(rule), targets' = targets
        PROVE  CacheOK'
    <2>1. \A k \in DOMAIN Remember(rule) : \E i \in 1 .. Len(targets) :
             CanonicalKey(targets[i]) = k /\ Remember(rule)[k] = HeadRows(targets[i])
      BY <1>1, RememberedRows
    <2> QED
      BY <2>1, <1>6, <1>8 DEF CacheOK
  <1>9. \/ cache' = cache
        \/ \E rule \in Dependencies : cache' = Remember(rule) /\ targets' = targets
    BY DEF Next, vars, LoadTarget, AuditDependency, ReuseCache
  <1> QED
    BY <1>7, <1>8, <1>9

LEMMA RecordsStep ==
    ASSUME RulesOK, [Next]_vars
    PROVE  RecordsOK'
  <1> USE DEF RulesOK
  <1>1. TargetsOK /\ CacheOK /\ TargetsOK' /\ CacheOK'
    BY TargetsStep, CacheStep
  <1>2. /\ db' \in Databases /\ threshold' \in Thresholds /\ coverage' = coverage
        /\ db' = db /\ threshold' = threshold
    BY DEF RecordsOK, Next, vars, LoadTarget, AuditDependency, ReuseCache
  <1>3. ASSUME targets' = targets
        PROVE  \A rule : Audit(rule)' = Audit(rule) /\ Rematch(Audit(rule))' = Rematch(Audit(rule))
    <2>1. UNCHANGED <<db, coverage, threshold, targets>>
      BY <1>2, <1>3
    <2>2. \A rule : Audit(rule)' = Audit(rule) /\ \A r : Rematch(r)' = Rematch(r)
      BY <1>1, <2>1, AuditStable
    <2> QED
      BY <2>2 DEF Rematch
  <1>4. ASSUME targets' = targets, rematched' = rematched
        PROVE  Verdicts' = Verdicts
    BY <1>3, <1>4 DEF Verdicts
  <1>5. CASE UNCHANGED vars
    BY <1>2, <1>4, <1>5 DEF vars, RecordsOK
  <1>6. ASSUME NEW rule \in Dependencies, LoadTarget(rule)
        PROVE  RecordsOK'
    BY <1>2, <1>6 DEF LoadTarget, RecordsOK
  <1>7. ASSUME NEW rule \in Dependencies, AuditDependency(rule)
        PROVE  RecordsOK'
    <2>1. /\ ~ rematched /\ rematched' = rematched /\ targets' = targets
          /\ records' = Append(records, Audit(rule))
      BY <1>7 DEF AuditDependency
    <2>2. Audit(rule) \in Verdicts
      BY <2>1 DEF Verdicts
    <2>3. records' \in Seq(Verdicts)
      BY <2>1, <2>2 DEF RecordsOK
    <2> QED
      BY <1>2, <1>4, <2>1, <2>3 DEF RecordsOK
  <1>8. CASE ReuseCache
    <2>1. /\ ~ rematched /\ rematched' = TRUE /\ targets' = targets /\ coverage # "instance"
          /\ records' = [i \in 1 .. Len(records) |-> Rematch(records[i])]
      BY <1>8 DEF ReuseCache
    <2>2. Verdicts = {Audit(rule) : rule \in Dependencies}
      BY <2>1 DEF Verdicts
    <2>3. Verdicts' = {Rematch(Audit(rule)) : rule \in Dependencies}
      BY <1>3, <2>1 DEF Verdicts
    <2>4. \A v \in Verdicts : Rematch(v) \in Verdicts'
      BY <2>2, <2>3
    <2>5. records' \in Seq(Verdicts')
      <3>1. records \in Seq(Verdicts) /\ Len(records) \in Nat
        BY DEF RecordsOK
      <3>2. \A i \in 1 .. Len(records) : records[i] \in Verdicts
        BY <3>1
      <3>3. \A i \in 1 .. Len(records) : Rematch(records[i]) \in Verdicts'
        BY <3>2, <2>4
      <3> DEFINE V == Verdicts'
      <3>4. [i \in 1 .. Len(records) |-> Rematch(records[i])] \in Seq(V)
        BY <3>1, <3>3
      <3> QED
        BY <3>4, <2>1
    <2> QED
      BY <1>2, <2>1, <2>5 DEF RecordsOK
  <1> QED
    BY <1>5, <1>6, <1>7, <1>8 DEF Next

(* The records are what _audit_rule and the cache make of rules, against   *)
(* the target's rules and the rows they derive, in every state.            *)
THEOREM RulesKept == Spec => []RulesOK
  <1>1. Init => RulesOK
    <2> SUFFICES ASSUME Init
                 PROVE  RulesOK
      OBVIOUS
    <2>1. /\ db \in Databases /\ threshold \in Thresholds /\ rematched = FALSE
          /\ targets = << >> /\ cache = << >> /\ records = << >>
      BY DEF Init
    <2>2. TargetsOK
      BY <2>1 DEF TargetsOK
    <2>3. CacheOK
      <3>1. DOMAIN cache = {}
        BY <2>1
      <3> QED
        BY <3>1 DEF CacheOK
    <2>4. records \in Seq(Verdicts)
      BY <2>1
    <2>5. RecordsOK
      BY <2>1, <2>4 DEF RecordsOK
    <2> QED
      BY <2>2, <2>3, <2>5 DEF RulesOK
  <1>2. RulesOK /\ [Next]_vars => RulesOK'
    <2> SUFFICES ASSUME RulesOK, [Next]_vars
                 PROVE  RulesOK'
      OBVIOUS
    <2> QED
      BY TargetsStep, CacheStep, RecordsStep DEF RulesOK
  <1> QED
    BY <1>1, <1>2, PTL DEF Spec

-----------------------------------------------------------------------------
(* What the records say                                                    *)

LEMMA AuditFields ==
    ASSUME NEW rule
    PROVE  DOMAIN Audit(rule) = Fields
  <1>1. \A a, b, c, d, e, f : DOMAIN Record(a, b, c, d, e, f) = Fields
    BY DEF Record, Fields
  <1>2. \A c : DOMAIN Technical(rule, c) = Fields
    BY <1>1 DEF Technical
  <1>3. DOMAIN Evaluated(rule) = Fields
    <2> DEFINE record(class, category, eligible, match) == Record(rule, class, category, TRUE, eligible, match)
               match == IF Match(rule)[1] = "unmatched" /\ coverage = "instance" /\ Covered(rule)
                        THEN <<"covered_on_instance", Nothing>> ELSE Match(rule)
    <2>1. \/ Evaluated(rule) = Technical(rule, "out_of_scope")
          \/ Evaluated(rule) = record("vacuous", "vacuous", Eligible(rule), NotApplicable)
          \/ Evaluated(rule) = record("approximate", "non_exact", Eligible(rule), NotApplicable)
          \/ Evaluated(rule) = record("comparable_true", "comparable_exact", TRUE, match)
          \/ Evaluated(rule) = record("out_of_scope", "exact_non_horn_tgd", FALSE, NotApplicable)
      BY DEF Evaluated
    <2> QED
      BY <1>1, <1>2, <2>1
  <1>4. \/ Audit(rule) = Technical(rule, "out_of_scope")
        \/ Audit(rule) = Technical(rule, "parse_failed")
        \/ Audit(rule) = Record(rule, "vacuous", "vacuous", TRUE, Eligible(rule), NotApplicable)
        \/ Audit(rule) = Record(rule, "out_of_scope", "other_out_of_scope", TRUE, FALSE, NotApplicable)
        \/ Audit(rule) = Evaluated(rule)
    BY DEF Audit
  <1> QED
    BY <1>1, <1>2, <1>3, <1>4

LEMMA RematchSays ==
    ASSUME NEW a, DOMAIN a = Fields
    PROVE  /\ Rematch(a).rule = a.rule
           /\ Rematch(a).category = a.category
           /\ \/ Rematch(a).status = "not_applicable"
              \/ /\ Rematch(a).status = Match(a.rule)[1]
                 /\ Rematch(a).matched = Match(a.rule)[2]
                 /\ InTargetClass(a.rule)
                 /\ a.class \notin {"parse_failed", "out_of_scope", "vacuous"}
  BY DEF Rematch, Fields

(* Where a record comes from.                                              *)
LEMMA RecordedSays ==
    ASSUME RulesOK, NEW r \in Recorded
    PROVE  /\ r.rule \in Dependencies
           /\ ~ rematched => r = Audit(r.rule)
           /\ rematched => r = Rematch(Audit(r.rule)) /\ coverage # "instance"
           /\ r.category = Audit(r.rule).category
           /\ Parsed(r.rule) => ProperRule(r.rule)
  <1>1. PICK i \in 1 .. Len(records) : r = records[i]
    BY DEF Recorded
  <1>2. r \in Verdicts /\ rematched \in BOOLEAN /\ (rematched => coverage # "instance")
    BY <1>1 DEF RulesOK, RecordsOK
  <1>3. \E rule \in Dependencies : \/ ~ rematched /\ r = Audit(rule)
                                   \/ rematched /\ r = Rematch(Audit(rule))
    BY <1>2 DEF Verdicts
  <1>4. \A rule : /\ Audit(rule).rule = rule
                  /\ Rematch(Audit(rule)).rule = Audit(rule).rule
                  /\ Rematch(Audit(rule)).category = Audit(rule).category
    BY AuditCases, AuditFields, RematchSays
  <1>5. Parsed(r.rule) /\ r.rule \in Dependencies => ProperRule(r.rule)
    BY RulesAssumption DEF ProperRule
  <1> QED
    BY <1>2, <1>3, <1>4, <1>5

(* A rule that counts as recovered has been looked up.                     *)
LEMMA RecalledSays ==
    ASSUME RulesOK, NEW r \in Recorded, r.status \in {"recalled_alpha", "recalled_subsumed"}
    PROVE  /\ ProperRule(r.rule) /\ Horn(r.rule) /\ ~ Invalid(AllAtoms(r.rule))
           /\ r.status = Match(r.rule)[1] /\ r.matched = Match(r.rule)[2]
           /\ db # Nothing
  <1> DEFINE a == Audit(r.rule)
  <1>1. /\ ~ rematched => r = a
        /\ rematched => r = Rematch(a)
        /\ Parsed(r.rule) => ProperRule(r.rule)
        /\ rematched \in BOOLEAN
    BY RecordedSays DEF RulesOK, RecordsOK
  <1>2. a.rule = r.rule /\ (Comparable(r.rule, a) \/ Incomparable(r.rule, a)) /\ DOMAIN a = Fields
    BY AuditCases, AuditFields
  <1>3. a.status = "covered_on_instance" \/ a.status = "not_applicable"
            => a.status \notin {"recalled_alpha", "recalled_subsumed"}
    OBVIOUS
  <1>4. CASE ~ rematched
    <2>1. r = a
      BY <1>1, <1>4
    <2>2. Comparable(r.rule, a)
      BY <1>2, <2>1 DEF Incomparable
    <2> HIDE DEF a
    <2> QED
      BY <1>1, <2>1, <2>2 DEF Comparable
  <1>5. CASE rematched
    <2>1. /\ r.status = Match(r.rule)[1] /\ r.matched = Match(r.rule)[2]
          /\ InTargetClass(r.rule)
          /\ a.class \notin {"parse_failed", "out_of_scope", "vacuous"}
      <3> HIDE DEF a
      <3>1. \/ Rematch(a).status = "not_applicable"
            \/ /\ Rematch(a).status = Match(a.rule)[1]
               /\ Rematch(a).matched = Match(a.rule)[2]
               /\ InTargetClass(a.rule)
               /\ a.class \notin {"parse_failed", "out_of_scope", "vacuous"}
        BY <1>2, RematchSays
      <3> QED
        BY <1>1, <1>2, <1>5, <3>1
    <2>2. Parsed(r.rule) /\ db # Nothing /\ ~ Invalid(AllAtoms(r.rule))
      <3> HIDE DEF a
      <3> QED
        BY <1>2, <2>1 DEF Comparable, Incomparable
    <2> QED
      BY <1>1, <2>1, <2>2 DEF InTargetClass
  <1> QED
    BY <1>1, <1>4, <1>5

(* An unmatched rule is covered on the instance when, and only when, the   *)
(* target's rules of its head derive what it derives (CoverageIsDerived):  *)
(* what the cache holds under a key, every target rule of the key derives. *)
THEOREM CoverageIsKept == Spec => []CoverageIsDerived
  <1>1. RulesOK => CoverageIsDerived
    <2> SUFFICES ASSUME RulesOK, NEW r \in Recorded, coverage = "instance",
                        r.status \in {"covered_on_instance", "unmatched"}
                 PROVE  r.status = "covered_on_instance" <=> Derived(r.rule)
      BY DEF CoverageIsDerived, Derived
    <2> DEFINE a == Audit(r.rule)
    <2>1. r = a
      BY RecordedSays DEF RulesOK, RecordsOK
    <2>2. Comparable(r.rule, a)
      <3>1. Comparable(r.rule, a) \/ Incomparable(r.rule, a)
        BY AuditCases
      <3>2. a.status # "not_applicable"
        BY <2>1
      <3> QED
        BY <3>1, <3>2 DEF Incomparable
    <2>3. Covered(r.rule) <=> Derived(r.rule)
      BY CoveredIsDerived DEF RulesOK
    <2>4. Match(r.rule)[1] \in {"recalled_alpha", "recalled_subsumed", "unmatched"}
      BY MatchCases DEF RulesOK
    <2> HIDE DEF a
    <2>5. \/ r.status = "covered_on_instance" /\ Covered(r.rule)
          \/ /\ r.status = Match(r.rule)[1]
             /\ ~ (Match(r.rule)[1] = "unmatched" /\ Covered(r.rule))
      BY <2>1, <2>2 DEF Comparable
    <2> QED
      BY <2>3, <2>4, <2>5
  <1> QED
    BY <1>1, RulesKept, PTL

-----------------------------------------------------------------------------
(* A body and the whole rule on the database                               *)

(* Tuples that match the rule match its body.                              *)
BodyPart(r, m) == [i \in 1 .. Len(r.body) |-> m[i]]

LEMMA BodyPartJoins ==
    ASSUME NEW r, ProperRule(r), NEW disjoint, NEW m \in Joins(AllAtoms(r), disjoint)
    PROVE  BodyPart(r, m) \in Joins(r.body, disjoint)
  <1> DEFINE b == r.body
             a == AllAtoms(r)
             k == BodyPart(r, m)
  <1>1. /\ m \in [1 .. Len(a) -> Rows]
        /\ \A i \in 1 .. Len(a) : m[i] \in db[a[i].table]
        /\ \A i, j \in 1 .. Len(a) : \A c \in Columns(a[i]), d \in Columns(a[j]) :
              a[i].terms[c] = a[j].terms[d] => m[i][c] = m[j][d]
        /\ disjoint => Disjoint(a, m)
    BY JoinFacts
  <1>2. /\ Len(b) \in Nat /\ Len(a) \in Nat
        /\ \A i \in 1 .. Len(b) : i \in 1 .. Len(a) /\ a[i] = b[i]
    BY RuleFacts, AtomFacts
  <1>3. k \in [1 .. Len(b) -> Rows] /\ \A i \in 1 .. Len(b) : k[i] = m[i]
    BY <1>1, <1>2 DEF BodyPart
  <1>4. \A i \in 1 .. Len(b) : k[i] \in db[b[i].table]
    BY <1>1, <1>2, <1>3
  <1>5. \A i, j \in 1 .. Len(b) : \A c \in Columns(b[i]), d \in Columns(b[j]) :
           b[i].terms[c] = b[j].terms[d] /\ <<i, c>> # <<j, d>> => SqlEqual(k[i][c], k[j][d])
    <2> TAKE i, j \in 1 .. Len(b)
    <2> TAKE c \in Columns(b[i]), d \in Columns(b[j])
    <2>1. i \in 1 .. Len(a) /\ j \in 1 .. Len(a) /\ a[i] = b[i] /\ a[j] = b[j]
      BY <1>2
    <2> HIDE DEF a, b, k
    <2>2. a[i].terms[c] = a[j].terms[d] /\ <<i, c>> # <<j, d>> => SqlEqual(m[i][c], m[j][d])
      BY <2>1, JoinSql DEF a
    <2> QED
      BY <1>3, <2>1, <2>2
  <1>6. ASSUME disjoint
        PROVE  Disjoint(b, k)
    <2> SUFFICES ASSUME NEW e \in SameTable(b)
                 PROVE  \E c \in PrimaryKey[b[e[1]].table] : SqlDiffers(k[e[1]][c], k[e[2]][c])
      BY DEF Disjoint
    <2>1. e[1] \in 1 .. Len(b) /\ e[2] \in 1 .. Len(b)
      BY DEF SameTable
    <2>2. e \in SameTable(a) /\ a[e[1]] = b[e[1]] /\ k[e[1]] = m[e[1]] /\ k[e[2]] = m[e[2]]
      BY <1>2, <1>3, <2>1 DEF SameTable
    <2>3. \E c \in PrimaryKey[a[e[1]].table] : SqlDiffers(m[e[1]][c], m[e[2]][c])
      BY <1>1, <1>6, <2>2 DEF Disjoint
    <2> HIDE DEF a, b, k
    <2> QED
      BY <2>2, <2>3
  <1> HIDE DEF a, k, b
  <1>7. k \in Joins(b, disjoint)
    BY <1>3, <1>4, <1>5, <1>6, IsJoin
  <1> QED
    BY <1>7 DEF k, b

(* The body's variables have the same values in both.                      *)
SameBody(r, n, m) ==
    \A i \in 1 .. Len(r.body) : \A c \in Columns(r.body[i]) : n[i][c] = m[i][c]

LEMMA SeenBody ==
    ASSUME NEW r, ProperRule(r), NEW d, NEW e, NEW n \in Joins(AllAtoms(r), d),
           NEW m \in Joins(r.body, e)
    PROVE  Seen(AllAtoms(r), n, Variables(r.body)) = Seen(r.body, m, Variables(r.body))
              <=> SameBody(r, n, m)
  <1> DEFINE V == Variables(r.body)
             b == r.body
             a == AllAtoms(r)
  <1>1. /\ \A i \in 1 .. Len(b) : i \in 1 .. Len(a) /\ a[i] = b[i]
        /\ WellFormed(b)
    BY RuleFacts
  <1>2. /\ \A v \in V : \E i \in 1 .. Len(b) : \E c \in Columns(b[i]) : v = b[i].terms[c]
        /\ \A i \in 1 .. Len(b) : \A c \in Columns(b[i]) : b[i].terms[c] \in V
    BY <1>1, AtomFacts
  <1>3. \A i \in 1 .. Len(b) : \A c \in Columns(b[i]) :
           Binding(a, n, b[i].terms[c]) = n[i][c] /\ Binding(b, m, b[i].terms[c]) = m[i][c]
    <2> TAKE i \in 1 .. Len(b)
    <2> TAKE c \in Columns(b[i])
    <2>1. i \in 1 .. Len(a) /\ a[i] = b[i] /\ c \in Columns(a[i])
      BY <1>1
    <2>2. Binding(a, n, a[i].terms[c]) = n[i][c]
      BY <2>1, BindingIs
    <2>3. Binding(b, m, b[i].terms[c]) = m[i][c]
      BY BindingIs
    <2> QED
      BY <2>1, <2>2, <2>3
  <1>4. Seen(a, n, V) = Seen(b, m, V) <=> \A v \in V : Binding(a, n, v) = Binding(b, m, v)
    BY DEF Seen
  <1> HIDE DEF V, a
  <1>5. (\A v \in V : Binding(a, n, v) = Binding(b, m, v)) <=> SameBody(r, n, m)
    BY <1>2, <1>3 DEF SameBody
  <1> QED
    BY <1>4, <1>5 DEF V, a

(* A rule has no counter-example when it has as much support as            *)
(* predictions.                                                            *)
Supported(r, d) == \A m \in Joins(r.body, d) : \E n \in Joins(AllAtoms(r), d) : SameBody(r, n, m)

LEMMA CountsSay ==
    ASSUME NEW r, ProperRule(r), IsFiniteSet(Rows), NEW d
    PROVE  /\ Support(r, d) = Predictions(r, d) <=> Supported(r, d)
           /\ Support(r, d) \in Nat /\ Predictions(r, d) \in Nat
           /\ Support(r, d) <= Predictions(r, d)
           /\ Joins(AllAtoms(r), d) = {} => Support(r, d) = 0
  <1> DEFINE V == Variables(r.body)
             P == Assignments(r.body, V, d)
             S == Assignments(AllAtoms(r), V, d)
  <1>1. /\ IsFiniteSet(P) /\ Cardinality(P) \in Nat
        /\ IsFiniteSet(S) /\ Cardinality(S) \in Nat
    BY RuleFacts, FiniteAssignments
  <1>2. /\ \A x : x \in P <=> \E m \in Joins(r.body, d) : x = Seen(r.body, m, V)
        /\ \A x : x \in S <=> \E n \in Joins(AllAtoms(r), d) : x = Seen(AllAtoms(r), n, V)
    BY SeenFacts
  <1>3. \A n \in Joins(AllAtoms(r), d), m \in Joins(r.body, d) :
           Seen(AllAtoms(r), n, V) = Seen(r.body, m, V) <=> SameBody(r, n, m)
    BY SeenBody
  <1>4. \A n \in Joins(AllAtoms(r), d) : BodyPart(r, n) \in Joins(r.body, d) /\ SameBody(r, n, BodyPart(r, n))
    BY BodyPartJoins DEF SameBody, BodyPart
  <1>5. Support(r, d) = Cardinality(S) /\ Predictions(r, d) = Cardinality(P)
    BY DEF Support, Predictions
  <1> HIDE DEF V, P, S
  <1>6. S \subseteq P
    BY <1>2, <1>3, <1>4
  <1>7. Cardinality(S) <= Cardinality(P) /\ (Cardinality(P) = Cardinality(S) => P = S)
    BY <1>1, <1>6, FS_Subset
  <1>8. P = S <=> Supported(r, d)
    <2>1. ASSUME P = S
          PROVE  Supported(r, d)
      BY <1>2, <1>3, <2>1 DEF Supported
    <2>2. ASSUME Supported(r, d)
          PROVE  P \subseteq S
      BY <1>2, <1>3, <2>2 DEF Supported
    <2> QED
      BY <1>6, <2>1, <2>2
  <1>9. Joins(AllAtoms(r), d) = {} => Cardinality(S) = 0
    BY <1>2, FS_EmptySet
  <1> QED
    BY <1>1, <1>5, <1>7, <1>8, <1>9

LEMMA EntailedSupported ==
    ASSUME NEW r, ProperRule(r), HeadEntailed(r), ~ Invalid(AllAtoms(r)), Clean, NEW e, ~ e
    PROVE  Supported(r, e)
  <1> SUFFICES ASSUME NEW m \in Joins(r.body, e)
               PROVE  \E n \in Joins(AllAtoms(r), e) : SameBody(r, n, m)
    BY DEF Supported
  <1> DEFINE b == r.body
             a == AllAtoms(r)
             Like(i, j) == /\ a[i].table = b[j].table /\ a[i].terms = b[j].terms
                           /\ i \in 1 .. Len(b) => j = i
             src == [i \in 1 .. Len(a) |-> CHOOSE j \in 1 .. Len(b) : Like(i, j)]
             n == [i \in 1 .. Len(a) |-> m[src[i]]]
  <1>1. /\ Len(b) \in Nat
        /\ \A i \in 1 .. Len(b) : i \in 1 .. Len(a) /\ a[i] = b[i]
        /\ \A i \in 1 .. Len(a) :
              \/ i \in 1 .. Len(b) /\ a[i] = b[i]
              \/ /\ i > Len(b)
                 /\ i - Len(b) \in 1 .. Len(r.head)
                 /\ a[i] = r.head[i - Len(b)]
    BY RuleFacts
  <1>2. \A h \in 1 .. Len(r.head) : \E j \in 1 .. Len(b) :
           r.head[h].table = b[j].table /\ r.head[h].terms = b[j].terms
    BY DEF HeadEntailed
  <1>3. \A i \in 1 .. Len(a) : \E j \in 1 .. Len(b) : Like(i, j)
    <2> TAKE i \in 1 .. Len(a)
    <2>1. CASE i \in 1 .. Len(b)
      BY <1>1, <2>1
    <2>2. CASE i \notin 1 .. Len(b)
      <3>1. i - Len(b) \in 1 .. Len(r.head) /\ a[i] = r.head[i - Len(b)]
        BY <1>1, <2>2
      <3> QED
        BY <1>2, <2>2, <3>1
    <2> QED
      BY <2>1, <2>2
  <1>4. \A i \in 1 .. Len(a) : src[i] \in 1 .. Len(b) /\ Like(i, src[i])
    BY <1>3
  <1>5. /\ m \in [1 .. Len(b) -> Rows]
        /\ \A i \in 1 .. Len(b) : m[i] \in db[b[i].table]
        /\ \A i, j \in 1 .. Len(b) : \A c \in Columns(b[i]), d \in Columns(b[j]) :
              b[i].terms[c] = b[j].terms[d] => m[i][c] = m[j][d]
    BY JoinFacts
  <1>6. \A i \in 1 .. Len(a) : /\ src[i] \in 1 .. Len(b)
                               /\ a[i].table = b[src[i]].table /\ a[i].terms = b[src[i]].terms
                               /\ Columns(a[i]) = Columns(b[src[i]])
                               /\ i \in 1 .. Len(b) => src[i] = i
    BY <1>4 DEF Columns
  <1> HIDE DEF src, Like
  <1>7. n \in [1 .. Len(a) -> Rows] /\ \A i \in 1 .. Len(a) : n[i] = m[src[i]]
    BY <1>5, <1>6
  <1> HIDE DEF n
  <1>8. \A i \in 1 .. Len(a) : n[i] \in db[a[i].table]
    BY <1>5, <1>6, <1>7
  <1>9. \A i, j \in 1 .. Len(a) : \A c \in Columns(a[i]), d \in Columns(a[j]) :
           a[i].terms[c] = a[j].terms[d] => n[i][c] = n[j][d]
    <2> TAKE i, j \in 1 .. Len(a)
    <2> TAKE c \in Columns(a[i]), d \in Columns(a[j])
    <2>1. /\ src[i] \in 1 .. Len(b) /\ src[j] \in 1 .. Len(b)
          /\ c \in Columns(b[src[i]]) /\ d \in Columns(b[src[j]])
          /\ a[i].terms = b[src[i]].terms /\ a[j].terms = b[src[j]].terms
          /\ n[i] = m[src[i]] /\ n[j] = m[src[j]]
      BY <1>6, <1>7
    <2>2. b[src[i]].terms[c] = b[src[j]].terms[d] => m[src[i]][c] = m[src[j]][d]
      BY <1>5, <2>1
    <2> QED
      BY <2>1, <2>2
  <1>12. ~ Invalid(a)
    OBVIOUS
  <1>10. n \in Joins(a, e)
    <2> HIDE DEF a, b
    <2> QED
      BY <1>7, <1>8, <1>9, <1>12, IsCleanJoin
  <1>11. SameBody(r, n, m)
    BY <1>1, <1>6, <1>7 DEF SameBody
  <1> QED
    BY <1>10, <1>11

LEMMA ForcedJoinsNothing ==
    ASSUME NEW r, ProperRule(r), ForcedSameTuple(r)
    PROVE  Joins(AllAtoms(r), TRUE) = {}
  <1> SUFFICES ASSUME NEW m \in Joins(AllAtoms(r), TRUE)
               PROVE  FALSE
    OBVIOUS
  <1> DEFINE a == AllAtoms(r)
  <1>1. PICK e \in SameTable(a) : \A k \in PrimaryKey[a[e[1]].table] :
           /\ k \in Columns(a[e[1]]) /\ k \in Columns(a[e[2]])
           /\ a[e[1]].terms[k] = a[e[2]].terms[k]
    BY DEF ForcedSameTuple
  <1>2. e[1] \in 1 .. Len(a) /\ e[2] \in 1 .. Len(a)
    BY DEF SameTable
  <1>3. /\ \A i, j \in 1 .. Len(a) : \A c \in Columns(a[i]), d \in Columns(a[j]) :
              a[i].terms[c] = a[j].terms[d] => m[i][c] = m[j][d]
        /\ Disjoint(a, m)
    <2>1. \A y : \A k \in Joins(a, y) :
             /\ \A i, j \in 1 .. Len(a) : \A c \in Columns(a[i]), d \in Columns(a[j]) :
                   a[i].terms[c] = a[j].terms[d] => k[i][c] = k[j][d]
             /\ y => Disjoint(a, k)
      BY JoinFacts
    <2> QED
      BY <2>1
  <1>4. PICK k \in PrimaryKey[a[e[1]].table] : m[e[1]][k] # m[e[2]][k]
    BY <1>3 DEF Disjoint, SqlDiffers
  <1> QED
    BY <1>1, <1>2, <1>3, <1>4

(* The category is what the database says (CategoryMatchesDatabase): the   *)
(* static tests for vacuity are right about the SELECTs they spare, and an *)
(* exact rule has no counter-example of distinct tuples.                   *)
THEOREM CategoriesAreRight == Spec => []CategoryMatchesDatabase
  <1>1. RulesOK => CategoryMatchesDatabase
    <2> SUFFICES ASSUME RulesOK, NEW r \in Recorded
                 PROVE  /\ r.category = "vacuous" =>
                              \/ Support(r.rule, TRUE) = 0
                              \/ NoNulls => Support(r.rule, FALSE) = Predictions(r.rule, FALSE)
                        /\ r.category = "comparable_exact" /\ threshold = 100 =>
                              \A m \in Joins(r.rule.body, TRUE) :
                                 \E n \in Joins(AllAtoms(r.rule), TRUE) :
                                    \A v \in Variables(r.rule.body) :
                                       Binding(r.rule.body, m, v) = Binding(AllAtoms(r.rule), n, v)
      BY DEF CategoryMatchesDatabase
    <2> DEFINE a == Audit(r.rule)
               q == r.rule
    <2>1. r.category = a.category /\ (Parsed(q) => ProperRule(q))
      BY RecordedSays
    <2>2. Comparable(q, a) \/ Incomparable(q, a)
      BY AuditCases
    <2>3. db # Nothing => IsFiniteSet(Rows)
      BY TheDatabase DEF DatabaseOK, RulesOK, RecordsOK
    <2> HIDE DEF a
    <2>4. ASSUME r.category = "vacuous", NoNulls
          PROVE  Support(q, TRUE) = 0 \/ Support(q, FALSE) = Predictions(q, FALSE)
      <3>1. /\ Parsed(q) /\ db # Nothing /\ ~ Invalid(AllAtoms(q))
            /\ HeadEntailed(q) \/ ForcedSameTuple(q) \/ NoEvidence(q)
        BY <2>1, <2>2, <2>4 DEF Comparable, Incomparable
      <3>2. ProperRule(q) /\ IsFiniteSet(Rows) /\ Clean
        BY <2>1, <2>3, <2>4, <3>1, CleanDatabase DEF RulesOK, RecordsOK
      <3> HIDE DEF q
      <3>3. /\ Support(q, FALSE) = Predictions(q, FALSE) <=> Supported(q, FALSE)
            /\ Joins(AllAtoms(q), TRUE) = {} => Support(q, TRUE) = 0
            /\ Support(q, TRUE) \in Nat /\ Support(q, TRUE) <= Predictions(q, TRUE)
        BY <3>2, CountsSay
      <3>4. CASE HeadEntailed(q)
        <4>1. \A e : ~ e => Supported(q, e)
          BY <3>1, <3>2, <3>4, EntailedSupported
        <4> QED
          BY <3>3, <4>1
      <3>5. CASE ForcedSameTuple(q)
        BY <3>2, <3>3, <3>5, ForcedJoinsNothing
      <3>6. CASE NoEvidence(q)
        <4> DEFINE s == Support(q, TRUE)
                   p == Predictions(q, TRUE)
        <4>1. s \in Nat /\ s <= p /\ (p = 0 \/ s = 0)
          BY <3>3, <3>6 DEF NoEvidence
        <4> HIDE DEF s, p
        <4>2. s = 0
          BY <4>1
        <4> QED
          BY <4>2 DEF s
      <3> QED
        BY <3>1, <3>4, <3>5, <3>6
    <2>5. ASSUME r.category = "comparable_exact", threshold = 100,
                 NEW m \in Joins(q.body, TRUE)
          PROVE  \E n \in Joins(AllAtoms(q), TRUE) :
                    \A v \in Variables(q.body) : Binding(q.body, m, v) = Binding(AllAtoms(q), n, v)
      <3>1. Parsed(q) /\ db # Nothing /\ Exact(q)
        BY <2>1, <2>2, <2>5 DEF Comparable, Incomparable
      <3>2. ProperRule(q) /\ IsFiniteSet(Rows)
        BY <2>1, <2>3, <3>1
      <3> HIDE DEF q
      <3>3. /\ Support(q, TRUE) = Predictions(q, TRUE) <=> Supported(q, TRUE)
            /\ Support(q, TRUE) \in Nat /\ Predictions(q, TRUE) \in Nat
            /\ Support(q, TRUE) <= Predictions(q, TRUE)
        BY <3>2, CountsSay
      <3>4. 100 * Support(q, TRUE) >= 100 * Predictions(q, TRUE)
        BY <2>5, <3>1 DEF Exact
      <3>5. Supported(q, TRUE)
        <4> DEFINE s == Support(q, TRUE)
                   p == Predictions(q, TRUE)
        <4>1. s \in Nat /\ p \in Nat /\ s <= p /\ 100 * s >= 100 * p
          BY <3>3, <3>4
        <4> HIDE DEF s, p
        <4>2. s = p
          BY <4>1
        <4> QED
          BY <3>3, <4>2 DEF s, p
      <3>6. PICK n \in Joins(AllAtoms(q), TRUE) : SameBody(q, n, m)
        BY <2>5, <3>5 DEF Supported
      <3>7. Seen(AllAtoms(q), n, Variables(q.body)) = Seen(q.body, m, Variables(q.body))
        BY <2>5, <3>2, <3>6, SeenBody
      <3>8. \A v \in Variables(q.body) :
               /\ Seen(AllAtoms(q), n, Variables(q.body))[v] = Binding(AllAtoms(q), n, v)
               /\ Seen(q.body, m, Variables(q.body))[v] = Binding(q.body, m, v)
        BY DEF Seen
      <3> QED
        BY <3>7, <3>8
    <2> QED
      BY <2>4, <2>5
  <1> QED
    BY <1>1, RulesKept, PTL

(* A match of the body and a tuple for the head.                           *)
LEMMA WithHead ==
    ASSUME NEW r, ProperRule(r), Horn(r), ~ Invalid(AllAtoms(r)), Clean,
           NEW e, ~ e, NEW m \in Joins(r.body, e),
           NEW x \in Rows, x \in db[r.head[1].table],
           \A d \in Columns(r.head[1]) : \E i \in 1 .. Len(r.body) : \E c \in Columns(r.body[i]) :
              r.body[i].terms[c] = r.head[1].terms[d] /\ m[i][c] = x[d]
    PROVE  \E n \in Joins(AllAtoms(r), e) : SameBody(r, n, m)
  <1> DEFINE b == r.body
             h == r.head[1]
             a == AllAtoms(r)
             n == [i \in 1 .. Len(a) |-> IF i \in 1 .. Len(b) THEN m[i] ELSE x]
  <1>1. /\ Len(b) \in Nat
        /\ \A i \in 1 .. Len(b) : i \in 1 .. Len(a) /\ a[i] = b[i]
        /\ \A i \in 1 .. Len(a) : i \in 1 .. Len(b) \/ a[i] = h
    <2>1. \A i \in 1 .. Len(a) :
             \/ i \in 1 .. Len(b) /\ a[i] = b[i]
             \/ /\ i > Len(b)
                /\ i - Len(b) \in 1 .. Len(r.head)
                /\ a[i] = r.head[i - Len(b)]
      BY RuleFacts
    <2>2. Len(r.head) = 1
      BY DEF Horn
    <2>3. /\ Len(b) \in Nat
          /\ \A i \in 1 .. Len(b) : i \in 1 .. Len(a) /\ a[i] = b[i]
      BY RuleFacts
    <2>4. ASSUME NEW i \in 1 .. Len(a), i \notin 1 .. Len(b)
          PROVE  a[i] = h
      <3>1. i - Len(b) \in 1 .. 1 /\ a[i] = r.head[i - Len(b)]
        BY <2>1, <2>2, <2>4
      <3>2. i - Len(b) = 1
        BY <3>1
      <3> QED
        BY <3>1, <3>2
    <2> QED
      BY <2>3, <2>4
  <1>2. /\ m \in [1 .. Len(b) -> Rows]
        /\ \A i \in 1 .. Len(b) : m[i] \in db[b[i].table]
        /\ \A i, j \in 1 .. Len(b) : \A c \in Columns(b[i]), d \in Columns(b[j]) :
              b[i].terms[c] = b[j].terms[d] => m[i][c] = m[j][d]
    BY JoinFacts
  <1>3. n \in [1 .. Len(a) -> Rows]
    BY <1>1, <1>2
  <1>4. \A i \in 1 .. Len(a) : \/ /\ i \in 1 .. Len(b)
                                  /\ a[i] = b[i] /\ n[i] = m[i]
                               \/ a[i] = h /\ n[i] = x
    BY <1>1
  <1> HIDE DEF n, a, b, h
  <1>5. \A i \in 1 .. Len(a) : n[i] \in db[a[i].table]
    BY <1>2, <1>4 DEF h
  <1>6. \A i \in 1 .. Len(a) : \A c \in Columns(a[i]) :
           \E j \in 1 .. Len(b) : \E d \in Columns(b[j]) :
              b[j].terms[d] = a[i].terms[c] /\ m[j][d] = n[i][c]
    <2> TAKE i \in 1 .. Len(a)
    <2> TAKE c \in Columns(a[i])
    <2>1. CASE i \in 1 .. Len(b) /\ a[i] = b[i] /\ n[i] = m[i]
      BY <2>1
    <2>2. CASE a[i] = h /\ n[i] = x
      <3>1. c \in Columns(r.head[1])
        BY <2>2 DEF h
      <3>2. PICK j \in 1 .. Len(r.body) : \E d \in Columns(r.body[j]) :
               r.body[j].terms[d] = r.head[1].terms[c] /\ m[j][d] = x[c]
        BY <3>1
      <3> QED
        BY <2>2, <3>2 DEF h, b
    <2> QED
      BY <1>4, <2>1, <2>2
  <1>7. \A i, j \in 1 .. Len(a) : \A c \in Columns(a[i]), d \in Columns(a[j]) :
           a[i].terms[c] = a[j].terms[d] => n[i][c] = n[j][d]
    <2> SUFFICES ASSUME NEW i \in 1 .. Len(a), NEW j \in 1 .. Len(a),
                        NEW c \in Columns(a[i]), NEW d \in Columns(a[j]),
                        a[i].terms[c] = a[j].terms[d]
                 PROVE  n[i][c] = n[j][d]
      OBVIOUS
    <2>1. PICK k \in 1 .. Len(b) : \E f \in Columns(b[k]) :
             b[k].terms[f] = a[i].terms[c] /\ m[k][f] = n[i][c]
      BY <1>6
    <2>2. PICK l \in 1 .. Len(b) : \E g \in Columns(b[l]) :
             b[l].terms[g] = a[j].terms[d] /\ m[l][g] = n[j][d]
      BY <1>6
    <2> QED
      BY <1>2, <2>1, <2>2
  <1>8. n \in Joins(a, e)
    <2>1. ~ Invalid(a)
      BY DEF a
    <2> QED
      BY <1>3, <1>5, <1>7, <2>1, IsCleanJoin
  <1>9. SameBody(r, n, m)
    BY <1>1, <1>4 DEF SameBody, b, n
  <1> QED
    BY <1>8, <1>9 DEF a

(* What matches a rule's body matches that of a more general rule.         *)
LEMMA PulledBack ==
    ASSUME NEW t, NEW r, NEW h, NEW src, NEW e, ~ e, NEW m \in Joins(r.body, e),
           Len(t.body) \in Nat, ~ Invalid(t.body), Clean,
           \A i \in 1 .. Len(t.body) : /\ src[i] \in 1 .. Len(r.body)
                                       /\ MapsInto(h, t.body[i], r.body[src[i]])
    PROVE  [i \in 1 .. Len(t.body) |-> m[src[i]]] \in Joins(t.body, e)
  <1> DEFINE a == t.body
             b == r.body
             n == [i \in 1 .. Len(a) |-> m[src[i]]]
  <1>1. /\ m \in [1 .. Len(b) -> Rows]
        /\ \A i \in 1 .. Len(b) : m[i] \in db[b[i].table]
        /\ \A i, j \in 1 .. Len(b) : \A c \in Columns(b[i]), d \in Columns(b[j]) :
              b[i].terms[c] = b[j].terms[d] => m[i][c] = m[j][d]
    BY JoinFacts
  <1>2. \A i \in 1 .. Len(a) :
           /\ src[i] \in 1 .. Len(b) /\ a[i].table = b[src[i]].table
           /\ \A c \in Columns(a[i]) : /\ c \in Columns(b[src[i]])
                                       /\ h[a[i].terms[c]] = b[src[i]].terms[c]
    BY DEF MapsInto
  <1>3. n \in [1 .. Len(a) -> Rows] /\ \A i \in 1 .. Len(a) : n[i] = m[src[i]]
    BY <1>1, <1>2
  <1> HIDE DEF n, a, b
  <1>4. \A i \in 1 .. Len(a) : n[i] \in db[a[i].table]
    BY <1>1, <1>2, <1>3
  <1>5. \A i, j \in 1 .. Len(a) : \A c \in Columns(a[i]), d \in Columns(a[j]) :
           a[i].terms[c] = a[j].terms[d] => n[i][c] = n[j][d]
    <2> TAKE i, j \in 1 .. Len(a)
    <2> TAKE c \in Columns(a[i]), d \in Columns(a[j])
    <2>1. /\ h[a[i].terms[c]] = b[src[i]].terms[c] /\ h[a[j].terms[d]] = b[src[j]].terms[d]
          /\ n[i] = m[src[i]] /\ n[j] = m[src[j]]
          /\ src[i] \in 1 .. Len(b) /\ src[j] \in 1 .. Len(b)
          /\ c \in Columns(b[src[i]]) /\ d \in Columns(b[src[j]])
      BY <1>2, <1>3
    <2>2. b[src[i]].terms[c] = b[src[j]].terms[d] => m[src[i]][c] = m[src[j]][d]
      BY <1>1, <2>1
    <2> QED
      BY <2>1, <2>2
  <1>6. n \in Joins(a, e)
    <2>1. ~ Invalid(a)
      BY DEF a
    <2> QED
      BY <1>3, <1>4, <1>5, <2>1, IsCleanJoin
  <1> QED
    BY <1>6 DEF n, a

LEMMA SubsumerValid ==
    ASSUME NEW t, NEW r, ProperRule(t), ProperRule(r), Horn(t), Horn(r), Subsumes(t, r),
           ~ Invalid(AllAtoms(r))
    PROVE  ~ Invalid(AllAtoms(t))
  <1> SUFFICES ASSUME NEW i \in 1 .. Len(AllAtoms(t))
               PROVE  /\ AllAtoms(t)[i].table \in DOMAIN Schema
                      /\ Columns(AllAtoms(t)[i]) \subseteq Schema[AllAtoms(t)[i].table]
    BY DEF Invalid
  <1>1. \A j \in 1 .. Len(AllAtoms(r)) : /\ AllAtoms(r)[j].table \in DOMAIN Schema
                                         /\ Columns(AllAtoms(r)[j]) \subseteq Schema[AllAtoms(r)[j].table]
    BY DEF Invalid
  <1>2. PICK h : /\ MapsInto(h, t.head[1], r.head[1])
                 /\ \A k \in 1 .. Len(t.body) : \E j \in 1 .. Len(r.body) : MapsInto(h, t.body[k], r.body[j])
    BY DEF Subsumes
  <1>3. \E j \in 1 .. Len(AllAtoms(r)) : MapsInto(h, AllAtoms(t)[i], AllAtoms(r)[j])
    <2>1. /\ \A j \in 1 .. Len(r.body) : j \in 1 .. Len(AllAtoms(r)) /\ AllAtoms(r)[j] = r.body[j]
          /\ \E j \in 1 .. Len(AllAtoms(r)) : AllAtoms(r)[j] = r.head[1]
      BY RuleFacts, HornFacts
    <2>2. \/ i \in 1 .. Len(t.body) /\ AllAtoms(t)[i] = t.body[i]
          \/ /\ i - Len(t.body) \in 1 .. Len(t.head)
             /\ AllAtoms(t)[i] = t.head[i - Len(t.body)]
      BY RuleFacts
    <2>3. i - Len(t.body) \in 1 .. Len(t.head) => i - Len(t.body) = 1
      BY DEF Horn
    <2>4. CASE i \in 1 .. Len(t.body) /\ AllAtoms(t)[i] = t.body[i]
      BY <1>2, <2>1, <2>4
    <2>5. CASE AllAtoms(t)[i] = t.head[1]
      BY <1>2, <2>1, <2>5
    <2> QED
      BY <2>2, <2>3, <2>4, <2>5
  <1> QED
    BY <1>1, <1>3 DEF MapsInto

(* A rule without counter-examples leaves none to a rule that it subsumes  *)
(* (subsumes).                                                             *)
THEOREM SupportTransfers ==
    ASSUME NEW t, NEW r, ProperRule(t), ProperRule(r), Horn(t), Horn(r),
           HeadKey(t) = HeadKey(r), Subsumes(t, r), ~ Invalid(AllAtoms(r)), Clean,
           NEW e, ~ e, Supported(t, e)
    PROVE  Supported(r, e)
  <1> SUFFICES ASSUME NEW m \in Joins(r.body, e)
               PROVE  \E n \in Joins(AllAtoms(r), e) : SameBody(r, n, m)
    BY DEF Supported
  <1> DEFINE a == t.body
             b == r.body
             top == Len(a) + 1
  <1>1. PICK h : /\ MapsInto(h, t.head[1], r.head[1])
                 /\ \A i \in 1 .. Len(a) : \E j \in 1 .. Len(b) : MapsInto(h, a[i], b[j])
    BY DEF Subsumes
  <1> DEFINE src == [i \in 1 .. Len(a) |-> CHOOSE j \in 1 .. Len(b) : MapsInto(h, a[i], b[j])]
             k == [i \in 1 .. Len(a) |-> m[src[i]]]
  <1>2. \A i \in 1 .. Len(a) : src[i] \in 1 .. Len(b) /\ MapsInto(h, a[i], b[src[i]])
    BY <1>1
  <1>3. /\ Len(a) \in Nat /\ WellFormed(a) /\ WellFormed(t.head) /\ WellFormed(r.head)
        /\ \A i \in 1 .. Len(a) : i \in 1 .. Len(AllAtoms(t)) /\ AllAtoms(t)[i] = a[i]
        /\ top \in 1 .. Len(AllAtoms(t)) /\ AllAtoms(t)[top] = t.head[1]
        /\ Len(t.head) = 1 /\ Variables(t.head) \subseteq Variables(a)
    BY RuleFacts, HornFacts
  <1> HIDE DEF src
  <1>4. k \in Joins(a, e)
    <2>1. ~ Invalid(t.body)
      BY <1>3, SubsumerValid DEF Invalid
    <2> QED
      BY <1>2, <1>3, <2>1, PulledBack
  <1>5. PICK n \in Joins(AllAtoms(t), e) : SameBody(t, n, k)
    BY <1>4 DEF Supported
  <1> DEFINE x == n[top]
  <1>6. /\ n \in [1 .. Len(AllAtoms(t)) -> Rows]
        /\ \A i \in 1 .. Len(AllAtoms(t)) : n[i] \in db[AllAtoms(t)[i].table]
        /\ \A i, j \in 1 .. Len(AllAtoms(t)) :
              \A c \in Columns(AllAtoms(t)[i]), d \in Columns(AllAtoms(t)[j]) :
                 AllAtoms(t)[i].terms[c] = AllAtoms(t)[j].terms[d] => n[i][c] = n[j][d]
    BY JoinFacts
  <1>7. t.head[1].table = r.head[1].table /\ Columns(t.head[1]) = Columns(r.head[1])
    <2>1. SameAt(t.head, r.head, 1, 1)
      BY <1>3, NormalizedSays DEF HeadKey
    <2> QED
      BY <2>1 DEF SameAt
  <1>8. x \in Rows /\ x \in db[r.head[1].table]
    BY <1>3, <1>6, <1>7
  <1>9. ASSUME NEW d \in Columns(r.head[1])
        PROVE  \E i \in 1 .. Len(b) : \E c \in Columns(b[i]) :
                  b[i].terms[c] = r.head[1].terms[d] /\ m[i][c] = x[d]
    <2>1. d \in Columns(t.head[1]) /\ h[t.head[1].terms[d]] = r.head[1].terms[d]
      BY <1>1, <1>7, <1>9 DEF MapsInto
    <2>2. t.head[1].terms[d] \in Variables(a)
      <3>1. t.head[1].terms[d] \in Variables(t.head)
        <4>1. 1 \in 1 .. Len(t.head)
          BY <1>3
        <4> QED
          BY <2>1, <4>1 DEF Variables, AtomVariables
      <3> QED
        BY <1>3, <3>1
    <2>3. PICK i \in 1 .. Len(a) : \E c \in Columns(a[i]) : t.head[1].terms[d] = a[i].terms[c]
      BY <1>3, <2>2, AtomFacts
    <2>4. PICK c \in Columns(a[i]) : t.head[1].terms[d] = a[i].terms[c]
      BY <2>3
    <2>5. n[i][c] = x[d]
      <3>1. /\ i \in 1 .. Len(AllAtoms(t)) /\ AllAtoms(t)[i] = a[i]
            /\ top \in 1 .. Len(AllAtoms(t)) /\ AllAtoms(t)[top] = t.head[1]
        BY <1>3
      <3> HIDE DEF top
      <3>2. AllAtoms(t)[i].terms[c] = AllAtoms(t)[top].terms[d] => n[i][c] = n[top][d]
        BY <1>6, <2>1, <3>1
      <3> QED
        BY <2>4, <3>1, <3>2
    <2>6. n[i][c] = k[i][c] /\ k[i] = m[src[i]]
      BY <1>5 DEF SameBody
    <2>7. c \in Columns(b[src[i]]) /\ h[a[i].terms[c]] = b[src[i]].terms[c] /\ src[i] \in 1 .. Len(b)
      BY <1>2 DEF MapsInto
    <2> QED
      BY <2>1, <2>4, <2>5, <2>6, <2>7
  <1> HIDE DEF x
  <1> QED
    BY <1>8, <1>9, WithHead

(* A rule that counts as recovered follows from the target rule it was     *)
(* matched with (RecallIsSound): of one canonical key, each maps into the  *)
(* other; and a match of the rule, pulled back along the homomorphism that *)
(* subsumes it, is one of the target rule, whose head tuple then fits.     *)
THEOREM RecallsAreSound == Spec => []RecallIsSound
  <1>1. RulesOK => RecallIsSound
    <2> SUFFICES ASSUME RulesOK, NEW r \in Recorded,
                        r.status \in {"recalled_alpha", "recalled_subsumed"}
                 PROVE  /\ r.status = "recalled_alpha" => AlphaEquivalent(r.matched, r.rule)
                        /\ ~ Invalid(AllAtoms(r.matched))
                        /\ NoNulls /\ Support(r.matched, FALSE) = Predictions(r.matched, FALSE)
                              => Support(r.rule, FALSE) = Predictions(r.rule, FALSE)
      BY DEF RecallIsSound
    <2> DEFINE q == r.rule
               t == r.matched
    <2>1. /\ ProperRule(q) /\ Horn(q) /\ ~ Invalid(AllAtoms(q)) /\ db # Nothing
          /\ r.status = Match(q)[1] /\ t = Match(q)[2]
      BY RecalledSays
    <2>2. \/ /\ r.status = "recalled_alpha"
             /\ \E i \in 1 .. Len(targets) : CanonicalKey(targets[i]) = CanonicalKey(q) /\ t = targets[i]
          \/ /\ r.status = "recalled_subsumed"
             /\ \E i \in 1 .. Len(targets) : /\ HeadKey(targets[i]) = HeadKey(q)
                                             /\ Subsumes(targets[i], q)
                                             /\ t = targets[i]
      BY <2>1, MatchCases DEF RulesOK
    <2>3. ProperRule(t) /\ Horn(t)
      BY <2>2 DEF RulesOK, TargetsOK
    <2>4. IsFiniteSet(Rows)
      BY <2>1, TheDatabase DEF DatabaseOK, RulesOK, RecordsOK
    <2> HIDE DEF q, t
    <2>5. /\ HeadKey(t) = HeadKey(q) /\ Subsumes(t, q)
          /\ r.status = "recalled_alpha" => AlphaEquivalent(t, q)
      <3>1. CASE CanonicalKey(t) = CanonicalKey(q)
        BY <2>1, <2>3, <3>1, SameKeySame, SameKeyAlpha DEF AlphaEquivalent
      <3>2. CASE r.status = "recalled_subsumed" /\ HeadKey(t) = HeadKey(q) /\ Subsumes(t, q)
        BY <3>2
      <3> QED
        BY <2>2, <3>1, <3>2
    <2>6. ~ Invalid(AllAtoms(t))
      BY <2>1, <2>3, <2>5, SubsumerValid
    <2>7. \A e : /\ Support(t, e) = Predictions(t, e) <=> Supported(t, e)
                 /\ Support(q, e) = Predictions(q, e) <=> Supported(q, e)
      BY <2>1, <2>3, <2>4, CountsSay
    <2>8. NoNulls => \A e : ~ e /\ Supported(t, e) => Supported(q, e)
      BY <2>1, <2>3, <2>5, SupportTransfers, CleanDatabase DEF RulesOK, RecordsOK
    <2>9. NoNulls => \A e : ~ e /\ Support(t, e) = Predictions(t, e) => Support(q, e) = Predictions(q, e)
      BY <2>7, <2>8
    <2>10. NoNulls /\ Support(t, FALSE) = Predictions(t, FALSE) => Support(q, FALSE) = Predictions(q, FALSE)
      BY <2>9
    <2> QED
      BY <2>5, <2>6, <2>10 DEF q, t
  <1> QED
    BY <1>1, RulesKept, PTL

-----------------------------------------------------------------------------
(* The report's tables                                                     *)

LEMMA ApartAdd ==
    ASSUME NEW A, NEW B, IsFiniteSet(A), IsFiniteSet(B), A \cap B = {}
    PROVE  /\ IsFiniteSet(A \cup B)
           /\ Cardinality(A \cup B) = Cardinality(A) + Cardinality(B)
           /\ Cardinality(A) \in Nat /\ Cardinality(B) \in Nat
  <1>1. Cardinality(A) \in Nat /\ Cardinality(B) \in Nat
    BY FS_CardinalityType
  <1>2. /\ IsFiniteSet(A \cup B)
        /\ Cardinality(A \cup B) = Cardinality(A) + Cardinality(B) - Cardinality(A \cap B)
    BY FS_Union
  <1>3. Cardinality(A \cap B) = 0
    BY FS_EmptySet
  <1> QED
    BY <1>1, <1>2, <1>3

Looked == {"recalled_alpha", "recalled_subsumed", "covered_on_instance", "unmatched"}

(* A rule that reuse of the cache moves into or out of the matched.        *)
Moves(rule) == ~ Reparses(rule) \/ Support(rule, TRUE) < MinSupport

(* A record as _audit_rule writes it or _rematch_cached_record rewrites    *)
(* it: the category, the class and the match go together.                  *)
LEMMA RecordSays ==
    ASSUME RulesOK, NEW i \in 1 .. Len(records)
    PROVE  /\ records[i].category \in Categories
           /\ records[i].status \in Statuses
           /\ AboveThreshold(records[i]) <=> records[i].status \in Looked
           /\ \/ records[i].category = "comparable_exact" <=> records[i].status \in Looked
              \/ rematched /\ Moves(records[i].rule)
  <1> DEFINE r == records[i]
             q == r.rule
             a == Audit(q)
  <1>1. /\ ~ rematched => r = a
        /\ rematched => r = Rematch(a)
        /\ rematched \in BOOLEAN
        /\ r.category = a.category
        /\ Parsed(q) => ProperRule(q)
    <2>1. r \in Recorded
      BY DEF Recorded
    <2> QED
      BY <2>1, RecordedSays DEF RulesOK, RecordsOK
  <1>2. /\ a.status \in Statuses /\ a.category \in Categories
        /\ DOMAIN a = Fields /\ a.rule = q
        /\ Comparable(q, a) \/ Incomparable(q, a)
    BY AuditKinds, AuditFields, AuditCases DEF RulesOK
  <1>3. Match(q)[1] \in {"recalled_alpha", "recalled_subsumed", "unmatched"}
    BY MatchCases DEF RulesOK
  <1>4. db # Nothing => IsFiniteSet(Rows)
    BY TheDatabase DEF DatabaseOK, RulesOK, RecordsOK
  <1>5. threshold \in Int /\ MinSupport \in Int
    BY RulesAssumption DEF RulesOK, RecordsOK
  <1> HIDE DEF a, q
  <1>6. CASE ~ rematched
    <2>1. /\ AboveThreshold(a) <=> a.status \in Looked
          /\ a.category = "comparable_exact" <=> a.status \in Looked
      <3>1. CASE Comparable(q, a)
        BY <1>3, <3>1 DEF Comparable, AboveThreshold, Looked
      <3>2. CASE Incomparable(q, a)
        BY <3>2 DEF Incomparable, AboveThreshold, Looked
      <3> QED
        BY <1>2, <3>1, <3>2
    <2> QED
      BY <1>1, <1>2, <1>6, <2>1
  <1>7. CASE rematched
    <2> DEFINE low == 100 * Support(q, TRUE) < threshold * Predictions(q, TRUE)
               found == a.class \notin Excluded /\ InTargetClass(q) /\ ~ low /\ Reparses(q)
    <2>1. /\ Rematch(a).category = a.category /\ Rematch(a).evaluable = a.evaluable
          /\ Rematch(a).eligible = a.eligible
          /\ found => Rematch(a).class = "comparable_true" /\ Rematch(a).status = Match(q)[1]
          /\ ~ found => Rematch(a).status = "not_applicable"
          /\ ~ found => \/ Rematch(a).class # "comparable_true"
                        \/ Rematch(a).class = a.class /\ (a.class \in Excluded \/ ~ InTargetClass(q))
      BY <1>2 DEF Rematch, Excluded, Fields
    <2> HIDE DEF found
    <2>2. CASE Comparable(q, a)
      <3>1. /\ a.category = "comparable_exact" /\ a.class = "comparable_true"
            /\ a.evaluable /\ a.eligible /\ InTargetClass(q) /\ Exact(q)
            /\ ProperRule(q) /\ IsFiniteSet(Rows)
        BY <1>1, <1>4, <2>2 DEF Comparable, InTargetClass, Horn
      <3>2. Support(q, TRUE) \in Nat /\ Predictions(q, TRUE) \in Nat
        BY <3>1, CountsSay
      <3>3. ~ low
        <4> DEFINE x == Support(q, TRUE)
                   y == Predictions(q, TRUE)
        <4>1. x \in Nat /\ y \in Nat /\ 100 * x >= threshold * y
          BY <3>1, <3>2 DEF Exact
        <4> HIDE DEF x, y
        <4>2. ~ (100 * x < threshold * y)
          BY <1>5, <4>1
        <4> QED
          BY <4>2 DEF x, y
      <3>4. ~ found => ~ Reparses(q)
        BY <3>1, <3>3 DEF found, Excluded
      <3>5. ~ found => Rematch(a).class # "comparable_true"
        BY <2>1, <3>1 DEF Excluded
      <3> QED
        BY <1>1, <1>2, <1>3, <1>7, <2>1, <3>1, <3>4, <3>5 DEF AboveThreshold, Looked, Statuses, Moves, q
    <2>3. CASE Incomparable(q, a)
      <3>1. CASE a.category = "non_exact" /\ a.class = "approximate"
        <4>1. /\ a.evaluable /\ a.eligible = Eligible(q) /\ ~ Exact(q)
              /\ ProperRule(q) /\ IsFiniteSet(Rows)
          BY <1>1, <1>4, <2>3, <3>1 DEF Incomparable
        <4>2. Support(q, TRUE) \in Nat /\ Predictions(q, TRUE) \in Nat
          BY <4>1, CountsSay
        <4>3. found => a.eligible
          BY <4>1 DEF found, InTargetClass, Eligible
        <4>4. found => Support(q, TRUE) < MinSupport
          <5> DEFINE x == Support(q, TRUE)
                     y == Predictions(q, TRUE)
          <5>1. x \in Nat /\ y \in Nat /\ (~ (100 * x >= threshold * y) \/ ~ (x >= MinSupport))
            BY <4>1, <4>2 DEF Exact
          <5> HIDE DEF x, y
          <5>2. 100 * x < threshold * y \/ x < MinSupport
            BY <1>5, <5>1
          <5> QED
            BY <5>2 DEF found, x, y
        <4>5. ~ found => Rematch(a).class # "comparable_true"
          BY <2>1, <3>1
        <4> QED
          BY <1>1, <1>2, <1>3, <1>7, <2>1, <3>1, <4>1, <4>3, <4>4, <4>5
             DEF AboveThreshold, Looked, Statuses, Moves, q
      <3>2. CASE a.class \in Excluded /\ a.category # "comparable_exact"
        <4>1. ~ found
          BY <3>2 DEF found
        <4>2. Rematch(a).class # "comparable_true"
          BY <2>1, <3>2, <4>1 DEF Excluded
        <4> QED
          BY <1>1, <1>2, <1>7, <2>1, <3>2, <4>1, <4>2 DEF AboveThreshold, Looked, Statuses
      <3> QED
        BY <2>3, <3>1, <3>2 DEF Incomparable, Excluded
    <2> QED
      BY <1>2, <2>2, <2>3
  <1> QED
    BY <1>1, <1>6, <1>7

(* The records of a kind.                                                  *)
OfCategory(c) == {i \in 1 .. Len(records) : records[i].category = c}
OfStatus(s) == {i \in 1 .. Len(records) : records[i].status = s}

LEMMA KindsFinite ==
    ASSUME RulesOK
    PROVE  /\ IsFiniteSet(1 .. Len(records))
           /\ Cardinality(1 .. Len(records)) = Len(records)
           /\ \A c : IsFiniteSet(OfCategory(c)) /\ InCategory(c) = Cardinality(OfCategory(c))
           /\ \A s : IsFiniteSet(OfStatus(s)) /\ WithStatus(s) = Cardinality(OfStatus(s))
  <1>1. Len(records) \in Nat
    BY DEF RulesOK, RecordsOK
  <1>2. IsFiniteSet(1 .. Len(records)) /\ Cardinality(1 .. Len(records)) = Len(records)
    <2> DEFINE n == Len(records)
    <2>1. n \in Nat
      BY <1>1
    <2> HIDE DEF n
    <2>2. /\ IsFiniteSet(1 .. n)
          /\ Cardinality(1 .. n) = IF 1 > n THEN 0 ELSE n - 1 + 1
      BY <2>1, FS_Interval
    <2>3. Cardinality(1 .. n) = n
      BY <2>1, <2>2
    <2> QED
      BY <2>2, <2>3 DEF n
  <1>3. \A T : T \subseteq 1 .. Len(records) => IsFiniteSet(T)
    BY <1>2, FS_Subset
  <1>4. \A c : OfCategory(c) \subseteq 1 .. Len(records) /\ InCategory(c) = Cardinality(OfCategory(c))
    BY DEF OfCategory, InCategory
  <1>5. \A s : OfStatus(s) \subseteq 1 .. Len(records) /\ WithStatus(s) = Cardinality(OfStatus(s))
    BY DEF OfStatus, WithStatus
  <1> QED
    BY <1>2, <1>3, <1>4, <1>5

LEMMA CategoriesMakeAll ==
    ASSUME RulesOK
    PROVE  CategoriesCheck
  <1> DEFINE a == OfCategory("technical_exclusion")
             b == OfCategory("vacuous")
             c == OfCategory("non_exact")
             d == OfCategory("exact_non_horn_tgd")
             e == OfCategory("other_out_of_scope")
             f == OfCategory("comparable_exact")
             ab == a \cup b
             ac == ab \cup c
             ad == ac \cup d
             ae == ad \cup e
             af == ae \cup f
  <1>1. /\ IsFiniteSet(a) /\ IsFiniteSet(b) /\ IsFiniteSet(c)
        /\ IsFiniteSet(d) /\ IsFiniteSet(e) /\ IsFiniteSet(f)
    BY KindsFinite
  <1>2. /\ a \cap b = {} /\ ab \cap c = {} /\ ac \cap d = {} /\ ad \cap e = {} /\ ae \cap f = {}
    BY DEF OfCategory
  <1>3. af = 1 .. Len(records)
    <2>1. \A i \in 1 .. Len(records) : records[i].category \in Categories
      BY RecordSays
    <2> QED
      BY <2>1 DEF OfCategory, Categories
  <1> DEFINE Card(S) == Cardinality(S)
  <1>4. /\ InCategory("technical_exclusion") = Card(a) /\ InCategory("vacuous") = Card(b)
        /\ InCategory("non_exact") = Card(c) /\ InCategory("exact_non_horn_tgd") = Card(d)
        /\ InCategory("other_out_of_scope") = Card(e) /\ InCategory("comparable_exact") = Card(f)
        /\ Card(1 .. Len(records)) = Len(records)
    BY KindsFinite
  <1> HIDE DEF a, b, c, d, e, f
  <1>5. IsFiniteSet(ab) /\ Card(ab) = Card(a) + Card(b) /\ Card(a) \in Nat /\ Card(b) \in Nat
    BY <1>1, <1>2, ApartAdd
  <1> HIDE DEF ab
  <1>6. IsFiniteSet(ac) /\ Card(ac) = Card(ab) + Card(c) /\ Card(c) \in Nat
    BY <1>1, <1>2, <1>5, ApartAdd
  <1> HIDE DEF ac
  <1>7. IsFiniteSet(ad) /\ Card(ad) = Card(ac) + Card(d) /\ Card(d) \in Nat
    BY <1>1, <1>2, <1>6, ApartAdd
  <1> HIDE DEF ad
  <1>8. IsFiniteSet(ae) /\ Card(ae) = Card(ad) + Card(e) /\ Card(e) \in Nat
    BY <1>1, <1>2, <1>7, ApartAdd
  <1> HIDE DEF ae
  <1>9. Card(af) = Card(ae) + Card(f) /\ Card(f) \in Nat
    BY <1>1, <1>2, <1>8, ApartAdd
  <1>10. Card(a) + Card(b) + Card(c) + Card(d) + Card(e) + Card(f) = Len(records)
    BY <1>3, <1>4, <1>5, <1>6, <1>7, <1>8, <1>9
  <1> QED
    BY <1>4, <1>10 DEF CategoriesCheck

(* The records with a match.                                               *)
LookedUp == {i \in 1 .. Len(records) : records[i].status \in Looked}
Matches == WithStatus("recalled_alpha") + WithStatus("recalled_subsumed")
             + WithStatus("covered_on_instance") + WithStatus("unmatched")

LEMMA MatchesMakeLookedUp ==
    ASSUME RulesOK
    PROVE  Cardinality(LookedUp) = Matches
  <1> DEFINE a == OfStatus("recalled_alpha")
             b == OfStatus("recalled_subsumed")
             c == OfStatus("covered_on_instance")
             d == OfStatus("unmatched")
             ab == a \cup b
             ac == ab \cup c
             Card(S) == Cardinality(S)
  <1>1. /\ IsFiniteSet(a) /\ IsFiniteSet(b) /\ IsFiniteSet(c) /\ IsFiniteSet(d)
        /\ WithStatus("recalled_alpha") = Card(a) /\ WithStatus("recalled_subsumed") = Card(b)
        /\ WithStatus("covered_on_instance") = Card(c) /\ WithStatus("unmatched") = Card(d)
    BY KindsFinite
  <1>2. a \cap b = {} /\ ab \cap c = {} /\ ac \cap d = {}
    BY DEF OfStatus
  <1>3. ac \cup d = LookedUp
    BY DEF OfStatus, LookedUp, Looked
  <1> HIDE DEF a, b, c, d
  <1>4. IsFiniteSet(ab) /\ Card(ab) = Card(a) + Card(b) /\ Card(a) \in Nat /\ Card(b) \in Nat
    BY <1>1, <1>2, ApartAdd
  <1> HIDE DEF ab
  <1>5. IsFiniteSet(ac) /\ Card(ac) = Card(ab) + Card(c) /\ Card(c) \in Nat
    BY <1>1, <1>2, <1>4, ApartAdd
  <1> HIDE DEF ac
  <1>6. Card(ac \cup d) = Card(ac) + Card(d) /\ Card(d) \in Nat
    BY <1>1, <1>2, <1>5, ApartAdd
  <1> QED
    BY <1>1, <1>3, <1>4, <1>5, <1>6 DEF Matches

LEMMA FunnelEnds ==
    ASSUME RulesOK
    PROVE  /\ Funnel.above = Matches
           /\ Funnel.exact = WithStatus("recalled_alpha")
           /\ Funnel.general = WithStatus("recalled_subsumed")
           /\ Funnel.unmatched = WithStatus("unmatched")
           /\ ~ rematched => InCategory("comparable_exact") = Matches
  <1> DEFINE above == {i \in 1 .. Len(records) : AboveThreshold(records[i])}
             having(s) == {i \in above : records[i].status = s}
  <1>1. \A i \in 1 .. Len(records) :
           /\ AboveThreshold(records[i]) <=> records[i].status \in Looked
           /\ ~ rematched => (records[i].category = "comparable_exact" <=> records[i].status \in Looked)
    BY RecordSays
  <1>2. above = LookedUp /\ (~ rematched => OfCategory("comparable_exact") = LookedUp)
    BY <1>1 DEF LookedUp, OfCategory
  <1>3. \A s \in Looked : having(s) = OfStatus(s)
    BY <1>1 DEF OfStatus
  <1>4. /\ Funnel.above = Cardinality(above)
        /\ Funnel.exact = Cardinality(having("recalled_alpha"))
        /\ Funnel.general = Cardinality(having("recalled_subsumed"))
        /\ Funnel.unmatched = Cardinality(having("unmatched"))
    BY DEF Funnel
  <1>5. /\ InCategory("comparable_exact") = Cardinality(OfCategory("comparable_exact"))
        /\ \A s : WithStatus(s) = Cardinality(OfStatus(s))
        /\ Cardinality(LookedUp) = Matches
    BY KindsFinite, MatchesMakeLookedUp
  <1> HIDE DEF above, having
  <1> QED
    BY <1>2, <1>3, <1>4, <1>5 DEF Looked

LEMMA TotalsEnd ==
    ASSUME RulesOK
    PROVE  /\ Totals.claims <= InCategory("comparable_exact")
           /\ ~ rematched => Totals.unmatched = Totals.instanceUncovered
  <1> DEFINE chosen == {i \in 1 .. Len(records) : Counts(i)}
             found == {"recalled_alpha", "recalled_subsumed"}
             having(S) == {i \in chosen : records[i].status \in S}
             open == having({"unmatched"})
             derived == having(found \cup {"covered_on_instance"})
  <1>1. \A i \in 1 .. Len(records) : ~ rematched /\ Counts(i) => records[i].status \in Looked
    BY RecordSays DEF Counts
  <1>2. chosen \subseteq OfCategory("comparable_exact")
    BY DEF Counts, OfCategory
  <1>3. /\ IsFiniteSet(chosen) /\ Cardinality(chosen) <= InCategory("comparable_exact")
    <2>1. /\ IsFiniteSet(OfCategory("comparable_exact"))
          /\ InCategory("comparable_exact") = Cardinality(OfCategory("comparable_exact"))
      BY KindsFinite
    <2> HIDE DEF chosen
    <2> QED
      BY <1>2, <2>1, FS_Subset
  <1>4. open \cap derived = {} /\ (~ rematched => open \cup derived = chosen)
    BY <1>1 DEF Looked
  <1>5. open \subseteq chosen /\ derived \subseteq chosen
    OBVIOUS
  <1>6. /\ Totals.claims = Cardinality(chosen)
        /\ Totals.unmatched = Cardinality(open)
        /\ Totals.instanceUncovered = Cardinality(chosen) - Cardinality(derived)
    BY DEF Totals
  <1> HIDE DEF chosen, open, derived
  <1>7. IsFiniteSet(open) /\ IsFiniteSet(derived)
    BY <1>3, <1>5, FS_Subset
  <1>8. /\ ~ rematched => Cardinality(chosen) = Cardinality(open) + Cardinality(derived)
        /\ Cardinality(open) \in Nat /\ Cardinality(derived) \in Nat
    BY <1>4, <1>7, ApartAdd
  <1> QED
    BY <1>3, <1>6, <1>8

(* The tables of a report agree (TablesAgree), of any coverage, before and *)
(* after reuse of the cache: every record is of one category, it counts in *)
(* the funnel when and only when it has a match, it has one when and only  *)
(* when it is comparable but for what reuse moves, and rules of one        *)
(* canonical key, being alike, have one verdict.                           *)
THEOREM TablesAlwaysAgree == Spec => []TablesAgree
  <1>1. RulesOK => TablesAgree
    <2> SUFFICES ASSUME RulesOK
                 PROVE  TablesAgree
      OBVIOUS
    <2>1. CategoriesCheck
      BY CategoriesMakeAll
    <2>2. /\ Funnel.above = Matches
          /\ Funnel.exact = WithStatus("recalled_alpha")
          /\ Funnel.general = WithStatus("recalled_subsumed")
          /\ Funnel.unmatched = WithStatus("unmatched")
          /\ ~ rematched => InCategory("comparable_exact") = Matches
      BY FunnelEnds
    <2>3. ASSUME NEW r \in Recorded
          PROVE  \/ r.category = "comparable_exact" <=> r.status # "not_applicable"
                 \/ rematched /\ (~ Reparses(r.rule) \/ Support(r.rule, TRUE) < MinSupport)
      <3>1. PICK i \in 1 .. Len(records) : r = records[i]
        BY DEF Recorded
      <3>2. /\ r.status \in Statuses
            /\ \/ r.category = "comparable_exact" <=> r.status \in Looked
               \/ rematched /\ Moves(r.rule)
        BY <3>1, RecordSays
      <3> QED
        BY <3>2 DEF Statuses, Looked, Moves
    <2>4. ASSUME NEW r \in Recorded, NEW q \in Recorded, Parsed(r.rule), Parsed(q.rule),
                 CanonicalKey(r.rule) = CanonicalKey(q.rule)
          PROVE  /\ r.category = q.category
                 /\ (coverage = "instance" => r.rule.sorted = q.rule.sorted) => r.status = q.status
      <3> DEFINE a == Audit(r.rule)
                 b == Audit(q.rule)
      <3>1. /\ r.category = a.category /\ q.category = b.category
            /\ ~ rematched => r = a /\ q = b
            /\ rematched => r = Rematch(a) /\ q = Rematch(b)
            /\ ProperRule(r.rule) /\ ProperRule(q.rule)
            /\ rematched \in BOOLEAN
        BY <2>4, RecordedSays DEF RulesOK, RecordsOK
      <3>2. TargetsOK /\ CacheOK /\ DatabaseOK
        BY TheDatabase DEF RulesOK, RecordsOK
      <3>3. /\ a.category = b.category
            /\ (coverage = "instance" => r.rule.sorted = q.rule.sorted) => a.status = b.status
        BY <2>4, <3>1, <3>2, SameVerdict DEF SameHeadShape
      <3>4. /\ a.class \in Excluded <=> b.class \in Excluded
            /\ a.class \notin Excluded => db # Nothing
            /\ DOMAIN a = Fields /\ DOMAIN b = Fields /\ a.rule = r.rule /\ b.rule = q.rule
        BY <3>3, ExcludedCategories, AuditFields, AuditCases
      <3> HIDE DEF a, b
      <3>5. Rematch(a).status = Rematch(b).status
        BY <2>4, <3>1, <3>2, <3>4, SameRematch
      <3> QED
        BY <3>1, <3>3, <3>5
    <2>5. /\ Totals.claims <= InCategory("comparable_exact")
          /\ ~ rematched => Totals.unmatched = Totals.instanceUncovered
      BY TotalsEnd
    <2>6. ~ rematched => (MatchesCheck <=> WithStatus("covered_on_instance") = 0)
      <3>1. \A status : WithStatus(status) \in Nat
        BY KindsFinite, FS_CardinalityType
      <3> QED
        BY <2>2, <3>1 DEF MatchesCheck, Matches
    <2> QED
      BY <2>1, <2>2, <2>3, <2>4, <2>5, <2>6 DEF TablesAgree, Matches
  <1> QED
    BY <1>1, RulesKept, PTL
=============================================================================
