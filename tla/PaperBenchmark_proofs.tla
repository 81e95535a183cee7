----------------------- MODULE PaperBenchmark_proofs ------------------------
(***************************************************************************)
(* Proofs about PaperBenchmark, for any number of hosts, databases,        *)
(* algorithms, workers, launches and faults: what the exit codes and the   *)
(* e-mails promise, and that merging keeps the results of earlier launches.*)
(***************************************************************************)
EXTENDS PaperBenchmark, FiniteSetTheorems, TLAPS

ControllerPC == {"off", "setup", "next", "pool", "writing", "written", "drain",
                 "finish", "mail", "exit", "ended"}

Run == (Algorithms \union EarlierAlgorithms) \X Databases \X Statuses \X Nat

Controller == [pc : ControllerPC, dry : BOOLEAN, alg : 0 .. Len(AlgorithmList),
               queue : SUBSET Databases, active : SUBSET Databases,
               local : SUBSET Run, results : SUBSET Run, runs : SUBSET Run,
               code : {0, 1, 130, None}, error : BOOLEAN, sent : BOOLEAN]

Messages == {"success", "interrupted", "completed", "failed"}

TypeOK == /\ ctl \in [Hosts -> Controller]
          /\ launches \in [Hosts -> Nat]
          /\ mail \in [Hosts -> Seq(Messages)]
          /\ summary \in [Hosts -> SUBSET Run]
          /\ progress \in [Algorithms \X Databases -> Statuses \union {"running", None}]

(* A host touches its share of the databases only, and no result is of a   *)
(* later launch.                                                           *)
Shared(h) ==
    /\ ctl[h].queue \union ctl[h].active \subseteq Shard(h)
    /\ ctl[h].queue \union ctl[h].active # {} => ctl[h].alg > 0
    /\ \A r \in summary[h] \union ctl[h].local \union ctl[h].results \union ctl[h].runs :
          r[2] \in Shard(h) /\ r[4] <= launches[h]

(* The controller has run everything: it ends by 0, or by 1 without error. *)
Concluded(h) == /\ ctl[h].pc \in {"finish", "mail", "exit", "ended"}
                /\ ctl[h].code \in {0, 1} /\ ~ ctl[h].error /\ ~ ctl[h].dry

(* The results of some algorithms, as the progress files tell them.        *)
ResultOf(h, p) == <<p[1], p[2], progress[p], launches[h]>>
ResultsOf(h, A) == {ResultOf(h, p) : p \in A \X Shard(h)}
Behind(h) == {AlgorithmList[i] : i \in 1 .. (IF At(h, "pool") THEN ctl[h].alg - 1 ELSE ctl[h].alg)}

(* A set of runs holds the results, and nothing else about what was        *)
(* planned.                                                                *)
Holds(h, runs) == /\ ctl[h].results \subseteq runs
                  /\ \A r \in runs : PairOf(r) \in Planned(h) => r \in ctl[h].results

Accounted(h) ==
    /\ At(h, "setup") => ctl[h].alg = 0 /\ ctl[h].results = {}
    /\ ctl[h].pc \in {"next", "pool", "writing", "written"} \/ Concluded(h)
          => ctl[h].results = ResultsOf(h, Behind(h))
    /\ ctl[h].pc \in {"off", "setup", "next", "writing", "written", "ended"} \/ Concluded(h)
          => Idle(h)
    /\ At(h, "pool") =>
          /\ ctl[h].alg > 0
          /\ ctl[h].queue \intersect ctl[h].active = {}
          /\ ctl[h].local = {ResultOf(h, <<Algorithm(h), d>>) :
                                d \in Shard(h) \ (ctl[h].queue \union ctl[h].active)}
    /\ ctl[h].pc \in {"writing", "written"} \/ Concluded(h) => ctl[h].alg = Len(AlgorithmList)
    /\ At(h, "writing") => Holds(h, ctl[h].runs)
    /\ At(h, "written") \/ Concluded(h) => Holds(h, summary[h])
    /\ Concluded(h) => /\ ctl[h].code = 0 => \A r \in ctl[h].results : r[3] = "success"

(* What the e-mail says, and when it is still to be sent.                  *)
Mailed(h) ==
    /\ mail[h] = <<>> \/ \E m \in Messages : mail[h] = <<m>>
    /\ ~ ctl[h].sent => mail[h] = <<>>
    /\ ctl[h].pc \in {"setup", "next", "pool", "writing", "written"} =>
          ~ ctl[h].sent /\ ctl[h].code = None /\ ~ ctl[h].error
    /\ At(h, "drain") => ctl[h].error /\ ctl[h].code \in {1, 130}
    /\ ctl[h].pc \in {"drain", "finish", "mail"} =>
          ctl[h].code \in {0, 1, 130} /\ (ctl[h].sent <=> ctl[h].code = 130)
    /\ ctl[h].code = 0 => ~ ctl[h].error
    /\ ctl[h].code = 130 => ctl[h].error
    /\ \A m \in Elements(mail[h]) :
          /\ m \in {"success", "completed"} =>
                ctl[h].dry \/ Cardinality(ctl[h].results) = Cardinality(Planned(h))
          /\ ctl[h].code # None => (m = "interrupted" <=> ctl[h].code = 130)

HostOK(h) == Shared(h) /\ Accounted(h) /\ Mailed(h)

BenchmarkOK == TypeOK /\ \A h \in Hosts : HostOK(h)

-----------------------------------------------------------------------------
LEMMA Hosting == /\ HostList \in Seq(Hosts) /\ Len(HostList) \in Nat \ {0}
                 /\ \A i \in 1 .. Len(HostList) : HostList[i] \in Hosts /\ IndexOf(HostList[i]) = i
                 /\ \A h \in Hosts : IndexOf(h) \in 1 .. Len(HostList) /\ HostList[IndexOf(h)] = h
<1>1. HostList \in Seq(Hosts) /\ DOMAIN HostList = 1 .. Len(HostList) /\ Len(HostList) \in Nat
  BY BenchmarkAssumption DEF Distinct, Hosts
<1>2. Len(HostList) # 0
  BY <1>1, BenchmarkAssumption DEF Hosts, Elements
<1>3. \A h \in Hosts : IndexOf(h) \in DOMAIN HostList /\ HostList[IndexOf(h)] = h
  BY DEF Hosts, Elements, IndexOf
<1>4. \A i \in DOMAIN HostList : HostList[i] \in Hosts
  BY DEF Hosts, Elements
<1>5. \A i, j \in DOMAIN HostList : HostList[i] = HostList[j] => i = j
  BY BenchmarkAssumption DEF Distinct
<1> QED
  BY <1>1, <1>2, <1>3, <1>4, <1>5

LEMMA Basing ==
    /\ DatabaseList \in Seq(Databases) /\ DOMAIN DatabaseList = 1 .. Len(DatabaseList)
    /\ Len(DatabaseList) \in Nat
    /\ \A i, j \in DOMAIN DatabaseList : DatabaseList[i] = DatabaseList[j] => i = j
  BY BenchmarkAssumption DEF Distinct, Databases

LEMMA Listing ==
    /\ AlgorithmList \in Seq(Algorithms) /\ DOMAIN AlgorithmList = 1 .. Len(AlgorithmList)
    /\ Len(AlgorithmList) \in Nat
    /\ \A i, j \in DOMAIN AlgorithmList : AlgorithmList[i] = AlgorithmList[j] => i = j
  BY BenchmarkAssumption DEF Distinct, Algorithms

LEMMA ShardsWithin == \A h : Shard(h) \subseteq Databases
  BY DEF Shard, Share, Databases, Elements

(* Two hosts share no database: it has one index, the index one residue,   *)
(* and the residue one host.                                               *)
LEMMA ShardsDisjoint ==
    ASSUME NEW g \in Hosts, NEW h \in Hosts, g # h
    PROVE  Shard(g) \intersect Shard(h) = {}
<1> SUFFICES ASSUME NEW d \in Shard(g) \intersect Shard(h) PROVE FALSE
  OBVIOUS
<1>1. PICK i \in DOMAIN DatabaseList :
          d = DatabaseList[i] /\ (i - 1) % Len(HostList) = IndexOf(g) - 1
  BY DEF Shard, Share
<1>2. PICK j \in DOMAIN DatabaseList :
          d = DatabaseList[j] /\ (j - 1) % Len(HostList) = IndexOf(h) - 1
  BY DEF Shard, Share
<1>3. i = j
  BY <1>1, <1>2, Basing
<1>4. IndexOf(g) - 1 = IndexOf(h) - 1
  BY <1>1, <1>2, <1>3
<1>5. IndexOf(g) = IndexOf(h)
  BY <1>4, Hosting
<1> QED
  BY <1>5, Hosting

(* Every database is some host's.                                          *)
LEMMA ShardsCover ==
    ASSUME NEW d \in Databases
    PROVE  \E h \in Hosts : d \in Shard(h)
<1>1. PICK i \in DOMAIN DatabaseList : d = DatabaseList[i]
  BY DEF Databases, Elements
<1> DEFINE r == (i - 1) % Len(HostList)
<1>2. i \in Nat \ {0}
  BY Basing
<1>3. r \in 0 .. Len(HostList) - 1
  BY <1>2, Hosting
<1>4. r + 1 \in 1 .. Len(HostList)
  BY <1>3, Hosting
<1> DEFINE h == HostList[r + 1]
<1>5. h \in Hosts /\ IndexOf(h) = r + 1
  BY <1>4, Hosting
<1>6. r = IndexOf(h) - 1
  BY <1>5, <1>3, Hosting
<1>7. d \in Shard(h)
  BY <1>1, <1>6 DEF Shard, Share
<1> QED
  BY <1>5, <1>7

LEMMA InitOK == Init => BenchmarkOK
<1> SUFFICES ASSUME Init PROVE BenchmarkOK
  OBVIOUS
<1> USE DEF Init, Off
<1>1. Off \in Controller /\ \A h \in Hosts : ctl[h] = Off
  BY Listing DEF Controller, ControllerPC
<1>2. \A h \in Hosts : \A r \in summary[h] :
          r \in Run /\ r[2] \in Shard(h) /\ r[4] <= launches[h]
  <2> SUFFICES ASSUME NEW h \in Hosts, NEW r \in summary[h]
               PROVE  r \in Run /\ r[2] \in Shard(h) /\ r[4] <= launches[h]
    OBVIOUS
  <2>1. r \in Earlier(h)
    OBVIOUS
  <2>2. PICK p \in EarlierAlgorithms \X Shard(h) : r = <<p[1], p[2], "success", 0>>
    BY <2>1 DEF Earlier
  <2>3. p[1] \in EarlierAlgorithms /\ p[2] \in Shard(h) /\ p[2] \in Databases
    BY <2>2, ShardsWithin
  <2> QED
    BY <2>2, <2>3, BenchmarkAssumption DEF Run
<1>3. TypeOK
  <2>1. summary \in [Hosts -> SUBSET Run]
    BY <1>2
  <2> QED
    BY <1>1, <2>1 DEF TypeOK
<1> SUFFICES ASSUME NEW h \in Hosts PROVE HostOK(h)
  BY <1>3 DEF BenchmarkOK
<1>4. ctl[h] = Off /\ launches[h] = 0 /\ mail[h] = <<>>
  OBVIOUS
<1>5. Shared(h)
  BY <1>2, <1>4 DEF Shared
<1>6. ~ Concluded(h)
  BY <1>4 DEF Concluded
<1>7. Accounted(h)
  BY <1>4, <1>6 DEF Accounted, At, Idle
<1>8. Mailed(h)
  BY <1>4, BenchmarkAssumption DEF Mailed, Elements, At
<1> QED
  BY <1>5, <1>7, <1>8 DEF HostOK

LEMMA BehindIn ==
    ASSUME NEW h \in Hosts, ctl[h].alg \in 0 .. Len(AlgorithmList)
    PROVE  Behind(h) \subseteq Algorithms
<1>1. \A i \in 1 .. (IF At(h, "pool") THEN ctl[h].alg - 1 ELSE ctl[h].alg) : i \in 1 .. Len(AlgorithmList)
  BY Listing
<1> QED
  BY <1>1, Listing DEF Behind

(* What a host keeps as long as its own files stay.                        *)
LEMMA Untouched ==
    ASSUME NEW h \in Hosts, HostOK(h), ctl[h].alg \in 0 .. Len(AlgorithmList),
           ctl'[h] = ctl[h], launches'[h] = launches[h], mail'[h] = mail[h],
           summary'[h] = summary[h],
           \A p \in Planned(h) : progress'[p] = progress[p]
    PROVE  HostOK(h)'
<1>1. Shared(h)'
  BY DEF HostOK, Shared
<1>2. Concluded(h)' <=> Concluded(h)
  BY DEF Concluded
<1>3. Behind(h)' = Behind(h) /\ (Idle(h)' <=> Idle(h)) /\ Algorithm(h)' = Algorithm(h)
  BY DEF Behind, Idle, Algorithm, At
<1>4. \A p \in Planned(h) : ResultOf(h, p)' = ResultOf(h, p)
  BY DEF ResultOf
<1>5. ResultsOf(h, Behind(h))' = ResultsOf(h, Behind(h))
  BY <1>3, <1>4, BehindIn DEF ResultsOf, Planned, ResultOf
<1>6. At(h, "pool") => Algorithm(h) \in Algorithms
  BY Listing DEF HostOK, Accounted, Algorithm
<1>7. At(h, "pool") => \A d \in Shard(h) :
          ResultOf(h, <<Algorithm(h), d>>)' = ResultOf(h, <<Algorithm(h), d>>)
  BY <1>6, <1>3 DEF ResultOf, Planned
<1>8. \A runs : Holds(h, runs)' <=> Holds(h, runs)
  BY DEF Holds
<1>9. Accounted(h)'
  BY <1>2, <1>3, <1>5, <1>7, <1>8 DEF HostOK, Accounted, At, Holds
<1>10. Mailed(h)'
  BY DEF HostOK, Mailed, At
<1> QED
  BY <1>1, <1>9, <1>10 DEF HostOK

(* A step of one host, seen from the others.                               *)
Alone(h) == \A g \in Hosts \ {h} :
    /\ ctl'[g] = ctl[g] /\ launches'[g] = launches[g] /\ mail'[g] = mail[g]
    /\ summary'[g] = summary[g]
    /\ \A p \in Planned(g) : progress'[p] = progress[p]

LEMMA StepOK ==
    ASSUME BenchmarkOK, NEW h \in Hosts, Alone(h), TypeOK', HostOK(h)'
    PROVE  BenchmarkOK'
<1> SUFFICES ASSUME NEW g \in Hosts, g # h PROVE HostOK(g)'
  BY DEF BenchmarkOK
<1>1. HostOK(g) /\ ctl[g].alg \in 0 .. Len(AlgorithmList)
  BY DEF BenchmarkOK, TypeOK, Controller
<1>2. /\ ctl'[g] = ctl[g] /\ launches'[g] = launches[g] /\ mail'[g] = mail[g]
      /\ summary'[g] = summary[g]
      /\ \A p \in Planned(g) : progress'[p] = progress[p]
  BY DEF Alone
<1> QED
  BY <1>1, <1>2, Untouched

LEMMA ControllerOf ==
    ASSUME TypeOK, NEW h \in Hosts
    PROVE  /\ ctl[h] \in Controller /\ ctl[h].pc \in ControllerPC /\ ctl[h].dry \in BOOLEAN
           /\ ctl[h].alg \in 0 .. Len(AlgorithmList)
           /\ ctl[h].queue \subseteq Databases /\ ctl[h].active \subseteq Databases
           /\ ctl[h].local \subseteq Run /\ ctl[h].results \subseteq Run /\ ctl[h].runs \subseteq Run
           /\ ctl[h].code \in {0, 1, 130, None} /\ ctl[h].error \in BOOLEAN /\ ctl[h].sent \in BOOLEAN
           /\ launches[h] \in Nat /\ summary[h] \subseteq Run /\ mail[h] \in Seq(Messages)
  BY DEF TypeOK, Controller

(* Steps of the controller's state alone, its mail, its summary.           *)
LEMMA Placed ==
    ASSUME TypeOK, NEW h \in Hosts, NEW c \in Controller, ctl' = [ctl EXCEPT ![h] = c],
           NEW n \in Nat, launches' = [launches EXCEPT ![h] = n] \/ launches' = launches,
           NEW m \in Seq(Messages), mail' = [mail EXCEPT ![h] = m] \/ mail' = mail,
           NEW S \in SUBSET Run, summary' = [summary EXCEPT ![h] = S] \/ summary' = summary,
           progress' = progress
    PROVE  TypeOK' /\ Alone(h) /\ ctl'[h] = c
<1>1. ctl' \in [Hosts -> Controller] /\ ctl'[h] = c /\ \A g \in Hosts \ {h} : ctl'[g] = ctl[g]
  BY DEF TypeOK
<1>2. launches' \in [Hosts -> Nat] /\ \A g \in Hosts \ {h} : launches'[g] = launches[g]
  BY DEF TypeOK
<1>3. mail' \in [Hosts -> Seq(Messages)] /\ \A g \in Hosts \ {h} : mail'[g] = mail[g]
  BY DEF TypeOK
<1>4. summary' \in [Hosts -> SUBSET Run] /\ \A g \in Hosts \ {h} : summary'[g] = summary[g]
  BY DEF TypeOK
<1> QED
  BY <1>1, <1>2, <1>3, <1>4 DEF TypeOK, Alone

LEMMA OffIs ==
    /\ Off \in Controller
    /\ Off.alg = 0 /\ Off.queue = {} /\ Off.active = {} /\ Off.local = {}
    /\ Off.results = {} /\ Off.runs = {} /\ Off.code = None /\ Off.error = FALSE /\ Off.sent = FALSE
  BY Listing DEF Off, Controller, ControllerPC

LEMMA LaunchedIs ==
    ASSUME NEW c \in Controller, NEW dry \in BOOLEAN
    PROVE  [c EXCEPT !.pc = "setup", !.dry = dry] \in Controller
<1>1. "setup" \in ControllerPC
  BY DEF ControllerPC
<1> QED
  BY <1>1 DEF Controller

LEMMA LaunchKeeps ==
    ASSUME BenchmarkOK, NEW h \in Hosts, NEW dry \in BOOLEAN, Launch(h, dry)
    PROVE  BenchmarkOK'
<1> USE DEF Launch
<1> DEFINE c == [Off EXCEPT !.pc = "setup", !.dry = dry]
<1>1. c \in Controller
  BY OffIs, LaunchedIs
<1>0. /\ c.pc = "setup" /\ c.alg = 0 /\ c.queue = {} /\ c.active = {} /\ c.local = {}
      /\ c.results = {} /\ c.runs = {} /\ c.code = None /\ c.error = FALSE /\ c.sent = FALSE
  BY OffIs DEF Controller
<1>a. ctl' = [ctl EXCEPT ![h] = c]
  OBVIOUS
<1> HIDE DEF c
<1>2. launches[h] + 1 \in Nat /\ <<>> \in Seq(Messages) /\ {} \in SUBSET Run
  BY ControllerOf DEF BenchmarkOK
<1>3. TypeOK' /\ Alone(h) /\ ctl'[h] = c
  BY <1>a, <1>1, <1>2, Placed DEF BenchmarkOK, fileVars
<1>b. /\ ctl'[h].pc = "setup" /\ ctl'[h].alg = 0 /\ ctl'[h].queue = {} /\ ctl'[h].active = {}
      /\ ctl'[h].local = {} /\ ctl'[h].results = {} /\ ctl'[h].runs = {}
      /\ ctl'[h].code = None /\ ctl'[h].error = FALSE /\ ctl'[h].sent = FALSE
  BY <1>0, <1>3
<1>4. launches'[h] = launches[h] + 1 /\ mail'[h] = <<>> /\ summary'[h] = summary[h]
  BY DEF BenchmarkOK, TypeOK, fileVars
<1>5. Shared(h)'
  <2>1. \A r \in summary[h] : r[2] \in Shard(h) /\ r[4] \in Nat /\ r[4] <= launches[h]
    BY ControllerOf DEF BenchmarkOK, HostOK, Shared, Run
  <2>2. \A r \in summary[h] : r[2] \in Shard(h) /\ r[4] <= launches[h] + 1
    BY <2>1, ControllerOf DEF BenchmarkOK
  <2> QED
    BY <1>b, <1>4, <2>2 DEF Shared
<1>6. ~ Concluded(h)'
  BY <1>b DEF Concluded
<1>7. Accounted(h)'
  BY <1>b, <1>6 DEF Accounted, At, Idle
<1>8. Mailed(h)'
  BY <1>b, <1>4, BenchmarkAssumption DEF Mailed, At, Elements
<1> QED
  BY <1>3, <1>5, <1>7, <1>8, StepOK DEF HostOK

LEMMA SharedStays ==
    ASSUME NEW h \in Hosts, Shared(h), launches'[h] = launches[h],
           ctl'[h].queue \union ctl'[h].active \subseteq ctl[h].queue \union ctl[h].active,
           ctl'[h].alg = ctl[h].alg,
           summary'[h] \union ctl'[h].local \union ctl'[h].results \union ctl'[h].runs
             \subseteq summary[h] \union ctl[h].local \union ctl[h].results \union ctl[h].runs
    PROVE  Shared(h)'
  BY DEF Shared

(* After the last command there is an account only of a controller that    *)
(* has concluded.                                                          *)
LEMMA AccountStays ==
    ASSUME NEW h \in Hosts, Accounted(h),
           ctl'[h].pc \in {"drain", "finish", "mail", "exit", "ended"},
           ctl'[h].pc = "ended" => Idle(h)',
           Concluded(h)' => /\ Concluded(h) /\ Idle(h)'
                            /\ ctl'[h].alg = ctl[h].alg /\ ctl'[h].results = ctl[h].results
                            /\ ctl'[h].code = ctl[h].code /\ summary'[h] = summary[h]
                            /\ progress' = progress /\ launches'[h] = launches[h]
    PROVE  Accounted(h)'
<1>1. CASE ~ Concluded(h)'
  BY <1>1 DEF Accounted, At
<1>2. CASE Concluded(h)'
  <2>1. ~ At(h, "pool") /\ ~ At(h, "pool")'
    BY <1>2 DEF Concluded, At
  <2>2. Behind(h)' = Behind(h)
    BY <1>2, <2>1 DEF Behind
  <2>3. ResultsOf(h, Behind(h))' = ResultsOf(h, Behind(h))
    BY <1>2, <2>2 DEF ResultsOf, ResultOf
  <2>4. /\ ctl[h].results = ResultsOf(h, Behind(h)) /\ ctl[h].alg = Len(AlgorithmList)
        /\ Holds(h, summary[h])
        /\ ctl[h].code = 0 => \A r \in ctl[h].results : r[3] = "success"
    BY <1>2 DEF Accounted
  <2>5. Holds(h, summary[h])'
    BY <1>2, <2>4 DEF Holds
  <2>6. ctl'[h].results = ResultsOf(h, Behind(h))' /\ ctl'[h].alg = Len(AlgorithmList)
        /\ (ctl'[h].code = 0 => \A r \in ctl'[h].results : r[3] = "success")
    BY <1>2, <2>3, <2>4
  <2> QED
    BY <1>2, <2>1, <2>5, <2>6 DEF Accounted, At
<1> QED
  BY <1>1, <1>2

(* A step that changes where the controller is, and how it ends.           *)
Moving(h, pc, code, error, sent) ==
    ctl' = [ctl EXCEPT ![h] = [@ EXCEPT !.pc = pc, !.code = code, !.error = error, !.sent = sent]]

(* What the step does to the host's e-mails and summary.                   *)
Framed(h) ==
    /\ mail' \in [Hosts -> Seq(Messages)] /\ summary' \in [Hosts -> SUBSET Run]
    /\ \A g \in Hosts \ {h} : mail'[g] = mail[g] /\ summary'[g] = summary[g]

LEMMA MovedTo ==
    ASSUME BenchmarkOK, NEW h \in Hosts, NEW pc \in ControllerPC,
           NEW code \in {0, 1, 130, None}, NEW error \in BOOLEAN, NEW sent \in BOOLEAN,
           Moving(h, pc, code, error, sent), UNCHANGED <<launches, progress>>,
           Framed(h)
    PROVE  /\ TypeOK' /\ Alone(h)
           /\ ctl'[h].pc = pc /\ ctl'[h].code = code /\ ctl'[h].error = error /\ ctl'[h].sent = sent
           /\ ctl'[h].dry = ctl[h].dry /\ ctl'[h].alg = ctl[h].alg
           /\ ctl'[h].queue = ctl[h].queue /\ ctl'[h].active = ctl[h].active
           /\ ctl'[h].local = ctl[h].local /\ ctl'[h].results = ctl[h].results
           /\ ctl'[h].runs = ctl[h].runs /\ (Idle(h)' <=> Idle(h))
<1> DEFINE c == [ctl[h] EXCEPT !.pc = pc, !.code = code, !.error = error, !.sent = sent]
<1>1. TypeOK /\ ctl[h] \in Controller /\ launches[h] \in Nat
  BY ControllerOf DEF BenchmarkOK
<1>2. c \in Controller
  BY <1>1 DEF Controller
<1>3. /\ c.pc = pc /\ c.code = code /\ c.error = error /\ c.sent = sent
      /\ c.dry = ctl[h].dry /\ c.alg = ctl[h].alg /\ c.queue = ctl[h].queue
      /\ c.active = ctl[h].active /\ c.local = ctl[h].local /\ c.results = ctl[h].results
      /\ c.runs = ctl[h].runs
  BY <1>1 DEF Controller
<1>4. ctl' = [ctl EXCEPT ![h] = c]
  BY DEF Moving
<1> HIDE DEF c
<1>5. TypeOK' /\ Alone(h) /\ ctl'[h] = c
  BY <1>1, <1>2, <1>4 DEF TypeOK, Alone, Framed
<1> QED
  BY <1>3, <1>5 DEF Idle

LEMMA Moves ==
    ASSUME BenchmarkOK, NEW h \in Hosts
    PROVE  /\ \A pc : Go(h, pc) => Moving(h, pc, ctl[h].code, ctl[h].error, ctl[h].sent)
           /\ \A c, e : Return(h, c, e) => Moving(h, "finish", c, e, ctl[h].sent)
           /\ \A pc, c : Interrupted(h, pc, c) => Moving(h, pc, c, TRUE, TRUE)
<1> DEFINE c0 == ctl[h]
<1>1. c0 \in Controller
  BY ControllerOf DEF BenchmarkOK
<1>2. \A pc : [c0 EXCEPT !.pc = pc]
        = [c0 EXCEPT !.pc = pc, !.code = c0.code, !.error = c0.error, !.sent = c0.sent]
  <2> HIDE DEF c0
  <2> QED
    BY <1>1 DEF Controller
<1>3. \A c, e : [c0 EXCEPT !.pc = "finish", !.code = c, !.error = e]
        = [c0 EXCEPT !.pc = "finish", !.code = c, !.error = e, !.sent = c0.sent]
  <2> HIDE DEF c0
  <2> QED
    BY <1>1 DEF Controller
<1>4. \A pc : Go(h, pc) => Moving(h, pc, ctl[h].code, ctl[h].error, ctl[h].sent)
  <2> SUFFICES ASSUME NEW pc, Go(h, pc)
               PROVE  Moving(h, pc, ctl[h].code, ctl[h].error, ctl[h].sent)
    OBVIOUS
  <2>1. ctl' = [ctl EXCEPT ![h] = [c0 EXCEPT !.pc = pc]]
    BY DEF Go
  <2> QED
    BY <2>1, <1>2 DEF Moving
<1>5. \A c, e : Return(h, c, e) => Moving(h, "finish", c, e, ctl[h].sent)
  <2> SUFFICES ASSUME NEW c, NEW e, Return(h, c, e)
               PROVE  Moving(h, "finish", c, e, ctl[h].sent)
    OBVIOUS
  <2>1. ctl' = [ctl EXCEPT ![h] = [c0 EXCEPT !.pc = "finish", !.code = c, !.error = e]]
    BY DEF Return
  <2> QED
    BY <2>1, <1>3 DEF Moving
<1>6. \A pc, c : Interrupted(h, pc, c) => Moving(h, pc, c, TRUE, TRUE)
  BY DEF Interrupted, Moving
<1> QED
  BY <1>4, <1>5, <1>6

LEMMA SetupKeeps ==
    ASSUME BenchmarkOK, NEW h \in Hosts,
           SetupFails(h) \/ DryRun(h) \/ SetupDone(h) \/ WorkersInvalid(h)
    PROVE  BenchmarkOK'
<1> USE DEF fileVars, faultVars
<1>1. HostOK(h) /\ TypeOK
  BY DEF BenchmarkOK
<1>2. ctl[h].pc = "setup"
  BY DEF SetupFails, DryRun, SetupDone, WorkersInvalid, At
<1>3. /\ ctl[h].sent = FALSE /\ ctl[h].code = None /\ ctl[h].error = FALSE /\ mail[h] = <<>>
      /\ ctl[h].alg = 0 /\ ctl[h].results = {} /\ Idle(h)
  BY <1>1, <1>2, ControllerOf DEF HostOK, Mailed, Accounted, At
<1>4. launches' = launches /\ mail' = mail /\ progress' = progress /\ mail[h] \in Seq(Messages)
  BY <1>1, ControllerOf DEF SetupFails, DryRun, SetupDone, WorkersInvalid
<1>5. Elements(mail[h]) = {}
  BY <1>3 DEF Elements
<1>6. ASSUME NEW pc \in {"finish", "next", "exit"}, NEW code \in {0, 1, None}, NEW error \in BOOLEAN,
             Moving(h, pc, code, error, ctl[h].sent),
             summary' = summary \/ summary' = [summary EXCEPT ![h] = {}],
             pc = "next" => code = None /\ error = FALSE /\ summary' = summary,
             pc = "exit" => code = None,
             pc = "finish" => code # None /\ (ctl[h].dry \/ error = TRUE),
             code = 0 => error = FALSE
      PROVE  BenchmarkOK'
  <2>1. pc \in ControllerPC /\ code \in {0, 1, 130, None} /\ ctl[h].sent \in BOOLEAN /\ {} \in SUBSET Run
    BY <1>3 DEF ControllerPC
  <2>2. /\ TypeOK' /\ Alone(h)
        /\ ctl'[h].pc = pc /\ ctl'[h].code = code /\ ctl'[h].error = error
        /\ ctl'[h].sent = ctl[h].sent
        /\ ctl'[h].dry = ctl[h].dry /\ ctl'[h].alg = ctl[h].alg
        /\ ctl'[h].queue = ctl[h].queue /\ ctl'[h].active = ctl[h].active
        /\ ctl'[h].local = ctl[h].local /\ ctl'[h].results = ctl[h].results
        /\ ctl'[h].runs = ctl[h].runs /\ (Idle(h)' <=> Idle(h))
    <3>1. UNCHANGED <<launches, progress>> /\ Framed(h)
      BY <1>1, <1>4, <1>6, <2>1 DEF Framed, TypeOK
    <3>2. Moving(h, pc, code, error, ctl[h].sent)
      BY <1>6
    <3> QED
      BY <2>1, <3>1, <3>2, MovedTo
  <2>3. summary'[h] \subseteq summary[h]
    BY <1>1, <1>6 DEF TypeOK
  <2>4. Shared(h)'
    BY <1>1, <1>4, <2>2, <2>3, SharedStays DEF HostOK
  <2>5. ~ Concluded(h)'
    BY <1>6, <2>2, BenchmarkAssumption DEF Concluded
  <2>6. Accounted(h)'
    <3>1. CASE pc = "next"
      <4>1. Behind(h)' = {}
        BY <1>3, <2>2, <3>1 DEF Behind, At
      <4>2. ResultsOf(h, Behind(h))' = {}
        BY <4>1 DEF ResultsOf
      <4> QED
        BY <1>3, <2>2, <2>5, <3>1, <4>2 DEF Accounted, At
    <3>2. CASE pc \in {"finish", "exit"}
      BY <1>1, <2>2, <2>5, <3>2, AccountStays DEF HostOK
    <3> QED
      BY <3>1, <3>2
  <2>7. Mailed(h)'
    BY <1>3, <1>4, <1>5, <1>6, <2>2, BenchmarkAssumption DEF Mailed, At
  <2> QED
    BY <2>2, <2>4, <2>6, <2>7, StepOK DEF HostOK
<1>7. CASE SetupFails(h)
  <2>1. Moving(h, "finish", 1, TRUE, ctl[h].sent)
    BY <1>3, <1>7, Moves DEF SetupFails
  <2> QED
    <3>1. summary' = summary
      BY <1>7 DEF SetupFails
    <3>2. "finish" \in {"finish", "next", "exit"} /\ 1 \in {0, 1, None} /\ TRUE \in BOOLEAN
          /\ 1 # None /\ 1 # 0
      BY BenchmarkAssumption
    <3> QED
      BY <1>6, <2>1, <3>1, <3>2
<1>8. CASE DryRun(h)
  <2>1. Moving(h, "finish", 0, FALSE, ctl[h].sent) /\ ctl[h].dry
    BY <1>3, <1>8, Moves DEF DryRun
  <2> QED
    BY <1>6, <1>8, <2>1, BenchmarkAssumption DEF DryRun
<1>9. CASE SetupDone(h)
  <2>1. Moving(h, "next", None, FALSE, ctl[h].sent)
    BY <1>3, <1>9, Moves DEF SetupDone
  <2> QED
    BY <1>6, <1>9, <2>1, BenchmarkAssumption DEF SetupDone
<1>10. CASE WorkersInvalid(h)
  <2>1. Moving(h, "exit", None, FALSE, ctl[h].sent)
    BY <1>3, <1>10, Moves DEF WorkersInvalid
  <2> QED
    BY <1>6, <1>10, <2>1, BenchmarkAssumption DEF WorkersInvalid
<1> QED
  BY <1>7, <1>8, <1>9, <1>10

(* An e-mail is appended to none.                                          *)
LEMMA Sending ==
    ASSUME BenchmarkOK, NEW h \in Hosts, NEW what \in Messages, Send(h, what)
    PROVE  /\ mail' \in [Hosts -> Seq(Messages)]
           /\ \A g \in Hosts \ {h} : mail'[g] = mail[g]
           /\ mail'[h] = mail[h] \/ (ctl[h].sent = FALSE /\ mail[h] = <<>> /\ mail'[h] = <<what>>)
<1>1. mail \in [Hosts -> Seq(Messages)] /\ ctl[h].sent \in BOOLEAN /\ Mailed(h)
  BY ControllerOf DEF BenchmarkOK, TypeOK, HostOK
<1>2. CASE mail' = mail
  BY <1>1, <1>2
<1>3. CASE ctl[h].sent = FALSE /\ mail' = [mail EXCEPT ![h] = Append(@, what)]
  <2>1. mail[h] = <<>>
    BY <1>1, <1>3 DEF Mailed
  <2>2. Append(mail[h], what) = <<what>> /\ <<what>> \in Seq(Messages)
    BY <2>1
  <2> QED
    BY <1>1, <1>3, <2>1, <2>2
<1> QED
  BY <1>1, <1>2, <1>3 DEF Send, SendAgain

LEMMA InterruptKeeps ==
    ASSUME BenchmarkOK, NEW h \in Hosts, Interrupt(h)
    PROVE  BenchmarkOK'
<1>1. HostOK(h) /\ TypeOK
  BY DEF BenchmarkOK
<1>2. Signalled(h) /\ UNCHANGED fileVars
  BY DEF Interrupt, InterruptMain, InterruptPool, InterruptDrain, InterruptUncaught
<1>3. PICK pc \in {"finish", "drain", "exit"}, code \in {130, None} :
          /\ Moving(h, pc, code, TRUE, TRUE)
          /\ code = None <=> pc = "exit"
          /\ ctl[h].pc \in {"setup", "next", "pool", "writing", "written", "drain"} \/ code = None
  BY Moves, BenchmarkAssumption
  DEF Interrupt, InterruptMain, InterruptPool, InterruptDrain, InterruptUncaught, At
<1>4. launches' = launches /\ summary' = summary /\ progress' = progress /\ Send(h, "interrupted")
  BY <1>2 DEF Signalled, fileVars
<1>5. /\ mail' \in [Hosts -> Seq(Messages)]
      /\ \A g \in Hosts \ {h} : mail'[g] = mail[g]
      /\ mail'[h] = mail[h] \/ (ctl[h].sent = FALSE /\ mail[h] = <<>> /\ mail'[h] = <<"interrupted">>)
  <2>1. "interrupted" \in Messages
    BY DEF Messages
  <2> QED
    BY <1>4, <2>1, Sending
<1>6. Framed(h)
  BY <1>1, <1>4, <1>5 DEF Framed, TypeOK
<1>7. /\ TypeOK' /\ Alone(h)
      /\ ctl'[h].pc = pc /\ ctl'[h].code = code /\ ctl'[h].error = TRUE /\ ctl'[h].sent = TRUE
      /\ ctl'[h].dry = ctl[h].dry /\ ctl'[h].alg = ctl[h].alg
      /\ ctl'[h].queue = ctl[h].queue /\ ctl'[h].active = ctl[h].active
      /\ ctl'[h].local = ctl[h].local /\ ctl'[h].results = ctl[h].results
      /\ ctl'[h].runs = ctl[h].runs
  <2>1. pc \in ControllerPC /\ code \in {0, 1, 130, None} /\ UNCHANGED <<launches, progress>>
    BY <1>4 DEF ControllerPC
  <2>2. PICK yes \in BOOLEAN : yes = TRUE
    OBVIOUS
  <2>3. Moving(h, pc, code, yes, yes)
    BY <1>3, <2>2
  <2> QED
    <3>1. ctl'[h].error = yes /\ ctl'[h].sent = yes
      BY <1>6, <2>1, <2>3, MovedTo
    <3>2. /\ TypeOK' /\ Alone(h)
          /\ ctl'[h].pc = pc /\ ctl'[h].code = code
          /\ ctl'[h].dry = ctl[h].dry /\ ctl'[h].alg = ctl[h].alg
          /\ ctl'[h].queue = ctl[h].queue /\ ctl'[h].active = ctl[h].active
          /\ ctl'[h].local = ctl[h].local /\ ctl'[h].results = ctl[h].results
          /\ ctl'[h].runs = ctl[h].runs
      BY <1>6, <2>1, <2>3, MovedTo
    <3> QED
      BY <2>2, <3>1, <3>2
<1>8. Shared(h)'
  BY <1>1, <1>4, <1>7, SharedStays DEF HostOK
<1>9. Accounted(h)'
  <2>1. ~ Concluded(h)'
    BY <1>7 DEF Concluded
  <2> QED
    BY <1>1, <1>7, <2>1, AccountStays DEF HostOK
<1>10. Mailed(h)'
  <2>1. Mailed(h) /\ ctl[h].sent \in BOOLEAN
    BY <1>1, ControllerOf DEF HostOK
  <2>2. CASE mail'[h] = mail[h]
    <3>1. Elements(mail[h])' = Elements(mail[h])
      BY <2>2 DEF Elements
    <3>2. code = 130 => \A m \in Elements(mail[h]) : m = "interrupted"
      <4>1. CASE ctl[h].pc \in {"setup", "next", "pool", "writing", "written"}
        <5>1. mail[h] = <<>>
          BY <2>1, <4>1 DEF Mailed
        <5> QED
          BY <5>1 DEF Elements
      <4>2. CASE ctl[h].pc = "drain"
        <5>1. ctl[h].code \in {1, 130} /\ (ctl[h].sent <=> ctl[h].code = 130)
          BY <2>1, <4>2, BenchmarkAssumption DEF Mailed, At
        <5>2. CASE ctl[h].sent
          BY <2>1, <5>1, <5>2, BenchmarkAssumption DEF Mailed
        <5>3. CASE ~ ctl[h].sent
          <6>1. mail[h] = <<>>
            BY <2>1, <5>3 DEF Mailed
          <6> QED
            BY <6>1 DEF Elements
        <5> QED
          BY <5>2, <5>3
      <4> QED
        BY <1>3, <4>1, <4>2, BenchmarkAssumption
    <3> QED
      BY <1>3, <1>7, <2>1, <2>2, <3>1, <3>2, BenchmarkAssumption DEF Mailed, At
  <2>3. CASE ctl[h].sent = FALSE /\ mail[h] = <<>> /\ mail'[h] = <<"interrupted">>
    <3>1. Elements(mail[h])' = {"interrupted"}
      BY <2>3 DEF Elements
    <3>2. \E m \in Messages : mail'[h] = <<m>>
      BY <2>3 DEF Messages
    <3> QED
      BY <1>3, <1>7, <3>1, <3>2, BenchmarkAssumption DEF Mailed, At
  <2> QED
    BY <1>5, <2>2, <2>3
<1> QED
  BY <1>7, <1>8, <1>9, <1>10, StepOK DEF HostOK

LEMMA ElementsFinite ==
    ASSUME NEW s, s \in Seq(Elements(s))
    PROVE  IsFiniteSet(Elements(s))
<1>1. DOMAIN s = 1 .. Len(s) /\ Len(s) \in Nat
  OBVIOUS
<1>2. IsFiniteSet(1 .. Len(s))
  BY <1>1, FS_Interval
<1>3. s \in [1 .. Len(s) -> Elements(s)]
  BY <1>1
<1>4. \A t \in Elements(s) : \E i \in 1 .. Len(s) : s[i] = t
  BY <1>1 DEF Elements
<1>5. s \in Surjection(1 .. Len(s), Elements(s))
  BY <1>3, <1>4 DEF Surjection
<1> QED
  BY <1>2, <1>5, FS_Surjection

LEMMA PlannedFinite == \A h : IsFiniteSet(Planned(h))
<1> SUFFICES ASSUME NEW h PROVE IsFiniteSet(Planned(h))
  OBVIOUS
<1>1. IsFiniteSet(Algorithms)
  BY ElementsFinite, BenchmarkAssumption DEF Distinct, Algorithms
<1>2. IsFiniteSet(Databases)
  BY ElementsFinite, BenchmarkAssumption DEF Distinct, Databases
<1>3. Shard(h) \in SUBSET Databases
  BY ShardsWithin
<1>4. IsFiniteSet(Shard(h))
  BY <1>2, <1>3, FS_Subset
<1> QED
  BY <1>1, <1>4, FS_Product DEF Planned

(* A controller with every result has one for each planned pair.           *)
LEMMA AllResults ==
    ASSUME NEW h \in Hosts
    PROVE  Cardinality(ResultsOf(h, Algorithms)) = Cardinality(Planned(h))
<1> DEFINE P == Planned(h)
           R == ResultsOf(h, Algorithms)
           f == [p \in P |-> ResultOf(h, p)]
<1>1. R = {ResultOf(h, p) : p \in P}
  BY DEF ResultsOf, Planned
<1>2. f \in [P -> R] /\ \A r \in R : \E p \in P : f[p] = r
  BY <1>1
<1>3. \A p, q \in P : ResultOf(h, p) = ResultOf(h, q) => p = q
  BY DEF Planned, ResultOf
<1>4. f \in Injection(P, R)
  BY <1>2, <1>3 DEF Injection, IsInjective
<1>5. f \in Surjection(P, R)
  BY <1>2 DEF Surjection
<1>6. ExistsBijection(P, R)
  BY <1>4, <1>5 DEF ExistsBijection, Bijection
<1> QED
  BY <1>6, PlannedFinite, FS_Bijection

LEMMA ConcludedHasAll ==
    ASSUME TypeOK, NEW h \in Hosts, Accounted(h), At(h, "writing") \/ Concluded(h)
    PROVE  /\ ctl[h].results = ResultsOf(h, Algorithms)
           /\ Cardinality(ctl[h].results) = Cardinality(Planned(h))
<1>1. ~ At(h, "pool") /\ ctl[h].alg = Len(AlgorithmList) /\ ctl[h].results = ResultsOf(h, Behind(h))
  BY DEF Accounted, Concluded, At
<1>2. Behind(h) = Algorithms
  <2>1. (IF At(h, "pool") THEN ctl[h].alg - 1 ELSE ctl[h].alg) = Len(AlgorithmList)
    BY <1>1
  <2>2. Behind(h) = {AlgorithmList[i] : i \in 1 .. Len(AlgorithmList)}
    BY <2>1 DEF Behind
  <2>3. Algorithms = {AlgorithmList[i] : i \in 1 .. Len(AlgorithmList)}
    <3>1. DOMAIN AlgorithmList = 1 .. Len(AlgorithmList)
      BY Listing
    <3> QED
      BY <3>1 DEF Algorithms, Elements
  <2> QED
    BY <2>2, <2>3
<1> QED
  BY <1>1, <1>2, AllResults

LEMMA ReturnKeeps ==
    ASSUME BenchmarkOK, NEW h \in Hosts, Drained(h) \/ RestoreHandlers(h)
    PROVE  BenchmarkOK'
<1>1. HostOK(h) /\ TypeOK
  BY DEF BenchmarkOK
<1>a. PICK pc \in {"finish", "mail"} :
          /\ Go(h, pc)
          /\ (pc = "finish" /\ ctl[h].pc = "drain") \/ (pc = "mail" /\ ctl[h].pc = "finish")
  <2>1. \/ Go(h, "finish") /\ ctl[h].pc = "drain"
        \/ Go(h, "mail") /\ ctl[h].pc = "finish"
    BY DEF Drained, RestoreHandlers, At
  <2> QED
    BY <2>1
<1>2. /\ Moving(h, pc, ctl[h].code, ctl[h].error, ctl[h].sent)
      /\ (pc = "finish" /\ ctl[h].pc = "drain") \/ (pc = "mail" /\ ctl[h].pc = "finish")
  BY <1>a, Moves
<1>3. launches' = launches /\ summary' = summary /\ progress' = progress /\ mail' = mail
  BY DEF Drained, RestoreHandlers, fileVars, faultVars
<1>4. /\ TypeOK' /\ Alone(h)
      /\ ctl'[h].pc = pc /\ ctl'[h].code = ctl[h].code /\ ctl'[h].error = ctl[h].error
      /\ ctl'[h].sent = ctl[h].sent
      /\ ctl'[h].dry = ctl[h].dry /\ ctl'[h].alg = ctl[h].alg
      /\ ctl'[h].queue = ctl[h].queue /\ ctl'[h].active = ctl[h].active
      /\ ctl'[h].local = ctl[h].local /\ ctl'[h].results = ctl[h].results
      /\ ctl'[h].runs = ctl[h].runs /\ (Idle(h)' <=> Idle(h))
  <2>1. pc \in ControllerPC /\ UNCHANGED <<launches, progress>> /\ Framed(h)
    BY <1>1, <1>3 DEF ControllerPC, Framed, TypeOK
  <2>2. ctl[h].code \in {0, 1, 130, None} /\ ctl[h].error \in BOOLEAN /\ ctl[h].sent \in BOOLEAN
    BY <1>1, ControllerOf
  <2> QED
    BY <1>2, <2>1, <2>2, MovedTo
<1>5. Shared(h)'
  BY <1>1, <1>3, <1>4, SharedStays DEF HostOK
<1>6. Accounted(h)'
  <2>1. Concluded(h)' => Concluded(h)
    <3>1. CASE ctl[h].pc = "drain"
      BY <1>1, <1>4, <3>1, BenchmarkAssumption DEF Concluded, HostOK, Mailed, At
    <3>2. CASE ctl[h].pc = "finish"
      BY <1>4, <3>2 DEF Concluded
    <3> QED
      BY <1>2, <3>1, <3>2
  <2>2. Concluded(h) => Idle(h)
    BY <1>1 DEF HostOK, Accounted
  <2>3. ctl'[h].pc \in {"drain", "finish", "mail", "exit", "ended"} /\ ctl'[h].pc # "ended"
    BY <1>2, <1>4
  <2> QED
    BY <1>1, <1>3, <1>4, <2>1, <2>2, <2>3, AccountStays DEF HostOK
<1>7. Mailed(h)'
  BY <1>1, <1>2, <1>3, <1>4 DEF HostOK, Mailed, At, Elements
<1> QED
  BY <1>4, <1>5, <1>6, <1>7, StepOK DEF HostOK

LEMMA SendMailKeeps ==
    ASSUME BenchmarkOK, NEW h \in Hosts, SendMail(h)
    PROVE  BenchmarkOK'
<1>1. HostOK(h) /\ TypeOK
  BY DEF BenchmarkOK
<1>2. ctl[h].pc = "mail" /\ Send(h, MailStatus(h))
  BY DEF SendMail, At
<1>3. /\ launches' = launches /\ summary' = summary /\ progress' = progress
      /\ ctl' = [ctl EXCEPT ![h].pc = "exit", ![h].sent = TRUE]
  BY DEF SendMail, fileVars, faultVars
<1>4. ctl[h].code \in {0, 1, 130} /\ (ctl[h].sent <=> ctl[h].code = 130) /\ Mailed(h)
  BY <1>1, <1>2 DEF HostOK, Mailed, At
<1>a. /\ MailStatus(h) \in Messages
      /\ ~ ctl[h].sent => MailStatus(h) # "interrupted"
      /\ MailStatus(h) \in {"success", "completed"} =>
            ctl[h].code \in {0, 1} /\ ~ ctl[h].error
  BY <1>4 DEF MailStatus, Mailed, Messages
<1>b. PICK what \in Messages : what = MailStatus(h)
  BY <1>a
<1>5. /\ ~ ctl[h].sent => what # "interrupted"
      /\ what \in {"success", "completed"} => ctl[h].code \in {0, 1} /\ ~ ctl[h].error
  BY <1>a, <1>b
<1>6. /\ mail' \in [Hosts -> Seq(Messages)]
      /\ \A g \in Hosts \ {h} : mail'[g] = mail[g]
      /\ mail'[h] = mail[h] \/ (ctl[h].sent = FALSE /\ mail[h] = <<>> /\ mail'[h] = <<what>>)
  BY <1>2, <1>b, Sending
<1>7. PICK yes \in BOOLEAN : yes = TRUE
  OBVIOUS
<1>8. Moving(h, "exit", ctl[h].code, ctl[h].error, yes)
  <2> DEFINE c0 == ctl[h]
  <2>1. c0 \in Controller
    BY <1>1, ControllerOf
  <2>2. [c0 EXCEPT !.pc = "exit", !.sent = yes]
          = [c0 EXCEPT !.pc = "exit", !.code = c0.code, !.error = c0.error, !.sent = yes]
    <3> HIDE DEF c0
    <3> QED
      BY <2>1 DEF Controller
  <2>3. ctl' = [ctl EXCEPT ![h] = [c0 EXCEPT !.pc = "exit", !.sent = yes]]
    BY <1>1, <1>3, <1>7 DEF TypeOK
  <2> QED
    BY <2>2, <2>3 DEF Moving
<1>9. /\ TypeOK' /\ Alone(h)
      /\ ctl'[h].pc = "exit" /\ ctl'[h].code = ctl[h].code /\ ctl'[h].error = ctl[h].error
      /\ ctl'[h].sent = yes
      /\ ctl'[h].dry = ctl[h].dry /\ ctl'[h].alg = ctl[h].alg
      /\ ctl'[h].queue = ctl[h].queue /\ ctl'[h].active = ctl[h].active
      /\ ctl'[h].local = ctl[h].local /\ ctl'[h].results = ctl[h].results
      /\ ctl'[h].runs = ctl[h].runs /\ (Idle(h)' <=> Idle(h))
  <2>1. "exit" \in ControllerPC /\ UNCHANGED <<launches, progress>> /\ Framed(h)
    BY <1>1, <1>3, <1>6 DEF ControllerPC, Framed, TypeOK
  <2>2. ctl[h].code \in {0, 1, 130, None} /\ ctl[h].error \in BOOLEAN
    BY <1>1, ControllerOf
  <2> QED
    BY <1>8, <2>1, <2>2, MovedTo
<1>10. Shared(h)'
  BY <1>1, <1>3, <1>9, SharedStays DEF HostOK
<1>11. Accounted(h)'
  <2>1. (Concluded(h)' => Concluded(h)) /\ (Concluded(h) => Idle(h))
    BY <1>1, <1>2, <1>9 DEF HostOK, Accounted, Concluded
  <2> QED
    BY <1>1, <1>3, <1>9, <2>1, AccountStays DEF HostOK
<1>12. Mailed(h)'
  <2>1. CASE mail'[h] = mail[h]
    BY <1>4, <1>7, <1>9, <2>1, BenchmarkAssumption DEF Mailed, At, Elements
  <2>2. CASE ctl[h].sent = FALSE /\ mail'[h] = <<what>>
    <3>1. Elements(mail[h])' = {what}
      BY <2>2 DEF Elements
    <3>2. what \in {"success", "completed"} =>
             ctl[h].dry \/ Cardinality(ctl[h].results) = Cardinality(Planned(h))
      <4>1. what \in {"success", "completed"} /\ ~ ctl[h].dry => Concluded(h)
        BY <1>2, <1>5 DEF Concluded
      <4> QED
        BY <1>1, <4>1, ConcludedHasAll DEF HostOK
    <3>3. what # "interrupted" /\ ctl[h].code # 130
      BY <1>4, <1>5, <2>2
    <3> QED
      BY <1>4, <1>7, <1>9, <2>2, <3>1, <3>2, <3>3, BenchmarkAssumption DEF Mailed, At
  <2> QED
    BY <1>6, <2>1, <2>2
<1> QED
  BY <1>9, <1>10, <1>11, <1>12, StepOK DEF HostOK

LEMMA EndKeeps ==
    ASSUME BenchmarkOK, NEW h \in Hosts, Exit(h) \/ Kill(h)
    PROVE  BenchmarkOK'
<1>1. HostOK(h) /\ TypeOK
  BY DEF BenchmarkOK
<1>2. PICK code \in {0, 1, 130, None} :
          /\ ctl' = [ctl EXCEPT ![h] = [ctl[h] EXCEPT !.pc = "ended", !.queue = {}, !.active = {},
                                                      !.code = code]]
          /\ code = None \/ (code = ctl[h].code /\ ctl[h].pc = "exit")
  <2> DEFINE c0 == ctl[h]
  <2>1. c0 \in Controller /\ c0.code \in {0, 1, 130, None}
    BY <1>1, ControllerOf
  <2>2. CASE Exit(h)
    <3>1. [c0 EXCEPT !.pc = "ended", !.queue = {}, !.active = {}]
            = [c0 EXCEPT !.pc = "ended", !.queue = {}, !.active = {}, !.code = c0.code]
      <4> HIDE DEF c0
      <4> QED
        BY <2>1 DEF Controller
    <3>2. ctl' = [ctl EXCEPT ![h] = [c0 EXCEPT !.pc = "ended", !.queue = {}, !.active = {}]]
      BY <1>1, <2>2 DEF Exit, TypeOK
    <3> QED
      BY <2>1, <2>2, <3>1, <3>2 DEF Exit, At
  <2>3. CASE Kill(h)
    <3>1. ctl' = [ctl EXCEPT ![h] = [c0 EXCEPT !.pc = "ended", !.queue = {}, !.active = {},
                                                   !.code = None]]
      BY <1>1, <2>3 DEF Kill, TypeOK
    <3> QED
      BY <3>1
  <2> QED
    BY <2>2, <2>3
<1>3. launches' = launches /\ summary' = summary /\ progress' = progress /\ mail' = mail
  BY DEF Exit, Kill, fileVars, faultVars
<1>4. /\ TypeOK' /\ Alone(h)
      /\ ctl'[h].pc = "ended" /\ ctl'[h].code = code /\ ctl'[h].error = ctl[h].error
      /\ ctl'[h].sent = ctl[h].sent
      /\ ctl'[h].dry = ctl[h].dry /\ ctl'[h].alg = ctl[h].alg
      /\ ctl'[h].queue = {} /\ ctl'[h].active = {}
      /\ ctl'[h].local = ctl[h].local /\ ctl'[h].results = ctl[h].results
      /\ ctl'[h].runs = ctl[h].runs
  <2> DEFINE c == [ctl[h] EXCEPT !.pc = "ended", !.queue = {}, !.active = {}, !.code = code]
  <2>1. ctl[h] \in Controller /\ "ended" \in ControllerPC
    BY <1>1, ControllerOf DEF ControllerPC
  <2>2. c \in Controller
    BY <2>1 DEF Controller
  <2>3. /\ c.pc = "ended" /\ c.code = code /\ c.error = ctl[h].error /\ c.sent = ctl[h].sent
        /\ c.dry = ctl[h].dry /\ c.alg = ctl[h].alg /\ c.queue = {} /\ c.active = {}
        /\ c.local = ctl[h].local /\ c.results = ctl[h].results /\ c.runs = ctl[h].runs
    BY <2>1 DEF Controller
  <2>4. ctl' = [ctl EXCEPT ![h] = c]
    BY <1>2
  <2> HIDE DEF c
  <2>5. TypeOK' /\ Alone(h) /\ ctl'[h] = c
    BY <1>1, <1>3, <2>2, <2>4 DEF TypeOK, Alone
  <2> QED
    BY <2>3, <2>5
<1>5. Shared(h)'
  BY <1>1, <1>3, <1>4, SharedStays DEF HostOK
<1>6. Idle(h)'
  BY <1>4 DEF Idle
<1>7. Accounted(h)'
  <2>1. Concluded(h)' => Concluded(h) /\ code = ctl[h].code
    BY <1>2, <1>4, BenchmarkAssumption DEF Concluded
  <2> QED
    BY <1>1, <1>3, <1>4, <1>6, <2>1, AccountStays DEF HostOK
<1>8. Mailed(h)'
  <2>1. Elements(mail[h])' = Elements(mail[h])
    BY <1>3 DEF Elements
  <2>2. ctl[h].code = 0 => ctl[h].error = FALSE
    BY <1>1, ControllerOf DEF HostOK, Mailed
  <2>3. Mailed(h)
    BY <1>1 DEF HostOK
  <2> QED
    BY <1>2, <1>3, <1>4, <2>1, <2>2, <2>3, BenchmarkAssumption DEF Mailed, At
<1> QED
  BY <1>4, <1>5, <1>7, <1>8, StepOK DEF HostOK

(***************************************************************************)
(* The algorithms.  Before the last of them has ended there is no e-mail.  *)
(***************************************************************************)
LEMMA StillSilent ==
    ASSUME NEW h \in Hosts, Mailed(h), mail'[h] = mail[h],
           ctl[h].pc \in {"next", "pool", "writing", "written"},
           ctl'[h].sent = ctl[h].sent,
           \/ /\ ctl'[h].pc \in {"next", "pool", "writing", "written"}
              /\ ctl'[h].code = ctl[h].code /\ ctl'[h].error = ctl[h].error
           \/ /\ ctl'[h].pc = "finish"
              /\ ctl'[h].code \in {0, 1} /\ ctl'[h].error = FALSE
           \/ /\ ctl'[h].pc \in {"drain", "finish"}
              /\ ctl'[h].code = 1 /\ ctl'[h].error = TRUE
    PROVE  Mailed(h)'
<1>1. mail[h] = <<>> /\ ~ ctl[h].sent /\ ctl[h].code = None /\ ~ ctl[h].error
  BY DEF Mailed
<1>2. mail'[h] = <<>> /\ Elements(mail[h])' = {}
  BY <1>1 DEF Elements
<1> QED
  BY <1>1, <1>2, BenchmarkAssumption DEF Mailed, At

LEMMA NextAlgorithm ==
    ASSUME TypeOK, NEW h \in Hosts, ctl[h].alg < Len(AlgorithmList), At(h, "next"),
           ctl'[h].pc = "pool", ctl'[h].alg = ctl[h].alg + 1
    PROVE  Behind(h)' = Behind(h)
<1>1. ctl[h].alg \in Nat
  BY ControllerOf, Listing
<1>2. (IF At(h, "pool") THEN ctl[h].alg - 1 ELSE ctl[h].alg)' = ctl[h].alg
  BY <1>1 DEF At
<1>3. (IF At(h, "pool") THEN ctl[h].alg - 1 ELSE ctl[h].alg) = ctl[h].alg
  BY DEF At
<1> QED
  BY <1>2, <1>3 DEF Behind

LEMMA StartAlgorithmKeeps ==
    ASSUME BenchmarkOK, NEW h \in Hosts, StartAlgorithm(h)
    PROVE  BenchmarkOK'
<1>1. HostOK(h) /\ TypeOK /\ ctl[h].pc = "next" /\ ctl[h].alg < Len(AlgorithmList)
  BY DEF BenchmarkOK, At, StartAlgorithm
<1>2. launches' = launches /\ summary' = summary /\ progress' = progress /\ mail' = mail
  BY DEF StartAlgorithm, fileVars, faultVars
<1>3. ctl[h].alg \in Nat /\ ctl[h].alg + 1 \in 1 .. Len(AlgorithmList)
  BY <1>1, ControllerOf, Listing
<1>4. /\ TypeOK' /\ Alone(h)
      /\ ctl'[h].pc = "pool" /\ ctl'[h].code = ctl[h].code /\ ctl'[h].error = ctl[h].error
      /\ ctl'[h].sent = ctl[h].sent
      /\ ctl'[h].dry = ctl[h].dry /\ ctl'[h].alg = ctl[h].alg + 1
      /\ ctl'[h].queue = Shard(h) /\ ctl'[h].active = ctl[h].active
      /\ ctl'[h].local = {} /\ ctl'[h].results = ctl[h].results
      /\ ctl'[h].runs = ctl[h].runs
  <2> DEFINE c == [ctl[h] EXCEPT !.pc = "pool", !.alg = ctl[h].alg + 1, !.queue = Shard(h), !.local = {}]
  <2>1. ctl[h] \in Controller /\ "pool" \in ControllerPC /\ Shard(h) \in SUBSET Databases
        /\ ctl[h].alg + 1 \in 0 .. Len(AlgorithmList)
    BY <1>1, <1>3, ControllerOf, ShardsWithin, Listing DEF ControllerPC
  <2>2. c \in Controller
    BY <2>1 DEF Controller
  <2>3. /\ c.pc = "pool" /\ c.code = ctl[h].code /\ c.error = ctl[h].error /\ c.sent = ctl[h].sent
        /\ c.dry = ctl[h].dry /\ c.alg = ctl[h].alg + 1 /\ c.queue = Shard(h)
        /\ c.active = ctl[h].active
        /\ c.local = {} /\ c.results = ctl[h].results /\ c.runs = ctl[h].runs
    BY <2>1 DEF Controller
  <2>4. ctl' = [ctl EXCEPT ![h] = c]
    BY <1>1 DEF TypeOK, StartAlgorithm
  <2> HIDE DEF c
  <2>5. TypeOK' /\ Alone(h) /\ ctl'[h] = c
    BY <1>1, <1>2, <2>2, <2>4 DEF TypeOK, Alone
  <2> QED
    BY <2>3, <2>5
<1>5. ctl[h].active = {} /\ ctl[h].results = ResultsOf(h, Behind(h))
  BY <1>1 DEF HostOK, Accounted, Idle
<1>6. Shared(h)'
  <2>1. ctl'[h].alg > 0
    BY <1>3, <1>4
  <2>2. \A r \in summary[h] \union ctl[h].local \union ctl[h].results \union ctl[h].runs :
            r[2] \in Shard(h) /\ r[4] <= launches[h]
    BY <1>1 DEF HostOK, Shared
  <2>3. \A r \in (summary[h] \union ctl[h].local \union ctl[h].results \union ctl[h].runs)' :
            r[2] \in Shard(h) /\ r[4] <= launches'[h]
    BY <1>2, <1>4, <2>2
  <2>4. (ctl[h].queue \union ctl[h].active)' = Shard(h)
    BY <1>4, <1>5
  <2> QED
    BY <2>1, <2>3, <2>4 DEF Shared
<1>7. ~ Concluded(h)'
  BY <1>4 DEF Concluded
<1>8. Accounted(h)'
  <2>1. Behind(h)' = Behind(h)
    BY <1>1, <1>4, NextAlgorithm DEF At
  <2>2. ResultsOf(h, Behind(h))' = ResultsOf(h, Behind(h))
    BY <1>2, <2>1 DEF ResultsOf, ResultOf
  <2> QED
    <3>1. ctl'[h].alg > 0 /\ ctl'[h].queue = Shard(h) /\ ctl'[h].active = {}
          /\ ctl'[h].results = ResultsOf(h, Behind(h))' /\ ctl'[h].pc = "pool" /\ ctl'[h].local = {}
      BY <1>3, <1>4, <1>5, <2>2
    <3>2. {ResultOf(h, <<Algorithm(h), d>>) : d \in Shard(h) \ (ctl[h].queue \union ctl[h].active)}' = {}
      BY <3>1
    <3> QED
      BY <1>7, <3>1, <3>2 DEF Accounted, At
<1>9. Mailed(h)'
  BY <1>1, <1>2, <1>4, StillSilent DEF HostOK
<1> QED
  BY <1>4, <1>6, <1>8, <1>9, StepOK DEF HostOK

(* A command of the current algorithm on one of the host's databases       *)
(* starts or ends.                                                         *)
LEMMA Commanding ==
    ASSUME BenchmarkOK, NEW h \in Hosts, NEW d \in ctl[h].queue \union ctl[h].active
    PROVE  /\ d \in Shard(h) /\ ctl[h].alg \in 1 .. Len(AlgorithmList) /\ Algorithm(h) \in Algorithms
           /\ <<Algorithm(h), d>> \in Planned(h)
           /\ \A g \in Hosts \ {h} : <<Algorithm(h), d>> \notin Planned(g)
<1>1. d \in Shard(h) /\ ctl[h].alg > 0
  BY DEF BenchmarkOK, HostOK, Shared
<1>2. ctl[h].alg \in 1 .. Len(AlgorithmList)
  BY <1>1, ControllerOf, Listing DEF BenchmarkOK
<1>3. Algorithm(h) \in Algorithms
  BY <1>2, Listing DEF Algorithm
<1>4. \A g \in Hosts \ {h} : d \notin Shard(g)
  BY <1>1, ShardsDisjoint
<1> QED
  BY <1>1, <1>2, <1>3, <1>4 DEF Planned

Commanded(h, d, st, q, a, new) ==
    /\ ctl' = [ctl EXCEPT ![h] = [ctl[h] EXCEPT !.queue = q, !.active = a, !.local = new]]
    /\ progress' = [progress EXCEPT ![<<Algorithm(h), d>>] = st]
    /\ UNCHANGED <<mail, summary, faultVars>>

LEMMA CommandStep ==
    ASSUME BenchmarkOK, NEW h \in Hosts, NEW d \in ctl[h].queue \union ctl[h].active,
           NEW st \in Statuses \union {"running"},
           NEW q \in SUBSET (ctl[h].queue \union ctl[h].active),
           NEW a \in SUBSET (ctl[h].queue \union ctl[h].active),
           NEW new \in SUBSET Run,
           Commanded(h, d, st, q, a, new)
    PROVE  /\ TypeOK' /\ Alone(h)
           /\ ctl'[h].pc = ctl[h].pc /\ ctl'[h].code = ctl[h].code /\ ctl'[h].error = ctl[h].error
           /\ ctl'[h].sent = ctl[h].sent /\ ctl'[h].dry = ctl[h].dry /\ ctl'[h].alg = ctl[h].alg
           /\ ctl'[h].queue = q /\ ctl'[h].active = a /\ ctl'[h].local = new
           /\ ctl'[h].results = ctl[h].results /\ ctl'[h].runs = ctl[h].runs
           /\ progress'[<<Algorithm(h), d>>] = st
           /\ \A p \in Algorithms \X Databases : p # <<Algorithm(h), d>> => progress'[p] = progress[p]
<1> DEFINE c == [ctl[h] EXCEPT !.queue = q, !.active = a, !.local = new]
<1>1. TypeOK /\ ctl[h] \in Controller /\ q \in SUBSET Databases /\ a \in SUBSET Databases
  BY ControllerOf DEF BenchmarkOK
<1>2. c \in Controller
  BY <1>1 DEF Controller
<1>3. /\ c.pc = ctl[h].pc /\ c.code = ctl[h].code /\ c.error = ctl[h].error /\ c.sent = ctl[h].sent
      /\ c.dry = ctl[h].dry /\ c.alg = ctl[h].alg /\ c.queue = q /\ c.active = a
      /\ c.local = new /\ c.results = ctl[h].results /\ c.runs = ctl[h].runs
  BY <1>1 DEF Controller
<1>4. ctl' = [ctl EXCEPT ![h] = c]
  BY DEF Commanded
<1> HIDE DEF c
<1>5. ctl' \in [Hosts -> Controller] /\ ctl'[h] = c /\ \A g \in Hosts \ {h} : ctl'[g] = ctl[g]
  BY <1>1, <1>2, <1>4 DEF TypeOK
<1>6. PICK x \in Planned(h) : x = <<Algorithm(h), d>> /\ \A g \in Hosts \ {h} : x \notin Planned(g)
  <2>1. /\ <<Algorithm(h), d>> \in Planned(h)
        /\ \A g \in Hosts \ {h} : <<Algorithm(h), d>> \notin Planned(g)
    BY Commanding
  <2> QED
    BY <2>1
<1>7. x \in Algorithms \X Databases /\ \A g \in Hosts : Planned(g) \subseteq Algorithms \X Databases
  BY ShardsWithin DEF Planned
<1>8. progress \in [Algorithms \X Databases -> Statuses \union {"running", None}]
      /\ progress' = [progress EXCEPT ![x] = st]
  BY <1>1, <1>6 DEF TypeOK, Commanded
<1>9. /\ progress' \in [Algorithms \X Databases -> Statuses \union {"running", None}]
      /\ progress'[x] = st
      /\ \A p \in Algorithms \X Databases : p # x => progress'[p] = progress[p]
  BY <1>7, <1>8
<1>10. \A g \in Hosts \ {h} : \A p \in Planned(g) : progress'[p] = progress[p]
  BY <1>6, <1>7, <1>9
<1>11. TypeOK'
  BY <1>1, <1>5, <1>9 DEF TypeOK, Commanded, faultVars
<1>12. Alone(h)
  BY <1>5, <1>10 DEF Alone, Commanded, faultVars
<1> QED
  BY <1>3, <1>5, <1>6, <1>9, <1>11, <1>12

(* What other algorithms gave is not touched.                              *)
LEMMA BehindElse ==
    ASSUME BenchmarkOK, NEW h \in Hosts, NEW d \in ctl[h].queue \union ctl[h].active, At(h, "pool"),
           \A p \in Algorithms \X Databases : p # <<Algorithm(h), d>> => progress'[p] = progress[p],
           ctl'[h].pc = "pool", ctl'[h].alg = ctl[h].alg, launches' = launches
    PROVE  ResultsOf(h, Behind(h))' = ResultsOf(h, Behind(h))
<1>1. Behind(h)' = Behind(h) /\ Behind(h) = {AlgorithmList[i] : i \in 1 .. ctl[h].alg - 1}
  BY DEF Behind, At
<1>2. ctl[h].alg \in 1 .. Len(AlgorithmList)
  BY Commanding
<1>3. \A i \in 1 .. ctl[h].alg - 1 : AlgorithmList[i] \in Algorithms /\ AlgorithmList[i] # Algorithm(h)
  <2>1. \A i \in 1 .. ctl[h].alg - 1 : i \in 1 .. Len(AlgorithmList) /\ i # ctl[h].alg
    BY <1>2, Listing
  <2> QED
    BY <1>2, <2>1, Listing DEF Algorithm
<1>4. \A A \in Behind(h) : A \in Algorithms /\ A # Algorithm(h)
  BY <1>1, <1>3
<1>5. \A p \in Behind(h) \X Shard(h) : p \in Algorithms \X Databases /\ p # <<Algorithm(h), d>>
  BY <1>4, ShardsWithin
<1>6. \A p \in Behind(h) \X Shard(h) : ResultOf(h, p)' = ResultOf(h, p)
  BY <1>5 DEF ResultOf
<1> QED
  BY <1>1, <1>6 DEF ResultsOf, ResultOf

LEMMA CommandKeeps ==
    ASSUME BenchmarkOK, NEW h \in Hosts, NEW d \in Databases,
           StartCommand(h, d) \/ \E st \in Statuses : EndCommand(h, d, st)
    PROVE  BenchmarkOK'
<1>1. HostOK(h) /\ TypeOK /\ ctl[h] \in Controller
  BY ControllerOf DEF BenchmarkOK
<1>2. /\ ctl[h].pc \in {"pool", "drain", "finish", "mail", "exit"}
      /\ d \in ctl[h].queue \union ctl[h].active
      /\ UNCHANGED <<mail, summary, faultVars>>
  BY DEF StartCommand, EndCommand
<1>3. d \in Shard(h) /\ Algorithm(h) \in Algorithms /\ <<Algorithm(h), d>> \in Algorithms \X Databases
  BY <1>2, Commanding
<1>4. launches' = launches /\ summary' = summary /\ mail' = mail /\ launches[h] \in Nat
  BY <1>1, <1>2, ControllerOf DEF faultVars
<1>5. PICK st \in Statuses \union {"running"}, q \in SUBSET (ctl[h].queue \union ctl[h].active),
           a \in SUBSET (ctl[h].queue \union ctl[h].active), new \in SUBSET Run :
          /\ ctl' = [ctl EXCEPT ![h] = [ctl[h] EXCEPT !.queue = q, !.active = a, !.local = new]]
          /\ progress' = [progress EXCEPT ![<<Algorithm(h), d>>] = st]
          /\ \/ /\ d \in ctl[h].queue /\ q = ctl[h].queue \ {d} /\ a = ctl[h].active \union {d}
                /\ new = ctl[h].local
             \/ /\ d \in ctl[h].active /\ q = ctl[h].queue /\ a = ctl[h].active \ {d}
                /\ new = ctl[h].local \union {<<Algorithm(h), d, st, launches[h]>>}
  <2>1. CASE StartCommand(h, d)
    <3> DEFINE c0 == ctl[h]
               q == c0.queue \ {d}
               a == c0.active \union {d}
    <3>1. d \in c0.queue /\ progress' = [progress EXCEPT ![<<Algorithm(h), d>>] = "running"]
      BY <2>1 DEF StartCommand
    <3>2. q \in SUBSET (c0.queue \union c0.active) /\ a \in SUBSET (c0.queue \union c0.active)
          /\ c0.local \in SUBSET Run
      BY <1>1, <3>1 DEF Controller
    <3>3. ctl' = [ctl EXCEPT ![h] = [c0 EXCEPT !.queue = q, !.active = a]]
      BY <1>1, <2>1 DEF StartCommand, TypeOK
    <3>4. [c0 EXCEPT !.queue = q, !.active = a] = [c0 EXCEPT !.queue = q, !.active = a, !.local = c0.local]
      <4>1. c0 \in Controller
        BY <1>1
      <4> HIDE DEF c0, q, a
      <4> QED
        BY <4>1 DEF Controller
    <3>5. ctl' = [ctl EXCEPT ![h] = [c0 EXCEPT !.queue = q, !.active = a, !.local = c0.local]]
      BY <3>3, <3>4
    <3> QED
      BY <3>1, <3>2, <3>5
  <2>2. CASE \E st \in Statuses : EndCommand(h, d, st)
    <3>1. PICK st \in Statuses : EndCommand(h, d, st)
      BY <2>2
    <3> DEFINE c0 == ctl[h]
               r == <<Algorithm(h), d, st, launches[h]>>
               a == c0.active \ {d}
               new == c0.local \union {r}
    <3>2. d \in c0.active /\ progress' = [progress EXCEPT ![<<Algorithm(h), d>>] = st]
      BY <3>1 DEF EndCommand
    <3>3. r \in Run
      BY <1>3, <1>4 DEF Run
    <3>4. a \in SUBSET (c0.queue \union c0.active) /\ new \in SUBSET Run
          /\ c0.queue \in SUBSET (c0.queue \union c0.active)
      BY <1>1, <3>3 DEF Controller
    <3>5. ctl' = [ctl EXCEPT ![h] = [c0 EXCEPT !.active = a, !.local = new]]
      BY <1>1, <3>1 DEF EndCommand, TypeOK
    <3>6. [c0 EXCEPT !.active = a, !.local = new]
            = [c0 EXCEPT !.queue = c0.queue, !.active = a, !.local = new]
      <4>1. c0 \in Controller
        BY <1>1
      <4> HIDE DEF c0, a, new
      <4> QED
        BY <4>1 DEF Controller
    <3>7. ctl' = [ctl EXCEPT ![h] = [c0 EXCEPT !.queue = c0.queue, !.active = a, !.local = new]]
      BY <3>5, <3>6
    <3> QED
      BY <3>2, <3>4, <3>7
  <2> QED
    BY <2>1, <2>2
<1>6. /\ TypeOK' /\ Alone(h)
      /\ ctl'[h].pc = ctl[h].pc /\ ctl'[h].code = ctl[h].code /\ ctl'[h].error = ctl[h].error
      /\ ctl'[h].sent = ctl[h].sent /\ ctl'[h].dry = ctl[h].dry /\ ctl'[h].alg = ctl[h].alg
      /\ ctl'[h].queue = q /\ ctl'[h].active = a /\ ctl'[h].local = new
      /\ ctl'[h].results = ctl[h].results /\ ctl'[h].runs = ctl[h].runs
      /\ progress'[<<Algorithm(h), d>>] = st
      /\ \A p \in Algorithms \X Databases : p # <<Algorithm(h), d>> => progress'[p] = progress[p]
  <2>1. Commanded(h, d, st, q, a, new)
    BY <1>2, <1>5 DEF Commanded
  <2> QED
    BY <1>2, <2>1, CommandStep
<1>7. Shared(h)'
  <2>1. \A r \in summary[h] \union ctl[h].local \union ctl[h].results \union ctl[h].runs :
            r[2] \in Shard(h) /\ r[4] <= launches[h]
    BY <1>1 DEF HostOK, Shared
  <2>2. \A r \in new : r[2] \in Shard(h) /\ r[4] <= launches[h]
    BY <1>3, <1>4, <1>5, <2>1
  <2>3. \A r \in (summary[h] \union ctl[h].local \union ctl[h].results \union ctl[h].runs)' :
            r[2] \in Shard(h) /\ r[4] <= launches'[h]
    BY <1>4, <1>6, <2>1, <2>2
  <2>4. /\ (ctl[h].queue \union ctl[h].active)' \subseteq Shard(h)
        /\ ctl'[h].alg > 0
    BY <1>1, <1>2, <1>6 DEF HostOK, Shared
  <2> QED
    BY <2>3, <2>4 DEF Shared
<1>8. ~ Concluded(h) /\ ~ Concluded(h)'
  BY <1>1, <1>2, <1>6 DEF HostOK, Accounted, Idle, Concluded
<1>9. Mailed(h)'
  <2>1. Elements(mail[h])' = Elements(mail[h])
    BY <1>4 DEF Elements
  <2> QED
    BY <1>1, <1>4, <1>6, <2>1 DEF HostOK, Mailed, At
<1>10. CASE ctl[h].pc # "pool"
  <2>1. ctl'[h].pc \in {"drain", "finish", "mail", "exit", "ended"} /\ ctl'[h].pc # "ended"
    BY <1>2, <1>6, <1>10
  <2>2. Accounted(h)'
    BY <1>1, <1>8, <2>1, AccountStays DEF HostOK
  <2> QED
    BY <1>6, <1>7, <1>9, <2>2, StepOK DEF HostOK
<1>11. CASE ctl[h].pc = "pool"
  <2>1. ResultsOf(h, Behind(h))' = ResultsOf(h, Behind(h))
    BY <1>2, <1>4, <1>6, <1>11, BehindElse DEF At
  <2>2. /\ ctl[h].alg > 0 /\ ctl[h].queue \intersect ctl[h].active = {}
        /\ ctl[h].results = ResultsOf(h, Behind(h))
        /\ ctl[h].local = {ResultOf(h, <<Algorithm(h), e>>) :
                              e \in Shard(h) \ (ctl[h].queue \union ctl[h].active)}
    BY <1>1, <1>11 DEF HostOK, Accounted, At
  <2> DEFINE A == Algorithm(h)
             done == Shard(h) \ (ctl[h].queue \union ctl[h].active)
  <2>3. A' = A
    BY <1>6 DEF Algorithm
  <2>4. \A e \in done : ResultOf(h, <<A, e>>)' = ResultOf(h, <<A, e>>)
    <3>1. \A e \in done : e # d /\ e \in Databases
      BY <1>2, ShardsWithin
    <3>2. \A e \in done : <<A, e>> \in Algorithms \X Databases /\ <<A, e>> # <<A, d>>
      BY <1>3, <3>1
    <3>3. \A e \in done : progress'[<<A, e>>] = progress[<<A, e>>]
      BY <1>6, <3>2
    <3> QED
      BY <1>4, <2>3, <3>3 DEF ResultOf
  <2>5. q \intersect a = {}
    BY <1>5, <2>2
  <2>6. ctl'[h].local = {ResultOf(h, <<A, e>>) : e \in done}'
    <3>1. ctl[h].local = {ResultOf(h, <<A, e>>)' : e \in done}
      BY <2>2, <2>4
    <3>2. CASE q \union a = ctl[h].queue \union ctl[h].active /\ new = ctl[h].local
      BY <1>6, <3>1, <3>2
    <3>3. CASE /\ q \union a = (ctl[h].queue \union ctl[h].active) \ {d}
               /\ new = ctl[h].local \union {<<A, d, st, launches[h]>>}
      <4>1. done' = done \union {d}
        BY <1>2, <1>3, <1>6, <3>3
      <4>2. ResultOf(h, <<A, d>>)' = <<A, d, st, launches[h]>>
        BY <1>4, <1>6, <2>3 DEF ResultOf
      <4>3. {ResultOf(h, <<A, e>>) : e \in done}' = {ResultOf(h, <<A, e>>)' : e \in done \union {d}}
        BY <4>1
      <4>4. {ResultOf(h, <<A, e>>)' : e \in done \union {d}}
              = {ResultOf(h, <<A, e>>)' : e \in done} \union {ResultOf(h, <<A, d>>)'}
        OBVIOUS
      <4> QED
        BY <1>6, <3>1, <3>3, <4>2, <4>3, <4>4
    <3> QED
      BY <1>2, <1>5, <2>2, <3>2, <3>3
  <2>7. Accounted(h)'
    BY <1>6, <1>8, <1>11, <2>1, <2>2, <2>5, <2>6 DEF Accounted, At
  <2> QED
    BY <1>6, <1>7, <1>9, <2>7, StepOK DEF HostOK
<1> QED
  BY <1>10, <1>11

(* A command that raises leaves its progress file as it is, and makes main *)
(* end with an error if main still waits for results.                      *)
LEMMA RaisesKeeps ==
    ASSUME BenchmarkOK, NEW h \in Hosts, NEW d \in Databases, CommandRaises(h, d)
    PROVE  BenchmarkOK'
<1>1. HostOK(h) /\ TypeOK /\ ctl[h] \in Controller
  BY ControllerOf DEF BenchmarkOK
<1>2. /\ ctl[h].pc \in {"pool", "drain", "finish", "mail", "exit"}
      /\ d \in ctl[h].queue \union ctl[h].active
  BY DEF CommandRaises
<1>3. launches' = launches /\ summary' = summary /\ mail' = mail /\ progress' = progress
  BY DEF CommandRaises, fileVars
<1>4. PICK q \in SUBSET ctl[h].queue, a \in SUBSET ctl[h].active, pc \in ControllerPC,
           code \in {0, 1, 130, None}, error \in BOOLEAN :
          /\ ctl' = [ctl EXCEPT ![h] = [ctl[h] EXCEPT !.pc = pc, !.queue = q, !.active = a,
                                                      !.code = code, !.error = error]]
          /\ \/ ctl[h].pc # "pool" /\ pc = ctl[h].pc /\ code = ctl[h].code /\ error = ctl[h].error
             \/ ctl[h].pc = "pool" /\ pc \in {"drain", "finish"} /\ code = 1 /\ error = TRUE
  <2> DEFINE c0 == ctl[h]
             q == c0.queue \ {d}
             a == c0.active \ {d}
  <2>0. /\ c0 \in Controller /\ q \in SUBSET c0.queue /\ a \in SUBSET c0.active
        /\ c0.pc \in ControllerPC /\ c0.code \in {0, 1, 130, None} /\ c0.error \in BOOLEAN
    BY <1>1, ControllerOf
  <2>1. CASE c0.pc # "pool"
    <3>1. ctl' = [ctl EXCEPT ![h] = [c0 EXCEPT !.queue = q, !.active = a]]
      BY <2>1 DEF CommandRaises, At
    <3>2. [c0 EXCEPT !.queue = q, !.active = a]
            = [c0 EXCEPT !.pc = c0.pc, !.queue = q, !.active = a, !.code = c0.code,
                         !.error = c0.error]
      <4> HIDE DEF c0, q, a
      <4> QED
        BY <2>0 DEF Controller
    <3>3. ctl' = [ctl EXCEPT ![h] = [c0 EXCEPT !.pc = c0.pc, !.queue = q, !.active = a,
                                                !.code = c0.code, !.error = c0.error]]
      BY <3>1, <3>2
    <3>4. PICK pc \in ControllerPC, code \in {0, 1, 130, None}, error \in BOOLEAN :
             pc = c0.pc /\ code = c0.code /\ error = c0.error
      BY <2>0
    <3>5. ctl' = [ctl EXCEPT ![h] = [c0 EXCEPT !.pc = pc, !.queue = q, !.active = a,
                                                !.code = code, !.error = error]]
      BY <3>3, <3>4
    <3> HIDE DEF q, a
    <3> QED
      BY <2>0, <2>1, <3>4, <3>5
  <2>2. CASE c0.pc = "pool"
    <3>1. PICK pc \in {"drain", "finish"} :
             ctl' = [ctl EXCEPT ![h] = [[c0 EXCEPT !.queue = q, !.active = a]
                                          EXCEPT !.pc = pc, !.code = 1, !.error = TRUE]]
      BY <2>2 DEF CommandRaises, At
    <3>2. [[c0 EXCEPT !.queue = q, !.active = a] EXCEPT !.pc = pc, !.code = 1, !.error = TRUE]
            = [c0 EXCEPT !.pc = pc, !.queue = q, !.active = a, !.code = 1, !.error = TRUE]
      <4> HIDE DEF c0, q, a
      <4> QED
        BY <2>0 DEF Controller
    <3>3. pc \in ControllerPC /\ 1 \in {0, 1, 130, None} /\ TRUE \in BOOLEAN
      BY DEF ControllerPC
    <3>4. ctl' = [ctl EXCEPT ![h] = [c0 EXCEPT !.pc = pc, !.queue = q, !.active = a, !.code = 1,
                                                  !.error = TRUE]]
      BY <3>1, <3>2
    <3> QED
      BY <2>0, <2>2, <3>3, <3>4
  <2> QED
    BY <2>1, <2>2
<1>5. /\ TypeOK' /\ Alone(h)
      /\ ctl'[h].pc = pc /\ ctl'[h].code = code /\ ctl'[h].error = error
      /\ ctl'[h].sent = ctl[h].sent
      /\ ctl'[h].dry = ctl[h].dry /\ ctl'[h].alg = ctl[h].alg
      /\ ctl'[h].queue = q /\ ctl'[h].active = a
      /\ ctl'[h].local = ctl[h].local /\ ctl'[h].results = ctl[h].results
      /\ ctl'[h].runs = ctl[h].runs
  <2> DEFINE c == [ctl[h] EXCEPT !.pc = pc, !.queue = q, !.active = a, !.code = code,
                                 !.error = error]
  <2>1. q \in SUBSET Databases /\ a \in SUBSET Databases
    BY <1>1, ControllerOf
  <2>2. c \in Controller
    BY <1>1, <2>1 DEF Controller
  <2>3. /\ c.pc = pc /\ c.code = code /\ c.error = error /\ c.sent = ctl[h].sent
        /\ c.dry = ctl[h].dry /\ c.alg = ctl[h].alg /\ c.queue = q /\ c.active = a
        /\ c.local = ctl[h].local /\ c.results = ctl[h].results /\ c.runs = ctl[h].runs
    BY <1>1 DEF Controller
  <2>4. ctl' = [ctl EXCEPT ![h] = c]
    BY <1>4
  <2> HIDE DEF c
  <2>5. TypeOK' /\ Alone(h) /\ ctl'[h] = c
    BY <1>1, <1>3, <2>2, <2>4 DEF TypeOK, Alone
  <2> QED
    BY <2>3, <2>5
<1>6. Shared(h)'
  BY <1>1, <1>3, <1>5, SharedStays DEF HostOK
<1>7. ~ Concluded(h)
  BY <1>1, <1>2 DEF HostOK, Accounted, Idle
<1>8. ~ Concluded(h)'
  <2>1. CASE pc = ctl[h].pc /\ code = ctl[h].code /\ error = ctl[h].error
    BY <1>5, <1>7, <2>1 DEF Concluded
  <2>2. CASE error = TRUE
    BY <1>5, <2>2 DEF Concluded
  <2> QED
    BY <1>4, <2>1, <2>2
<1>9. Accounted(h)'
  <2>1. ctl'[h].pc \in {"drain", "finish", "mail", "exit"}
    BY <1>2, <1>4, <1>5
  <2> QED
    BY <1>1, <1>8, <2>1, AccountStays DEF HostOK
<1>10. Mailed(h)'
  <2>1. CASE ctl[h].pc = "pool"
    BY <1>1, <1>3, <1>4, <1>5, <2>1, StillSilent DEF HostOK
  <2>2. CASE ctl[h].pc # "pool"
    <3>1. Elements(mail[h])' = Elements(mail[h])
      BY <1>3 DEF Elements
    <3> QED
      BY <1>1, <1>3, <1>4, <1>5, <2>2, <3>1 DEF HostOK, Mailed, At
  <2> QED
    BY <2>1, <2>2
<1> QED
  BY <1>5, <1>6, <1>9, <1>10, StepOK DEF HostOK

LEMMA EndAlgorithmKeeps ==
    ASSUME BenchmarkOK, NEW h \in Hosts, EndAlgorithm(h)
    PROVE  BenchmarkOK'
<1>1. HostOK(h) /\ TypeOK /\ ctl[h].pc = "pool" /\ Idle(h)
  BY DEF BenchmarkOK, At, EndAlgorithm
<1>2. launches' = launches /\ summary' = summary /\ progress' = progress /\ mail' = mail
  BY DEF EndAlgorithm, fileVars, faultVars
<1>3. ctl[h].alg \in 1 .. Len(AlgorithmList) /\ Algorithm(h) = AlgorithmList[ctl[h].alg]
  BY <1>1, ControllerOf, Listing DEF HostOK, Accounted, At, Algorithm
<1>4. /\ TypeOK' /\ Alone(h)
      /\ ctl'[h].pc = "next" /\ ctl'[h].code = ctl[h].code /\ ctl'[h].error = ctl[h].error
      /\ ctl'[h].sent = ctl[h].sent /\ ctl'[h].dry = ctl[h].dry /\ ctl'[h].alg = ctl[h].alg
      /\ ctl'[h].queue = ctl[h].queue /\ ctl'[h].active = ctl[h].active
      /\ ctl'[h].local = ctl[h].local /\ ctl'[h].results = ctl[h].results \union ctl[h].local
      /\ ctl'[h].runs = ctl[h].runs
  <2> DEFINE R == ctl[h].results \union ctl[h].local
             c == [ctl[h] EXCEPT !.pc = "next", !.results = R]
  <2>1. ctl[h] \in Controller /\ "next" \in ControllerPC /\ R \in SUBSET Run
    BY <1>1, ControllerOf DEF ControllerPC
  <2>2. c \in Controller
    <3> HIDE DEF R
    <3> QED
      BY <2>1 DEF Controller
  <2>3. /\ c.pc = "next" /\ c.code = ctl[h].code /\ c.error = ctl[h].error /\ c.sent = ctl[h].sent
        /\ c.dry = ctl[h].dry /\ c.alg = ctl[h].alg /\ c.queue = ctl[h].queue
        /\ c.active = ctl[h].active /\ c.local = ctl[h].local /\ c.results = R
        /\ c.runs = ctl[h].runs
    <3> HIDE DEF R
    <3> QED
      BY <2>1 DEF Controller
  <2>4. ctl' = [ctl EXCEPT ![h] = c]
    BY <1>1 DEF TypeOK, EndAlgorithm
  <2> HIDE DEF c
  <2>5. TypeOK' /\ Alone(h) /\ ctl'[h] = c
    BY <1>1, <1>2, <2>2, <2>4 DEF TypeOK, Alone
  <2> QED
    BY <2>3, <2>5
<1>5. Shared(h)'
  BY <1>1, <1>2, <1>4, SharedStays DEF HostOK
<1>6. ~ Concluded(h)'
  BY <1>4 DEF Concluded
<1>7. Idle(h)'
  BY <1>1, <1>4 DEF Idle
<1>8. ctl'[h].results = ResultsOf(h, Behind(h))'
  <2> DEFINE n == ctl[h].alg
             A == Algorithm(h)
             B == {AlgorithmList[i] : i \in 1 .. n - 1}
             C == {AlgorithmList[i] : i \in 1 .. n}
  <2>1. C = B \union {A}
    <3>1. n \in Nat \ {0}
      BY <1>3
    <3>2. \A i : i \in 1 .. n <=> i \in 1 .. n - 1 \/ i = n
      BY <3>1
    <3> QED
      BY <1>3, <3>2
  <2>2. Behind(h) = B /\ Behind(h)' = C
    BY <1>1, <1>4 DEF Behind, At
  <2>3. ctl[h].results = {ResultOf(h, p) : p \in B \X Shard(h)}
    BY <1>1, <2>2 DEF HostOK, Accounted, At, ResultsOf
  <2>4. ctl[h].local = {ResultOf(h, <<A, d>>) : d \in Shard(h)}
    BY <1>1 DEF HostOK, Accounted, At, Idle
  <2> HIDE DEF A, B, C
  <2>5. ctl[h].local = {ResultOf(h, p) : p \in {A} \X Shard(h)}
    <3>1. \A d \in Shard(h) : <<A, d>> \in {A} \X Shard(h)
      OBVIOUS
    <3>2. \A p \in {A} \X Shard(h) : p[2] \in Shard(h) /\ p = <<A, p[2]>>
      OBVIOUS
    <3>3. \A r \in ctl[h].local : r \in {ResultOf(h, p) : p \in {A} \X Shard(h)}
      BY <2>4, <3>1
    <3>4. \A p \in {A} \X Shard(h) : ResultOf(h, p) \in ctl[h].local
      BY <2>4, <3>2
    <3> QED
      BY <3>3, <3>4
  <2>6. ctl[h].results \union ctl[h].local = {ResultOf(h, p) : p \in (B \union {A}) \X Shard(h)}
    BY <2>3, <2>5
  <2>7. \A p : ResultOf(h, p)' = ResultOf(h, p)
    BY <1>2 DEF ResultOf
  <2>8. ResultsOf(h, Behind(h))' = {ResultOf(h, p) : p \in (B \union {A}) \X Shard(h)}
    BY <2>1, <2>2, <2>7 DEF ResultsOf
  <2> QED
    BY <1>4, <2>6, <2>8
<1>9. Accounted(h)'
  BY <1>4, <1>6, <1>7, <1>8 DEF Accounted, At
<1>10. Mailed(h)'
  BY <1>1, <1>2, <1>4, StillSilent DEF HostOK
<1> QED
  BY <1>4, <1>5, <1>9, <1>10, StepOK DEF HostOK

(* Merging drops what an earlier launch had of the same pairs.             *)
LEMMA MergedHolds ==
    ASSUME NEW h \in Hosts, ctl[h].results = ResultsOf(h, Algorithms)
    PROVE  Holds(h, Merged(h))
<1>1. ctl[h].results = {ResultOf(h, p) : p \in Planned(h)}
  BY DEF ResultsOf, Planned
<1>2. ctl[h].results \subseteq Merged(h)
  BY DEF Merged
<1>3. ASSUME NEW r \in Merged(h), PairOf(r) \in Planned(h), r \notin ctl[h].results
      PROVE  FALSE
  <2>1. ~ \E n \in ctl[h].results : PairOf(n) = PairOf(r)
    BY <1>3 DEF Merged
  <2>2. PICK p \in Planned(h) : p = PairOf(r)
    BY <1>3
  <2>3. ResultOf(h, p) \in ctl[h].results
    BY <1>1
  <2>4. PairOf(ResultOf(h, p)) = p
    BY DEF PairOf, ResultOf, Planned
  <2> QED
    BY <2>1, <2>2, <2>3, <2>4
<1> QED
  BY <1>2, <1>3 DEF Holds

LEMMA MergeKeeps ==
    ASSUME BenchmarkOK, NEW h \in Hosts, MergeSummary(h)
    PROVE  BenchmarkOK'
<1>1. HostOK(h) /\ TypeOK /\ ctl[h].pc = "next" /\ ctl[h].alg = Len(AlgorithmList)
  BY DEF BenchmarkOK, At, MergeSummary
<1>2. /\ launches' = launches /\ progress' = progress /\ mail' = mail
      /\ summary' = [summary EXCEPT ![h] = {}]
  BY DEF MergeSummary, faultVars
<1>3. PICK runs \in SUBSET Run : runs = Merged(h)
  BY <1>1, ControllerOf DEF Merged
<1>4. /\ TypeOK' /\ Alone(h) /\ summary'[h] = {}
      /\ ctl'[h].pc = "writing" /\ ctl'[h].code = ctl[h].code /\ ctl'[h].error = ctl[h].error
      /\ ctl'[h].sent = ctl[h].sent /\ ctl'[h].dry = ctl[h].dry /\ ctl'[h].alg = ctl[h].alg
      /\ ctl'[h].queue = ctl[h].queue /\ ctl'[h].active = ctl[h].active
      /\ ctl'[h].local = ctl[h].local /\ ctl'[h].results = ctl[h].results
      /\ ctl'[h].runs = runs
  <2> DEFINE c == [ctl[h] EXCEPT !.pc = "writing", !.runs = runs]
  <2>1. ctl[h] \in Controller /\ "writing" \in ControllerPC /\ {} \in SUBSET Run
    BY <1>1, ControllerOf DEF ControllerPC
  <2>2. c \in Controller
    BY <2>1 DEF Controller
  <2>3. /\ c.pc = "writing" /\ c.code = ctl[h].code /\ c.error = ctl[h].error /\ c.sent = ctl[h].sent
        /\ c.dry = ctl[h].dry /\ c.alg = ctl[h].alg /\ c.queue = ctl[h].queue
        /\ c.active = ctl[h].active /\ c.local = ctl[h].local /\ c.results = ctl[h].results
        /\ c.runs = runs
    BY <2>1 DEF Controller
  <2>4. ctl' = [ctl EXCEPT ![h] = c]
    BY <1>1, <1>3 DEF TypeOK, MergeSummary
  <2> HIDE DEF c
  <2>5. TypeOK' /\ Alone(h) /\ ctl'[h] = c /\ summary'[h] = {}
    BY <1>1, <1>2, <2>1, <2>2, <2>4 DEF TypeOK, Alone
  <2> QED
    BY <2>3, <2>5
<1>5. Shared(h)'
  <2>1. runs \subseteq summary[h] \union ctl[h].results
    BY <1>3 DEF Merged
  <2> QED
    BY <1>1, <1>2, <1>4, <2>1, SharedStays DEF HostOK
<1>6. ~ Concluded(h)'
  BY <1>4 DEF Concluded
<1>7. Idle(h)' /\ ctl[h].results = ResultsOf(h, Behind(h))
  BY <1>1, <1>4 DEF HostOK, Accounted, Idle
<1>8. Behind(h)' = Behind(h) /\ Behind(h) = Algorithms
  <2>1. Behind(h) = {AlgorithmList[i] : i \in 1 .. Len(AlgorithmList)}
    BY <1>1 DEF Behind, At
  <2>2. Algorithms = {AlgorithmList[i] : i \in 1 .. Len(AlgorithmList)}
    <3>1. DOMAIN AlgorithmList = 1 .. Len(AlgorithmList)
      BY Listing
    <3> QED
      BY <3>1 DEF Algorithms, Elements
  <2>3. Behind(h)' = Behind(h)
    BY <1>1, <1>4 DEF Behind, At
  <2> QED
    BY <2>1, <2>2, <2>3
<1>9. ResultsOf(h, Behind(h))' = ResultsOf(h, Behind(h))
  BY <1>2, <1>8 DEF ResultsOf, ResultOf
<1>10. Holds(h, ctl[h].runs)'
  <2>1. Holds(h, runs)
    BY <1>3, <1>7, <1>8, MergedHolds
  <2> QED
    BY <1>4, <2>1 DEF Holds
<1>11. Accounted(h)'
  BY <1>1, <1>4, <1>6, <1>7, <1>9, <1>10 DEF Accounted, At
<1>12. Mailed(h)'
  BY <1>1, <1>2, <1>4, StillSilent DEF HostOK
<1> QED
  BY <1>4, <1>5, <1>11, <1>12, StepOK DEF HostOK

LEMMA WriteKeeps ==
    ASSUME BenchmarkOK, NEW h \in Hosts, WriteSummary(h)
    PROVE  BenchmarkOK'
<1>1. HostOK(h) /\ TypeOK /\ ctl[h].pc = "writing"
  BY DEF BenchmarkOK, At, WriteSummary
<1>2. /\ launches' = launches /\ progress' = progress /\ mail' = mail
      /\ summary' = [summary EXCEPT ![h] = ctl[h].runs]
  BY DEF WriteSummary, faultVars
<1>3. Moving(h, "written", ctl[h].code, ctl[h].error, ctl[h].sent)
  BY Moves DEF WriteSummary
<1>4. /\ TypeOK' /\ Alone(h)
      /\ ctl'[h].pc = "written" /\ ctl'[h].code = ctl[h].code /\ ctl'[h].error = ctl[h].error
      /\ ctl'[h].sent = ctl[h].sent
      /\ ctl'[h].dry = ctl[h].dry /\ ctl'[h].alg = ctl[h].alg
      /\ ctl'[h].queue = ctl[h].queue /\ ctl'[h].active = ctl[h].active
      /\ ctl'[h].local = ctl[h].local /\ ctl'[h].results = ctl[h].results
      /\ ctl'[h].runs = ctl[h].runs /\ (Idle(h)' <=> Idle(h))
  <2>1. "written" \in ControllerPC /\ UNCHANGED <<launches, progress>>
        /\ ctl[h].code \in {0, 1, 130, None} /\ ctl[h].error \in BOOLEAN /\ ctl[h].sent \in BOOLEAN
    BY <1>1, <1>2, ControllerOf DEF ControllerPC
  <2>2. Framed(h)
    BY <1>1, <1>2, ControllerOf DEF Framed, TypeOK
  <2> QED
    BY <1>3, <2>1, <2>2, MovedTo
<1>5. summary'[h] = ctl[h].runs
  BY <1>1, <1>2 DEF TypeOK
<1>6. Shared(h)'
  BY <1>1, <1>2, <1>4, <1>5, SharedStays DEF HostOK
<1>7. /\ Idle(h) /\ ctl[h].results = ResultsOf(h, Behind(h))
      /\ ctl[h].alg = Len(AlgorithmList) /\ Holds(h, ctl[h].runs)
  BY <1>1 DEF HostOK, Accounted, At
<1>8. ResultsOf(h, Behind(h))' = ResultsOf(h, Behind(h))
  <2>1. Behind(h)' = Behind(h)
    BY <1>1, <1>4 DEF Behind, At
  <2> QED
    BY <1>2, <2>1 DEF ResultsOf, ResultOf
<1>9. Holds(h, summary[h])'
  BY <1>4, <1>5, <1>7 DEF Holds
<1>a. ~ Concluded(h)'
  BY <1>4 DEF Concluded
<1>10. Accounted(h)'
  BY <1>4, <1>7, <1>8, <1>9, <1>a DEF Accounted, At
<1>11. Mailed(h)'
  BY <1>1, <1>2, <1>3, <1>4, StillSilent DEF HostOK
<1> QED
  BY <1>4, <1>6, <1>10, <1>11, StepOK DEF HostOK

LEMMA DoneKeeps ==
    ASSUME BenchmarkOK, NEW h \in Hosts, SummaryDone(h)
    PROVE  BenchmarkOK'
<1>1. HostOK(h) /\ TypeOK /\ ctl[h].pc = "written"
  BY DEF BenchmarkOK, At, SummaryDone
<1>2. launches' = launches /\ progress' = progress /\ mail' = mail /\ summary' = summary
  BY DEF SummaryDone, fileVars, faultVars
<1>3. PICK code \in {0, 1}, no \in BOOLEAN :
          /\ Moving(h, "finish", code, no, ctl[h].sent) /\ no = FALSE
          /\ code = 0 => \A r \in ctl[h].results : r[3] = "success"
  <2>1. Return(h, IF \A r \in ctl[h].results : r[3] = "success" THEN 0 ELSE 1, FALSE)
    BY DEF SummaryDone
  <2>2. CASE \A r \in ctl[h].results : r[3] = "success"
    <3>1. Return(h, 0, FALSE)
      BY <2>1, <2>2
    <3>2. Moving(h, "finish", 0, FALSE, ctl[h].sent)
      BY <3>1, Moves
    <3> QED
      BY <2>2, <3>2
  <2>3. CASE ~ \A r \in ctl[h].results : r[3] = "success"
    <3>1. Return(h, 1, FALSE)
      BY <2>1, <2>3
    <3>2. Moving(h, "finish", 1, FALSE, ctl[h].sent)
      BY <3>1, Moves
    <3>3. 1 \in {0, 1} /\ 1 # 0 /\ FALSE \in BOOLEAN
      OBVIOUS
    <3> QED
      BY <3>2, <3>3
  <2> QED
    BY <2>2, <2>3
<1>4. /\ TypeOK' /\ Alone(h)
      /\ ctl'[h].pc = "finish" /\ ctl'[h].code = code /\ ctl'[h].error = no
      /\ ctl'[h].sent = ctl[h].sent
      /\ ctl'[h].dry = ctl[h].dry /\ ctl'[h].alg = ctl[h].alg
      /\ ctl'[h].queue = ctl[h].queue /\ ctl'[h].active = ctl[h].active
      /\ ctl'[h].local = ctl[h].local /\ ctl'[h].results = ctl[h].results
      /\ ctl'[h].runs = ctl[h].runs /\ (Idle(h)' <=> Idle(h))
  <2>1. "finish" \in ControllerPC /\ UNCHANGED <<launches, progress>>
        /\ code \in {0, 1, 130, None} /\ ctl[h].sent \in BOOLEAN
    BY <1>1, <1>2, ControllerOf DEF ControllerPC
  <2>2. Framed(h)
    BY <1>1, <1>2, ControllerOf DEF Framed, TypeOK
  <2> QED
    BY <1>3, <2>1, <2>2, MovedTo
<1>5. summary'[h] = summary[h]
  BY <1>2
<1>6. Shared(h)'
  BY <1>1, <1>2, <1>4, <1>5, SharedStays DEF HostOK
<1>7. /\ Idle(h) /\ ctl[h].results = ResultsOf(h, Behind(h))
      /\ ctl[h].alg = Len(AlgorithmList) /\ Holds(h, summary[h])
  BY <1>1 DEF HostOK, Accounted, At
<1>8. ResultsOf(h, Behind(h))' = ResultsOf(h, Behind(h))
  <2>1. Behind(h)' = Behind(h)
    BY <1>1, <1>4 DEF Behind, At
  <2> QED
    BY <1>2, <2>1 DEF ResultsOf, ResultOf
<1>9. Holds(h, summary[h])'
  BY <1>4, <1>5, <1>7 DEF Holds
<1>10. Accounted(h)'
  BY <1>3, <1>4, <1>7, <1>8, <1>9 DEF Accounted, At
<1>11. Mailed(h)'
  BY <1>1, <1>2, <1>3, <1>4, StillSilent DEF HostOK
<1> QED
  BY <1>4, <1>6, <1>10, <1>11, StepOK DEF HostOK

LEMMA SummaryFailsKeeps ==
    ASSUME BenchmarkOK, NEW h \in Hosts, SummaryFails(h)
    PROVE  BenchmarkOK'
<1>1. HostOK(h) /\ TypeOK /\ ctl[h].pc \in {"next", "writing", "written"}
  BY DEF BenchmarkOK, At, SummaryFails
<1>2. launches' = launches /\ progress' = progress /\ mail' = mail /\ summary' = summary
  BY DEF SummaryFails, fileVars
<1>3. PICK code \in {0, 1}, yes \in BOOLEAN :
          Moving(h, "finish", code, yes, ctl[h].sent) /\ yes = TRUE /\ code = 1
  <2>1. Moving(h, "finish", 1, TRUE, ctl[h].sent)
    BY Moves DEF SummaryFails
  <2>2. 1 \in {0, 1} /\ TRUE \in BOOLEAN
    OBVIOUS
  <2> QED
    BY <2>1, <2>2
<1>4. /\ TypeOK' /\ Alone(h)
      /\ ctl'[h].pc = "finish" /\ ctl'[h].code = code /\ ctl'[h].error = yes
      /\ ctl'[h].sent = ctl[h].sent
      /\ ctl'[h].dry = ctl[h].dry /\ ctl'[h].alg = ctl[h].alg
      /\ ctl'[h].queue = ctl[h].queue /\ ctl'[h].active = ctl[h].active
      /\ ctl'[h].local = ctl[h].local /\ ctl'[h].results = ctl[h].results
      /\ ctl'[h].runs = ctl[h].runs
  <2>1. "finish" \in ControllerPC /\ UNCHANGED <<launches, progress>>
        /\ code \in {0, 1, 130, None} /\ ctl[h].sent \in BOOLEAN
    BY <1>1, <1>2, ControllerOf DEF ControllerPC
  <2>2. Framed(h)
    BY <1>1, <1>2, ControllerOf DEF Framed, TypeOK
  <2>3. Moving(h, "finish", code, yes, ctl[h].sent)
    BY <1>3
  <2> QED
    BY <2>1, <2>2, <2>3, MovedTo
<1>5. Shared(h)'
  BY <1>1, <1>2, <1>4, SharedStays DEF HostOK
<1>6. ~ Concluded(h)'
  BY <1>3, <1>4 DEF Concluded
<1>7. Accounted(h)'
  BY <1>1, <1>4, <1>6, AccountStays DEF HostOK
<1>8. Mailed(h)'
  BY <1>1, <1>2, <1>3, <1>4, StillSilent DEF HostOK
<1> QED
  BY <1>4, <1>5, <1>7, <1>8, StepOK DEF HostOK

(***************************************************************************)
(* The theorems.                                                           *)
(***************************************************************************)
By(h) == (\E dry \in BOOLEAN : Launch(h, dry)) \/ Step(h) \/ Fails(h) \/ Interrupt(h) \/ Kill(h)

LEMMA NextOK == BenchmarkOK /\ [Next]_vars => BenchmarkOK'
<1> SUFFICES ASSUME BenchmarkOK, [Next]_vars PROVE BenchmarkOK'
  OBVIOUS
<1>1. CASE UNCHANGED vars
  <2> SUFFICES ASSUME NEW h \in Hosts PROVE HostOK(h)'
    BY <1>1 DEF BenchmarkOK, TypeOK, vars
  <2>1. HostOK(h) /\ ctl[h].alg \in 0 .. Len(AlgorithmList)
    BY ControllerOf DEF BenchmarkOK
  <2> QED
    BY <1>1, <2>1, Untouched DEF vars
<1>2. CASE Next
  <2>1. PICK h \in Hosts : By(h)
    BY <1>2 DEF Next, By
  <2>2. CASE \E dry \in BOOLEAN : Launch(h, dry)
    BY <2>2, LaunchKeeps
  <2>3. CASE Step(h)
    <3>1. CASE SetupFails(h) \/ DryRun(h) \/ SetupDone(h) \/ WorkersInvalid(h)
      BY <3>1, SetupKeeps
    <3>2. CASE StartAlgorithm(h)
      BY <3>2, StartAlgorithmKeeps
    <3>3. CASE EndAlgorithm(h)
      BY <3>3, EndAlgorithmKeeps
    <3>4. CASE \E d \in Databases : StartCommand(h, d) \/ \E st \in Statuses : EndCommand(h, d, st)
      BY <3>4, CommandKeeps
    <3>5. CASE MergeSummary(h)
      BY <3>5, MergeKeeps
    <3>6. CASE WriteSummary(h)
      BY <3>6, WriteKeeps
    <3>7. CASE Drained(h) \/ RestoreHandlers(h)
      BY <3>7, ReturnKeeps
    <3>8. CASE SendMail(h)
      BY <3>8, SendMailKeeps
    <3>9. CASE Exit(h)
      BY <3>9, EndKeeps
    <3>10. CASE SummaryDone(h)
      BY <3>10, DoneKeeps
    <3> QED
      BY <2>3, <3>1, <3>2, <3>3, <3>4, <3>5, <3>6, <3>7, <3>8, <3>9, <3>10 DEF Step
  <2>4. CASE Interrupt(h)
    BY <2>4, InterruptKeeps
  <2>5. CASE Kill(h)
    BY <2>5, EndKeeps
  <2>6. CASE Fails(h)
    BY <2>6, SummaryFailsKeeps, RaisesKeeps DEF Fails
  <2> QED
    BY <2>1, <2>2, <2>3, <2>4, <2>5, <2>6 DEF By
<1> QED
  BY <1>1, <1>2

(* The invariant: a host keeps to its share, its results are those of the  *)
(* algorithms it has behind it with the status the progress files tell,    *)
(* and its e-mail goes with its exit code.                                 *)
THEOREM BenchmarkKept == Spec => []BenchmarkOK
<1>1. Init => BenchmarkOK
  BY InitOK
<1>2. BenchmarkOK /\ [Next]_vars => BenchmarkOK'
  BY NextOK
<1> QED
  BY <1>1, <1>2, PTL DEF Spec

LEMMA CompletedHolds ==
    ASSUME BenchmarkOK, NEW h \in Hosts, Completed(h)
    PROVE  /\ \A p \in Planned(h) : ResultOf(h, p) \in ctl[h].results
           /\ \A r \in ctl[h].results : \E p \in Planned(h) : r = ResultOf(h, p)
           /\ Holds(h, summary[h])
           /\ ctl[h].code = 0 => \A r \in ctl[h].results : r[3] = "success"
<1>1. TypeOK /\ Accounted(h) /\ Concluded(h)
  BY DEF BenchmarkOK, HostOK, Completed, Returned, Concluded
<1>2. ctl[h].results = ResultsOf(h, Algorithms)
  BY <1>1, ConcludedHasAll
<1>3. ctl[h].results = {ResultOf(h, p) : p \in Planned(h)}
  BY <1>2 DEF ResultsOf, Planned
<1> QED
  BY <1>1, <1>3 DEF Accounted

LEMMA AllCompleted == BenchmarkOK => CompletedMeansAll
<1> SUFFICES ASSUME BenchmarkOK PROVE CompletedMeansAll
  OBVIOUS
<1>1. ASSUME NEW h \in Hosts, Completed(h), ctl[h].code = 0, NEW p \in Planned(h)
      PROVE  <<p[1], p[2], "success", launches[h]>> \in summary[h]
  <2>1. ResultOf(h, p) \in ctl[h].results /\ ResultOf(h, p)[3] = "success" /\ Holds(h, summary[h])
    BY <1>1, CompletedHolds
  <2>2. ResultOf(h, p) = <<p[1], p[2], "success", launches[h]>>
    BY <2>1 DEF ResultOf
  <2> QED
    BY <2>1, <2>2 DEF Holds
<1>2. ASSUME NEW h \in Hosts, Completed(h), NEW p \in Planned(h)
      PROVE  <<p[1], p[2], progress[p], launches[h]>> \in summary[h]
  BY <1>2, CompletedHolds DEF Holds, ResultOf
<1>3. ASSUME \A h \in Hosts : Completed(h), NEW p \in Algorithms \X Databases
      PROVE  Cardinality({x \in UNION {{h} \X summary[h] : h \in Hosts} :
                              PairOf(x[2]) = p /\ x[2][4] = launches[x[1]]}) = 1
  <2> DEFINE X == {x \in UNION {{h} \X summary[h] : h \in Hosts} :
                              PairOf(x[2]) = p /\ x[2][4] = launches[x[1]]}
  <2>1. PICK h \in Hosts : p[2] \in Shard(h)
    BY ShardsCover
  <2>2. p \in Planned(h)
    BY <2>1 DEF Planned
  <2> DEFINE r0 == ResultOf(h, p)
  <2>3. r0 \in summary[h] /\ PairOf(r0) = p /\ r0[4] = launches[h]
    BY <1>3, <2>2, CompletedHolds DEF Holds, ResultOf, PairOf
  <2>4. <<h, r0>> \in X
    BY <2>3
  <2>5. ASSUME NEW x \in X PROVE x = <<h, r0>>
    <3>1. PICK g \in Hosts : x \in {g} \X summary[g]
      OBVIOUS
    <3>2. PICK r \in summary[g] : x = <<g, r>>
      BY <3>1
    <3>3. PairOf(r) = p
      BY <2>5, <3>2
    <3>4. r[2] \in Shard(g)
      BY DEF BenchmarkOK, HostOK, Shared
    <3>5. r[2] = p[2]
      BY <3>3 DEF PairOf
    <3>6. g = h
      BY <2>1, <3>4, <3>5, ShardsDisjoint
    <3>7. r \in ctl[h].results
      BY <1>3, <2>2, <3>3, <3>6, CompletedHolds DEF Holds
    <3>8. PICK q \in Planned(h) : r = ResultOf(h, q)
      BY <1>3, <3>7, CompletedHolds
    <3>9. q = p
      BY <3>3, <3>8, <2>2 DEF PairOf, ResultOf, Planned
    <3> QED
      BY <3>2, <3>6, <3>8, <3>9
  <2>6. X = {<<h, r0>>}
    BY <2>4, <2>5
  <2> QED
    BY <2>6, FS_Singleton
<1> QED
  BY <1>1, <1>2, <1>3 DEF CompletedMeansAll

(* Exit codes: whoever ends by 0 has a success of its own launch in its    *)
(* summary for each planned pair, and when every host has completed each   *)
(* pair is in exactly one summary, as the progress files tell it.          *)
THEOREM CodesAreKept == Spec => []CompletedMeansAll
  BY BenchmarkKept, AllCompleted, PTL

LEMMA MailTells == BenchmarkOK => MailTellsOutcome
<1> SUFFICES ASSUME BenchmarkOK, NEW h \in Hosts, Mailed(h)
             PROVE  /\ Len(mail[h]) <= 1
                    /\ \A m \in Elements(mail[h]) :
                          /\ m \in {"success", "completed"} =>
                                ctl[h].dry \/ Cardinality(ctl[h].results) = Cardinality(Planned(h))
                          /\ Returned(h) => (m = "interrupted" <=> ctl[h].code = 130)
  BY DEF BenchmarkOK, HostOK, MailTellsOutcome
<1>1. Len(mail[h]) <= 1
  <2>1. CASE mail[h] = <<>>
    BY <2>1
  <2>2. CASE \E m \in Messages : mail[h] = <<m>>
    <3>1. PICK m \in Messages : mail[h] = <<m>>
      BY <2>2
    <3>2. Len(<<m>>) = 1
      OBVIOUS
    <3> QED
      BY <3>1, <3>2
  <2> QED
    BY <2>1, <2>2 DEF Mailed
<1>2. \A m \in Elements(mail[h]) :
          /\ m \in {"success", "completed"} =>
                ctl[h].dry \/ Cardinality(ctl[h].results) = Cardinality(Planned(h))
          /\ ctl[h].code # None => (m = "interrupted" <=> ctl[h].code = 130)
  BY DEF Mailed
<1> QED
  BY <1>1, <1>2 DEF Returned

(* The one e-mail of a launch: success or completed comes with every       *)
(* result, interrupted with the exit code 130.                             *)
THEOREM MailIsTrue == Spec => []MailTellsOutcome
  BY BenchmarkKept, MailTells, PTL

-----------------------------------------------------------------------------
(***************************************************************************)
(* What is merged stays.                                                   *)
(***************************************************************************)
KeepsRuns(h) ==
    \/ ctl[h].dry
    \/ At(h, "writing") /\ summary'[h] = summary[h]
    \/ \A r \in Kept(h) : \E n \in Kept(h)' : PairOf(n) = PairOf(r) /\ n[4] >= r[4]

LEMMA KeptAsIs ==
    ASSUME BenchmarkOK, NEW h \in Hosts, Kept(h)' = Kept(h)
    PROVE  KeepsRuns(h)
<1>1. \A r \in Kept(h) : r[4] \in Nat
  BY ControllerOf DEF BenchmarkOK, Kept, Run
<1>2. \A r \in Kept(h) : r \in Kept(h)' /\ r[4] >= r[4]
  BY <1>1
<1> QED
  BY <1>2 DEF KeepsRuns

(* Only the merge and the write come to another set of runs.               *)
LEMMA KeptElsewhere ==
    ASSUME BenchmarkOK, NEW h \in Hosts, ctl[h].pc # "writing", ctl'[h].pc # "writing",
           summary'[h] = summary[h]
    PROVE  KeepsRuns(h)
  BY KeptAsIs DEF Kept, At

LEMMA MergeKeepsRuns ==
    ASSUME BenchmarkOK, NEW h \in Hosts, MergeSummary(h)
    PROVE  KeepsRuns(h)
<1>1. /\ ctl[h].pc = "next" /\ ctl'[h].pc = "writing" /\ ctl'[h].runs = Merged(h)
      /\ HostOK(h) /\ ctl[h].alg = Len(AlgorithmList)
  <2>1. TypeOK /\ ctl[h] \in Controller
    BY ControllerOf DEF BenchmarkOK
  <2>2. PICK c \in {[ctl[h] EXCEPT !.pc = "writing", !.runs = Merged(h)]} : ctl'[h] = c
    BY <2>1 DEF MergeSummary, TypeOK
  <2>3. c.pc = "writing" /\ c.runs = Merged(h)
    BY <2>1, <2>2 DEF Controller
  <2> QED
    BY <2>2, <2>3 DEF MergeSummary, At, BenchmarkOK
<1>2. Kept(h) = summary[h] /\ Kept(h)' = Merged(h)
  BY <1>1 DEF Kept, At
<1>3. \A n \in ctl[h].results : n[4] = launches[h]
  BY <1>1 DEF HostOK, Accounted, ResultsOf, ResultOf
<1>4. \A r \in summary[h] : r[4] <= launches[h] /\ r[4] \in Nat
  BY <1>1, ControllerOf DEF BenchmarkOK, HostOK, Shared, Run
<1>5. ASSUME NEW r \in summary[h]
      PROVE  \E n \in Merged(h) : PairOf(n) = PairOf(r) /\ n[4] >= r[4]
  <2>1. CASE \E n \in ctl[h].results : PairOf(n) = PairOf(r)
    <3>1. PICK n \in ctl[h].results : PairOf(n) = PairOf(r)
      BY <2>1
    <3>2. n \in Merged(h) /\ n[4] = launches[h]
      BY <1>3 DEF Merged
    <3>3. launches[h] \in Nat /\ r[4] \in Nat /\ r[4] <= launches[h]
      BY <1>4, ControllerOf DEF BenchmarkOK
    <3> QED
      BY <3>1, <3>2, <3>3
  <2>2. CASE ~ \E n \in ctl[h].results : PairOf(n) = PairOf(r)
    <3>1. r \in Merged(h)
      BY <2>2 DEF Merged
    <3>2. r[4] >= r[4]
      BY <1>4
    <3> QED
      BY <3>1, <3>2
  <2> QED
    BY <2>1, <2>2
<1> QED
  BY <1>2, <1>5 DEF KeepsRuns

LEMMA StepKeepsRuns ==
    ASSUME BenchmarkOK, NEW h \in Hosts, By(h)
    PROVE  KeepsRuns(h)
<1>1. TypeOK /\ ctl[h] \in Controller
  BY ControllerOf DEF BenchmarkOK
<1> USE DEF fileVars, faultVars, At, Go, Return, Interrupted
<1>2. CASE \E dry \in BOOLEAN : Launch(h, dry)
  <2>1. PICK dry \in BOOLEAN : Launch(h, dry)
    BY <1>2
  <2>2. ctl'[h] = [Off EXCEPT !.pc = "setup", !.dry = dry]
    BY <1>1, <2>1 DEF Launch, TypeOK
  <2>3. ctl'[h].pc = "setup"
    BY <2>2, OffIs DEF Controller
  <2> QED
    BY <2>1, <2>3, KeptElsewhere DEF Launch, Up
<1>3. CASE \/ SetupFails(h) \/ SetupDone(h) \/ WorkersInvalid(h) \/ RestoreHandlers(h) \/ Drained(h)
          \/ SummaryDone(h)
  <2>1. ASSUME SetupFails(h) \/ SummaryDone(h)
        PROVE  ctl'[h].pc \in {"finish", "next", "exit", "mail"}
    <3>1. PICK code, error : Return(h, code, error)
      BY <2>1 DEF SetupFails, SummaryDone
    <3> QED
      BY <1>1, <3>1 DEF TypeOK, Controller
  <2>3. ASSUME SetupDone(h) \/ WorkersInvalid(h) \/ RestoreHandlers(h) \/ Drained(h)
        PROVE  ctl'[h].pc \in {"finish", "next", "exit", "mail"}
    BY <1>1, <2>3 DEF SetupDone, WorkersInvalid, RestoreHandlers, Drained, TypeOK, Controller
  <2>4. ctl'[h].pc \in {"finish", "next", "exit", "mail"}
    BY <1>3, <2>1, <2>3
  <2> QED
    BY <1>3, <2>4, KeptElsewhere
    DEF SetupFails, SetupDone, WorkersInvalid, RestoreHandlers, Drained, SummaryDone
<1>4. CASE DryRun(h)
  BY <1>4 DEF DryRun, KeepsRuns
<1>5. CASE StartAlgorithm(h) \/ EndAlgorithm(h) \/ SendMail(h)
  <2>1. ctl'[h].pc \in {"pool", "next", "exit"}
    BY <1>1, <1>5 DEF StartAlgorithm, EndAlgorithm, SendMail, TypeOK, Controller
  <2> QED
    BY <1>5, <2>1, KeptElsewhere DEF StartAlgorithm, EndAlgorithm, SendMail
<1>6. CASE \E d \in Databases : StartCommand(h, d) \/ \E st \in Statuses : EndCommand(h, d, st)
  <2>1. ctl'[h].pc = ctl[h].pc
    BY <1>1, <1>6 DEF StartCommand, EndCommand, TypeOK, Controller
  <2> QED
    BY <1>6, <2>1, KeptElsewhere DEF StartCommand, EndCommand
<1>7. CASE MergeSummary(h)
  BY <1>7, MergeKeepsRuns
<1>8. CASE WriteSummary(h)
  <2>1. ctl'[h].pc = "written" /\ ctl[h].pc = "writing" /\ summary'[h] = ctl[h].runs
    BY <1>1, <1>8 DEF WriteSummary, TypeOK, Controller
  <2>2. Kept(h)' = Kept(h)
    BY <2>1 DEF Kept
  <2> QED
    BY <2>2, KeptAsIs
<1>9. CASE Exit(h)
  <2>1. ctl'[h].pc = "ended"
    BY <1>1, <1>9 DEF Exit, TypeOK, Controller
  <2> QED
    BY <1>9, <2>1, KeptElsewhere DEF Exit
<1>10. CASE Interrupt(h) \/ Kill(h) \/ Fails(h)
  <2>1. summary' = summary
    BY <1>10 DEF Interrupt, InterruptMain, InterruptPool, InterruptDrain, InterruptUncaught, Kill,
                 Fails, SummaryFails, CommandRaises
  <2>2. CASE ctl[h].pc = "writing"
    BY <2>1, <2>2 DEF KeepsRuns
  <2>3. ctl'[h].pc # "writing"
    <3>1. CASE \E d \in Databases : CommandRaises(h, d)
      BY <1>1, <3>1 DEF CommandRaises, TypeOK, Controller
    <3>2. CASE Interrupt(h) \/ Kill(h) \/ SummaryFails(h)
      BY <1>1, <3>2
      DEF Interrupt, InterruptMain, InterruptPool, InterruptDrain, InterruptUncaught, Kill,
          SummaryFails, TypeOK, Controller
    <3> QED
      BY <1>10, <3>1, <3>2 DEF Fails
  <2> QED
    BY <2>1, <2>2, <2>3, KeptElsewhere
<1> QED
  BY <1>2, <1>3, <1>4, <1>5, <1>6, <1>7, <1>8, <1>9, <1>10 DEF By, Step

LEMMA OthersStay ==
    ASSUME TypeOK, NEW h \in Hosts, NEW g \in Hosts, g # h, By(h)
    PROVE  ctl'[g] = ctl[g] /\ summary'[g] = summary[g]
<1> USE DEF TypeOK, fileVars, faultVars, Go, Return, Interrupted
<1>1. CASE \E dry \in BOOLEAN : Launch(h, dry)
  BY <1>1 DEF Launch
<1>2. CASE SetupFails(h) \/ DryRun(h) \/ SetupDone(h) \/ WorkersInvalid(h)
  BY <1>2 DEF SetupFails, DryRun, SetupDone, WorkersInvalid
<1>3. CASE StartAlgorithm(h) \/ EndAlgorithm(h) \/ MergeSummary(h) \/ WriteSummary(h) \/ SummaryDone(h)
  BY <1>3 DEF StartAlgorithm, EndAlgorithm, MergeSummary, WriteSummary, SummaryDone
<1>4. CASE \E d \in Databases : StartCommand(h, d) \/ \E st \in Statuses : EndCommand(h, d, st)
  BY <1>4 DEF StartCommand, EndCommand
<1>5. CASE Drained(h) \/ RestoreHandlers(h) \/ SendMail(h) \/ Exit(h)
  BY <1>5 DEF Drained, RestoreHandlers, SendMail, Exit
<1>6. CASE Interrupt(h)
  BY <1>6 DEF Interrupt, InterruptMain, InterruptPool, InterruptDrain, InterruptUncaught
<1>7. CASE Kill(h) \/ Fails(h)
  BY <1>7 DEF Kill, Fails, SummaryFails, CommandRaises
<1> QED
  BY <1>1, <1>2, <1>3, <1>4, <1>5, <1>6, <1>7 DEF By, Step

(* Merging: a result that a controller found or has merged is only         *)
(* replaced by a later one of the same pair; a dry run loses it, and a     *)
(* controller that stops while it writes.                                  *)
THEOREM RunsAreKept == Spec => SummaryKeeps
<1>1. BenchmarkOK /\ [Next]_vars =>
        [\A h \in Hosts :
            \/ ctl[h].dry
            \/ At(h, "writing") /\ summary'[h] = summary[h]
            \/ \A r \in Kept(h) : \E n \in Kept(h)' : PairOf(n) = PairOf(r) /\ n[4] >= r[4]]_vars
  <2> SUFFICES ASSUME BenchmarkOK, Next, NEW g \in Hosts PROVE KeepsRuns(g)
    BY DEF KeepsRuns
  <2>1. PICK h \in Hosts : By(h)
    BY DEF Next, By
  <2>2. CASE g = h
    BY <2>1, <2>2, StepKeepsRuns
  <2>3. CASE g # h
    <3>1. ctl'[g] = ctl[g] /\ summary'[g] = summary[g]
      BY <2>1, <2>3, OthersStay DEF BenchmarkOK
    <3> QED
      BY <3>1, KeptAsIs DEF Kept, At
  <2> QED
    BY <2>2, <2>3
<1> QED
  BY <1>1, BenchmarkKept, PTL DEF Spec, SummaryKeeps

=============================================================================
