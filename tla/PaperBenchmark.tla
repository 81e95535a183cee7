--------------------------- MODULE PaperBenchmark ---------------------------
(***************************************************************************)
(* The paper-benchmark command (cli/paper_benchmark.py), one controller    *)
(* per host.  The hosts run the same algorithms on their shares of the     *)
(* databases; each keeps a summary file that later launches merge into,    *)
(* and sends one e-mail.  A command is what CommandRun models: here it is  *)
(* started and ends with a status.  A controller may be interrupted by     *)
(* signals, killed, and launched again.                                    *)
(***************************************************************************)
EXTENDS Naturals, Sequences, FiniteSets

CONSTANTS
    None,
    HostList,       \* --hosts, the same on every host
    DatabaseList,   \* --databases as _resolve_databases orders them
    AlgorithmList,  \* --algorithms
    EarlierAlgorithms,
    Workers,        \* _profile_workers: algorithm -> how many at a time
    Statuses,       \* outcomes of a command
    Launches,       \* how often each host is launched, at most
    MaxFaults,      \* signals of any kind, and errors, that controllers get
    Faulty          \* the hosts that get them

Elements(s) == {s[i] : i \in DOMAIN s}
Hosts       == Elements(HostList)
Databases   == Elements(DatabaseList)
Algorithms  == Elements(AlgorithmList)

(* _resolve_hosts refuses a list with duplicates; a database or algorithm  *)
(* that is requested twice is not modelled.                                *)
Distinct(s) == s \in Seq(Elements(s)) /\ \A i, j \in DOMAIN s : s[i] = s[j] => i = j

ASSUME BenchmarkAssumption ==
    /\ Distinct(HostList) /\ Hosts # {}
    /\ Distinct(DatabaseList) /\ Distinct(AlgorithmList)
    /\ "success" \in Statuses /\ None \notin {0, 1, 130}
    /\ \A a \in Algorithms : Workers[a] \in Nat \ {0}

VARIABLES
    ctl,        \* each host's controller
    launches,
    mail,       \* the e-mails of the host's current launch
    summary,    \* the runs in summary_<host>.json; none if there is no file, if
                \* it is truncated or the plan of a dry run
    progress,   \* progress/<algorithm>_<database>.json
    faults

vars == <<ctl, launches, mail, summary, progress, faults>>

(* _shard_databases: the databases whose index is the host's, modulo.      *)
IndexOf(h) == CHOOSE i \in DOMAIN HostList : HostList[i] = h
Share(h) ==
    {DatabaseList[i] : i \in {j \in DOMAIN DatabaseList :
                                 (j - 1) % Len(HostList) = IndexOf(h) - 1}}
FirstHostTakesRest(h) ==
    {DatabaseList[i] : i \in {j \in DOMAIN DatabaseList :
                                 j = IndexOf(h) \/ (j >= Len(HostList) /\ IndexOf(h) = 1)}}
Shard(h) == Share(h)
Planned(h) == Algorithms \X Shard(h)

(* The results of an earlier launch, number 0, with other algorithms.      *)
Earlier(h) == {<<p[1], p[2], "success", 0>> : p \in EarlierAlgorithms \X Shard(h)}

Off == [pc |-> "off", dry |-> FALSE, alg |-> 0, queue |-> {}, active |-> {},
        local |-> {}, results |-> {}, runs |-> {}, code |-> None, error |-> FALSE, sent |-> FALSE]

Init ==
    /\ ctl = [h \in Hosts |-> Off]
    /\ launches = [h \in Hosts |-> 0]
    /\ mail = [h \in Hosts |-> <<>>]
    /\ summary \in [Hosts -> {{}}] \union {[h \in Hosts |-> Earlier(h)]}
    /\ progress = [p \in Algorithms \X Databases |-> None]
    /\ faults = 0

At(h, pc)    == ctl[h].pc = pc
Up(h)        == ctl[h].pc \notin {"off", "ended"}
Go(h, pc)    == ctl' = [ctl EXCEPT ![h].pc = pc]
Algorithm(h) == AlgorithmList[ctl[h].alg]
Parallel(h)  == ctl[h].alg \in DOMAIN AlgorithmList /\ Workers[Algorithm(h)] > 1

(* One more signal, or error after the set-up, for a host that gets them.  *)
Fault(h) == h \in Faulty /\ faults < MaxFaults /\ faults' = faults + 1

fileVars  == <<summary, progress>>
faultVars == <<launches, faults>>

(* Exit with a code: every return of main passes through finish().         *)
Return(h, c, err) == ctl' = [ctl EXCEPT ![h].pc = "finish", ![h].code = c, ![h].error = err]

Launch(h, dry) ==
    /\ ~Up(h) /\ launches[h] < Launches[h]
    /\ launches' = [launches EXCEPT ![h] = @ + 1]
    /\ ctl' = [ctl EXCEPT ![h] = [Off EXCEPT !.pc = "setup", !.dry = dry]]
    /\ mail' = [mail EXCEPT ![h] = <<>>]
    /\ UNCHANGED <<fileVars, faults>>

(* Any error before the first command: a setting, a directory, a config.   *)
SetupFails(h) ==
    /\ At(h, "setup")
    /\ Return(h, 1, TRUE)
    /\ UNCHANGED <<mail, fileVars, faultVars>>

(* A dry run replaces the summary by the plan, whatever it held.           *)
DryRun(h) ==
    /\ At(h, "setup") /\ ctl[h].dry
    /\ summary' = [summary EXCEPT ![h] = {}]
    /\ Return(h, 0, FALSE)
    /\ UNCHANGED <<mail, progress, faultVars>>

SetupDone(h) ==
    /\ At(h, "setup") /\ ~ctl[h].dry
    /\ Go(h, "next")
    /\ UNCHANGED <<mail, fileVars, faultVars>>

(* _profile_workers is called outside of every try: a number of workers    *)
(* that is none ends the controller without finish().                      *)
WorkersInvalid(h) ==
    /\ At(h, "setup") /\ ~ctl[h].dry
    /\ Go(h, "exit")
    /\ UNCHANGED <<mail, fileVars, faultVars>>

(***************************************************************************)
(* _run_specs, one algorithm after the other.                              *)
(***************************************************************************)
StartAlgorithm(h) ==
    /\ At(h, "next") /\ ctl[h].alg < Len(AlgorithmList)
    /\ ctl' = [ctl EXCEPT ![h].pc = "pool", ![h].alg = @ + 1, ![h].queue = Shard(h),
                          ![h].local = {}]
    /\ UNCHANGED <<mail, fileVars, faultVars>>

StartInPoolOnly(h, d) ==
    /\ At(h, "pool") /\ d \in ctl[h].queue
    /\ Cardinality(ctl[h].active) < Workers[Algorithm(h)]
    /\ ctl' = [ctl EXCEPT ![h].queue = @ \ {d}, ![h].active = @ \union {d}]
    /\ progress' = [progress EXCEPT ![<<Algorithm(h), d>>] = "running"]
    /\ UNCHANGED <<mail, summary, faultVars>>

(* The executor's threads take what is queued also while main waits for    *)
(* them in shutdown() ("drain") or at the interpreter's exit.              *)
StartCommand(h, d) ==
    /\ ctl[h].pc \in {"pool"} \union (IF Parallel(h) THEN {"drain", "finish", "mail", "exit"} ELSE {})
    /\ d \in ctl[h].queue
    /\ Cardinality(ctl[h].active) < Workers[Algorithm(h)]
    /\ ctl' = [ctl EXCEPT ![h].queue = @ \ {d}, ![h].active = @ \union {d}]
    /\ progress' = [progress EXCEPT ![<<Algorithm(h), d>>] = "running"]
    /\ UNCHANGED <<mail, summary, faultVars>>

EndCommand(h, d, st) ==
    /\ ctl[h].pc \in {"pool"} \union (IF Parallel(h) THEN {"drain", "finish", "mail", "exit"} ELSE {})
    /\ d \in ctl[h].active
    /\ ctl' = [ctl EXCEPT ![h].active = @ \ {d},
                          ![h].local = @ \union {<<Algorithm(h), d, st, launches[h]>>}]
    /\ progress' = [progress EXCEPT ![<<Algorithm(h), d>>] = st]
    /\ UNCHANGED <<mail, summary, faultVars>>

(* _run_command raises: its output cannot be opened or Popen fails, or a   *)
(* progress file cannot be written, the first ("queue") or the last.  In   *)
(* main's own thread main catches it.  Of an executor's thread main learns *)
(* while it waits for the results, and leaving the executor's block waits  *)
(* for all other commands first; once it has left, nobody looks.           *)
CommandRaises(h, d) ==
    /\ ctl[h].pc \in {"pool"} \union (IF Parallel(h) THEN {"drain", "finish", "mail", "exit"} ELSE {})
    /\ \/ d \in ctl[h].active
       \/ d \in ctl[h].queue /\ Cardinality(ctl[h].active) < Workers[Algorithm(h)]
    /\ LET end == [ctl[h] EXCEPT !.queue = @ \ {d}, !.active = @ \ {d}]
           raised == [end EXCEPT !.pc = IF Parallel(h) THEN "drain" ELSE "finish",
                                 !.code = 1, !.error = TRUE]
       IN ctl' = [ctl EXCEPT ![h] = IF At(h, "pool") THEN raised ELSE end]
    /\ Fault(h)
    /\ UNCHANGED <<mail, fileVars, launches>>

Idle(h) == ctl[h].queue = {} /\ ctl[h].active = {}

EndAlgorithm(h) ==
    /\ At(h, "pool") /\ Idle(h)
    /\ ctl' = [ctl EXCEPT ![h].pc = "next", ![h].results = @ \union ctl[h].local]
    /\ UNCHANGED <<mail, fileVars, faultVars>>

(***************************************************************************)
(* _write_summary: merge with the file that is there, if it can be read    *)
(* and is no plan, and write in place, the JSON file and then the report.  *)
(***************************************************************************)
PairOf(r) == <<r[1], r[2]>>
NewResultsOnly(h) == ctl[h].results
Merged(h) ==
    {r \in summary[h] : ~\E n \in ctl[h].results : PairOf(n) = PairOf(r)} \union ctl[h].results

MergeSummary(h) ==
    /\ At(h, "next") /\ ctl[h].alg = Len(AlgorithmList)
    /\ ctl' = [ctl EXCEPT ![h].pc = "writing", ![h].runs = Merged(h)]
    /\ summary' = [summary EXCEPT ![h] = {}]
    /\ UNCHANGED <<mail, progress, faultVars>>

WriteSummary(h) ==
    /\ At(h, "writing")
    /\ summary' = [summary EXCEPT ![h] = ctl[h].runs]
    /\ Go(h, "written")
    /\ UNCHANGED <<mail, progress, faultVars>>

SummaryDone(h) ==
    /\ At(h, "written")
    /\ Return(h, IF \A r \in ctl[h].results : r[3] = "success" THEN 0 ELSE 1, FALSE)
    /\ UNCHANGED <<mail, fileVars, faultVars>>

(* The file cannot be read, or a write fails: main catches it.             *)
SummaryFails(h) ==
    /\ \/ At(h, "next") /\ ctl[h].alg = Len(AlgorithmList)
       \/ ctl[h].pc \in {"writing", "written"}
    /\ Return(h, 1, TRUE)
    /\ Fault(h)
    /\ UNCHANGED <<mail, fileVars, launches>>

(***************************************************************************)
(* finish(): the handlers are taken away, then the e-mail is sent.         *)
(***************************************************************************)
RestoreHandlers(h) ==
    /\ At(h, "finish")
    /\ Go(h, "mail")
    /\ UNCHANGED <<mail, fileVars, faultVars>>

MailStatus(h) ==
    LET c == ctl[h] IN
    CASE c.code = 0 -> "success"
      [] c.code = 130 -> "interrupted"
      [] c.code = 1 /\ ~c.error /\ Cardinality(c.results) >= Cardinality(Planned(h)) -> "completed"
      [] OTHER -> "failed"

(* send_once: an e-mail that cannot be sent is not tried again.            *)
SendAgain(h, what) == mail' \in {mail, [mail EXCEPT ![h] = Append(@, what)]}
Send(h, what) == IF ctl[h].sent THEN mail' = mail ELSE SendAgain(h, what)

SendMail(h) ==
    /\ At(h, "mail")
    /\ Send(h, MailStatus(h))
    /\ ctl' = [ctl EXCEPT ![h].pc = "exit", ![h].sent = TRUE]
    /\ UNCHANGED <<fileVars, faultVars>>

(* The interpreter waits for the executor's threads.  A command that runs  *)
(* in the main thread's place is sent SIGTERM when the controller is gone. *)
Exit(h) ==
    /\ At(h, "exit") /\ (Parallel(h) => Idle(h))
    /\ ctl' = [ctl EXCEPT ![h].pc = "ended", ![h].queue = {}, ![h].active = {}]
    /\ UNCHANGED <<mail, fileVars, faultVars>>

(***************************************************************************)
(* notify_interrupted: the e-mail first, then KeyboardInterrupt wherever   *)
(* main is.                                                                *)
(***************************************************************************)
Signalled(h) ==
    /\ Fault(h)
    /\ Send(h, "interrupted")
    /\ UNCHANGED launches

Interrupted(h, pc, c) ==
    ctl' = [ctl EXCEPT ![h].pc = pc, ![h].code = c, ![h].error = TRUE, ![h].sent = TRUE]

(* main catches it, and what the algorithm's commands gave is lost.        *)
InterruptMain(h) ==
    /\ \/ ctl[h].pc \in {"setup", "next", "writing", "written"}
       \/ At(h, "pool") /\ ~Parallel(h)
    /\ Signalled(h)
    /\ Interrupted(h, "finish", 130)
    /\ UNCHANGED fileVars

(* Leaving the executor's block waits for every command, queued or not; a  *)
(* second signal ends the wait, not the commands.                          *)
InterruptPool(h) ==
    /\ At(h, "pool") /\ Parallel(h)
    /\ Signalled(h)
    /\ Interrupted(h, "drain", 130)
    /\ UNCHANGED fileVars

InterruptDrain(h) ==
    /\ At(h, "drain")
    /\ Signalled(h)
    /\ Interrupted(h, "finish", 130)
    /\ UNCHANGED fileVars

Drained(h) ==
    /\ At(h, "drain") /\ Idle(h)
    /\ Go(h, "finish")
    /\ UNCHANGED <<mail, fileVars, faultVars>>

(* Nothing catches it: in the first lines of the set-up, and in finish()   *)
(* before the handlers are taken away.                                     *)
InterruptUncaught(h) ==
    /\ ctl[h].pc \in {"setup", "finish"}
    /\ Signalled(h)
    /\ Interrupted(h, "exit", None)
    /\ UNCHANGED fileVars

Kill(h) ==
    /\ Up(h) /\ Fault(h)
    /\ ctl' = [ctl EXCEPT ![h].pc = "ended", ![h].queue = {}, ![h].active = {}, ![h].code = None]
    /\ UNCHANGED <<launches, mail, fileVars>>

Step(h) ==
    \/ SetupFails(h) \/ DryRun(h) \/ SetupDone(h) \/ WorkersInvalid(h)
    \/ StartAlgorithm(h) \/ EndAlgorithm(h)
    \/ \E d \in Databases : StartCommand(h, d) \/ \E st \in Statuses : EndCommand(h, d, st)
    \/ MergeSummary(h) \/ WriteSummary(h) \/ SummaryDone(h)
    \/ Drained(h) \/ RestoreHandlers(h) \/ SendMail(h) \/ Exit(h)

Interrupt(h) ==
    InterruptMain(h) \/ InterruptPool(h) \/ InterruptDrain(h) \/ InterruptUncaught(h)

Fails(h) == SummaryFails(h) \/ \E d \in Databases : CommandRaises(h, d)

Next ==
    \E h \in Hosts :
        \/ \E dry \in BOOLEAN : Launch(h, dry)
        \/ Step(h) \/ Fails(h) \/ Interrupt(h) \/ Kill(h)

(* A controller and the commands it started go on: CommandRun shows that   *)
(* every command ends.                                                     *)
Spec == Init /\ [][Next]_vars
FairSpec == Spec /\ \A h \in Hosts : WF_vars(Step(h))
-----------------------------------------------------------------------------
Returned(h) == ctl[h].pc \in {"mail", "exit", "ended"} /\ ctl[h].code # None

(* What exit codes promise.  0: every planned pair of this host succeeded  *)
(* in this launch and is in the summary.  When every host has completed,   *)
(* by 0 or by 1 without an error, every pair of an algorithm and a         *)
(* database is in exactly one summary, once, and is of the last launch;    *)
(* the progress files tell the same status.                                *)
Completed(h) == Returned(h) /\ ~ctl[h].dry /\ ctl[h].code \in {0, 1} /\ ~ctl[h].error
CompletedMeansAll ==
    /\ \A h \in Hosts : Completed(h) /\ ctl[h].code = 0 =>
          \A p \in Planned(h) : <<p[1], p[2], "success", launches[h]>> \in summary[h]
    /\ \A h \in Hosts : Completed(h) =>
          \A p \in Planned(h) : <<p[1], p[2], progress[p], launches[h]>> \in summary[h]
    /\ (\A h \in Hosts : Completed(h)) =>
          \A p \in Algorithms \X Databases :
              Cardinality({x \in UNION {{h} \X summary[h] : h \in Hosts} :
                              PairOf(x[2]) = p /\ x[2][4] = launches[x[1]]}) = 1

(* There is at most one e-mail of a launch, and it tells what happened:    *)
(* one that says success or completed comes from a controller with every   *)
(* result, and one sent on a signal from one that does not return 0 or 1.  *)
MailTellsOutcome ==
    \A h \in Hosts :
        /\ Len(mail[h]) <= 1
        /\ \A m \in Elements(mail[h]) :
              /\ m \in {"success", "completed"} =>
                    ctl[h].dry \/ Cardinality(ctl[h].results) = Cardinality(Planned(h))
              /\ Returned(h) => (m = "interrupted" <=> ctl[h].code = 130)

(* What a controller has merged or found in the file is only replaced by a *)
(* later result of the same pair: results are lost by a dry run, and by a  *)
(* controller that is stopped between truncating the file and writing it,  *)
(* and in no other way.                                                    *)
Kept(h) == IF At(h, "writing") THEN ctl[h].runs ELSE summary[h]
SummaryKeeps ==
    [][\A h \in Hosts :
          \/ ctl[h].dry
          \/ At(h, "writing") /\ summary'[h] = summary[h]
          \/ \A r \in Kept(h) : \E n \in Kept(h)' : PairOf(n) = PairOf(r) /\ n[4] >= r[4]]_vars

(* Every launch ends, whatever signals it gets.                            *)
ControllersEnd == \A h \in Hosts : Up(h) ~> ~Up(h)
=============================================================================
