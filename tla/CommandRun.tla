----------------------------- MODULE CommandRun -----------------------------
(***************************************************************************)
(* One run of one algorithm on one database.  Three commands do it:        *)
(*   "run"        marita run, the child of paper-benchmark's _run_command; *)
(*   "benchmark"  marita benchmark, another child of _run_command, which   *)
(*                starts external tools with run_cmd;                      *)
(*   "batch"      run_database in a worker of the batch command's pool,    *)
(*                which nobody watches.                                    *)
(* The actors are the caller's thread and its memory monitor, the command  *)
(* (the child) with its ResourceMonitor or its alarm, and the tool with    *)
(* the memory monitor of run_cmd.                                          *)
(***************************************************************************)
EXTENDS Naturals, FiniteSets

CONSTANTS
    None,
    Kinds,      \* the commands of this instance
    MaxCalls    \* external commands of a baseline: 0 for MATILDA, 1 for
                \* AMIE3 and SPIDER, one per table for POPPER

ASSUME CommandAssumption ==
    /\ Kinds \subseteq {"run", "benchmark", "batch"}
    /\ MaxCalls \in Nat
    /\ None # "success"

VARIABLES
    kind,
    clock,      \* "before" the limit, at the "limit", after the "grace" period
    high,       \* the processes use more memory than the limit
    caller,     \* where _run_command is
    watch,      \* its memory monitor
    oom,
    child,      \* where the command is: "off" before, "gone" after
    code,       \* the exit code it is going to have or had
    stop,       \* ResourceMonitor.should_stop
    guard,      \* the ResourceMonitor's thread
    alarm,      \* SIGALRM: "off", "armed", "spent"
    calls,      \* external commands still to run
    tool,       \* the external command
    toolWatch,  \* run_cmd's memory monitor
    exceeded,   \* memory_exceeded
    termed,     \* processes that were sent SIGTERM and have not acted on it
    rules,      \* what the search has found: None, "partial" or "all"
    saved,      \* what the results file holds
    metrics,    \* the status in execution_time_<database>.json, or "torn"
    status,     \* the status reported for the run
    progress,   \* the status in the progress file
    ownLimit,   \* history: MARITA's own time limit ended the search
    swallowed,  \* history: the batch alarm's exception was caught by the search
    strayed     \* history: somebody outside sent the command SIGTERM

timeVars   == <<kind, clock, high>>
callerVars == <<caller, watch, oom, status, progress>>
childVars  == <<child, code, stop, guard, alarm, calls, rules, saved, metrics>>
toolVars   == <<tool, toolWatch, exceeded>>
history    == <<ownLimit, swallowed, strayed>>
vars       == <<timeVars, callerVars, childVars, toolVars, termed, history>>

Init ==
    /\ kind \in Kinds
    /\ clock = "before" /\ high = FALSE
    /\ caller = "start" /\ watch = "off" /\ oom = FALSE
    /\ child = "off" /\ code = None /\ stop = FALSE /\ guard = "off" /\ alarm = "off"
    /\ calls \in IF kind = "benchmark" THEN 0..MaxCalls ELSE {0}
    /\ tool = "none" /\ toolWatch = "off" /\ exceeded = FALSE
    /\ termed = {}
    /\ rules = None /\ saved = None /\ metrics = None
    /\ status = None /\ progress = None
    /\ ownLimit = FALSE /\ swallowed = FALSE /\ strayed = FALSE

Watched    == kind # "batch"
ChildAlive == child \notin {"off", "gone"}
ToolAlive  == tool = "running"
Late       == clock # "before"
At(pc)     == child = pc
Go(pc)     == child' = pc

(* The child ends.  PR_SET_PDEATHSIG sends SIGTERM to a tool it leaves.    *)
NoDeathSignal == {}
OrphanTerm == IF ToolAlive THEN {"tool"} ELSE {}
Ends(c) ==
    /\ Go("gone") /\ code' = c /\ guard' = "off" /\ alarm' = "off"
    /\ termed' = (termed \ {"child"}) \union OrphanTerm
    /\ toolWatch' = "off"
    /\ UNCHANGED <<stop, calls, rules, saved, metrics, tool, exceeded>>

(***************************************************************************)
(* The caller: _run_command of paper-benchmark.                            *)
(***************************************************************************)
Launch ==
    /\ Watched /\ caller = "start"
    /\ caller' = "waiting" /\ watch' = "polling" /\ progress' = "running"
    /\ Go("boot")
    /\ UNCHANGED <<timeVars, oom, status, code, stop, guard, alarm, calls,
                   rules, saved, metrics, toolVars, termed, history>>

Report(st) ==
    /\ status' = st /\ progress' = st /\ caller' = "done"
    /\ UNCHANGED <<timeVars, watch, oom, childVars, toolVars, termed, history>>

(* The return code read before the monitor's event.                        *)
OutcomeByCode ==
    CASE code = 124 -> "timeout" [] code = 0 -> "success" [] OTHER -> IF oom THEN "oom" ELSE "error"

Outcome ==
    CASE oom -> "oom"
      [] ~oom /\ code = 124 -> "timeout"
      [] ~oom /\ code = 0 -> "success"
      [] OTHER -> "error"

Collect == caller = "waiting" /\ At("gone") /\ Report(Outcome)

(* TimeoutExpired after timeout + 30 s: SIGTERM, and SIGKILL 10 s later.   *)
GiveUp ==
    /\ caller = "waiting" /\ clock = "grace" /\ ChildAlive
    /\ caller' = "stopping" /\ termed' = termed \union {"child"}
    /\ UNCHANGED <<timeVars, watch, oom, status, progress, childVars, toolVars, history>>

KillChild ==
    /\ caller = "stopping" /\ ChildAlive
    /\ Ends(9)
    /\ UNCHANGED <<timeVars, callerVars, history>>

CollectAtOnce  == caller = "stopping" /\ Report("timeout")
CollectStopped == caller = "stopping" /\ At("gone") /\ Report("timeout")

(* _monitor_memory: the sum over the child's process tree, every 0.5 s.    *)
WatchSeesLimit ==
    /\ watch = "polling" /\ high /\ ChildAlive
    /\ watch' = "over"
    /\ UNCHANGED <<timeVars, caller, oom, status, progress, childVars, toolVars, termed, history>>

WatchStops ==
    /\ watch = "over"
    /\ watch' = "off" /\ oom' = TRUE
    /\ termed' = termed \union (IF ChildAlive THEN {"child"} ELSE {})
    /\ UNCHANGED <<timeVars, caller, status, progress, childVars, toolVars, history>>

(* A process that vanishes while its memory is read is a psutil.Error: it  *)
(* ends the monitor, and the limit with it.                                *)
WatchEnds ==
    /\ watch = "polling"
    /\ watch' = "off"
    /\ UNCHANGED <<timeVars, caller, oom, status, progress, childVars, toolVars, termed, history>>

(* The caller's process ends, by an interrupt or killed; its threads end   *)
(* with it and PR_SET_PDEATHSIG sends SIGTERM to the child.                *)
CallerDies ==
    /\ caller \in {"waiting", "stopping"}
    /\ caller' = "dead" /\ watch' = "off"
    /\ termed' = termed \union (IF ChildAlive THEN {"child"} ELSE {})
    /\ UNCHANGED <<timeVars, oom, status, progress, childVars, toolVars, history>>

(***************************************************************************)
(* SIGTERM at the child.  `marita run` handles it once it has installed    *)
(* its handler; the other commands keep the default action.  It may come   *)
(* from outside (an administrator, a shutdown) at any time.                *)
(***************************************************************************)
Handled == kind = "run" /\ ~At("boot")

StraySignal ==
    /\ Watched /\ ChildAlive
    /\ termed' = termed \union {"child"} /\ strayed' = TRUE
    /\ UNCHANGED <<timeVars, callerVars, childVars, toolVars, ownLimit, swallowed>>

ChildShutsDown ==
    /\ "child" \in termed /\ ChildAlive /\ Handled
    /\ termed' = termed \ {"child"}
    /\ stop' = TRUE /\ code' = 0 /\ Go("leave")
    /\ UNCHANGED <<timeVars, callerVars, guard, alarm, calls, rules, saved, metrics,
                   toolVars, history>>

ChildTerminated ==
    /\ "child" \in termed /\ ChildAlive /\ ~Handled
    /\ Ends(15)
    /\ UNCHANGED <<timeVars, callerVars, history>>

(***************************************************************************)
(* DatabaseProcessor.discover_rules, in `marita run` and in the batch.     *)
(***************************************************************************)
stepVars == <<timeVars, callerVars, toolVars, termed>>

Boot ==
    /\ At("boot")
    /\ \/ /\ kind = "run" /\ guard' = "polling" /\ Go("search") /\ alarm' = alarm
       \/ /\ kind = "benchmark" /\ alarm' = "armed" /\ Go("prepare") /\ guard' = guard
    /\ UNCHANGED <<stepVars, code, stop, calls, rules, saved, metrics, history>>

BootFails ==
    /\ At("boot")
    /\ Ends(1)
    /\ UNCHANGED <<timeVars, callerVars, history>>

BatchStart ==
    /\ kind = "batch" /\ caller = "start"
    /\ caller' = "inside" /\ alarm' = "armed" /\ Go("search")
    /\ UNCHANGED <<timeVars, watch, oom, status, progress, code, stop, guard, calls,
                   rules, saved, metrics, toolVars, termed, history>>

(* The rules are saved when the search ends, whatever ended it.            *)
Search ==
    /\ At("search")
    /\ \/ rules' = (IF swallowed THEN "partial" ELSE "all") /\ UNCHANGED ownLimit
       \/ stop /\ rules' = "partial" /\ UNCHANGED ownLimit
       \/ kind = "run" /\ Late /\ rules' = "partial" /\ ownLimit' = TRUE
    /\ Go("save")
    /\ UNCHANGED <<stepVars, code, stop, guard, alarm, calls, saved, metrics, swallowed,
                   strayed>>

Save ==
    /\ At("save")
    /\ saved' = rules /\ Go("report")
    /\ UNCHANGED <<stepVars, code, stop, guard, alarm, calls, rules, metrics, history>>

(* write_execution_time_metrics writes in place: when it fails, the file   *)
(* is as it was, or cut short.                                             *)
NotWritten == metrics' \in {metrics, "torn"}

(* generate_report: a failure to write the metrics is only logged.  Then   *)
(* should_stop of `marita run` for the last time.                          *)
WriteReport ==
    /\ At("report")
    /\ metrics' = "success" \/ NotWritten
    /\ Go("check")
    /\ UNCHANGED <<stepVars, code, stop, guard, alarm, calls, rules, saved, history>>

Check ==
    /\ At("check") /\ Watched
    /\ code' = (IF kind = "run" /\ stop THEN 1 ELSE 0) /\ Go("leave")
    /\ UNCHANGED <<stepVars, stop, guard, alarm, calls, rules, saved, metrics, history>>

(* An exception ends the command with 1; monitor.stop() in the finally.    *)
(* At "check" it is MLflow's or clean_up's.                                *)
SearchFails ==
    /\ Watched /\ child \in {"search", "save", "report", "check"}
    /\ code' = 1 /\ Go("leave")
    /\ UNCHANGED <<stepVars, stop, guard, alarm, calls, rules, saved, metrics, history>>

Leave ==
    /\ At("leave")
    /\ Ends(code)
    /\ UNCHANGED <<timeVars, callerVars, history>>

(* ResourceMonitor.monitor, every second: memory, then time.  Any error    *)
(* ends the thread.                                                        *)
GuardStops ==
    /\ guard = "polling" /\ (high \/ Late)
    /\ guard' = "off" /\ stop' = TRUE
    /\ UNCHANGED <<stepVars, child, code, alarm, calls, rules, saved, metrics, history>>

GuardDies ==
    /\ guard = "polling"
    /\ guard' = "off"
    /\ UNCHANGED <<stepVars, child, code, stop, alarm, calls, rules, saved, metrics, history>>

(***************************************************************************)
(* run_database of the batch: signal.alarm raises TimeoutError wherever    *)
(* the main thread is.                                                     *)
(***************************************************************************)
batchRest == <<timeVars, watch, oom, progress, code, stop, guard, calls, rules, saved,
               metrics, toolVars, termed>>

Ring == alarm = "armed" /\ Late /\ alarm' = "spent"

BatchTimeout ==
    /\ kind = "batch" /\ child \in {"search", "save", "report", "check"} /\ Ring
    /\ status' = "timeout" /\ Go("disarm")
    /\ UNCHANGED <<batchRest, caller, history>>

(* `except Exception` around a query, a rule's conversion or the set-up of *)
(* the search takes the TimeoutError for a failure of its own.             *)
BatchSwallows ==
    /\ kind = "batch" /\ At("search") /\ Ring
    /\ swallowed' = TRUE
    /\ UNCHANGED <<batchRest, caller, status, child, ownLimit, strayed>>

BatchReturns ==
    /\ kind = "batch" /\ At("check")
    /\ status' = "success" /\ Go("disarm")
    /\ UNCHANGED <<batchRest, caller, alarm, history>>

BatchFails ==
    /\ kind = "batch" /\ child \in {"search", "save", "report", "disarm"}
    /\ status' = "error" /\ Go("disarm")
    /\ UNCHANGED <<batchRest, caller, alarm, history>>

(* In the finally, before alarm(0): the exception replaces the outcome.    *)
BatchLateAlarm ==
    /\ kind = "batch" /\ At("disarm") /\ Ring
    /\ status' = "error"
    /\ UNCHANGED <<batchRest, caller, child, history>>

(* Here too a failure to write the metrics is only logged.                 *)
BatchEnds ==
    /\ kind = "batch" /\ At("disarm")
    /\ metrics' = status \/ NotWritten
    /\ alarm' = "off" /\ Go("gone") /\ caller' = "done"
    /\ UNCHANGED <<timeVars, watch, oom, status, progress, code, stop, guard, calls, rules,
                   saved, toolVars, termed, history>>

(***************************************************************************)
(* BaselineProcessor.discover_rules and the calls of run_cmd it makes.     *)
(* child: "prepare" outside run_cmd, "spawn" until `process` is bound,     *)
(* "communicate", "failed" (communicate timed out, _terminate_process),    *)
(* "raising" (the same for the alarm's exception), "disarm" the end of the *)
(* benchmark_timeout block with the outcome in code.                       *)
(***************************************************************************)
benchRest == <<timeVars, callerVars, stop, guard, rules, saved, metrics, history>>

StartCall ==
    /\ At("prepare") /\ calls > 0 /\ Go("spawn")
    /\ UNCHANGED <<benchRest, code, alarm, calls, toolVars, termed>>

Spawn ==
    /\ At("spawn")
    /\ tool' = "running" /\ toolWatch' = "polling" /\ exceeded' = FALSE
    /\ Go("communicate")
    /\ UNCHANGED <<benchRest, code, alarm, calls, termed>>

Unwind(c) == Go("disarm") /\ code' = c

Communicate ==
    /\ At("communicate") /\ tool \in {"ok", "bad"}
    /\ IF tool = "ok" /\ ~exceeded
       THEN calls' = calls - 1 /\ Go("prepare") /\ UNCHANGED code
       ELSE Unwind(1) /\ UNCHANGED calls
    /\ tool' = "none" /\ toolWatch' = "off"
    /\ UNCHANGED <<benchRest, alarm, exceeded, termed>>

CommunicateTimeout ==
    /\ At("communicate") /\ Late /\ ToolAlive
    /\ Go("failed") /\ termed' = termed \union {"tool"}
    /\ UNCHANGED <<benchRest, code, alarm, calls, toolVars>>

(* _terminate_process: SIGTERM, at most 10 s, SIGKILL, wait.               *)
KillTool ==
    /\ child \in {"failed", "raising"} /\ ToolAlive
    /\ tool' = "bad" /\ termed' = termed \ {"tool"}
    /\ UNCHANGED <<benchRest, child, code, alarm, calls, toolWatch, exceeded>>

ToolStopped ==
    /\ child \in {"failed", "raising"} /\ ~ToolAlive
    /\ tool' = "none" /\ toolWatch' = "off"
    /\ Unwind(IF At("failed") THEN 1 ELSE 124)
    /\ UNCHANGED <<benchRest, alarm, calls, exceeded, termed>>

(* BenchmarkTimeoutError, wherever the main thread is.                     *)
AlarmOutside ==
    /\ kind = "benchmark" /\ child \in {"prepare", "disarm"} /\ Ring
    /\ Unwind(124)
    /\ UNCHANGED <<benchRest, calls, toolVars, termed>>

(* `process` is still None: run_cmd swallows it and returns False, even if *)
(* Popen had already made the process.                                     *)
AlarmSwallowed ==
    /\ At("spawn") /\ Ring
    /\ Unwind(1)
    /\ tool' \in {"none", "running"}
    /\ UNCHANGED <<benchRest, calls, toolWatch, exceeded, termed>>

AlarmInside ==
    /\ kind = "benchmark" /\ child \in {"communicate", "failed"} /\ Ring
    /\ Go("raising")
    /\ termed' = termed \union OrphanTerm
    /\ UNCHANGED <<benchRest, code, calls, toolVars>>

BaselineDone ==
    /\ At("prepare") /\ calls = 0
    /\ rules' = "all" /\ Unwind(0)
    /\ UNCHANGED <<timeVars, callerVars, stop, guard, alarm, calls, saved, metrics, toolVars,
                   termed, history>>

BaselineFails ==
    /\ At("prepare")
    /\ Unwind(1)
    /\ UNCHANGED <<benchRest, alarm, calls, toolVars, termed>>

(* A failure to write the metrics of a time-out replaces the time-out.     *)
Disarm ==
    /\ kind = "benchmark" /\ At("disarm")
    /\ alarm' = "off"
    /\ \/ code # 124 /\ UNCHANGED <<code, metrics>>
       \/ code = 124 /\ metrics' = "timeout" /\ UNCHANGED code
       \/ code = 124 /\ NotWritten /\ code' = 1
    /\ Go(IF code = 0 THEN "save" ELSE "leave")
    /\ UNCHANGED <<stepVars, stop, guard, calls, rules, saved, history>>

(***************************************************************************)
(* The tool and run_cmd's monitor of its memory.  The tool may run for     *)
(* ever but obeys SIGTERM; a systemd scope may end it at either limit.     *)
(***************************************************************************)
toolRest == <<timeVars, callerVars, childVars, history>>

ToolEnds ==
    /\ ToolAlive
    /\ tool' \in {"ok", "bad"} /\ termed' = termed \ {"tool"}
    /\ UNCHANGED <<toolRest, toolWatch, exceeded>>

ToolObeys ==
    /\ ToolAlive /\ "tool" \in termed
    /\ tool' = "bad" /\ termed' = termed \ {"tool"}
    /\ UNCHANGED <<toolRest, toolWatch, exceeded>>

ToolWatchStops ==
    /\ toolWatch = "polling" /\ high /\ ToolAlive
    /\ toolWatch' = "off" /\ exceeded' = TRUE /\ termed' = termed \union {"tool"}
    /\ UNCHANGED <<toolRest, tool>>

ToolWatchDies ==
    /\ toolWatch = "polling"
    /\ toolWatch' = "off"
    /\ UNCHANGED <<toolRest, tool, exceeded, termed>>

(***************************************************************************)
(* Time and memory.                                                        *)
(***************************************************************************)
Tick ==
    /\ caller # "start" /\ clock # "grace"
    /\ clock' = IF clock = "before" THEN "limit" ELSE "grace"
    /\ UNCHANGED <<kind, high, callerVars, childVars, toolVars, termed, history>>

Grow ==
    /\ ~high /\ ChildAlive
    /\ high' = TRUE
    /\ UNCHANGED <<kind, clock, callerVars, childVars, toolVars, termed, history>>

CallerStep == Launch \/ Collect \/ GiveUp \/ KillChild \/ CollectStopped
WatchStep  == WatchSeesLimit \/ WatchStops \/ WatchEnds
RunStep    == Boot \/ BootFails \/ Search \/ Save \/ WriteReport \/ Check \/ SearchFails \/ Leave
BatchStep  == BatchStart \/ BatchTimeout \/ BatchSwallows \/ BatchReturns \/ BatchFails
              \/ BatchLateAlarm \/ BatchEnds
BaseStep   == StartCall \/ Spawn \/ Communicate \/ CommunicateTimeout \/ KillTool
              \/ ToolStopped \/ AlarmOutside \/ AlarmSwallowed \/ AlarmInside
              \/ BaselineDone \/ BaselineFails \/ Disarm
ToolStep   == ToolEnds \/ ToolObeys \/ ToolWatchStops \/ ToolWatchDies

Next ==
    \/ CallerStep \/ WatchStep \/ CallerDies
    \/ StraySignal \/ ChildShutsDown \/ ChildTerminated
    \/ RunStep \/ GuardStops \/ GuardDies
    \/ BatchStep \/ BaseStep \/ ToolStep
    \/ Tick \/ Grow

(* The caller's thread is scheduled, time passes, an alarm is delivered,   *)
(* and a signal is obeyed by a process that nobody will kill; nothing is   *)
(* assumed of the search, of a tool, or of the memory monitors.            *)
Fairness ==
    /\ WF_vars(CallerStep) /\ WF_vars(Tick) /\ WF_vars(ToolObeys)
    /\ WF_vars(ChildShutsDown) /\ WF_vars(ChildTerminated) /\ WF_vars(Leave)
    /\ WF_vars(BatchStart) /\ WF_vars(BatchTimeout \/ BatchSwallows \/ BatchReturns)
    /\ WF_vars(BatchEnds)

Spec == Init /\ [][Next]_vars
FairSpec == Spec /\ Fairness

-----------------------------------------------------------------------------
(* What "success" of a run guarantees, whichever limits and signals came:  *)
(* no tool is left, and the results were saved, all of them unless         *)
(* MARITA's own time limit ended its search or the search took the batch's *)
(* alarm for a failure of a query.  The metrics may be missing or cut      *)
(* short, as a failure to write them is only logged, but they never tell   *)
(* another outcome.  `marita run` exits with 0 when it is sent SIGTERM:    *)
(* _run_command must know of every SIGTERM it sends, and of one that comes *)
(* from outside it cannot, so that only then is a success without results. *)
SuccessIsBacked ==
    status = "success" =>
        /\ metrics \in {None, "torn", "success"} /\ ~ToolAlive
        /\ \/ saved = "all"
           \/ saved = "partial" /\ (ownLimit \/ swallowed)
           \/ kind = "run" /\ strayed

(* A result is recorded when the command can no longer write: neither the  *)
(* results nor the metrics change after it.                                *)
ResultIsLast ==
    [][caller = "done" => UNCHANGED <<child, saved, metrics, status, progress>>]_vars

(* Whatever hangs, the command and its tool are gone in the end, also when *)
(* the caller was killed; only the batch's search, once it has swallowed   *)
(* its only alarm, may run for ever.                                       *)
EverythingEnds ==
    <>(\/ caller \in {"done", "dead"} /\ At("gone") /\ ~ToolAlive
       \/ swallowed)
=============================================================================
