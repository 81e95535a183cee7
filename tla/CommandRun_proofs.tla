------------------------- MODULE CommandRun_proofs --------------------------
(***************************************************************************)
(* Proofs about CommandRun, for each kind of command and any number of     *)
(* external calls: a success is backed by what was written, and a result   *)
(* is the last thing that happens, whoever stopped what, and when.         *)
(***************************************************************************)
EXTENDS CommandRun, TLAPS

(* Where each kind of command can be.                                      *)
RunPC   == {"boot", "search", "save", "report", "check", "leave"}
BasePC  == {"boot", "prepare", "spawn", "communicate", "failed", "raising", "disarm",
            "save", "report", "check", "leave"}
BatchPC == {"search", "save", "report", "check", "disarm"}
PlacesOf(k) == CASE k = "run" -> RunPC [] k = "benchmark" -> BasePC [] k = "batch" -> BatchPC

TypeOK ==
    /\ kind \in {"run", "benchmark", "batch"}
    /\ clock \in {"before", "limit", "grace"} /\ high \in BOOLEAN
    /\ caller \in {"start", "waiting", "stopping", "inside", "done", "dead"}
    /\ watch \in {"off", "polling", "over"} /\ oom \in BOOLEAN
    /\ child \in {"off", "gone"} \union PlacesOf(kind)
    /\ code \in {None, 0, 1, 9, 15, 124}
    /\ stop \in BOOLEAN /\ guard \in {"off", "polling"} /\ alarm \in {"off", "armed", "spent"}
    /\ calls \in Nat /\ (child \in {"spawn", "communicate"} => calls > 0)
    /\ tool \in {"none", "running", "ok", "bad"} /\ toolWatch \in {"off", "polling"}
    /\ exceeded \in BOOLEAN
    /\ termed \subseteq {"child", "tool"}
    /\ rules \in {None, "partial", "all"} /\ saved \in {None, "partial", "all"}
    /\ metrics \in {None, "torn", "success", "timeout", "oom", "error"}
    /\ status \in {None, "success", "timeout", "oom", "error"}
    /\ progress \in {None, "running", "success", "timeout", "oom", "error"}
    /\ ownLimit \in BOOLEAN /\ swallowed \in BOOLEAN /\ strayed \in BOOLEAN

(* The batch has no caller that watches it and no SIGTERM; only marita run *)
(* has a ResourceMonitor, and only the benchmark starts tools.             *)
KindsDiffer ==
    /\ kind = "batch" => /\ caller \notin {"waiting", "stopping", "dead"}
                         /\ watch = "off" /\ "child" \notin termed
    /\ kind # "run" => ~ stop /\ guard = "off"
    /\ kind # "benchmark" => ~ ToolAlive

(* The caller has a result only of a command that has ended.               *)
CallerWaits ==
    /\ caller = "start" <=> At("off")
    /\ caller = "done" => At("gone")

(* Whoever sends SIGTERM has noted it where the outcome is decided: the    *)
(* memory monitor in oom before it terminates, the caller by not waiting   *)
(* for a result any more.  Only of a signal from outside it knows nothing. *)
Condemned == oom \/ caller \in {"stopping", "dead", "done"} \/ strayed
TermedIsCondemned == "child" \in termed => Condemned

(* A tool runs only while run_cmd waits for it, unless its command fails.  *)
ToolContained ==
    ToolAlive => \/ child \in {"communicate", "failed", "raising"}
                 \/ child \in {"disarm", "leave", "gone"} /\ code # 0

(* What is found, saved and reported on the way to a success.              *)
Justified(found) == found = "all" \/ (found = "partial" /\ (ownLimit \/ swallowed))

Found ==
    /\ child \in {"save", "report", "check"} =>
          Justified(rules) \/ (stop /\ rules = "partial")
    /\ child \in {"report", "check"} => saved = rules
    /\ kind = "benchmark" /\ At("disarm") /\ code = 0 => rules = "all"

Backed == ~ ToolAlive /\ (Justified(saved) \/ (kind = "run" /\ strayed))

(* Metrics of another outcome than a success are written last, and by a    *)
(* command that has this outcome.                                          *)
MetricsAgree ==
    metrics \notin {None, "torn", "success"} =>
        \/ kind = "benchmark" /\ child \in {"leave", "gone"} /\ code # 0
        \/ kind = "batch" /\ At("gone") /\ status = metrics

(* An exit code of 0 is backed, or it is that of a command that was told   *)
(* to shut down; a status is given at the end.                             *)
CodeBacked ==
    kind # "batch" /\ child \in {"leave", "gone"} /\ code = 0 =>
        Backed \/ (kind = "run" /\ Condemned)

StatusBacked ==
    status = "success" => /\ Backed /\ (kind # "batch" => code = 0)
                          /\ caller = "done" \/ (kind = "batch" /\ At("disarm"))

CommandOK == /\ TypeOK /\ KindsDiffer /\ CallerWaits /\ TermedIsCondemned
             /\ ToolContained /\ Found /\ MetricsAgree /\ CodeBacked /\ StatusBacked

USE DEF timeVars, callerVars, childVars, toolVars, history, vars, stepVars, batchRest,
        benchRest, toolRest

-----------------------------------------------------------------------------
(* Every step of the caller, its monitor, and its death.                   *)
LEMMA CallerSteps ==
    ASSUME CommandOK, CallerStep \/ WatchStep \/ CallerDies
    PROVE  CommandOK'
  <1> USE CommandAssumption DEF CommandOK, TypeOK, KindsDiffer, CallerWaits, TermedIsCondemned,
        Condemned, ToolContained, Found, Justified, MetricsAgree, CodeBacked, Backed, StatusBacked,
        PlacesOf, RunPC, BasePC, BatchPC, At, Go, ToolAlive, ChildAlive
  <1>1. CASE Launch
    BY <1>1 DEF Launch, Watched
  <1>2. CASE Collect
    BY <1>2 DEF Collect, Report, Outcome
  <1>3. CASE GiveUp
    BY <1>3 DEF GiveUp
  <1>4. CASE KillChild
    BY <1>4 DEF KillChild, Ends, OrphanTerm
  <1>5. CASE CollectStopped
    BY <1>5 DEF CollectStopped, Report
  <1>6. CASE WatchSeesLimit
    BY <1>6 DEF WatchSeesLimit
  <1>7. CASE WatchStops
    BY <1>7 DEF WatchStops
  <1>8. CASE WatchEnds
    BY <1>8 DEF WatchEnds
  <1>9. CASE CallerDies
    BY <1>9 DEF CallerDies
  <1>10. QED
    BY <1>1, <1>2, <1>3, <1>4, <1>5, <1>6, <1>7, <1>8, <1>9 DEF CallerStep, WatchStep

(* Every step of a search, of a signal it gets, and of its ResourceMonitor.*)
LEMMA SearchSteps ==
    ASSUME CommandOK, RunStep \/ StraySignal \/ ChildShutsDown \/ ChildTerminated \/ GuardStops \/ GuardDies
    PROVE  CommandOK'
  <1> USE CommandAssumption DEF CommandOK, TypeOK, KindsDiffer, CallerWaits, TermedIsCondemned,
        Condemned, ToolContained, Found, Justified, MetricsAgree, CodeBacked, Backed, StatusBacked,
        PlacesOf, RunPC, BasePC, BatchPC, At, Go, ToolAlive, ChildAlive
  <1>1. CASE Boot
    BY <1>1 DEF Boot
  <1>2. CASE BootFails
    BY <1>2 DEF BootFails, Ends, OrphanTerm
  <1>3. CASE Search
    <2>1. TypeOK'
      <3>1. child' \in {"off", "gone"} \union PlacesOf(kind)'
        BY <1>3 DEF Search
      <3>2. rules' \in {"partial", "all"} /\ ownLimit' \in BOOLEAN
        BY <1>3 DEF Search
      <3>3. QED
        BY <1>3, <3>1, <3>2 DEF Search
    <2>2. KindsDiffer'
      BY <1>3 DEF Search, Late
    <2>3. CallerWaits'
      BY <1>3 DEF Search, Late
    <2>4. TermedIsCondemned'
      BY <1>3 DEF Search, Late
    <2>5. ToolContained'
      BY <1>3 DEF Search, Late
    <2>6. Found'
      BY <1>3 DEF Search, Late
    <2>7. CodeBacked'
      BY <1>3 DEF Search, Late
    <2>8. StatusBacked'
      BY <1>3 DEF Search, Late
    <2>9. MetricsAgree'
      BY <1>3 DEF Search, Late
    <2>10. QED
      BY <2>1, <2>2, <2>3, <2>4, <2>5, <2>6, <2>7, <2>8, <2>9 DEF CommandOK
  <1>4. CASE Save
    BY <1>4 DEF Save
  <1>5. CASE WriteReport
    BY <1>5 DEF WriteReport, NotWritten
  <1>6. CASE Check
    BY <1>6 DEF Check, Watched
  <1>7. CASE SearchFails
    BY <1>7 DEF SearchFails, Watched
  <1>8. CASE Leave
    BY <1>8 DEF Leave, Ends, OrphanTerm
  <1>9. CASE ChildShutsDown
    BY <1>9 DEF ChildShutsDown, Handled
  <1>10. CASE ChildTerminated
    BY <1>10 DEF ChildTerminated, Ends, OrphanTerm, Handled
  <1>11. CASE GuardStops
    BY <1>11 DEF GuardStops, Late
  <1>12. CASE GuardDies
    BY <1>12 DEF GuardDies
  <1>13. CASE StraySignal
    BY <1>13 DEF StraySignal, Watched
  <1>14. QED
    BY <1>1, <1>2, <1>3, <1>4, <1>5, <1>6, <1>7, <1>8, <1>9, <1>10, <1>11, <1>12, <1>13
       DEF RunStep

(* Every step of the batch, its alarm included.                            *)
LEMMA BatchSteps ==
    ASSUME CommandOK, BatchStep
    PROVE  CommandOK'
  <1> USE CommandAssumption DEF CommandOK, TypeOK, KindsDiffer, CallerWaits, TermedIsCondemned,
        Condemned, ToolContained, Found, Justified, MetricsAgree, CodeBacked, Backed, StatusBacked,
        PlacesOf, RunPC, BasePC, BatchPC, At, Go, ToolAlive, ChildAlive
  <1>1. CASE BatchStart
    BY <1>1 DEF BatchStart
  <1>2. CASE BatchTimeout
    BY <1>2 DEF BatchTimeout, Ring, Late
  <1>3. CASE BatchSwallows
    BY <1>3 DEF BatchSwallows, Ring, Late
  <1>4. CASE BatchReturns
    BY <1>4 DEF BatchReturns
  <1>5. CASE BatchFails
    BY <1>5 DEF BatchFails
  <1>6. CASE BatchLateAlarm
    BY <1>6 DEF BatchLateAlarm, Ring, Late
  <1>7. CASE BatchEnds
    BY <1>7 DEF BatchEnds, NotWritten
  <1>8. QED
    BY <1>1, <1>2, <1>3, <1>4, <1>5, <1>6, <1>7 DEF BatchStep

(* Every step of a baseline and of run_cmd.                                *)
LEMMA BaseSteps ==
    ASSUME CommandOK, BaseStep
    PROVE  CommandOK'
  <1> USE CommandAssumption DEF CommandOK, TypeOK, KindsDiffer, CallerWaits, TermedIsCondemned,
        Condemned, ToolContained, Found, Justified, MetricsAgree, CodeBacked, Backed, StatusBacked,
        PlacesOf, RunPC, BasePC, BatchPC, At, Go, ToolAlive, ChildAlive
  <1>1. CASE StartCall
    BY <1>1 DEF StartCall
  <1>2. CASE Spawn
    <2>1. TypeOK'
      <3>1. child' \in {"off", "gone"} \union PlacesOf(kind)'
        BY <1>2 DEF Spawn
      <3>2. calls' \in Nat /\ calls' > 0
        BY <1>2 DEF Spawn
      <3>3. toolVars' = <<"running", "polling", FALSE>>
        BY <1>2 DEF Spawn
      <3>4. UNCHANGED <<benchRest, code, alarm, calls, termed>>
        BY <1>2 DEF Spawn
      <3>5. QED
        BY <3>1, <3>2, <3>3, <3>4
    <2>2. KindsDiffer'
      BY <1>2 DEF Spawn
    <2>3. CallerWaits'
      BY <1>2 DEF Spawn
    <2>4. TermedIsCondemned'
      BY <1>2 DEF Spawn
    <2>5. ToolContained'
      BY <1>2 DEF Spawn
    <2>6. Found'
      BY <1>2 DEF Spawn
    <2>7. CodeBacked'
      BY <1>2 DEF Spawn
    <2>8. StatusBacked'
      BY <1>2 DEF Spawn
    <2>9. MetricsAgree'
      BY <1>2 DEF Spawn
    <2>10. QED
      BY <2>1, <2>2, <2>3, <2>4, <2>5, <2>6, <2>7, <2>8, <2>9 DEF CommandOK
  <1>3. CASE Communicate
    BY <1>3 DEF Communicate, Unwind
  <1>4. CASE CommunicateTimeout
    BY <1>4 DEF CommunicateTimeout, Late
  <1>5. CASE KillTool
    BY <1>5 DEF KillTool
  <1>6. CASE ToolStopped
    BY <1>6 DEF ToolStopped, Unwind
  <1>7. CASE AlarmOutside
    BY <1>7 DEF AlarmOutside, Unwind, Ring, Late
  <1>8. CASE AlarmSwallowed
    BY <1>8 DEF AlarmSwallowed, Unwind, Ring, Late
  <1>9. CASE AlarmInside
    BY <1>9 DEF AlarmInside, Ring, Late, OrphanTerm
  <1>10. CASE BaselineDone
    BY <1>10 DEF BaselineDone, Unwind
  <1>11. CASE BaselineFails
    BY <1>11 DEF BaselineFails, Unwind
  <1>12. CASE Disarm
    BY <1>12 DEF Disarm, NotWritten
  <1>13. QED
    BY <1>1, <1>2, <1>3, <1>4, <1>5, <1>6, <1>7, <1>8, <1>9, <1>10, <1>11, <1>12 DEF BaseStep

(* Every step of a tool, of its monitor, of time and of memory.            *)
LEMMA OtherSteps ==
    ASSUME CommandOK, ToolStep \/ Tick \/ Grow
    PROVE  CommandOK'
  <1> USE CommandAssumption DEF CommandOK, TypeOK, KindsDiffer, CallerWaits, TermedIsCondemned,
        Condemned, ToolContained, Found, Justified, MetricsAgree, CodeBacked, Backed, StatusBacked,
        PlacesOf, RunPC, BasePC, BatchPC, At, Go, ToolAlive, ChildAlive
  <1>1. CASE ToolEnds
    BY <1>1 DEF ToolEnds
  <1>2. CASE ToolObeys
    BY <1>2 DEF ToolObeys
  <1>3. CASE ToolWatchStops
    BY <1>3 DEF ToolWatchStops
  <1>4. CASE ToolWatchDies
    BY <1>4 DEF ToolWatchDies
  <1>5. CASE Tick
    BY <1>5 DEF Tick
  <1>6. CASE Grow
    BY <1>6 DEF Grow
  <1>7. QED
    BY <1>1, <1>2, <1>3, <1>4, <1>5, <1>6 DEF ToolStep

(* Every actor's steps together.                                           *)
LEMMA CommandStep ==
    ASSUME CommandOK, [Next]_vars
    PROVE  CommandOK'
  <1>1. CASE Next
    BY <1>1, CallerSteps, SearchSteps, BatchSteps, BaseSteps, OtherSteps DEF Next
  <1>2. CASE UNCHANGED vars
    BY <1>2 DEF CommandOK, TypeOK, KindsDiffer, CallerWaits, TermedIsCondemned, Condemned,
                ToolContained, Found, Justified, MetricsAgree, CodeBacked, Backed, StatusBacked, At, ToolAlive
  <1>3. QED
    BY <1>1, <1>2

LEMMA CommandInit == Init => CommandOK
  <1> SUFFICES ASSUME Init
               PROVE  CommandOK
    OBVIOUS
  <1> USE CommandAssumption DEF Init, At, ToolAlive
  <1>1. kind \in {"run", "benchmark", "batch"} /\ calls \in Nat
    OBVIOUS
  <1>2. TypeOK
    BY <1>1 DEF TypeOK
  <1>3. KindsDiffer /\ CallerWaits /\ TermedIsCondemned /\ ToolContained
    BY DEF KindsDiffer, CallerWaits, TermedIsCondemned, ToolContained
  <1>4. Found /\ MetricsAgree /\ CodeBacked /\ StatusBacked
    BY DEF Found, MetricsAgree, CodeBacked, StatusBacked
  <1>5. QED
    BY <1>2, <1>3, <1>4 DEF CommandOK

(* The inductive invariant: who has told the command to stop is known where *)
(* its outcome is decided, a tool is left only by a command that fails, and *)
(* what a success stands on is written before its exit code is.            *)
THEOREM CommandKept == Spec => []CommandOK
  <1>1. Init => CommandOK
    BY CommandInit
  <1>2. CommandOK /\ [Next]_vars => CommandOK'
    BY CommandStep
  <1>3. QED
    BY <1>1, <1>2, PTL DEF Spec

(* A run that is reported as a success has saved its results, left no tool *)
(* behind and no metrics of another outcome, whichever limits, signals and *)
(* alarms were raised on the way and whichever metrics could not be        *)
(* written (_run_command, run_database, run_cmd); only `marita run` that   *)
(* was sent SIGTERM from outside may be a success without results.         *)
THEOREM SuccessesAreBacked == Spec => []SuccessIsBacked
  <1>1. CommandOK => SuccessIsBacked
    BY DEF CommandOK, StatusBacked, Backed, Justified, MetricsAgree, CallerWaits, At, SuccessIsBacked
  <1>2. QED
    BY <1>1, CommandKept, PTL

(* Nothing that the command writes and no status changes once the caller   *)
(* has its result: it waits for the end of the process it gives up on.     *)
THEOREM ResultsAreLast == Spec => ResultIsLast
  <1> DEFINE Last == caller = "done" => UNCHANGED <<child, saved, metrics, status, progress>>
  <1>1. ASSUME CommandOK, [Next]_vars
        PROVE  Last
    <2>1. CASE UNCHANGED vars
      BY <2>1
    <2>2. CASE Next
      <3> SUFFICES ASSUME caller = "done"
                   PROVE  UNCHANGED <<child, saved, metrics, status, progress>>
        OBVIOUS
      <3>1. At("gone")
        BY <1>1 DEF CommandOK, CallerWaits
      <3> USE <3>1 DEF At, ChildAlive
      <3>2. ~ (CallerStep \/ CallerDies)
        BY DEF CallerStep, Launch, Collect, GiveUp, KillChild, CollectStopped, CallerDies
      <3>3. ~ (RunStep \/ StraySignal \/ ChildShutsDown \/ ChildTerminated)
        BY DEF RunStep, Boot, BootFails, Search, Save, WriteReport, Check, SearchFails, Leave,
               StraySignal, ChildShutsDown, ChildTerminated
      <3>4. ~ BatchStep
        BY DEF BatchStep, BatchStart, BatchTimeout, BatchSwallows, BatchReturns, BatchFails,
               BatchLateAlarm, BatchEnds
      <3>5. ~ BaseStep
        BY DEF BaseStep, StartCall, Spawn, Communicate, CommunicateTimeout, KillTool, ToolStopped,
               AlarmOutside, AlarmSwallowed, AlarmInside, BaselineDone, BaselineFails, Disarm
      <3>6. CASE WatchStep \/ GuardStops \/ GuardDies
        BY <3>6 DEF WatchStep, WatchSeesLimit, WatchStops, WatchEnds, GuardStops, GuardDies
      <3>7. CASE ToolStep \/ Tick \/ Grow
        BY <3>7 DEF ToolStep, ToolEnds, ToolObeys, ToolWatchStops, ToolWatchDies, Tick, Grow
      <3>8. QED
        BY <2>2, <3>2, <3>3, <3>4, <3>5, <3>6, <3>7 DEF Next
    <2>3. QED
      BY <1>1, <2>1, <2>2
  <1>2. Spec => [][Last]_vars
    BY <1>1, CommandKept, PTL DEF Spec
  <1>3. QED
    BY <1>2 DEF ResultIsLast

=============================================================================
