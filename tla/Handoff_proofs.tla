--------------------------- MODULE Handoff_proofs ---------------------------
(***************************************************************************)
(* The handoff, for every number of launches and of revisions, whoever of  *)
(* supervisor, wrapper and dispatch fails or is killed: a terminal         *)
(* observation means that nobody of the launch writes the report any more, *)
(* and what was routed stays the report.  The manager lets a launch be     *)
(* wound up before it dispatches the next, and a background process of the *)
(* assignee cannot reach the project.  The second half is about one native *)
(* Claude session, as MCHandoff hosts it.                                  *)
(***************************************************************************)
EXTENDS MCHandoff, TLAPS

\* The constants under which both hold, as in the run.
WoundUp == Eager = FALSE /\ LateWriters = FALSE

SupSteps  == {"none", "watch", "grace", "drain", "log", "status", "done", "lost"}
WrapSteps == {"none", "run", "publish", "status", "gone"}
Dispatching == {"clearStatus", "clearLog", "announce", "spawn"}
Clearing  == {"routed", "deleteLog", "deleteReport"}
PmSteps   == {"idle", "wait", "readReport", "readLog", "accepted"} \cup Dispatching \cup Clearing

HandoffType ==
    /\ report \in Reports /\ status \in Statuses
    /\ snapshot \in Launch \cup {0}
    /\ sup \in [Launch -> SupSteps] /\ wrap \in [Launch -> WrapSteps]
    /\ asg \in [Launch -> {"none", "alive", "gone"}]
    /\ surv \in [Launch -> {"none", "alive"}]
    /\ staged \in [Launch -> BOOLEAN] /\ logged \in [Launch -> BOOLEAN]
    /\ rev \in [Launch -> 0 .. MaxRev] /\ stage \in [Launch -> Reports]
    /\ pm \in PmSteps /\ cur \in Launch \cup {0}
    /\ seen \in [status : Statuses, report : Reports]
    /\ accepted \in Reports \cup {Nothing} /\ routed \in Reports \cup {Nothing}

\* Nobody of the launch writes its report any more.
Quiet(l) == asg[l] # "alive" /\ wrap[l] \notin {"run", "publish"}

\* The processes of a launch end in their order: the wrapper publishes when its
\* assignee is gone, the supervisor reports when nobody holds the pipe.
InOrder ==
    \A l \in Launch :
        /\ wrap[l] \in {"publish", "status"} => asg[l] # "alive"
        /\ sup[l] \in {"log", "status", "done"} => ~PipeHeld(l)
        /\ sup[l] = "none" => ~PipeHeld(l)

\* Of the other launches nothing is left, and one that is being dispatched or is
\* still to come has not begun.
OneAtATime ==
    /\ \A l \in Launch : l # cur => Over(l)
    /\ \A l \in Launch : l > cur => sup[l] = "none"
    /\ pm \in Dispatching => cur \in Launch /\ sup[cur] = "none" /\ accepted = Nothing
    /\ pm \in {"announce", "spawn"} /\ logged[cur] => snapshot = 0
    /\ pm = "spawn" => status = Running(cur)

\* As long as somebody may write the report, the slot says so to every reader.
SlotTells ==
    cur \in Launch /\ ~Quiet(cur) =>
        /\ status = Running(cur)
        /\ logged[cur] => snapshot = 0
        /\ pm = "readReport" => seen.status = Running(cur)
        /\ pm = "readLog" => logged[cur]
        /\ accepted = Nothing

\* Before the first launch nothing is accepted, and what was routed is what was
\* accepted, until the slot is cleared.
RoutedStands ==
    /\ cur = 0 => pm = "idle" /\ accepted = Nothing
    /\ pm \in {"accepted"} \cup Clearing => accepted # Nothing
    /\ routed # Nothing => pm \in Clearing /\ report = routed

HandoffInv == HandoffType /\ InOrder /\ OneAtATime /\ SlotTells /\ RoutedStands

---------------------------------------------------------------------------
\* What a step of a launch does, whoever takes it.
LEMMA LaunchOnly ==
    ASSUME NEW l \in Launch, LaunchStep(l)
    PROVE  UNCHANGED manager
BY DEF LaunchStep, WriteReport, LeaveSurvivor, AssigneeExit, SurvivorExit, WrapperStep,
   AssigneeWaited, PublishStaged, WriteStatus, WrapperLost, SupervisorStep, SeeReport, Reap,
   PipeClosed, PublishLog, PublishExitStatus, SupervisorLost

LEMMA Constants ==
    /\ NoReport \in Reports /\ NoStatus \in Statuses /\ NoReport # Nothing
    /\ \A l \in Launch : /\ Running(l) \in Statuses /\ Exited(l) \in Statuses
                         /\ Running(l) # Exited(l) /\ Running(l) # NoStatus
    /\ \A s \in Statuses : s.state = "running" => \E l \in Launch : s = Running(l)
    /\ \A l, m \in Launch : Running(l) = Running(m) => l = m
    /\ 0 \notin Launch
BY DEF NoReport, NoStatus, Nothing, Reports, Statuses, Running, Exited, Launch

LEMMA DispatchTyped ==
    ASSUME HandoffType, OneAtATime, Dispatch PROVE HandoffType'
<1> USE Constants DEF HandoffType, slot, procs, manager, PmSteps, Dispatching, Clearing
<1>1. CASE ClearReport
  <2>1. cur + 1 \in Launch
    BY <1>1, HandoffAssumption DEF ClearReport, Launch
  <2> QED
    BY <1>1, <2>1 DEF ClearReport
<1>2. CASE ClearStatus
  BY <1>2 DEF ClearStatus
<1>3. CASE ClearLog
  <2>1. logged' \in [Launch -> BOOLEAN]
    <3>1. PICK usable \in Logs : logged' = [logged EXCEPT ![cur] = usable]
      BY <1>3 DEF ClearLog
    <3>2. usable \in BOOLEAN
      BY HandoffAssumption
    <3> QED
      BY <3>1, <3>2
  <2>2. snapshot' \in Launch \cup {0}
    BY <1>3 DEF ClearLog
  <2> QED
    BY <1>3, <2>1, <2>2 DEF ClearLog
<1>4. CASE Announce
  <2>1. cur \in Launch
    BY <1>4 DEF Announce, OneAtATime
  <2>2. status' \in Statuses
    BY <1>4, <2>1 DEF Announce
  <2> QED
    BY <1>4, <2>2 DEF Announce
<1>5. CASE Spawn
  <2>1. cur \in Launch
    BY <1>5 DEF Spawn, OneAtATime
  <2>2. staged' \in [Launch -> BOOLEAN]
    BY <1>5 DEF Spawn
  <2> QED
    BY <1>5, <2>1, <2>2 DEF Spawn, SupSteps, WrapSteps
<1>6. CASE WrapperLaunchFailed
  BY <1>6 DEF WrapperLaunchFailed, SupSteps
<1>7. CASE SupervisorLaunchFailed \/ DispatchLost
  BY <1>7 DEF SupervisorLaunchFailed, DispatchLost
<1> QED
  BY <1>1, <1>2, <1>3, <1>4, <1>5, <1>6, <1>7 DEF Dispatch

LEMMA LaunchTyped ==
    ASSUME HandoffType, NEW l \in Launch, LaunchStep(l) PROVE HandoffType'
<1> USE Constants DEF HandoffType, slot, procs, manager
<1>1. CASE WriteReport(l)
  <2>1. rev[l] + 1 \in 1 .. MaxRev /\ rev[l] + 1 \in 0 .. MaxRev
    BY <1>1, HandoffAssumption DEF WriteReport
  <2>2. \A whole \in BOOLEAN : [by |-> l, rev |-> rev[l] + 1, whole |-> whole] \in Reports
    BY <2>1 DEF Reports
  <2>3. report' \in Reports /\ stage' \in [Launch -> Reports]
    <3> PICK whole \in BOOLEAN :
               LET new == [by |-> l, rev |-> rev[l] + 1, whole |-> whole]
               IN  \/ report' = new /\ UNCHANGED stage
                   \/ stage' = [stage EXCEPT ![l] = new] /\ UNCHANGED report
      BY <1>1 DEF WriteReport
    <3> QED
      BY <2>2
  <2> QED
    BY <1>1, <2>1, <2>3 DEF WriteReport
<1>2. CASE LeaveSurvivor(l) \/ AssigneeExit(l) \/ SurvivorExit(l)
  BY <1>2 DEF LeaveSurvivor, AssigneeExit, SurvivorExit
<1>3. CASE WrapperStep(l) \/ WrapperLost(l)
  BY <1>3 DEF WrapperStep, WrapperLost, AssigneeWaited, PublishStaged, WriteStatus, WrapSteps
<1>4. CASE SupervisorStep(l) \/ SupervisorLost(l)
  BY <1>4 DEF SupervisorStep, SupervisorLost, SeeReport, Reap, PipeClosed, PublishLog,
     PublishExitStatus, SupSteps, WrapSteps
<1> QED
  BY <1>1, <1>2, <1>3, <1>4 DEF LaunchStep

LEMMA ManagerTyped ==
    ASSUME HandoffType, Wait \/ Settle PROVE HandoffType'
<1> USE Constants DEF HandoffType, slot, procs, PmSteps, Dispatching, Clearing
<1>1. CASE Wait
  BY <1>1 DEF Wait, ReadStatus, ReadReport, ReadLog, WaitEnds, WaitAgain, Observing, Terminal,
     NotTerminal
<1>2. CASE Settle
  BY <1>2 DEF Settle, Route, DeleteStatus, DeleteLog, DeleteReport
<1> QED
  BY <1>1, <1>2

---------------------------------------------------------------------------
\* A launch that ended stays ended, and goes on in its order.
LEMMA LaunchGoesOn ==
    ASSUME HandoffType, InOrder, NEW l \in Launch, LaunchStep(l)
    PROVE  /\ InOrder'
           /\ \A m \in Launch : m # l => (Over(m) => Over(m)') /\ (Quiet(m) => Quiet(m)')
           /\ Quiet(l) => Quiet(l)'
           /\ ~Over(l)
           /\ sup[l] # "none"
<1> USE DEF HandoffType, InOrder, PipeHeld, Quiet, Over, SupSteps, WrapSteps
<1>1. CASE WriteReport(l)
  BY <1>1 DEF WriteReport
<1>2. CASE LeaveSurvivor(l)
  BY <1>2 DEF LeaveSurvivor
<1>3. CASE AssigneeExit(l)
  BY <1>3 DEF AssigneeExit
<1>4. CASE SurvivorExit(l)
  BY <1>4 DEF SurvivorExit
<1>5. CASE AssigneeWaited(l)
  BY <1>5 DEF AssigneeWaited
<1>6. CASE PublishStaged(l) \/ WriteStatus(l) \/ WrapperLost(l)
  BY <1>6 DEF PublishStaged, WriteStatus, WrapperLost
<1>7. CASE SeeReport(l) \/ PipeClosed(l) \/ PublishLog(l) \/ PublishExitStatus(l) \/ SupervisorLost(l)
  BY <1>7 DEF SeeReport, PipeClosed, PublishLog, PublishExitStatus, SupervisorLost
<1>8. CASE Reap(l)
  BY <1>8 DEF Reap
<1> QED
  BY <1>1, <1>2, <1>3, <1>4, <1>5, <1>6, <1>7, <1>8 DEF LaunchStep, WrapperStep, SupervisorStep

\* Only the latest launch has anything left that steps.
LEMMA OnlyLatest ==
    ASSUME HandoffType, InOrder, OneAtATime, NEW l \in Launch, LaunchStep(l)
    PROVE  l = cur /\ pm \notin Dispatching
BY LaunchGoesOn DEF OneAtATime

LEMMA DispatchInOrder ==
    ASSUME HandoffType, InOrder, OneAtATime, Eager = FALSE, Dispatch
    PROVE  InOrder' /\ OneAtATime'
<1> USE Constants DEF HandoffType, InOrder, OneAtATime, PipeHeld, Over, SupSteps, WrapSteps,
                      Dispatching, slot, procs
<1>1. CASE ClearReport
  <2>1. cur' \in Launch /\ cur' > cur /\ cur' # cur /\ \A l \in Launch : l > cur' => l > cur
    BY <1>1, HandoffAssumption DEF ClearReport, Launch
  <2>2. cur = 0 \/ Over(cur)
    BY <1>1 DEF ClearReport
  <2>3. \A l \in Launch : Over(l)
    BY <2>2
  <2>4. sup[cur'] = "none"
    BY <2>1, <2>3
  <2> QED
    BY <1>1, <2>1, <2>3, <2>4 DEF ClearReport
<1>2. CASE ClearStatus \/ ClearLog
  BY <1>2 DEF ClearStatus, ClearLog
<1>3. CASE Announce
  <2>1. status' = Running(cur)' /\ cur' = cur /\ snapshot' = snapshot /\ logged' = logged
    BY <1>3 DEF Announce, Running
  <2> QED
    BY <1>3, <2>1 DEF Announce
<1>4. CASE Spawn
  <2>1. cur \in Launch /\ cur' = cur /\ pm' = "wait" /\ surv' = surv
    BY <1>4 DEF Spawn
  <2>2. /\ sup' = [sup EXCEPT ![cur] = "watch"] /\ wrap' = [wrap EXCEPT ![cur] = "run"]
        /\ asg' = [asg EXCEPT ![cur] = "alive"]
    BY <1>4 DEF Spawn
  <2>3. \A l \in Launch : l # cur => sup'[l] = sup[l] /\ wrap'[l] = wrap[l] /\ asg'[l] = asg[l]
    BY <2>2
  <2>4. sup'[cur] = "watch" /\ wrap'[cur] = "run"
    BY <2>1, <2>2
  <2>5. ~(cur > cur)
    BY <2>1 DEF Launch
  <2> QED
    BY <2>1, <2>3, <2>4, <2>5
<1>5. CASE WrapperLaunchFailed
  <2>1. /\ cur \in Launch /\ cur' = cur /\ pm' = "wait" /\ ~(cur > cur)
        /\ surv' = surv /\ wrap' = wrap /\ asg' = asg
    BY <1>5 DEF WrapperLaunchFailed, Launch
  <2>2. ~PipeHeld(cur) /\ sup' = [sup EXCEPT ![cur] = "log"]
    BY <1>5, <2>1 DEF WrapperLaunchFailed
  <2>3. \A l \in Launch : l # cur => sup'[l] = sup[l]
    BY <2>2
  <2> QED
    BY <2>1, <2>2, <2>3
<1>6. CASE SupervisorLaunchFailed \/ DispatchLost
  BY <1>6 DEF SupervisorLaunchFailed, DispatchLost
<1> QED
  BY <1>1, <1>2, <1>3, <1>4, <1>5, <1>6 DEF Dispatch

LEMMA ManagerKeeps ==
    ASSUME Wait \/ Settle PROVE UNCHANGED <<procs, cur>> /\ pm' \notin Dispatching
BY DEF Wait, ReadStatus, ReadReport, ReadLog, WaitEnds, WaitAgain, Observing, Terminal,
   NotTerminal, Settle, Route, DeleteStatus, DeleteLog, DeleteReport, Dispatching

\* The order of the processes, and one launch at a time, over every step.
LEMMA OrderStep ==
    ASSUME HandoffType, InOrder, OneAtATime, WoundUp, [Next]_vars
    PROVE  HandoffType' /\ InOrder' /\ OneAtATime'
<1>1. CASE UNCHANGED vars
  BY <1>1 DEF vars, slot, procs, manager, HandoffType, InOrder, OneAtATime, PipeHeld, Over, Running
<1>2. CASE Dispatch
  BY <1>2, DispatchTyped, DispatchInOrder DEF WoundUp
<1>3. CASE Wait \/ Settle
  BY <1>3, ManagerTyped, ManagerKeeps DEF procs, InOrder, OneAtATime, PipeHeld, Over, Dispatching
<1>4. ASSUME NEW l \in Launch, LaunchStep(l) PROVE HandoffType' /\ InOrder' /\ OneAtATime'
  <2>1. HandoffType' /\ InOrder' /\ l = cur /\ pm \notin Dispatching /\ UNCHANGED manager
    BY <1>4, LaunchTyped, LaunchGoesOn, OnlyLatest, LaunchOnly
  <2>2. \A m \in Launch : m # cur => Over(m)'
    BY <1>4, <2>1, LaunchGoesOn DEF OneAtATime
  <2>3. \A m \in Launch : m > cur => sup'[m] = "none"
    <3> SUFFICES ASSUME NEW m \in Launch, m > cur PROVE sup'[m] = "none"
      OBVIOUS
    <3>1. m # l /\ sup[m] = "none"
      BY <2>1 DEF Launch, OneAtATime
    <3> QED
      BY <1>4, <3>1 DEF HandoffType, LaunchStep, WriteReport, LeaveSurvivor, AssigneeExit,
         SurvivorExit, WrapperStep, AssigneeWaited, PublishStaged, WriteStatus, WrapperLost,
         SupervisorStep, SeeReport, Reap, PipeClosed, PublishLog, PublishExitStatus, SupervisorLost
  <2> QED
    BY <2>1, <2>2, <2>3 DEF OneAtATime, manager, Dispatching
<1> QED
  BY <1>1, <1>2, <1>3, <1>4 DEF Next

---------------------------------------------------------------------------
\* While somebody may still write the report the slot says running, whatever
\* the launch, the dispatch or the manager does.
Ordered == HandoffType /\ InOrder /\ OneAtATime /\ WoundUp

LEMMA TellsByDispatch ==
    ASSUME Ordered, SlotTells, Dispatch PROVE SlotTells'
<1> USE DEF Ordered, HandoffType, InOrder, OneAtATime, PipeHeld, Over, Dispatching, Quiet, slot, procs
<1>1. CASE ClearReport
  <2>1. cur' \in Launch /\ cur' > cur /\ UNCHANGED procs
    BY <1>1, HandoffAssumption DEF ClearReport, Launch
  <2>2. Quiet(cur')
    BY <2>1
  <2> QED
    BY <2>1, <2>2 DEF SlotTells
<1>2. CASE ClearStatus \/ ClearLog \/ Announce
  <2>1. Quiet(cur) /\ UNCHANGED <<wrap, asg, cur>>
    BY <1>2 DEF ClearStatus, ClearLog, Announce
  <2> QED
    BY <2>1 DEF SlotTells
<1>3. CASE WrapperLaunchFailed \/ SupervisorLaunchFailed \/ DispatchLost
  <2>1. Quiet(cur) /\ UNCHANGED <<wrap, asg, cur>>
    BY <1>3 DEF WrapperLaunchFailed, SupervisorLaunchFailed, DispatchLost
  <2> QED
    BY <2>1 DEF SlotTells
<1>4. CASE Spawn
  <2>1. /\ status = Running(cur) /\ (logged[cur] => snapshot = 0) /\ accepted = Nothing
        /\ UNCHANGED <<status, snapshot, logged, accepted, cur>> /\ pm' = "wait"
    BY <1>4 DEF Spawn
  <2>2. status' = Running(cur)' /\ (logged'[cur'] => snapshot' = 0)
    BY <2>1 DEF Running
  <2> QED
    BY <2>1, <2>2 DEF SlotTells
<1> QED
  BY <1>1, <1>2, <1>3, <1>4 DEF Dispatch

LEMMA TellsByLaunch ==
    ASSUME Ordered, SlotTells, NEW l \in Launch, LaunchStep(l) PROVE SlotTells'
<1>1. l = cur /\ UNCHANGED manager /\ (~Quiet(cur)' => ~Quiet(cur))
  BY OnlyLatest, LaunchOnly, LaunchGoesOn DEF Ordered, manager
<1>2. SUFFICES ASSUME ~Quiet(cur)' PROVE UNCHANGED <<status, snapshot, logged>>
  BY <1>1, <1>2 DEF SlotTells, manager, Running
<1>3. wrap[cur] # "status" /\ sup[cur] \notin {"log", "status"}
  BY <1>1, <1>2 DEF Ordered, InOrder, HandoffType, Quiet, PipeHeld, WrapSteps
<1> QED
  BY <1>1, <1>3 DEF LaunchStep, WriteReport, LeaveSurvivor, AssigneeExit, SurvivorExit, WrapperStep,
     AssigneeWaited, PublishStaged, WriteStatus, WrapperLost, SupervisorStep, SeeReport, Reap,
     PipeClosed, PublishLog, PublishExitStatus, SupervisorLost, slot

LEMMA TellsByManager ==
    ASSUME Ordered, SlotTells, RoutedStands, Wait \/ Settle PROVE SlotTells'
<1>1. UNCHANGED <<procs, cur>>
  BY ManagerKeeps
<1>2. SUFFICES ASSUME cur \in Launch, ~Quiet(cur)
               PROVE  /\ status' = Running(cur) /\ (logged[cur] => snapshot' = 0)
                      /\ pm' = "readReport" => seen'.status = Running(cur)
                      /\ pm' = "readLog" => logged[cur]
                      /\ accepted' = Nothing
  BY <1>1 DEF SlotTells, procs, Quiet, Running
<1>3. /\ status = Running(cur) /\ (logged[cur] => snapshot = 0) /\ accepted = Nothing
      /\ pm = "readReport" => seen.status = Running(cur)
      /\ pm = "readLog" => logged[cur]
      /\ pm \notin {"accepted"} \cup Clearing
  BY <1>2 DEF SlotTells, RoutedStands
<1>4. Wait
  BY <1>3 DEF Settle, Route, DeleteStatus, DeleteLog, DeleteReport, Clearing
<1>5. Running(cur).state = "running" /\ Running(cur).launch = cur
  BY DEF Running
<1>6. CASE ReadStatus \/ WaitEnds \/ WaitAgain
  BY <1>3, <1>6 DEF ReadStatus, WaitEnds, WaitAgain, Observing, slot
<1>7. CASE ReadReport
  BY <1>3, <1>5, <1>7 DEF ReadReport, Observing, NotTerminal, slot
<1>8. CASE ReadLog
  BY <1>3, <1>8 DEF ReadLog, Observing, NotTerminal, slot
<1> QED
  BY <1>4, <1>6, <1>7, <1>8 DEF Wait

LEMMA RoutedStep ==
    ASSUME Ordered, SlotTells, RoutedStands, [Next]_vars PROVE RoutedStands'
<1> USE DEF RoutedStands, Clearing
<1>1. \A r \in Reports : r # Nothing
  BY DEF Reports, NoReport, Nothing, Launch
<1>2. CASE UNCHANGED vars
  BY <1>2 DEF vars, slot, manager
<1>3. CASE Dispatch
  <2>1. cur \in Nat
    BY HandoffAssumption DEF Ordered, HandoffType, Launch
  <2> QED
    BY <1>3, <2>1 DEF Dispatch, ClearReport, ClearStatus, ClearLog, Announce, Spawn,
       WrapperLaunchFailed, SupervisorLaunchFailed, DispatchLost, slot
<1>4. CASE Wait
  <2>1. report \in Reports /\ seen.report \in Reports
    BY Constants DEF Ordered, HandoffType
  <2> QED
    BY <1>1, <1>4, <2>1 DEF Wait, ReadStatus, ReadReport, ReadLog, WaitEnds, WaitAgain, Observing,
       Terminal, NotTerminal, slot
<1>5. CASE Settle
  BY <1>5 DEF Settle, Route, DeleteStatus, DeleteLog, DeleteReport, slot
<1>6. ASSUME NEW l \in Launch, LaunchStep(l) PROVE RoutedStands'
  <2>1. l = cur /\ UNCHANGED manager
    BY <1>6, OnlyLatest, LaunchOnly DEF Ordered
  <2>2. routed # Nothing => Quiet(cur)
    BY <2>1 DEF SlotTells
  <2>3. Quiet(cur) => report' = report
    BY <1>6, <2>1 DEF Ordered, WoundUp, Quiet, LaunchStep, WriteReport, LeaveSurvivor, AssigneeExit,
       SurvivorExit, WrapperStep, AssigneeWaited, PublishStaged, WriteStatus, WrapperLost,
       SupervisorStep, SeeReport, Reap, PipeClosed, PublishLog, PublishExitStatus, SupervisorLost, slot
  <2> QED
    BY <2>1, <2>2, <2>3 DEF manager
<1> QED
  BY <1>2, <1>3, <1>4, <1>5, <1>6 DEF Next

---------------------------------------------------------------------------
LEMMA HandoffStarts ==
    ASSUME Init PROVE HandoffInv
<1> USE Constants, HandoffAssumption DEF Init
<1>1. HandoffType
  BY DEF HandoffType, SupSteps, WrapSteps, PmSteps
<1>2. InOrder /\ OneAtATime
  BY DEF InOrder, OneAtATime, PipeHeld, Over, Dispatching
<1>3. SlotTells /\ RoutedStands
  BY DEF SlotTells, RoutedStands, Clearing
<1> QED
  BY <1>1, <1>2, <1>3 DEF HandoffInv

LEMMA HandoffStep ==
    ASSUME WoundUp, HandoffInv, [Next]_vars PROVE HandoffInv'
<1>1. Ordered /\ SlotTells /\ RoutedStands
  BY DEF HandoffInv, Ordered
<1>2. HandoffType' /\ InOrder' /\ OneAtATime'
  BY OrderStep DEF HandoffInv
<1>3. SlotTells'
  <2>1. CASE UNCHANGED vars
    BY <1>1, <2>1 DEF vars, slot, procs, manager, SlotTells, Quiet, Running
  <2> QED
    BY <1>1, <2>1, TellsByDispatch, TellsByLaunch, TellsByManager DEF Next
<1> QED
  BY <1>1, <1>2, <1>3, RoutedStep DEF HandoffInv

\* A terminal observation ends the launch it was made for: its assignee is gone.
THEOREM TerminalEnds ==
    ASSUME WoundUp PROVE Spec => []TerminalMeansGone
<1>1. Init => HandoffInv
  BY HandoffStarts
<1>2. HandoffInv /\ [Next]_vars => HandoffInv'
  BY HandoffStep
<1>3. HandoffInv => TerminalMeansGone
  BY DEF HandoffInv, HandoffType, SlotTells, RoutedStands, Quiet, TerminalMeansGone
<1> QED
  BY <1>1, <1>2, <1>3, PTL DEF Spec

\* What report-action routed stays the report until the slot is cleared.
THEOREM RoutedStays ==
    ASSUME WoundUp PROVE Spec => []RoutedFinal
<1>1. Init => HandoffInv
  BY HandoffStarts
<1>2. HandoffInv /\ [Next]_vars => HandoffInv'
  BY HandoffStep
<1>3. HandoffInv => RoutedFinal
  BY DEF HandoffInv, RoutedStands, RoutedFinal
<1> QED
  BY <1>1, <1>2, <1>3, PTL DEF Spec

---------------------------------------------------------------------------
(* The native session, for every ceiling of the guard and every number of  *)
(* writes: a launch that ends well because a report was seen leaves one,   *)
(* and each of its steps is a step of Handoff's launch.                    *)

Qualities == {"absent", "partial", "plausible", "complete"}
Drafts    == {S!Absent} \cup [is : Qualities \ {"absent"}, rev : Nat]

SessionType ==
    /\ launch \in [staging : BOOLEAN, enforced : BOOLEAN, attended : BOOLEAN,
                   ceiling : Ceilings]
    /\ place \in Drafts /\ draft \in Drafts /\ published \in Drafts
    /\ claude \in {"none", "work", "stop", "gone"} /\ child \in {"none", "alive"}
    /\ wrapper \in {"start", "failed", "run", "reap", "report", "status", "ended"}
    /\ raw \in {"ok", "error", "timeout"} /\ exit \in {"ok", "error", "timeout"}
    /\ done \in BOOLEAN /\ writes \in Nat

\* The wrapper, its assignee and the watcher go together.
Together ==
    /\ wrapper \in {"start", "failed"} => claude = "none"
    /\ wrapper = "run" => claude # "none"
    /\ claude \in {"work", "stop"} \/ watcher # "off" => wrapper = "run"
    /\ wrapper \in {"reap", "report", "status"} => claude = "gone"
    /\ claude = "none" => wrapper \in {"start", "failed", "ended"} /\ child = "none"
    /\ ~launch.staging => draft = S!Absent /\ wrapper \notin {"reap", "report"}

\* The report that made the launch a success is in the slot or still staged.
Backed ==
    /\ done => wrapper \in {"reap", "report", "status", "ended"}
    /\ done /\ wrapper \in {"reap", "report"} => S!LooksComplete(place) \/ draft # S!Absent
    /\ done /\ wrapper \in {"status", "ended"} /\ exit = "ok" =>
          S!LooksComplete(place) \/ (published # S!Absent /\ ~S!LooksComplete(published))

SessionInv == SessionType /\ Together /\ Backed

---------------------------------------------------------------------------
LEMMA WrittenDraft ==
    ASSUME writes \in Nat, NEW r \in S!Written
    PROVE  r \in Drafts /\ r # S!Absent /\ r.rev = writes + 1
BY DEF S!Written, Drafts, S!Absent, Qualities

LEMMA SessionTyped ==
    ASSUME SessionType, [S!Next]_S!vars PROVE SessionType'
<1> USE DEF SessionType
<1>1. S!Absent \in Drafts
  BY DEF Drafts
<1>2. CASE S!WriteReport \/ S!BackgroundWrites
  BY <1>1, <1>2, WrittenDraft DEF S!WriteReport, S!BackgroundWrites, S!session, S!outcome
<1>3. CASE S!LaunchFails \/ S!Discard \/ S!Start \/ S!StartBackground \/ S!EndTurn \/ S!Cut
  BY <1>3 DEF S!LaunchFails, S!Discard, S!Start, S!StartBackground, S!EndTurn, S!Cut,
     S!report, S!session, S!outcome
<1>4. CASE S!Guard
  BY <1>4 DEF S!Guard, S!FailOpen, S!Allow, S!Block, S!report
<1>5. CASE S!SeeReport \/ S!ReapChild \/ S!Reap
  BY <1>5 DEF S!SeeReport, S!ReapChild, S!Reap, S!report, S!session, S!outcome
<1>6. CASE S!Waited
  <2>1. done' \in BOOLEAN
    BY <1>6 DEF S!Waited
  <2>2. exit' \in {"ok", "error", "timeout"}
    BY <1>6 DEF S!Waited
  <2> QED
    BY <1>6, <2>1, <2>2 DEF S!Waited, S!report, S!session
<1>7. CASE S!ReapGroup \/ S!WriteStatus
  BY <1>7 DEF S!ReapGroup, S!WriteStatus, S!report, S!session, S!outcome
<1>8. CASE S!PublishReport
  BY <1>1, <1>8 DEF S!PublishReport, S!Published, S!Refused, S!session
<1>9. CASE UNCHANGED S!vars
  BY <1>9 DEF S!vars, S!report, S!session, S!outcome
<1> QED
  BY <1>2, <1>3, <1>4, <1>5, <1>6, <1>7, <1>8, <1>9 DEF S!Next, S!Publish

LEMMA TogetherStep ==
    ASSUME SessionType, Together, [S!Next]_S!vars PROVE Together'
<1> USE DEF SessionType, Together
<1>1. CASE S!WriteReport \/ S!BackgroundWrites
  BY <1>1 DEF S!WriteReport, S!BackgroundWrites, S!session, S!outcome
<1>2. CASE S!LaunchFails \/ S!Discard \/ S!Start \/ S!StartBackground \/ S!EndTurn \/ S!Cut
  BY <1>2 DEF S!LaunchFails, S!Discard, S!Start, S!StartBackground, S!EndTurn, S!Cut,
     S!report, S!session, S!outcome
<1>3. CASE S!Guard
  BY <1>3 DEF S!Guard, S!FailOpen, S!Allow, S!Block, S!report
<1>4. CASE S!SeeReport \/ S!ReapChild \/ S!Reap
  BY <1>4 DEF S!SeeReport, S!ReapChild, S!Reap, S!report, S!session, S!outcome
<1>5. CASE S!Waited \/ S!ReapGroup \/ S!WriteStatus
  BY <1>5 DEF S!Waited, S!ReapGroup, S!WriteStatus, S!report, S!session, S!outcome
<1>6. CASE S!PublishReport
  BY <1>6 DEF S!PublishReport, S!Published, S!Refused, S!session
<1>7. CASE UNCHANGED S!vars
  BY <1>7 DEF S!vars, S!report, S!session, S!outcome
<1> QED
  BY <1>1, <1>2, <1>3, <1>4, <1>5, <1>6, <1>7 DEF S!Next, S!Publish

LEMMA BackedStep ==
    ASSUME SessionType, Together, Backed, [S!Next]_S!vars PROVE Backed'
<1> USE DEF SessionType, Together, Backed
<1>1. CASE S!WriteReport
  BY <1>1 DEF S!WriteReport, S!session, S!outcome
<1>2. CASE S!BackgroundWrites
  BY <1>2, WrittenDraft DEF S!BackgroundWrites, S!session, S!outcome
<1>3. CASE S!LaunchFails \/ S!Discard \/ S!Start \/ S!StartBackground \/ S!EndTurn \/ S!Cut
  BY <1>3 DEF S!LaunchFails, S!Discard, S!Start, S!StartBackground, S!EndTurn, S!Cut,
     S!report, S!session, S!outcome
<1>4. CASE S!Guard
  BY <1>4 DEF S!Guard, S!FailOpen, S!Allow, S!Block, S!report
<1>5. CASE S!SeeReport \/ S!ReapChild \/ S!Reap
  BY <1>5 DEF S!SeeReport, S!ReapChild, S!Reap, S!report, S!session, S!outcome
<1>6. CASE S!Waited
  <2>1. ~S!LooksComplete(S!Absent)
    BY DEF S!LooksComplete, S!Absent
  <2> QED
    BY <1>6, <2>1 DEF S!Waited, S!ReportSeen, S!report, S!session
<1>7. CASE S!ReapGroup \/ S!WriteStatus
  BY <1>7 DEF S!ReapGroup, S!WriteStatus, S!report, S!session, S!outcome
<1>8. CASE S!PublishReport
  BY <1>8 DEF S!PublishReport, S!Published, S!Refused, S!session
<1>9. CASE UNCHANGED S!vars
  BY <1>9 DEF S!vars, S!report, S!session, S!outcome
<1> QED
  BY <1>1, <1>2, <1>3, <1>4, <1>5, <1>6, <1>7, <1>8, <1>9 DEF S!Next, S!Publish

LEMMA SessionStarts ==
    ASSUME S!Init PROVE SessionInv
<1>1. SessionType
  BY DEF S!Init, SessionType, Drafts
<1>2. Together /\ Backed
  BY DEF S!Init, Together, Backed
<1> QED
  BY <1>1, <1>2 DEF SessionInv

LEMMA SessionStep ==
    ASSUME SessionInv, [S!Next]_S!vars PROVE SessionInv'
BY SessionTyped, TogetherStep, BackedStep DEF SessionInv

LEMMA SessionShows == SessionInv => S!SuccessHasReport
BY DEF SessionInv, Backed, S!SuccessHasReport

---------------------------------------------------------------------------
\* What Handoff sees of a step: nothing else changes.
Sees(r, s, a, c, w, st) ==
    /\ S!Outside(place)' = r /\ S!Outside(draft)' = s
    /\ S!AsgOf' = a /\ child' = c /\ S!WrapOf' = w
    /\ S!StateOf' = st

LEMMA Stutters ==
    ASSUME Sees(S!Outside(place), S!Outside(draft), S!AsgOf, child, S!WrapOf, S!StateOf),
           UNCHANGED <<launch, writes>>
    PROVE  UNCHANGED <<S!H!slot, S!H!procs>>
BY DEF Sees, S!H!slot, S!H!procs, S!AsgOf, S!WrapOf, S!StateOf

LEMMA One ==
    \A a, b : <<a>>[1] = a /\ [<<a>> EXCEPT ![1] = b] = <<b>>
OBVIOUS

LEMMA SeenExit ==
    ASSUME S!AsgOf = "alive",
           Sees(S!Outside(place), S!Outside(draft), "gone", child, S!WrapOf, S!StateOf),
           UNCHANGED <<launch, writes>>
    PROVE  S!H!AssigneeExit(1)
BY One DEF Sees, S!H!AssigneeExit, S!H!slot, S!H!manager, S!AsgOf, S!WrapOf, S!StateOf

LEMMA SeenSurvivor ==
    ASSUME \/ S!AsgOf = "alive" /\ child = "none" /\ child' = "alive"
           \/ child = "alive" /\ child' = "none",
           Sees(S!Outside(place), S!Outside(draft), S!AsgOf, child', S!WrapOf, S!StateOf),
           UNCHANGED <<launch, writes>>
    PROVE  S!H!LeaveSurvivor(1) \/ S!H!SurvivorExit(1)
BY One DEF Sees, S!H!LeaveSurvivor, S!H!SurvivorExit, S!H!slot, S!H!manager, S!AsgOf,
   S!WrapOf, S!StateOf

LEMMA SeenWaited ==
    ASSUME S!AsgOf = "gone", S!WrapOf = "run",
           Sees(S!Outside(place), S!Outside(draft), S!AsgOf, child,
                IF launch.staging THEN "publish" ELSE "status", S!StateOf),
           UNCHANGED <<launch, writes>>
    PROVE  S!H!AssigneeWaited(1)
BY One DEF Sees, S!H!AssigneeWaited, S!H!slot, S!H!manager, S!AsgOf, S!WrapOf, S!StateOf

LEMMA SeenLost ==
    ASSUME S!WrapOf \in {"run", "publish", "status"},
           Sees(S!Outside(place), S!Outside(draft), S!AsgOf, child, "gone", S!StateOf),
           UNCHANGED <<launch, writes>>
    PROVE  S!H!WrapperLost(1)
BY One DEF Sees, S!H!WrapperLost, S!H!slot, S!H!manager, S!AsgOf, S!WrapOf, S!StateOf

LEMMA SeenStatus ==
    ASSUME S!WrapOf = "status",
           Sees(S!Outside(place), S!Outside(draft), S!AsgOf, child, "gone", "exited"),
           UNCHANGED <<launch, writes>>
    PROVE  S!H!WriteStatus(1)
BY One DEF Sees, S!H!WriteStatus, S!H!Exited, S!H!slot, S!H!manager, S!AsgOf, S!WrapOf,
   S!StateOf

LEMMA SeenPublished ==
    ASSUME S!WrapOf = "publish",
           Sees(S!Outside(place)', S!Outside(S!Absent), S!AsgOf, child, "status",
                S!StateOf),
           place' = place \/ (draft # S!Absent /\ place' = draft),
           UNCHANGED <<launch, writes>>
    PROVE  S!H!PublishStaged(1)
<1>1. /\ S!Outside(S!Absent) = S!H!NoReport
      /\ (draft # S!Absent => S!Outside(draft) # S!H!NoReport)
  BY DEF S!Outside, S!H!NoReport
<1>2. \/ S!Outside(place)' = S!Outside(place)
      \/ (draft # S!Absent /\ S!Outside(place)' = S!Outside(draft))
  BY DEF S!Outside, S!Finished
<1> QED
  BY <1>1, <1>2, One DEF Sees, S!H!PublishStaged, S!H!manager, S!AsgOf, S!WrapOf, S!StateOf

LEMMA SeenWritten ==
    ASSUME writes \in Nat, writes < MaxWrites, writes' = writes + 1, NEW r \in S!Written,
           Sees(S!Outside(place)', S!Outside(draft)', S!AsgOf, child, S!WrapOf, S!StateOf),
           launch' = launch,
           \/ (S!AsgOf = "alive" /\ place' = r /\ draft' = draft)
           \/ /\ S!AsgOf = "alive" \/ child = "alive"
              /\ launch.staging /\ draft' = r /\ place' = place
    PROVE  S!H!WriteReport(1)
<1>1. /\ S!Outside(r) = [by |-> 1, rev |-> writes + 1, whole |-> S!Finished(r)]
      /\ S!Finished(r) \in BOOLEAN
  BY WrittenDraft DEF S!Outside, S!Finished, S!Written
<1>2. \/ S!AsgOf = "alive" /\ S!Outside(place)' = S!Outside(r)
         /\ S!Outside(draft)' = S!Outside(draft)
      \/ /\ S!AsgOf = "alive" \/ child = "alive"
         /\ launch.staging /\ S!Outside(draft)' = S!Outside(r)
         /\ S!Outside(place)' = S!Outside(place)
  BY DEF S!Outside, S!Finished
<1> QED
  BY <1>1, <1>2, One DEF Sees, S!H!WriteReport, S!H!manager, S!AsgOf, S!WrapOf, S!StateOf

\* Every step of the session, as Handoff sees it.
LEMMA SeenStep ==
    ASSUME SessionInv, [S!Next]_S!vars
    PROVE  S!H!LaunchStep(1) \/ UNCHANGED <<S!H!slot, S!H!procs>>
<1> USE DEF SessionInv, SessionType, Together
<1>1. /\ place' = place => S!Outside(place)' = S!Outside(place)
      /\ draft' = draft => S!Outside(draft)' = S!Outside(draft)
  BY DEF S!Outside, S!Finished
<1>2. CASE S!WriteReport
  <2>1. /\ Sees(S!Outside(place)', S!Outside(draft)', S!AsgOf, child, S!WrapOf, S!StateOf)
        /\ launch' = launch
        /\ S!AsgOf = "alive" /\ writes < MaxWrites /\ writes' = writes + 1
    BY <1>2 DEF S!WriteReport, S!session, S!outcome, Sees, S!AsgOf, S!WrapOf, S!StateOf
  <2>2. \E r \in S!Written : \/ place' = r /\ draft' = draft
                             \/ launch.staging /\ draft' = r /\ place' = place
    BY <1>2 DEF S!WriteReport
  <2> QED
    BY <2>1, <2>2, SeenWritten DEF S!H!LaunchStep
<1>3. CASE S!BackgroundWrites
  <2>1. /\ Sees(S!Outside(place)', S!Outside(draft)', S!AsgOf, child, S!WrapOf, S!StateOf)
        /\ launch' = launch
        /\ child = "alive" /\ launch.staging /\ place' = place /\ draft' \in S!Written
        /\ writes < MaxWrites /\ writes' = writes + 1
    BY <1>3 DEF S!BackgroundWrites, S!session, S!outcome, Sees, S!AsgOf, S!WrapOf, S!StateOf
  <2> QED
    BY <2>1, SeenWritten DEF S!H!LaunchStep
<1>4. CASE S!LaunchFails
  <2>1. /\ S!AsgOf = "alive"
        /\ Sees(S!Outside(place), S!Outside(draft), "gone", child, S!WrapOf, S!StateOf)
        /\ UNCHANGED <<launch, writes>>
    BY <1>1, <1>4 DEF S!LaunchFails, S!report, S!session, Sees, S!AsgOf, S!WrapOf, S!StateOf
  <2> QED
    BY <2>1, SeenExit DEF S!H!LaunchStep
<1>5. CASE S!Discard
  <2>1. /\ S!WrapOf = "run"
        /\ Sees(S!Outside(place), S!Outside(draft), S!AsgOf, child, "gone", S!StateOf)
        /\ UNCHANGED <<launch, writes>>
    BY <1>1, <1>5 DEF S!Discard, S!report, S!session, Sees, S!AsgOf, S!WrapOf, S!StateOf
  <2> QED
    BY <2>1, SeenLost DEF S!H!LaunchStep
<1>6. CASE S!StartBackground \/ S!ReapChild \/ S!ReapGroup
  <2>1. /\ Sees(S!Outside(place), S!Outside(draft), S!AsgOf, child', S!WrapOf, S!StateOf)
        /\ UNCHANGED <<launch, writes>>
    BY <1>1, <1>6 DEF S!StartBackground, S!ReapChild, S!ReapGroup, S!report, Sees, S!AsgOf,
       S!WrapOf, S!StateOf
  <2>2. \/ S!AsgOf = "alive" /\ child = "none" /\ child' = "alive"
        \/ child = "alive" /\ child' = "none"
        \/ child' = child
    BY <1>6 DEF S!StartBackground, S!ReapChild, S!ReapGroup, S!AsgOf
  <2> QED
    BY <2>1, <2>2, SeenSurvivor, Stutters DEF S!H!LaunchStep
<1>7. CASE S!Start \/ S!EndTurn \/ S!SeeReport
  <2>1. /\ Sees(S!Outside(place), S!Outside(draft), S!AsgOf, child, S!WrapOf, S!StateOf)
        /\ UNCHANGED <<launch, writes>>
    BY <1>1, <1>7 DEF S!Start, S!EndTurn, S!SeeReport, S!report, S!session, Sees, S!AsgOf,
       S!WrapOf, S!StateOf
  <2> QED
    BY <2>1, Stutters
<1>8. CASE S!Cut \/ S!Guard \/ S!Reap
  <2>1. /\ UNCHANGED <<launch, S!report, child, wrapper, writes>>
        /\ wrapper = "run" /\ claude # "none"
        /\ claude' = "gone" \/ (claude # "gone" /\ claude' \in {"work", "stop"})
    BY <1>8 DEF S!Cut, S!Guard, S!FailOpen, S!Allow, S!Block, S!Reap
  <2>2. \/ /\ S!AsgOf = "alive"
           /\ Sees(S!Outside(place), S!Outside(draft), "gone", child, S!WrapOf, S!StateOf)
        \/ Sees(S!Outside(place), S!Outside(draft), S!AsgOf, child, S!WrapOf, S!StateOf)
    BY <1>1, <2>1 DEF S!report, Sees, S!AsgOf, S!WrapOf, S!StateOf
  <2> QED
    BY <2>1, <2>2, SeenExit, Stutters DEF S!H!LaunchStep
<1>9. CASE S!Waited
  <2>1. S!AsgOf = "gone" /\ S!WrapOf = "run"
    BY <1>9 DEF S!Waited, S!AsgOf, S!WrapOf
  <2>2. Sees(S!Outside(place), S!Outside(draft), S!AsgOf, child,
             IF launch.staging THEN "publish" ELSE "status", S!StateOf)
    BY <1>1, <1>9 DEF S!Waited, S!report, S!session, Sees, S!AsgOf, S!WrapOf, S!StateOf
  <2>3. UNCHANGED <<launch, writes>>
    BY <1>9 DEF S!Waited
  <2> QED
    BY <2>1, <2>2, <2>3, SeenWaited DEF S!H!LaunchStep, S!H!WrapperStep
<1>10. CASE S!PublishReport
  <2>1. /\ S!WrapOf = "publish" /\ draft' = S!Absent /\ UNCHANGED <<launch, writes>>
        /\ place' = place \/ (draft # S!Absent /\ place' = draft)
    BY <1>10 DEF S!PublishReport, S!Published, S!Refused, S!WrapOf
  <2>2. S!Outside(draft)' = S!Outside(S!Absent)
    BY <2>1 DEF S!Outside, S!Finished
  <2>3. Sees(S!Outside(place)', S!Outside(S!Absent), S!AsgOf, child, "status", S!StateOf)
    BY <1>10, <2>2 DEF S!PublishReport, S!Published, S!session, Sees, S!AsgOf, S!WrapOf,
       S!StateOf
  <2> QED
    BY <2>1, <2>3, SeenPublished DEF S!H!LaunchStep, S!H!WrapperStep
<1>11. CASE S!WriteStatus
  <2>1. S!WrapOf = "status" /\ UNCHANGED <<launch, writes>>
    BY <1>11 DEF S!WriteStatus, S!WrapOf
  <2>2. Sees(S!Outside(place), S!Outside(draft), S!AsgOf, child, "gone", "exited")
    BY <1>1, <1>11 DEF S!WriteStatus, S!report, S!session, Sees, S!AsgOf, S!WrapOf,
       S!StateOf
  <2> QED
    BY <2>1, <2>2, SeenStatus DEF S!H!LaunchStep, S!H!WrapperStep
<1>12. CASE UNCHANGED S!vars
  <2>1. /\ Sees(S!Outside(place), S!Outside(draft), S!AsgOf, child, S!WrapOf, S!StateOf)
        /\ UNCHANGED <<launch, writes>>
    BY <1>1, <1>12 DEF S!vars, S!report, S!session, Sees, S!AsgOf, S!WrapOf, S!StateOf
  <2> QED
    BY <2>1, Stutters
<1> QED
  BY <1>2, <1>3, <1>4, <1>5, <1>6, <1>7, <1>8, <1>9, <1>10, <1>11, <1>12 DEF S!Next,
     S!Publish

---------------------------------------------------------------------------
(* What a behaviour of MCHandoff is, if it is about a session.             *)

Hosted == part = "session" => SessionInv

LEMMA HostedStarts == Outside \/ Inside => Hosted
BY SessionStarts DEF Outside, Inside, Hosted

\* A step of the module is a step of the session it hosts.
LEMMA HostedStep ==
    ASSUME Hosted, [HandoffNext \/ SessionNext]_<<part, vars, within>>
    PROVE  /\ Hosted'
           /\ part = "session" => SessionInv /\ [S!Next]_S!vars
<1>1. part' = part
  BY DEF HandoffNext, SessionNext
<1>2. part = "session" => [S!Next]_S!vars
  BY DEF HandoffNext, SessionNext, within, S!vars, S!report, S!session, S!outcome
<1>3. part = "session" => SessionInv'
  BY <1>2, SessionStep DEF Hosted
<1> QED
  BY <1>1, <1>2, <1>3 DEF Hosted

\* Every native session a run can show, of any ceiling and any number of writes,
\* leaves a report when it ends well because one was seen (cartopian-claude).
THEOREM SessionLeavesReport == MCSpec => []SuccessHasReport
<1>1. Hosted => SuccessHasReport
  BY SessionShows DEF Hosted, SuccessHasReport
<1> QED
  BY HostedStarts, HostedStep, <1>1, PTL DEF MCSpec

\* What the session does to slot and processes is what Handoff has for a launch.
THEOREM SessionIsLaunch == MCSpec => ActsAsLaunch
<1>1. ASSUME Hosted, [HandoffNext \/ SessionNext]_<<part, vars, within>>
      PROVE  [part = "session" => S!H!LaunchStep(1)]_<<S!H!slot, S!H!procs>>
  BY <1>1, HostedStep, SeenStep
<1> QED
  BY HostedStarts, HostedStep, <1>1, PTL DEF MCSpec, ActsAsLaunch
=============================================================================
