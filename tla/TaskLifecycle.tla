---------------------------- MODULE TaskLifecycle ----------------------------
(***************************************************************************)
(* The life of checkout tasks in the Go engine: StartTask, the schedule    *)
(* timers and StopTasks of engine/frontend, the site adapters' StartTask,  *)
(* and InitTask, HandleTask's loop and StopTask of the task runtime.       *)
(*                                                                         *)
(* Every websocket message and every timer callback runs on a goroutine of *)
(* its own, so starts and stops of one task id interleave at each lock.    *)
(* A call is one StartTask invocation and the BaseTask it may create; a    *)
(* stopper is one StopTask invocation for one id (a stop-tasks batch is    *)
(* one stopper per id; the stop-schedule timer of call r is stopper r).    *)
(***************************************************************************)
EXTENDS Naturals, FiniteSets

CONSTANTS
  TaskIds,         \* ids the launcher gives its tasks
  Calls,           \* StartTask invocations
  UserStops,       \* stop-tasks messages, one id each
  Sites,
  Limited,         \* sites with an entry in siteLimits
  Limit,           \* that entry
  TaskOf,          \* the id a call starts
  SiteOf,          \* the site a call starts it on
  StopIdOf,        \* the id a stop-tasks message names
  StartScheduled,  \* calls with a startSchedule
  StopScheduled,   \* calls with a stopSchedule
  None             \* no run, no timer

ASSUME CallAssumption ==
  /\ IsFiniteSet(Calls)
  /\ TaskOf \in [Calls -> TaskIds]
  /\ SiteOf \in [Calls -> Sites]
  /\ StopIdOf \in [UserStops -> TaskIds]
  /\ UserStops \cap Calls = {}
  /\ StartScheduled \subseteq Calls
  /\ StopScheduled \subseteq Calls

ASSUME LimitAssumption == Limited \subseteq Sites /\ Limit \in [Limited -> Nat]

ASSUME NoneAssumption == None \notin Calls /\ None \notin Calls \X {"start", "stop"}

Stoppers == UserStops \cup Calls
Timers == Calls \X {"start", "stop"}
StartTimer(r) == <<r, "start">>
StopTimer(r) == <<r, "stop">>
IdOf(p) == IF p \in Calls THEN TaskOf[p] ELSE StopIdOf[p]

VARIABLES
  pc,           \* where each call's goroutine is
  registry,     \* UserTasks: the run registered under an id
  ctx,          \* the run's TaskContext: not yet made, live or cancelled
  stopPhase,    \* how far the body of the run's stopOnce has got
  slotFlag,     \* BaseTask.siteSlotReserved
  siteRunning,  \* site_limits.go's counter per site
  proxied,      \* ids the proxy pool holds an assignment for
  terminal,     \* terminal statuses queued for a run so far
  timer,        \* the two AfterFunc timers of a call
  pending,      \* pendingSchedules.m
  parking,      \* calls that armed their start timer and have not stored it
  stopPc,       \* where each stopper's goroutine is
  target        \* the run a stopper read from the registry

runVars == <<registry, ctx, stopPhase, slotFlag, siteRunning, proxied, terminal>>
timerVars == <<timer, pending, parking>>
stopperVars == <<stopPc, target>>
vars == <<pc, runVars, timerVars, stopperVars>>

\* Before UserTasks.Set; a call that is turned away stays "dropped".
Unregistered == {"idle", "checked", "waiting", "fired", "check", "armedStop",
                 "dispatch", "dropped"}
\* In InitTask, before the context exists.
Initialising == {"registered", "reserved", "flagged"}
PcValues == Unregistered \cup Initialising
              \cup {"live", "loop", "step", "stopLoop", "stopReturn", "exited"}

TypeOK ==
  /\ pc \in [Calls -> PcValues]
  /\ registry \in [TaskIds -> Calls \cup {None}]
  /\ ctx \in [Calls -> {"none", "live", "cancelled"}]
  /\ stopPhase \in [Calls -> {"none", "begun", "announced", "released", "done"}]
  /\ slotFlag \in [Calls -> BOOLEAN]
  /\ siteRunning \in [Sites -> Nat]
  /\ proxied \subseteq TaskIds
  /\ terminal \in [Calls -> Nat]
  /\ timer \in [Timers -> {"unset", "armed", "stopped", "fired"}]
  /\ pending \in [TaskIds -> Timers \cup {None}]
  /\ parking \subseteq Calls
  /\ stopPc \in [Stoppers -> {"idle", "callback", "clear", "get", "stop", "done"}]
  /\ target \in [Stoppers -> Calls \cup {None}]

Init ==
  /\ pc = [r \in Calls |-> "idle"]
  /\ registry = [id \in TaskIds |-> None]
  /\ ctx = [r \in Calls |-> "none"]
  /\ stopPhase = [r \in Calls |-> "none"]
  /\ slotFlag = [r \in Calls |-> FALSE]
  /\ siteRunning = [s \in Sites |-> 0]
  /\ proxied = {}
  /\ terminal = [r \in Calls |-> 0]
  /\ timer = [t \in Timers |-> "unset"]
  /\ pending = [id \in TaskIds |-> None]
  /\ parking = {}
  /\ stopPc = [p \in Stoppers |-> "idle"]
  /\ target = [p \in Stoppers |-> None]

-----------------------------------------------------------------------------
(* pendingSchedules: one entry per id, shared by start and stop timers.     *)

\* timer.Stop(): it takes back a timer that has not fired, and only such a one.
Disarm(t) == IF t # None /\ timer[t] = "armed"
             THEN [timer EXCEPT ![t] = "stopped"] ELSE timer

\* Mutated form: the previous timer of the id is replaced without being stopped.
SetPendingScheduleKeepsOld(id, t) ==
  /\ pending' = [pending EXCEPT ![id] = t]
  /\ timer' = timer

setPendingSchedule(id, t) ==
  /\ pending' = [pending EXCEPT ![id] = t]
  /\ timer' = Disarm(pending[id])

clearPendingSchedule(id) ==
  /\ pending' = [pending EXCEPT ![id] = None]
  /\ timer' = Disarm(pending[id])

Goto(r, to) == pc' = [pc EXCEPT ![r] = to]

-----------------------------------------------------------------------------
(* frontend.StartTask *)

\* The duplicate-start guard reads the registry and lets the lock go. The
\* callback of a start timer runs StartTask a second time.
StartTask(r) ==
  /\ pc[r] \in {"idle", "check"}
  /\ Goto(r, IF registry[TaskOf[r]] = None THEN "checked" ELSE "dropped")
  /\ UNCHANGED <<runVars, timerVars, stopperVars>>

\* startSchedule lies ahead: the timer is running before it is stored.
ArmStart(r) ==
  /\ pc[r] = "checked"
  /\ r \in StartScheduled
  /\ timer[StartTimer(r)] = "unset"
  /\ Goto(r, "waiting")
  /\ timer' = [timer EXCEPT ![StartTimer(r)] = "armed"]
  /\ parking' = parking \cup {r}
  /\ UNCHANGED <<pending, runVars, stopperVars>>

ParkStart(r) ==
  /\ r \in parking
  /\ setPendingSchedule(TaskOf[r], StartTimer(r))
  /\ parking' = parking \ {r}
  /\ UNCHANGED <<pc, runVars, stopperVars>>

\* From here on timer.Stop() comes too late.
FireStart(r) ==
  /\ timer[StartTimer(r)] = "armed"
  /\ timer' = [timer EXCEPT ![StartTimer(r)] = "fired"]
  /\ Goto(r, "fired")
  /\ UNCHANGED <<pending, parking, runVars, stopperVars>>

StartCallback(r) ==
  /\ pc[r] = "fired"
  /\ clearPendingSchedule(TaskOf[r])
  /\ Goto(r, "check")
  /\ UNCHANGED <<parking, runVars, stopperVars>>

\* siteconfig.IsLocked, or dispatchStartTask knows no such site.
RefuseSite(r) ==
  /\ pc[r] = "checked"
  /\ Goto(r, "dropped")
  /\ UNCHANGED <<runVars, timerVars, stopperVars>>

\* scheduleStop: armed when stopSchedule is set and still ahead.
ArmStop(r) ==
  /\ pc[r] = "checked"
  /\ r \in StopScheduled
  /\ timer' = [timer EXCEPT ![StopTimer(r)] = "armed"]
  /\ Goto(r, "armedStop")
  /\ UNCHANGED <<pending, parking, runVars, stopperVars>>

ParkStop(r) ==
  /\ pc[r] = "armedStop"
  /\ setPendingSchedule(TaskOf[r], StopTimer(r))
  /\ Goto(r, "dispatch")
  /\ UNCHANGED <<parking, runVars, stopperVars>>

NoStopSchedule(r) ==
  /\ pc[r] = "checked"
  /\ Goto(r, "dispatch")
  /\ UNCHANGED <<runVars, timerVars, stopperVars>>

-----------------------------------------------------------------------------
(* The site adapter's StartTask *)

\* No profileId, or one that send-configs has not delivered.
MissingProfile(r) ==
  /\ pc[r] = "dispatch"
  /\ Goto(r, "dropped")
  /\ UNCHANGED <<runVars, timerVars, stopperVars>>

\* UserTasks.Set replaces whatever run is registered under the id.
Register(r) ==
  /\ pc[r] = "dispatch"
  /\ registry' = [registry EXCEPT ![TaskOf[r]] = r]
  /\ Goto(r, "registered")
  /\ UNCHANGED <<ctx, stopPhase, slotFlag, siteRunning, proxied, terminal,
                 timerVars, stopperVars>>

-----------------------------------------------------------------------------
(* BaseTask.InitTask *)

AtLimit(s) == s \in Limited /\ siteRunning[s] >= Limit[s]

\* Mutated form: a run beyond the limit is let in (>= written as >).
ReserveOneTooMany(r) ==
  /\ pc[r] = "registered"
  /\ LET s == SiteOf[r] IN
       IF s \in Limited /\ siteRunning[s] > Limit[s]
       THEN Goto(r, "stopReturn") /\ UNCHANGED siteRunning
       ELSE /\ siteRunning' = [siteRunning EXCEPT ![s] = @ + 1]
            /\ Goto(r, "reserved")
  /\ UNCHANGED <<registry, ctx, stopPhase, slotFlag, proxied, terminal,
                 timerVars, stopperVars>>

\* reserveSiteSlot: check and increment under one lock. At the limit the run
\* stops itself ("Task Limit Reached").
ReserveSiteSlot(r) ==
  /\ pc[r] = "registered"
  /\ LET s == SiteOf[r] IN
       IF AtLimit(s)
       THEN Goto(r, "stopReturn") /\ UNCHANGED siteRunning
       ELSE /\ siteRunning' = [siteRunning EXCEPT ![s] = @ + 1]
            /\ Goto(r, "reserved")
  /\ UNCHANGED <<registry, ctx, stopPhase, slotFlag, proxied, terminal,
                 timerVars, stopperVars>>

\* t.siteSlotReserved = true, which StopTask reads without a lock.
MarkSlotReserved(r) ==
  /\ pc[r] = "reserved"
  /\ slotFlag' = [slotFlag EXCEPT ![r] = TRUE]
  /\ Goto(r, "flagged")
  /\ UNCHANGED <<registry, ctx, stopPhase, siteRunning, proxied, terminal,
                 timerVars, stopperVars>>

\* The context exists for StopTask once both CTX and Cancel are assigned.
CreateContext(r) ==
  /\ pc[r] = "flagged"
  /\ ctx' = [ctx EXCEPT ![r] = "live"]
  /\ Goto(r, "live")
  /\ UNCHANGED <<registry, stopPhase, slotFlag, siteRunning, proxied, terminal,
                 timerVars, stopperVars>>

\* SwapProxy: a Local task holds no line; any other gives its line up and takes
\* another if there is one. It fails before or after giving the line up.
SwapProxy(r, ok) ==
  \/ UNCHANGED proxied
  \/ proxied' = IF ok THEN proxied \cup {TaskOf[r]} ELSE proxied \ {TaskOf[r]}

\* The clients are built and SwapProxy runs; on any error the run stops itself
\* and StartTask returns. HandleTask is not entered either when the mode is
\* unknown: StartTask returns and leaves the run registered.
FinishInit(r) ==
  /\ pc[r] = "live"
  /\ \/ SwapProxy(r, TRUE) /\ \E to \in {"loop", "exited"} : Goto(r, to)
     \/ SwapProxy(r, FALSE) /\ Goto(r, "stopReturn")
  /\ UNCHANGED <<registry, ctx, stopPhase, slotFlag, siteRunning, terminal,
                 timerVars, stopperVars>>

-----------------------------------------------------------------------------
(* HandleTask *)

\* Mutated form: the loop does not look at the context again.
LoopHeadIgnoresContext(r) ==
  /\ pc[r] = "loop"
  /\ Goto(r, "step")
  /\ UNCHANGED <<runVars, timerVars, stopperVars>>

\* The context is looked at once per turn; the step that follows runs to its
\* end whatever happens to the task meanwhile.
LoopHead(r) ==
  /\ pc[r] = "loop"
  /\ Goto(r, IF ctx[r] = "cancelled" THEN "exited" ELSE "step")
  /\ UNCHANGED <<runVars, timerVars, stopperVars>>

\* One turn: a checkout step, which may swap the proxy (an error or a runtime
\* edit); the stop step, which stops the task and goes round again; or a stop
\* that returns (no account, or a recovered panic).
LoopStep(r) ==
  /\ pc[r] = "step"
  /\ \/ \E ok \in BOOLEAN : SwapProxy(r, ok) /\ Goto(r, "loop")
     \/ UNCHANGED proxied /\ \E to \in {"stopLoop", "stopReturn"} : Goto(r, to)
  /\ UNCHANGED <<registry, ctx, stopPhase, slotFlag, siteRunning, terminal,
                 timerVars, stopperVars>>

-----------------------------------------------------------------------------
(* BaseTask.StopTask: the body of stopOnce, whoever runs it. A second caller *)
(* waits for the first and does nothing.                                     *)

\* Running becomes false; a context that exists by now is cancelled.
BeginStop(r) ==
  /\ stopPhase' = [stopPhase EXCEPT ![r] = "begun"]
  /\ ctx' = [ctx EXCEPT ![r] = IF @ = "live" THEN "cancelled" ELSE @]
  /\ UNCHANGED <<registry, slotFlag, siteRunning, proxied, terminal>>

\* Mutated form: no stopOnce, every caller runs the body.
StopTaskEveryTime(r) == BeginStop(r)

\* t.StopTask: the first caller wins.
StopTask(r) == IF stopPhase[r] = "none" THEN BeginStop(r) ELSE UNCHANGED runVars

\* Mutated form: the stop waits for the task's own goroutine to leave the loop.
QueueTerminalStatusAfterLoop(r) ==
  /\ stopPhase[r] = "begun" /\ pc[r] = "exited"
  /\ stopPhase' = [stopPhase EXCEPT ![r] = "announced"]
  /\ terminal' = [terminal EXCEPT ![r] = @ + 1]
  /\ UNCHANGED <<pc, registry, ctx, slotFlag, siteRunning, proxied, timerVars, stopperVars>>

\* The terminal status is queued and the heartbeat key forgotten.
QueueTerminalStatus(r) ==
  /\ stopPhase[r] = "begun"
  /\ stopPhase' = [stopPhase EXCEPT ![r] = "announced"]
  /\ terminal' = [terminal EXCEPT ![r] = @ + 1]
  /\ UNCHANGED <<pc, registry, ctx, slotFlag, siteRunning, proxied, timerVars, stopperVars>>

\* Mutated form: the flag is left set, so the slot looks held for ever.
ReleaseResourcesKeepsFlag(r) ==
  /\ stopPhase[r] = "announced"
  /\ stopPhase' = [stopPhase EXCEPT ![r] = "released"]
  /\ proxied' = proxied \ {TaskOf[r]}
  /\ siteRunning' = IF slotFlag[r] /\ siteRunning[SiteOf[r]] > 0
                    THEN [siteRunning EXCEPT ![SiteOf[r]] = @ - 1] ELSE siteRunning
  /\ UNCHANGED <<pc, registry, ctx, slotFlag, terminal, timerVars, stopperVars>>

\* Mutated form: every stop gives a slot back, reserved or not.
ReleaseUnreserved(r) ==
  /\ stopPhase[r] = "announced"
  /\ stopPhase' = [stopPhase EXCEPT ![r] = "released"]
  /\ proxied' = proxied \ {TaskOf[r]}
  /\ slotFlag' = [slotFlag EXCEPT ![r] = FALSE]
  /\ siteRunning' = [siteRunning EXCEPT ![SiteOf[r]] = @ - 1]
  /\ UNCHANGED <<pc, registry, ctx, terminal, timerVars, stopperVars>>

\* Mutated form: the flag is cleared and the counter stays.
ReleaseFlagOnly(r) ==
  /\ stopPhase[r] = "announced"
  /\ stopPhase' = [stopPhase EXCEPT ![r] = "released"]
  /\ proxied' = proxied \ {TaskOf[r]}
  /\ slotFlag' = [slotFlag EXCEPT ![r] = FALSE]
  /\ UNCHANGED <<pc, registry, ctx, siteRunning, terminal, timerVars, stopperVars>>

\* ReleaseProxy, then the slot if it is marked as reserved. No step elsewhere
\* reads both, so the two locks are one step here.
ReleaseResources(r) ==
  /\ stopPhase[r] = "announced"
  /\ stopPhase' = [stopPhase EXCEPT ![r] = "released"]
  /\ proxied' = proxied \ {TaskOf[r]}
  /\ slotFlag' = [slotFlag EXCEPT ![r] = FALSE]
  /\ siteRunning' = IF slotFlag[r] /\ siteRunning[SiteOf[r]] > 0
                    THEN [siteRunning EXCEPT ![SiteOf[r]] = @ - 1] ELSE siteRunning
  /\ UNCHANGED <<pc, registry, ctx, terminal, timerVars, stopperVars>>

\* Mutated form: a guard against forgetting a later run, written the wrong way
\* round.
DeregisterOthersOnly(r) ==
  /\ stopPhase[r] = "released"
  /\ stopPhase' = [stopPhase EXCEPT ![r] = "done"]
  /\ registry' = IF registry[TaskOf[r]] = r THEN registry
                 ELSE [registry EXCEPT ![TaskOf[r]] = None]
  /\ UNCHANGED <<pc, ctx, slotFlag, siteRunning, proxied, terminal, timerVars, stopperVars>>

\* UserTasks.Delete goes by id: it forgets whichever run is registered.
Deregister(r) ==
  /\ stopPhase[r] = "released"
  /\ stopPhase' = [stopPhase EXCEPT ![r] = "done"]
  /\ registry' = [registry EXCEPT ![TaskOf[r]] = None]
  /\ UNCHANGED <<pc, ctx, slotFlag, siteRunning, proxied, terminal, timerVars, stopperVars>>

\* The task's own goroutine calls StopTask ...
SelfStop(r) ==
  /\ pc[r] \in {"stopReturn", "stopLoop"}
  /\ stopPhase[r] = "none"
  /\ StopTask(r)
  /\ UNCHANGED <<pc, timerVars, stopperVars>>

\* ... and goes on when the body has run, by whoever's hand.
SelfStopReturns(r) ==
  /\ pc[r] \in {"stopReturn", "stopLoop"}
  /\ stopPhase[r] = "done"
  /\ Goto(r, IF pc[r] = "stopLoop" THEN "loop" ELSE "exited")
  /\ UNCHANGED <<runVars, timerVars, stopperVars>>

-----------------------------------------------------------------------------
(* frontend.StopTasks *)

StopperAt(p, from, to) ==
  /\ stopPc[p] = from
  /\ stopPc' = [stopPc EXCEPT ![p] = to]

ReceiveStop(p) ==
  /\ p \in UserStops
  /\ StopperAt(p, "idle", "clear")
  /\ UNCHANGED <<pc, runVars, timerVars, target>>

\* The stop-schedule timer of call p.
FireStop(p) ==
  /\ p \in Calls
  /\ timer[StopTimer(p)] = "armed"
  /\ timer' = [timer EXCEPT ![StopTimer(p)] = "fired"]
  /\ StopperAt(p, "idle", "callback")
  /\ UNCHANGED <<pc, runVars, pending, parking, target>>

\* The callback clears the pending entry before StopTasks does it again.
StopCallback(p) ==
  /\ StopperAt(p, "callback", "clear")
  /\ clearPendingSchedule(IdOf(p))
  /\ UNCHANGED <<pc, runVars, parking, target>>

StopClear(p) ==
  /\ StopperAt(p, "clear", "get")
  /\ clearPendingSchedule(IdOf(p))
  /\ UNCHANGED <<pc, runVars, parking, target>>

\* Mutated form: the run is taken out of the registry when it is looked up.
StopTake(p) ==
  /\ LET r == registry[IdOf(p)] IN
       /\ StopperAt(p, "get", IF r = None THEN "done" ELSE "stop")
       /\ target' = [target EXCEPT ![p] = r]
  /\ registry' = [registry EXCEPT ![IdOf(p)] = None]
  /\ UNCHANGED <<pc, ctx, stopPhase, slotFlag, siteRunning, proxied, terminal, timerVars>>

\* A task that is not registered is acknowledged as Idle and nothing else is
\* done for it.
StopGet(p) ==
  /\ LET r == registry[IdOf(p)] IN
       /\ StopperAt(p, "get", IF r = None THEN "done" ELSE "stop")
       /\ target' = [target EXCEPT ![p] = r]
  /\ UNCHANGED <<pc, runVars, timerVars>>

StopCall(p) ==
  /\ StopperAt(p, "stop", "done")
  /\ StopTask(target[p])
  /\ UNCHANGED <<pc, timerVars, target>>

-----------------------------------------------------------------------------
TimerFires(r) == FireStart(r) \/ FireStop(r)

\* What a call's goroutines do once StartTask has been entered.
CallStep(r) ==
  \/ ParkStart(r) \/ StartCallback(r) \/ ParkStop(r)
  \/ pc[r] = "check" /\ StartTask(r)
  \/ ArmStart(r) \/ RefuseSite(r) \/ ArmStop(r) \/ NoStopSchedule(r)
  \/ MissingProfile(r) \/ Register(r)
  \/ ReserveSiteSlot(r) \/ MarkSlotReserved(r) \/ CreateContext(r) \/ FinishInit(r)
  \/ LoopHead(r) \/ LoopStep(r)
  \/ SelfStop(r) \/ SelfStopReturns(r)

StopBody(r) == QueueTerminalStatus(r) \/ ReleaseResources(r) \/ Deregister(r)

StopperStep(p) == StopCallback(p) \/ StopClear(p) \/ StopGet(p) \/ StopCall(p)

Next ==
  \/ \E r \in Calls :
       \/ pc[r] = "idle" /\ StartTask(r)
       \/ CallStep(r) \/ StopBody(r) \/ TimerFires(r)
  \/ \E p \in Stoppers : ReceiveStop(p) \/ StopperStep(p)

Spec == Init /\ [][Next]_vars

\* Goroutines that can run are run, and an armed timer fires. Whether a message
\* arrives is left to the launcher.
Fairness ==
  /\ \A r \in Calls : WF_vars(CallStep(r)) /\ WF_vars(StopBody(r)) /\ WF_vars(TimerFires(r))
  /\ \A p \in Stoppers : WF_vars(StopperStep(p))

FairSpec == Spec /\ Fairness

-----------------------------------------------------------------------------
(* Properties *)

\* The run has been registered and no stop of it has begun.
Unstopped(r) == pc[r] \notin Unregistered /\ stopPhase[r] = "none"

Flagged(s) == {r \in Calls : SiteOf[r] = s /\ slotFlag[r]}

\* However many callers stop a run, and whenever, its StopTask queues exactly one
\* terminal status, and has queued it by the time it returns.
OneTerminalStatus ==
  \A r \in Calls : terminal[r] = IF stopPhase[r] \in {"none", "begun"} THEN 0 ELSE 1

\* Once StopTask of a run has returned to any caller, no lookup finds that run,
\* also when other runs of the same id were registered before or after it.
StoppedNotRegistered ==
  \A r \in Calls, id \in TaskIds : stopPhase[r] = "done" => registry[id] # r

\* However starts, failed starts and stops interleave, no more runs of a site
\* hold a slot than siteLimits allows.
SiteLimitHolds == \A s \in Limited : Cardinality(Flagged(s)) <= Limit[s]

\* A stop that found a context to cancel has given the run's slot back when it
\* returns: a slot can leak only if the stop overtook InitTask.
CancelledRunsReturnSlot ==
  \A r \in Calls : stopPhase[r] = "done" /\ ctx[r] = "cancelled" => ~slotFlag[r]

\* A task no stop can reach, because the registry does not lead to it, is one
\* whose id got past the duplicate-start guard twice.
UnreachableOnlyByDoubleStart ==
  \A r \in Calls :
    Unstopped(r) /\ registry[TaskOf[r]] # r =>
      \E q \in Calls \ {r} : TaskOf[q] = TaskOf[r] /\ pc[q] \notin Unregistered

\* A schedule timer that may still fire is one that a stop of its id will find
\* and disarm, or one whose owner is about to store it.
ArmedTimersReachable ==
  \A t \in Timers :
    timer[t] = "armed" =>
      \/ pending[TaskOf[t[1]]] = t
      \/ t[2] = "start" /\ t[1] \in parking
      \/ t[2] = "stop" /\ pc[t[1]] = "armedStop"

\* A stop leaves nothing of the task running: what task_stop_test.go asserts of
\* the context once StopTask has returned.
StoppedRunsAreCancelled == \A r \in Calls : stopPhase[r] = "done" => ctx[r] # "live"

\* The slots are handed out as SiteSlots promises: the counter, the flags and the stops that
\* overtake InitTask neither lose a slot that nobody holds nor give one out twice.
SlotOf(r) ==
  CASE pc[r] \in Unregistered \cup {"registered"} -> "new"
    [] slotFlag[r] \/ pc[r] = "reserved" -> "held"
    [] OTHER -> "over"
Slots == INSTANCE SiteSlots WITH Runs <- Calls, slot <- [r \in Calls |-> SlotOf(r)]
ImplementsSlots == Slots!Spec

\* A run whose context was cancelled leaves HandleTask, wherever it was.
CancelledRunExits == \A r \in Calls : ctx[r] = "cancelled" ~> pc[r] = "exited"

\* A stop that found its task ends with that run's stop completed.
StopCompletes ==
  \A p \in Stoppers : \A r \in Calls :
    (stopPc[p] = "stop" /\ target[p] = r) ~> stopPhase[r] = "done"

-----------------------------------------------------------------------------
(* The inductive invariant the proofs use *)

\* The runs siteRunning counts: from the increment to the release.
Holders(s) == {r \in Calls : SiteOf[r] = s /\ (slotFlag[r] \/ pc[r] = "reserved")}

SlotsCounted ==
  \A s \in Sites : /\ siteRunning[s] = Cardinality(Holders(s))
                   /\ s \in Limited => siteRunning[s] <= Limit[s]

\* Only a run that was registered is found, and stopped.
OnlyRegisteredStop ==
  /\ \A id \in TaskIds : registry[id] # None =>
       /\ TaskOf[registry[id]] = id
       /\ pc[registry[id]] \notin Unregistered
  /\ \A p \in Stoppers : target[p] # None => pc[target[p]] \notin Unregistered
  /\ \A p \in Stoppers : stopPc[p] = "stop" => target[p] # None
  /\ \A r \in Calls : stopPhase[r] # "none" => pc[r] \notin Unregistered

\* The context is made after the slot is marked, and is cancelled by a stop only.
ContextAfterSlot ==
  \A r \in Calls : /\ ctx[r] # "none" => pc[r] \notin Unregistered \cup Initialising
                   /\ slotFlag[r] => pc[r] \notin Unregistered \cup {"registered", "reserved"}
                   /\ stopPhase[r] \in {"released", "done"} /\ ctx[r] = "cancelled"
                        => ~slotFlag[r]

\* A start timer runs while its call waits for it, and an entry of
\* pendingSchedules is one of its own id.
TimersOwned ==
  /\ \A r \in Calls : timer[StartTimer(r)] = "armed" => pc[r] = "waiting"
  /\ \A id \in TaskIds : pending[id] # None => TaskOf[pending[id][1]] = id

IInv ==
  /\ TypeOK
  /\ OneTerminalStatus
  /\ StoppedNotRegistered
  /\ SlotsCounted
  /\ OnlyRegisteredStop
  /\ ContextAfterSlot
  /\ UnreachableOnlyByDoubleStart
  /\ TimersOwned
  /\ ArmedTimersReachable

=============================================================================
