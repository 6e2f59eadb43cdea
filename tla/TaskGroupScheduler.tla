------------------------- MODULE TaskGroupScheduler -------------------------
(***************************************************************************)
(* Scheduled Target groups in the launcher: the timers and the sync pass   *)
(* of task-group-scheduler.js, and what bootstrap.js and target-engine.js  *)
(* wire to them: the licence session, a cloud restore, the runtime         *)
(* download that precedes a launch, the running groups and the one shared  *)
(* monitor.                                                                *)
(*                                                                         *)
(* The main process is one thread. A sync pass handles the groups one by   *)
(* one and the readiness results follow as microtasks, so while queue or   *)
(* starting is not empty nothing else runs (Idle).                         *)
(***************************************************************************)
EXTENDS Integers, FiniteSets, Sequences

CONSTANTS
  Groups,      \* Target groups; each has tasks
  GroupOrder,  \* the order in which the store lists them
  None,        \* no group, no launch
  Schedules,   \* schedules a user saves or a backup holds: [start, stop]
  Horizon,     \* bound on now
  MaxEdits,    \* bound on saves by the user and restarts
  CatchUp,     \* CATCH_UP_MS
  RetryDelay,  \* the 60 s between tries of a start that has to wait
  MaxTimeout,  \* MAX_SAFE_TIMEOUT_MS
  Remote       \* the build waits for the runtime download before a launch

\* Times are positive; 0 is a time that is not set. normalizeSchedule drops a
\* stop that is not after the start.
ASSUME ScheduleAssumption ==
  /\ Schedules \subseteq [start : Nat, stop : Nat]
  /\ \A s \in Schedules : s.start # 0 /\ s.stop # 0 => s.start < s.stop

ASSUME OrderAssumption ==
  GroupOrder \in Seq(Groups) /\ Groups = {GroupOrder[i] : i \in 1 .. Len(GroupOrder)}

ASSUME TimeAssumption ==
  /\ Horizon \in Nat \ {0} /\ MaxEdits \in Nat /\ CatchUp \in Nat
  /\ RetryDelay \in Nat \ {0} /\ MaxTimeout \in Nat \ {0}
  /\ Remote \in BOOLEAN

ASSUME NoneAssumption == None \notin Groups /\ None \notin {"tasks", "monitor"} \X Groups

Kinds == {"start", "stop"}

VARIABLES
  now,        \* Date.now()
  schedule,   \* task-groups.json: the schedule of each group
  timers,     \* the armed timers: when they are for and when they fire
  queue,      \* groups the sync pass has still to handle
  starting,   \* groups whose readiness result is about to arrive
  paused,     \* the scheduler's paused flag
  session,    \* the licence: none, engine or harvester
  lapsed,     \* a session ended without onLock, and no engine session or lock came since
  restoring,  \* a cloud restore is downloading
  running,    \* groups with tasks in runningTaskIds
  wanted,     \* monitorWanted
  owner,      \* monitorOwnerGroupId
  launching,  \* the start that waits for the runtime and is still current
  edits       \* saves and restarts so far

storeVars == <<schedule, edits>>
schedVars == <<timers, queue, starting, paused>>
engineVars == <<running, wanted, owner, launching>>
vars == <<now, storeVars, schedVars, session, lapsed, restoring, engineVars>>

NoTimer == [at |-> 0, due |-> 0]
NoSchedule == [start |-> 0, stop |-> 0]
NoTimers == [g \in Groups |-> [k \in Kinds |-> NoTimer]]
Launches == {"tasks", "monitor"} \X Groups

TypeOK ==
  /\ now \in 1 .. Horizon
  /\ schedule \in [Groups -> [start : Nat, stop : Nat]]
  /\ timers \in [Groups -> [Kinds -> [at : Nat, due : Nat]]]
  /\ queue \in Seq(Groups) /\ starting \in Seq(Groups)
  /\ paused \in BOOLEAN /\ restoring \in BOOLEAN /\ wanted \in BOOLEAN
  /\ session \in {"none", "engine", "harvester"} /\ lapsed \in BOOLEAN
  /\ running \subseteq Groups
  /\ owner \in Groups \cup {None}
  /\ launching \in Launches \cup {None}
  /\ edits \in 0 .. MaxEdits

\* The app has just opened its window; the stored session is not yet validated.
Init ==
  /\ now = 1
  /\ schedule \in [Groups -> Schedules]
  /\ timers = NoTimers
  /\ queue = GroupOrder /\ starting = <<>>
  /\ paused = FALSE /\ session = "none" /\ lapsed = FALSE /\ restoring = FALSE
  /\ running = {} /\ wanted = FALSE /\ owner = None /\ launching = None
  /\ edits = 0

Idle == queue = <<>> /\ starting = <<>>

-----------------------------------------------------------------------------
(* target-engine.js, behind the guards of bootstrap.js *)

\* adoptMonitorFromConfig: the monitor goes to g unless another group's is wanted.
AdoptMonitor(g) ==
  IF wanted /\ owner \notin {None, g}
  THEN UNCHANGED <<wanted, owner>>
  ELSE wanted' = TRUE /\ owner' = g

\* startTarget: the tasks count as running at once.
StartTarget(g) == running' = running \cup {g} /\ AdoptMonitor(g)

\* guardTaskHelpers: with a remote runtime the start waits for it, and a newer
\* start or any stop makes an older one void.
GuardedStart(what, g) ==
  IF Remote
  THEN launching' = <<what, g>> /\ UNCHANGED <<running, wanted, owner>>
  ELSE /\ IF what = "tasks" THEN StartTarget(g) ELSE AdoptMonitor(g) /\ UNCHANGED running
       /\ UNCHANGED launching

ClearMonitorIntent == wanted' = FALSE /\ owner' = None

\* Mutated form: a stop does not void a start that waits for the runtime.
StopAllKeepsLaunch == running' = {} /\ ClearMonitorIntent /\ UNCHANGED launching

\* stopTarget() without ids, through the guard.
StopAll == running' = {} /\ ClearMonitorIntent /\ launching' = None

\* stopTarget(ids) through the guard: the monitor outlives the tasks, and when it
\* is not wanted either the stop of the last group is a full stop.
StopTasks(g) ==
  /\ running' = running \ {g}
  /\ launching' = None
  /\ IF running \ {g} # {} \/ wanted THEN UNCHANGED <<wanted, owner>> ELSE ClearMonitorIntent

-----------------------------------------------------------------------------
(* task-group-scheduler.js *)

\* Mutated form: the delay is counted from the time to now.
ArmedAtBackwards(at) ==
  [at |-> at, due |-> now + (IF now - at > MaxTimeout THEN MaxTimeout ELSE now - at)]

\* A timer for at, its delay clipped to what setTimeout can hold.
ArmedAt(at) == [at |-> at, due |-> IF at - now > MaxTimeout THEN now + MaxTimeout ELSE at]

\* armTimer for a time that is set and lies ahead; otherwise ts as it is.
Arm(ts, g, kind, at) == IF at > now THEN [ts EXCEPT ![g][kind] = ArmedAt(at)] ELSE ts
Disarm(ts, g, kind) == [ts EXCEPT ![g][kind] = NoTimer]

clearStart(g) == schedule' = [schedule EXCEPT ![g].start = 0]
clearBoth(g) == schedule' = [schedule EXCEPT ![g] = NoSchedule]

canStart == session = "engine"

otherTargetGroupRunning(g) == running \ {g} # {} \/ owner \notin {None, g}

\* The start is tried again later if that is before the stop.
CanRetry(g) == schedule[g].stop = 0 \/ now + RetryDelay < schedule[g].stop
Retry(ts, g) ==
  IF CanRetry(g) THEN Arm(Disarm(ts, g, "start"), g, "start", now + RetryDelay)
  ELSE Disarm(ts, g, "start")

\* Mutated form: a group that waits for another one is not tried again.
FireStartGivesUp(g, ts) ==
  \/ /\ ~canStart \/ otherTargetGroupRunning(g)
     /\ timers' = Disarm(ts, g, "start")
     /\ UNCHANGED <<schedule, starting>>
  \/ /\ canStart /\ ~otherTargetGroupRunning(g)
     /\ timers' = Disarm(ts, g, "start")
     /\ IF g \in running THEN clearStart(g) /\ UNCHANGED starting
                         ELSE starting' = Append(starting, g) /\ UNCHANGED schedule

\* fireStart, given the timers as its caller leaves them: wait for the sign-in,
\* wait for another group, forget a start that is pointless, or ask whether the
\* group is ready.
FireStart(g, ts) ==
  \/ /\ ~canStart
     /\ timers' = Retry(ts, g)
     /\ UNCHANGED <<schedule, starting>>
  \/ /\ canStart /\ otherTargetGroupRunning(g)
     /\ timers' = Retry(ts, g)
     /\ IF CanRetry(g) THEN UNCHANGED schedule ELSE clearStart(g)
     /\ UNCHANGED starting
  \/ /\ canStart /\ ~otherTargetGroupRunning(g) /\ g \in running
     /\ timers' = Disarm(ts, g, "start")
     /\ clearStart(g)
     /\ UNCHANGED starting
  \/ /\ canStart /\ ~otherTargetGroupRunning(g) /\ g \notin running
     /\ timers' = Disarm(ts, g, "start")
     /\ starting' = Append(starting, g)
     /\ UNCHANGED schedule

\* Mutated form: the tasks stop but the window stays open.
FireStopKeepsWindow(g) ==
  /\ timers' = Disarm(timers, g, "stop")
  /\ StopTasks(g)
  /\ UNCHANGED <<schedule, starting>>

\* fireStop: the tasks stop and the whole window is closed.
FireStop(g) ==
  /\ timers' = Disarm(timers, g, "stop")
  /\ StopTasks(g)
  /\ clearBoth(g)
  /\ UNCHANGED starting

\* finishStart and failReadiness, in the order the starts were asked for. A start
\* that has been cleared meanwhile is dropped, and so is one that is not ready,
\* cannot be built or throws.
FinishStart(g) ==
  /\ queue = <<>> /\ starting # <<>> /\ g = Head(starting)
  /\ starting' = Tail(starting)
  /\ \/ schedule[g].start = 0 /\ UNCHANGED <<schedule, engineVars>>
     \/ schedule[g].start # 0 /\ clearStart(g) /\ UNCHANGED engineVars
     \/ schedule[g].start # 0 /\ clearStart(g) /\ GuardedStart("tasks", g)
  /\ UNCHANGED <<now, edits, timers, queue, paused, session, lapsed, restoring>>

\* Mutated form: a start counts as due a moment before its time.
StartAlmostDue(g) == schedule[g].start \in 1 .. now + 1

StopDue(g) == schedule[g].stop \in 1 .. now
StartDue(g) == schedule[g].start \in 1 .. now

\* A start counts as missed when it is long past and nothing bounds the window.
StartStillValid(g) == now - schedule[g].start <= CatchUp \/ schedule[g].stop # 0

\* processGroup with evaluateScheduleAction. A start that is tried leaves the stop
\* timer armed.
ProcessGroup(g) ==
  \/ StopDue(g) /\ g \in running /\ FireStop(g)
  \/ /\ StopDue(g) /\ g \notin running
     /\ clearBoth(g)
     /\ UNCHANGED <<timers, starting, engineVars>>
  \/ /\ StartDue(g) /\ ~StopDue(g) /\ g \notin running /\ StartStillValid(g)
     /\ FireStart(g, Arm(timers, g, "stop", schedule[g].stop))
     /\ UNCHANGED engineVars
  \/ /\ StartDue(g) /\ ~StopDue(g) /\ (g \in running \/ ~StartStillValid(g))
     /\ clearStart(g)
     /\ timers' = Arm(timers, g, "stop", schedule[g].stop)
     /\ UNCHANGED <<starting, engineVars>>
  \/ /\ ~StartDue(g) /\ ~StopDue(g)
     /\ timers' = Arm(Arm(timers, g, "start", schedule[g].start), g, "stop", schedule[g].stop)
     /\ UNCHANGED <<schedule, starting, engineVars>>

\* One turn of the loop in sync.
SyncStep ==
  /\ queue # <<>>
  /\ queue' = Tail(queue)
  /\ ProcessGroup(Head(queue))
  /\ UNCHANGED <<now, edits, paused, session, lapsed, restoring>>

\* Mutated form: a sync does not ask whether the scheduler is paused.
SyncWhilePaused(isPaused) == timers' = NoTimers /\ queue' = GroupOrder

\* sync, called when the paused flag is isPaused: the timers go and the pass begins.
Sync(isPaused) ==
  IF isPaused THEN UNCHANGED <<timers, queue>> ELSE timers' = NoTimers /\ queue' = GroupOrder

\* Mutated form: a timer that was clipped is taken for due.
FireTimerDropsClipped(g, k) ==
  LET t == timers[g][k] IN
  /\ Idle /\ t # NoTimer /\ t.due <= now
  /\ \A h \in Groups, j \in Kinds : timers[h][j] # NoTimer => t.due <= timers[h][j].due
  /\ \/ /\ t.at > now
        /\ timers' = Disarm(timers, g, k)
        /\ UNCHANGED <<schedule, starting, engineVars>>
     \/ t.at <= now /\ k = "start" /\ FireStart(g, timers) /\ UNCHANGED engineVars
     \/ t.at <= now /\ k = "stop" /\ FireStop(g)
  /\ UNCHANGED <<now, edits, queue, paused, session, lapsed, restoring>>

\* The earliest due timer fires. One whose delay was clipped is armed again.
FireTimer(g, k) ==
  LET t == timers[g][k] IN
  /\ Idle /\ t # NoTimer /\ t.due <= now
  /\ \A h \in Groups, j \in Kinds : timers[h][j] # NoTimer => t.due <= timers[h][j].due
  /\ \/ /\ t.at > now
        /\ timers' = Arm(timers, g, k, t.at)
        /\ UNCHANGED <<schedule, starting, engineVars>>
     \/ t.at <= now /\ k = "start" /\ FireStart(g, timers) /\ UNCHANGED engineVars
     \/ t.at <= now /\ k = "stop" /\ FireStop(g)
  /\ UNCHANGED <<now, edits, queue, paused, session, lapsed, restoring>>

-----------------------------------------------------------------------------
(* the user, the engine and the licence *)

\* Time passes, also while the machine sleeps and no timer fires.
Tick ==
  /\ Idle /\ now < Horizon
  /\ now' = now + 1
  /\ UNCHANGED <<storeVars, schedVars, session, lapsed, restoring, engineVars>>

\* saveTaskGroups with another schedule for g.
SaveGroups(g, s) ==
  /\ Idle /\ edits < MaxEdits /\ s # schedule[g]
  /\ edits' = edits + 1
  /\ schedule' = [schedule EXCEPT ![g] = s]
  /\ Sync(paused)
  /\ UNCHANGED <<now, starting, paused, session, lapsed, restoring, engineVars>>

\* The user starts tasks or the monitor of g. The page refuses while it shows
\* another group active, but what it shows trails the engine and nothing in this
\* process asks again.
ManualStart(what, g) ==
  /\ Idle /\ session = "engine"
  /\ GuardedStart(what, g)
  /\ UNCHANGED <<now, storeVars, schedVars, session, lapsed, restoring>>

ManualStop(g) ==
  /\ Idle
  /\ StopTasks(g)
  /\ UNCHANGED <<now, storeVars, schedVars, session, lapsed, restoring>>

\* stopTargetMonitor: with tasks running only the wish for a monitor goes; without,
\* everything does. It calls the unguarded stopTarget.
StopMonitor ==
  /\ Idle /\ wanted
  /\ wanted' = FALSE
  /\ owner' = IF running # {} THEN owner ELSE None
  /\ UNCHANGED <<now, storeVars, schedVars, session, lapsed, restoring, running, launching>>

\* The last task of g reports that it no longer runs.
TaskEnd(g) ==
  /\ Idle /\ g \in running
  /\ running' = running \ {g}
  /\ UNCHANGED <<now, storeVars, schedVars, session, lapsed, restoring, wanted, owner, launching>>

\* failNativeEngineRuns: the engine process is gone.
EngineFailure ==
  /\ Idle /\ (running # {} \/ wanted)
  /\ running' = {} /\ ClearMonitorIntent
  /\ UNCHANGED <<now, storeVars, schedVars, session, lapsed, restoring, launching>>

\* The runtime is there, or could not be had: launchTargetAfterRuntime goes on. It
\* asks for a session but not for its kind.
LaunchReady ==
  /\ Idle /\ launching # None
  /\ launching' = None
  /\ \/ /\ session # "none"
        /\ IF launching[1] = "tasks" THEN StartTarget(launching[2])
           ELSE AdoptMonitor(launching[2]) /\ UNCHANGED running
     \/ UNCHANGED <<running, wanted, owner>>
  /\ UNCHANGED <<now, storeVars, schedVars, session, lapsed, restoring>>

\* onStatus with a good status: a sign-in, a change of the session's kind, or the
\* periodic check of a session that goes on.
LicenseOk(kind) ==
  /\ Idle
  /\ session' = kind /\ lapsed' = (lapsed /\ kind # "engine")
  /\ IF session = "engine" /\ kind = "harvester" THEN StopAll ELSE UNCHANGED engineVars
  /\ paused' = FALSE
  /\ Sync(FALSE)
  /\ UNCHANGED <<now, storeVars, starting, restoring>>

\* lock with onLock: signed out, replaced, or out of reach for too long. It may also lock a
\* session that is not active but has its token.
Lock ==
  /\ Idle
  /\ session' = "none" /\ lapsed' = FALSE
  /\ paused' = TRUE /\ timers' = NoTimers
  /\ StopAll
  /\ UNCHANGED <<now, storeVars, queue, starting, restoring>>

\* onStatus alone tells that the session is over: a check that finds no token, or a sign-in
\* that asks for a new password. Nothing is paused or stopped.
EndQuietly ==
  /\ Idle /\ session # "none"
  /\ session' = "none" /\ lapsed' = TRUE
  /\ UNCHANGED <<now, storeVars, schedVars, restoring, engineVars>>

\* cloudBackupRestore, up to the download.
RestoreBegin ==
  /\ Idle /\ session # "none" /\ ~restoring
  /\ restoring' = TRUE
  /\ paused' = TRUE /\ timers' = NoTimers
  /\ StopAll
  /\ UNCHANGED <<now, storeVars, queue, starting, session, lapsed>>

\* The download is over: the schedules of the backup, or the old ones after a
\* failure, and a sync; then resume if there is a session.
RestoreEnd ==
  /\ Idle /\ restoring
  /\ restoring' = FALSE
  /\ schedule' \in [Groups -> Schedules] \cup {schedule}
  /\ paused' = (paused /\ session = "none")
  /\ Sync(paused')
  /\ UNCHANGED <<now, edits, starting, session, lapsed, engineVars>>

\* cloudBackupRestore while another restore or a backup is under way: everything stops before
\* it is refused, and the scheduler resumes, even if the other restore has not ended.
RestoreRefused ==
  /\ Idle /\ session # "none"
  /\ StopAll
  /\ paused' = FALSE
  /\ Sync(FALSE)
  /\ UNCHANGED <<now, storeVars, starting, session, lapsed, restoring>>

\* The app ends or dies, and is opened again: only task-groups.json is left.
Restart ==
  /\ edits < MaxEdits
  /\ edits' = edits + 1
  /\ timers' = NoTimers /\ queue' = GroupOrder /\ starting' = <<>>
  /\ paused' = FALSE /\ session' = "none" /\ lapsed' = FALSE /\ restoring' = FALSE
  /\ running' = {} /\ ClearMonitorIntent /\ launching' = None
  /\ UNCHANGED <<now, schedule>>

Next ==
  \/ SyncStep \/ Tick \/ LaunchReady \/ StopMonitor \/ EngineFailure
  \/ Lock \/ EndQuietly \/ RestoreBegin \/ RestoreEnd \/ RestoreRefused \/ Restart
  \/ \E g \in Groups :
       \/ FinishStart(g) \/ ManualStop(g) \/ TaskEnd(g)
       \/ \E k \in Kinds : FireTimer(g, k)
       \/ \E s \in Schedules : SaveGroups(g, s)
       \/ \E what \in {"tasks", "monitor"} : ManualStart(what, g)
  \/ \E kind \in {"engine", "harvester"} : LicenseOk(kind)

Spec == Init /\ [][Next]_vars

\* Time goes on and the event loop serves due timers, however often a sync comes between.
FairSpec ==
  /\ Spec
  /\ WF_vars(SyncStep) /\ WF_vars(\E g \in Groups : FinishStart(g))
  /\ SF_vars(Tick) /\ SF_vars(\E g \in Groups, k \in Kinds : FireTimer(g, k))

-----------------------------------------------------------------------------
(* Properties *)

\* A start that is still in the store is not forgotten: unless the scheduler is
\* paused it has a timer, or its window closes before it could be tried again
\* and the stop timer will close it.
StartStaysArmed ==
  Idle /\ ~paused =>
    \A g \in Groups : schedule[g].start # 0 =>
      \/ timers[g]["start"] # NoTimer
      \/ /\ schedule[g].stop # 0 /\ now + RetryDelay >= schedule[g].stop
         /\ timers[g]["stop"] # NoTimer

\* Unless the scheduler is paused, every stored stop has a timer that is for it,
\* through edits, sign-ins, restores and timers clipped to the longest delay.
StopStaysArmed ==
  Idle /\ ~paused =>
    \A g \in Groups : schedule[g].stop # 0 => timers[g]["stop"].at = schedule[g].stop

\* A paused scheduler is silent: it has no timer that could start or stop a group
\* under a locked session.
PausedIsSilent == paused => timers = NoTimers /\ Idle

\* After a session was locked, or became a harvester's, no Target task runs and no monitor is
\* wanted until an engine session is back, whatever start was on its way when it ended. An
\* end without onLock does leave tasks running (LicenseSessionProofs, OnlyQuietEndsLeaveTasks).
SignedOutIdle == session # "engine" /\ ~lapsed => running = {} /\ ~wanted

\* What the scheduler launches is due by the schedule that is stored at the launch,
\* not by the one its timer or its readiness check was for.
LaunchesAreDue ==
  [][\A g \in Groups :
       /\ starting # <<>> /\ Head(starting) = g /\ starting' = Tail(starting)
       /\ (g \in running' \ running \/ (launching' # launching /\ launching' = <<"tasks", g>>))
       => schedule[g].start \in 1 .. now]_vars

\* A stop that is in the store is carried out or replaced, or the scheduler is
\* paused at some time.
StopBoundaryCloses ==
  \A g \in Groups, s \in {x.stop : x \in Schedules} \ {0} :
    schedule[g].stop = s ~> (schedule[g].stop # s \/ paused)
=============================================================================
