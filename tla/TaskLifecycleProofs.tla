------------------------- MODULE TaskLifecycleProofs -------------------------
(***************************************************************************)
(* Proofs about TaskLifecycle for any set of task ids, calls, stoppers and *)
(* sites and any limits. IInv is inductive; each of its conjuncts has a    *)
(* lemma saying that every step keeps it, given the conjuncts it needs.    *)
(***************************************************************************)
EXTENDS TaskLifecycle, FiniteSetTheorems, TLAPS

\* What the step lemmas need of the sets and of the small operators.
LEMMA Shapes ==
  /\ \A r \in Calls : r \in Stoppers /\ StartTimer(r) \in Timers /\ StopTimer(r) \in Timers
  /\ \A p \in Stoppers : IdOf(p) \in TaskIds
  /\ None \notin Timers
  /\ \A r \in Calls : TaskOf[r] \in TaskIds /\ SiteOf[r] \in Sites
  /\ {"idle", "checked", "waiting", "fired", "check", "armedStop", "dispatch", "dropped",
      "registered", "reserved", "flagged", "live", "loop", "step", "stopLoop", "stopReturn",
      "exited"} = PcValues
BY CallAssumption, NoneAssumption
   DEF Stoppers, Timers, StartTimer, StopTimer, IdOf, PcValues, Unregistered, Initialising

LEMMA DisarmType ==
  ASSUME TypeOK, NEW id \in TaskIds
  PROVE  Disarm(pending[id]) \in [Timers -> {"unset", "armed", "stopped", "fired"}]
BY DEF TypeOK, Disarm

LEMMA ClearType ==
  ASSUME TypeOK, NEW id \in TaskIds, clearPendingSchedule(id)
  PROVE  /\ timer' \in [Timers -> {"unset", "armed", "stopped", "fired"}]
         /\ pending' \in [TaskIds -> Timers \cup {None}]
BY DisarmType DEF TypeOK, clearPendingSchedule

LEMMA InitIInv == Init => IInv
<1>. SUFFICES ASSUME Init PROVE IInv
  OBVIOUS
<1>. USE CallAssumption, LimitAssumption, NoneAssumption DEF Init
<1>1. TypeOK
  BY Shapes DEF TypeOK
<1>2. SlotsCounted
  <2>1. \A s \in Sites : Holders(s) = {}
    BY DEF Holders
  <2>2. \A s \in Sites : siteRunning[s] = 0
    OBVIOUS
  <2>3. Cardinality({}) = 0
    BY FS_EmptySet
  <2>4. ASSUME NEW s \in Sites
        PROVE  siteRunning[s] = Cardinality(Holders(s)) /\ (s \in Limited => siteRunning[s] <= Limit[s])
    <3>1. siteRunning[s] = 0 /\ Holders(s) = {}
      BY <2>1, <2>2
    <3>2. siteRunning[s] = Cardinality(Holders(s))
      BY <3>1, <2>3, Zenon
    <3>3. s \in Limited => 0 <= Limit[s]
      OBVIOUS
    <3>. QED
      BY <3>1, <3>2, <3>3
  <2>. QED
    BY <2>4 DEF SlotsCounted
<1>3. StoppedNotRegistered /\ OneTerminalStatus /\ UnreachableOnlyByDoubleStart
  BY DEF StoppedNotRegistered, OneTerminalStatus, UnreachableOnlyByDoubleStart, Unstopped,
         Unregistered
<1>4. OnlyRegisteredStop /\ ContextAfterSlot
  BY DEF OnlyRegisteredStop, ContextAfterSlot, Unregistered, Initialising
<1>5. TimersOwned /\ ArmedTimersReachable
  BY Shapes DEF TimersOwned, ArmedTimersReachable
<1>. QED
  BY <1>1, <1>2, <1>3, <1>4, <1>5 DEF IInv

-----------------------------------------------------------------------------
LEMMA TypeStep == TypeOK /\ [Next]_vars => TypeOK'
<1>. SUFFICES ASSUME TypeOK, [Next]_vars PROVE TypeOK'
  OBVIOUS
<1>. USE Shapes DEF TypeOK, Goto, runVars, timerVars, stopperVars
<1>1. ASSUME NEW r \in Calls, CallStep(r) \/ StartTask(r) PROVE TypeOK'
  <2>1. CASE ParkStart(r)
    BY <2>1, DisarmType DEF ParkStart, setPendingSchedule
  <2>2. CASE StartCallback(r)
    BY <2>2, DisarmType DEF StartCallback, clearPendingSchedule
  <2>3. CASE ParkStop(r)
    BY <2>3, DisarmType DEF ParkStop, setPendingSchedule
  <2>4. CASE StartTask(r) \/ RefuseSite(r) \/ NoStopSchedule(r) \/ MissingProfile(r)
    BY <2>4 DEF StartTask, RefuseSite, NoStopSchedule, MissingProfile
  <2>5. CASE ArmStart(r) \/ ArmStop(r)
    BY <2>5 DEF ArmStart, ArmStop
  <2>6. CASE Register(r)
    BY <2>6 DEF Register
  <2>7. CASE ReserveSiteSlot(r)
    BY <2>7 DEF ReserveSiteSlot
  <2>8. CASE MarkSlotReserved(r) \/ CreateContext(r)
    BY <2>8 DEF MarkSlotReserved, CreateContext
  <2>9. CASE FinishInit(r)
    <3>1. \E to \in {"loop", "exited", "stopReturn"} : pc' = [pc EXCEPT ![r] = to]
      BY <2>9, Zenon DEF FinishInit
    <3>2. proxied' \subseteq TaskIds
      BY <2>9 DEF FinishInit, SwapProxy
    <3>3. pc' \in [Calls -> PcValues]
      BY <3>1
    <3>. QED
      BY <2>9, <3>2, <3>3 DEF FinishInit
  <2>10. CASE LoopHead(r) \/ LoopStep(r)
    BY <2>10 DEF LoopHead, LoopStep, SwapProxy
  <2>11. CASE SelfStop(r) \/ SelfStopReturns(r)
    BY <2>11 DEF SelfStop, SelfStopReturns, StopTask, BeginStop
  <2>. QED
    BY <1>1, <2>1, <2>2, <2>3, <2>4, <2>5, <2>6, <2>7, <2>8, <2>9, <2>10, <2>11 DEF CallStep
<1>2. ASSUME NEW r \in Calls, StopBody(r) PROVE TypeOK'
  <2>1. CASE QueueTerminalStatus(r)
    BY <2>1 DEF QueueTerminalStatus
  <2>2. CASE ReleaseResources(r)
    BY <2>2 DEF ReleaseResources
  <2>3. CASE Deregister(r)
    BY <2>3 DEF Deregister
  <2>. QED
    BY <1>2, <2>1, <2>2, <2>3 DEF StopBody
<1>3. ASSUME NEW r \in Calls, TimerFires(r) PROVE TypeOK'
  BY <1>3 DEF TimerFires, FireStart, FireStop, StopperAt
<1>4. ASSUME NEW p \in Stoppers, ReceiveStop(p) \/ StopperStep(p) PROVE TypeOK'
  <2>1. CASE ReceiveStop(p) \/ StopGet(p)
    BY <2>1 DEF ReceiveStop, StopGet, StopperAt
  <2>2. CASE StopCallback(p) \/ StopClear(p)
    <3>1. clearPendingSchedule(IdOf(p)) /\ IdOf(p) \in TaskIds
      BY <2>2 DEF StopCallback, StopClear
    <3>2. /\ timer' \in [Timers -> {"unset", "armed", "stopped", "fired"}]
          /\ pending' \in [TaskIds -> Timers \cup {None}]
      BY <3>1, ClearType
    <3>. QED
      BY <2>2, <3>2 DEF StopCallback, StopClear, StopperAt
  <2>3. CASE StopCall(p)
    BY <2>3 DEF StopCall, StopperAt, StopTask, BeginStop
  <2>. QED
    BY <1>4, <2>1, <2>2, <2>3 DEF StopperStep
<1>5. CASE UNCHANGED vars
  BY <1>5 DEF vars
<1>. QED
  BY <1>1, <1>2, <1>3, <1>4, <1>5 DEF Next, CallStep

-----------------------------------------------------------------------------
\* Who touches what: a step is the body of some run's stop, or the beginning of
\* one, or leaves the stop's progress, the contexts and the terminals alone.
LEMMA StopSteps ==
  ASSUME [Next]_vars
  PROVE  \/ UNCHANGED <<stopPhase, terminal>>
         \/ \E r \in Calls : StopBody(r)
         \/ \E r \in Calls : SelfStop(r)
         \/ \E p \in Stoppers : StopCall(p)
<1>. USE DEF runVars, timerVars, stopperVars
<1>1. ASSUME NEW r \in Calls, CallStep(r) \/ StartTask(r), ~SelfStop(r)
      PROVE  UNCHANGED <<stopPhase, terminal>>
  BY <1>1 DEF CallStep, StartTask, ParkStart, StartCallback, ParkStop, ArmStart, RefuseSite,
     ArmStop, NoStopSchedule, MissingProfile, Register, ReserveSiteSlot, MarkSlotReserved,
     CreateContext, FinishInit, LoopHead, LoopStep, SelfStopReturns
<1>2. ASSUME NEW r \in Calls, TimerFires(r) PROVE UNCHANGED <<stopPhase, terminal>>
  BY <1>2 DEF TimerFires, FireStart, FireStop
<1>3. ASSUME NEW p \in Stoppers, ReceiveStop(p) \/ StopperStep(p), ~StopCall(p)
      PROVE  UNCHANGED <<stopPhase, terminal>>
  BY <1>3 DEF ReceiveStop, StopperStep, StopCallback, StopClear, StopGet
<1>4. CASE UNCHANGED vars
  BY <1>4 DEF vars
<1>. QED
  BY <1>1, <1>2, <1>3, <1>4 DEF Next

LEMMA TerminalStep ==
  ASSUME TypeOK, OneTerminalStatus, [Next]_vars
  PROVE  OneTerminalStatus'
<1>. USE DEF TypeOK, OneTerminalStatus, runVars
<1>1. CASE UNCHANGED <<stopPhase, terminal>>
  BY <1>1
<1>2. ASSUME NEW r \in Calls, StopBody(r) PROVE OneTerminalStatus'
  BY <1>2 DEF StopBody, QueueTerminalStatus, ReleaseResources, Deregister
<1>3. ASSUME NEW r \in Calls, SelfStop(r) PROVE OneTerminalStatus'
  BY <1>3 DEF SelfStop, StopTask, BeginStop
<1>4. ASSUME NEW p \in Stoppers, StopCall(p) PROVE OneTerminalStatus'
  BY <1>4 DEF StopCall, StopTask, BeginStop
<1>. QED
  BY <1>1, <1>2, <1>3, <1>4, StopSteps

\* Register is the only way from the unregistered states to the others, and
\* there is no way back: the start timer fires in "waiting" only.
LEMMA RegistrationSteps ==
  ASSUME TypeOK, TimersOwned, [Next]_vars
  PROVE  \A r \in Calls : Register(r) \/ (pc[r] \in Unregistered <=> pc'[r] \in Unregistered)
<1>. USE DEF TypeOK, Goto, runVars, timerVars, stopperVars, Unregistered
<1>1. ASSUME NEW q \in Calls, CallStep(q) \/ StartTask(q)
      PROVE  \A r \in Calls : Register(r) \/ (pc[r] \in Unregistered <=> pc'[r] \in Unregistered)
  <2>1. CASE \/ ParkStart(q) \/ StartCallback(q) \/ ParkStop(q) \/ StartTask(q)
             \/ RefuseSite(q) \/ ArmStop(q) \/ ArmStart(q) \/ NoStopSchedule(q)
             \/ MissingProfile(q)
    BY <2>1 DEF ParkStart, StartCallback, ParkStop, StartTask, RefuseSite, ArmStop, ArmStart,
       NoStopSchedule, MissingProfile
  <2>2. CASE Register(q)
    <3>1. \A r \in Calls \ {q} : pc'[r] = pc[r]
      BY <2>2 DEF Register
    <3>. QED
      BY <2>2, <3>1
  <2>5. CASE ReserveSiteSlot(q) \/ MarkSlotReserved(q) \/ CreateContext(q)
    BY <2>5 DEF ReserveSiteSlot, MarkSlotReserved, CreateContext
  <2>3. CASE FinishInit(q) \/ LoopStep(q)
    <3>1. \E to \in {"loop", "exited", "stopReturn", "stopLoop"} : pc' = [pc EXCEPT ![q] = to]
      BY <2>3, Zenon DEF FinishInit, LoopStep
    <3>. QED
      BY <2>3, <3>1 DEF FinishInit, LoopStep
  <2>4. CASE LoopHead(q) \/ SelfStop(q) \/ SelfStopReturns(q)
    BY <2>4 DEF LoopHead, SelfStop, SelfStopReturns
  <2>. QED
    BY <1>1, <2>1, <2>2, <2>3, <2>4, <2>5 DEF CallStep
<1>2. ASSUME NEW q \in Calls, StopBody(q) PROVE UNCHANGED pc
  BY <1>2 DEF StopBody, QueueTerminalStatus, ReleaseResources, Deregister
<1>3. ASSUME NEW q \in Calls, TimerFires(q)
      PROVE  \A r \in Calls : Register(r) \/ (pc[r] \in Unregistered <=> pc'[r] \in Unregistered)
  BY <1>3 DEF TimerFires, FireStart, FireStop, TimersOwned
<1>4. ASSUME NEW p \in Stoppers, ReceiveStop(p) \/ StopperStep(p) PROVE UNCHANGED pc
  BY <1>4 DEF ReceiveStop, StopperStep, StopCallback, StopClear, StopGet, StopCall
<1>5. CASE UNCHANGED vars
  BY <1>5 DEF vars
<1>. QED
  BY <1>1, <1>2, <1>3, <1>4, <1>5 DEF Next

LEMMA RegistrySteps ==
  ASSUME [Next]_vars
  PROVE  \/ UNCHANGED registry
         \/ \E r \in Calls : Register(r)
         \/ \E r \in Calls : Deregister(r)
<1>. USE DEF runVars, timerVars, stopperVars
<1>1. ASSUME NEW r \in Calls, CallStep(r) \/ StartTask(r), ~Register(r)
      PROVE  UNCHANGED registry
  BY <1>1 DEF CallStep, StartTask, ParkStart, StartCallback, ParkStop, ArmStart, RefuseSite,
     ArmStop, NoStopSchedule, MissingProfile, ReserveSiteSlot, MarkSlotReserved, CreateContext,
     FinishInit, LoopHead, LoopStep, SelfStop, SelfStopReturns, StopTask, BeginStop
<1>2. ASSUME NEW r \in Calls, StopBody(r) \/ TimerFires(r), ~Deregister(r)
      PROVE  UNCHANGED registry
  BY <1>2 DEF StopBody, TimerFires, QueueTerminalStatus, ReleaseResources, FireStart, FireStop
<1>3. ASSUME NEW p \in Stoppers, ReceiveStop(p) \/ StopperStep(p) PROVE UNCHANGED registry
  BY <1>3 DEF ReceiveStop, StopperStep, StopCallback, StopClear, StopGet, StopCall, StopTask,
     BeginStop
<1>4. CASE UNCHANGED vars
  BY <1>4 DEF vars
<1>. QED
  BY <1>1, <1>2, <1>3, <1>4 DEF Next

\* What a stopper reads out of the registry, and that nothing else sets target.
LEMMA TargetSteps ==
  ASSUME [Next]_vars
  PROVE  \/ UNCHANGED stopperVars
         \/ \E p \in Stoppers : StopGet(p)
         \/ /\ UNCHANGED target
            /\ \E p \in Stoppers, to \in {"callback", "clear", "get", "done"} :
                 stopPc' = [stopPc EXCEPT ![p] = to]
<1>. USE DEF runVars, timerVars, stopperVars
<1>1. ASSUME NEW r \in Calls, CallStep(r) \/ StartTask(r) PROVE UNCHANGED stopperVars
  BY <1>1 DEF CallStep, StartTask, ParkStart, StartCallback, ParkStop, ArmStart, RefuseSite,
     ArmStop, NoStopSchedule, MissingProfile, Register, ReserveSiteSlot, MarkSlotReserved,
     CreateContext, FinishInit, LoopHead, LoopStep, SelfStop, SelfStopReturns
<1>2. ASSUME NEW r \in Calls, StopBody(r) \/ FireStart(r) PROVE UNCHANGED stopperVars
  BY <1>2 DEF StopBody, QueueTerminalStatus, ReleaseResources, Deregister, FireStart
<1>3. ASSUME NEW p \in Stoppers, FireStop(p) \/ ReceiveStop(p) \/ StopperStep(p), ~StopGet(p)
      PROVE  /\ UNCHANGED target
             /\ \E to \in {"callback", "clear", "get", "done"} :
                  stopPc' = [stopPc EXCEPT ![p] = to]
  BY <1>3 DEF FireStop, ReceiveStop, StopperStep, StopCallback, StopClear, StopCall, StopperAt
<1>4. CASE UNCHANGED vars
  BY <1>4 DEF vars
<1>. QED
  BY <1>1, <1>2, <1>3, <1>4, Shapes DEF Next, TimerFires

LEMMA StaysRegistered ==
  ASSUME TypeOK, TimersOwned, [Next]_vars
  PROVE  \A r \in Calls : pc[r] \notin Unregistered => pc'[r] \notin Unregistered
<1>1. \A r \in Calls : Register(r) => pc[r] \in Unregistered
  BY DEF Register, Unregistered
<1>. QED
  BY <1>1, RegistrationSteps

LEMMA RegisteredStopStep ==
  ASSUME TypeOK, TimersOwned, OnlyRegisteredStop, [Next]_vars
  PROVE  OnlyRegisteredStop'
<1>. USE DEF TypeOK, OnlyRegisteredStop, runVars, stopperVars
<1>1. \A id \in TaskIds : registry'[id] # None =>
        TaskOf[registry'[id]] = id /\ pc'[registry'[id]] \notin Unregistered
  <2>1. CASE UNCHANGED registry
    BY <2>1, StaysRegistered
  <2>2. ASSUME NEW r \in Calls, Register(r)
        PROVE  \A id \in TaskIds : registry'[id] # None =>
                 TaskOf[registry'[id]] = id /\ pc'[registry'[id]] \notin Unregistered
    <3>1. pc'[r] \notin Unregistered
      BY <2>2 DEF Register, Goto, Unregistered
    <3>2. registry' = [registry EXCEPT ![TaskOf[r]] = r]
      BY <2>2 DEF Register
    <3>. QED
      BY <3>1, <3>2, StaysRegistered
  <2>3. ASSUME NEW r \in Calls, Deregister(r)
        PROVE  \A id \in TaskIds : registry'[id] # None =>
                 TaskOf[registry'[id]] = id /\ pc'[registry'[id]] \notin Unregistered
    BY <2>3, StaysRegistered DEF Deregister
  <2>. QED
    BY <2>1, <2>2, <2>3, RegistrySteps
<1>2. /\ \A p \in Stoppers : target'[p] # None => pc'[target'[p]] \notin Unregistered
      /\ \A p \in Stoppers : stopPc'[p] = "stop" => target'[p] # None
  <2>1. ASSUME NEW q \in Stoppers, StopGet(q)
        PROVE  /\ \A p \in Stoppers : target'[p] # None => pc'[target'[p]] \notin Unregistered
               /\ \A p \in Stoppers : stopPc'[p] = "stop" => target'[p] # None
    BY <2>1, StaysRegistered, Shapes DEF StopGet, StopperAt
  <2>2. CASE UNCHANGED stopperVars
    BY <2>2, StaysRegistered
  <2>3. CASE /\ UNCHANGED target
             /\ \E p \in Stoppers, to \in {"callback", "clear", "get", "done"} :
                  stopPc' = [stopPc EXCEPT ![p] = to]
    BY <2>3, StaysRegistered
  <2>. QED
    BY <2>1, <2>2, <2>3, TargetSteps
<1>3. \A r \in Calls : stopPhase'[r] # "none" => pc'[r] \notin Unregistered
  <2>1. CASE UNCHANGED <<stopPhase, terminal>>
    BY <2>1, StaysRegistered
  <2>2. ASSUME NEW r \in Calls, StopBody(r)
        PROVE  \A q \in Calls : stopPhase'[q] # "none" => pc'[q] \notin Unregistered
    BY <2>2, StaysRegistered
       DEF StopBody, QueueTerminalStatus, ReleaseResources, Deregister
  <2>3. ASSUME NEW r \in Calls, SelfStop(r)
        PROVE  \A q \in Calls : stopPhase'[q] # "none" => pc'[q] \notin Unregistered
    BY <2>3, StaysRegistered DEF SelfStop, StopTask, BeginStop, Unregistered
  <2>4. ASSUME NEW p \in Stoppers, StopCall(p)
        PROVE  \A q \in Calls : stopPhase'[q] # "none" => pc'[q] \notin Unregistered
    BY <2>4, StaysRegistered DEF StopCall, StopperAt, StopTask, BeginStop
  <2>. QED
    BY <2>1, <2>2, <2>3, <2>4, StopSteps
<1>. QED
  BY <1>1, <1>2, <1>3

\* The body of a stop goes forward only.
LEMMA StopProgress ==
  ASSUME TypeOK, [Next]_vars
  PROVE  \A r \in Calls : /\ stopPhase'[r] = "none" => stopPhase[r] = "none"
                          /\ stopPhase'[r] = "done" => stopPhase[r] = "done" \/ Deregister(r)
<1>. USE DEF TypeOK, runVars
<1>1. CASE UNCHANGED <<stopPhase, terminal>>
  BY <1>1
<1>2. ASSUME NEW q \in Calls, StopBody(q)
      PROVE  \A r \in Calls : /\ stopPhase'[r] = "none" => stopPhase[r] = "none"
                              /\ stopPhase'[r] = "done" => stopPhase[r] = "done" \/ Deregister(r)
  <2>1. CASE Deregister(q)
    <3>1. stopPhase' = [stopPhase EXCEPT ![q] = "done"]
      BY <2>1 DEF Deregister
    <3>. QED
      BY <2>1, <3>1
  <2>2. CASE QueueTerminalStatus(q) \/ ReleaseResources(q)
    BY <2>2 DEF QueueTerminalStatus, ReleaseResources
  <2>. QED
    BY <1>2, <2>1, <2>2 DEF StopBody
<1>3. ASSUME NEW q \in Calls, SelfStop(q)
      PROVE  \A r \in Calls : /\ stopPhase'[r] = "none" => stopPhase[r] = "none"
                              /\ stopPhase'[r] = "done" => stopPhase[r] = "done" \/ Deregister(r)
  BY <1>3 DEF SelfStop, StopTask, BeginStop
<1>4. ASSUME NEW p \in Stoppers, StopCall(p)
      PROVE  \A r \in Calls : /\ stopPhase'[r] = "none" => stopPhase[r] = "none"
                              /\ stopPhase'[r] = "done" => stopPhase[r] = "done" \/ Deregister(r)
  BY <1>4 DEF StopCall, StopTask, BeginStop
<1>. QED
  BY <1>1, <1>2, <1>3, <1>4, StopSteps

LEMMA StoppedStep ==
  ASSUME TypeOK, OnlyRegisteredStop, StoppedNotRegistered, [Next]_vars
  PROVE  StoppedNotRegistered'
<1>. SUFFICES ASSUME NEW r \in Calls, NEW id \in TaskIds, stopPhase'[r] = "done"
              PROVE  registry'[id] # r
  BY DEF StoppedNotRegistered
<1>. USE NoneAssumption, CallAssumption DEF TypeOK, OnlyRegisteredStop
<1>1. CASE Deregister(r)
  BY <1>1 DEF Deregister
<1>2. CASE ~Deregister(r)
  <2>1. stopPhase[r] = "done" /\ registry[id] # r
    BY <1>2, StopProgress DEF StoppedNotRegistered
  <2>2. ASSUME NEW q \in Calls, Register(q) PROVE registry'[id] # r
    <3>1. q # r
      BY <2>1, <2>2 DEF Register, Unregistered
    <3>. QED
      BY <2>1, <2>2, <3>1 DEF Register
  <2>3. ASSUME NEW q \in Calls, Deregister(q) PROVE registry'[id] # r
    BY <2>1, <2>3 DEF Deregister
  <2>. QED
    BY <2>1, <2>2, <2>3, RegistrySteps
<1>. QED
  BY <1>1, <1>2

LEMMA UnreachableStep ==
  ASSUME TypeOK, TimersOwned, OnlyRegisteredStop, UnreachableOnlyByDoubleStart, [Next]_vars
  PROVE  UnreachableOnlyByDoubleStart'
<1>. SUFFICES ASSUME NEW r \in Calls, pc'[r] \notin Unregistered, stopPhase'[r] = "none",
                     registry'[TaskOf[r]] # r
              PROVE  \E q \in Calls \ {r} : TaskOf[q] = TaskOf[r] /\ pc'[q] \notin Unregistered
  BY DEF UnreachableOnlyByDoubleStart, Unstopped
<1>. USE CallAssumption DEF TypeOK, OnlyRegisteredStop
<1>1. pc[r] \notin Unregistered
  <2>1. ~Register(r)
    BY DEF Register
  <2>. QED
    BY <2>1, RegistrationSteps
<1>2. stopPhase[r] = "none"
  BY StopProgress
<1>3. CASE registry[TaskOf[r]] # r
  <2>1. PICK q \in Calls \ {r} : TaskOf[q] = TaskOf[r] /\ pc[q] \notin Unregistered
    BY <1>1, <1>2, <1>3 DEF UnreachableOnlyByDoubleStart, Unstopped
  <2>. QED
    BY <2>1, StaysRegistered
<1>4. ASSUME NEW q \in Calls, Register(q), registry[TaskOf[r]] = r
      PROVE  q # r /\ TaskOf[q] = TaskOf[r] /\ pc'[q] \notin Unregistered
  BY <1>1, <1>4 DEF Register, Goto, Unregistered
<1>5. ASSUME NEW q \in Calls, Deregister(q), registry[TaskOf[r]] = r
      PROVE  q # r /\ TaskOf[q] = TaskOf[r] /\ pc'[q] \notin Unregistered
  BY <1>2, <1>5, StaysRegistered DEF Deregister
<1>. QED
  BY <1>3, <1>4, <1>5, RegistrySteps

-----------------------------------------------------------------------------
\* Slots and contexts.

LEMMA SlotSteps ==
  ASSUME TypeOK, TimersOwned, [Next]_vars
  PROVE  \/ /\ UNCHANGED <<siteRunning, slotFlag>>
            /\ \A r \in Calls : pc'[r] = "reserved" <=> pc[r] = "reserved"
         \/ \E r \in Calls : ReserveSiteSlot(r) \/ MarkSlotReserved(r) \/ ReleaseResources(r)
<1>. DEFINE Same == /\ UNCHANGED <<siteRunning, slotFlag>>
                    /\ \A r \in Calls : pc'[r] = "reserved" <=> pc[r] = "reserved"
<1>. USE DEF TypeOK, Goto, runVars, timerVars, stopperVars
<1>1. ASSUME NEW q \in Calls, CallStep(q) \/ StartTask(q), ~ReserveSiteSlot(q),
             ~MarkSlotReserved(q)
      PROVE  Same
  <2>1. CASE \/ ParkStart(q) \/ StartCallback(q) \/ ParkStop(q) \/ StartTask(q)
             \/ RefuseSite(q) \/ ArmStop(q) \/ ArmStart(q) \/ NoStopSchedule(q)
             \/ MissingProfile(q) \/ Register(q) \/ CreateContext(q)
    BY <2>1 DEF ParkStart, StartCallback, ParkStop, StartTask, RefuseSite, ArmStop, ArmStart,
       NoStopSchedule, MissingProfile, Register, CreateContext
  <2>2. CASE FinishInit(q) \/ LoopStep(q)
    <3>1. \E to \in {"loop", "exited", "stopReturn", "stopLoop"} : pc' = [pc EXCEPT ![q] = to]
      BY <2>2, Zenon DEF FinishInit, LoopStep
    <3>. QED
      BY <2>2, <3>1 DEF FinishInit, LoopStep
  <2>3. CASE LoopHead(q) \/ SelfStop(q) \/ SelfStopReturns(q)
    BY <2>3 DEF LoopHead, SelfStop, SelfStopReturns, StopTask, BeginStop
  <2>. QED
    BY <1>1, <2>1, <2>2, <2>3 DEF CallStep
<1>2. ASSUME NEW q \in Calls, StopBody(q), ~ReleaseResources(q) PROVE Same
  BY <1>2 DEF StopBody, QueueTerminalStatus, Deregister
<1>3. ASSUME NEW q \in Calls, TimerFires(q) PROVE Same
  BY <1>3 DEF TimerFires, FireStart, FireStop, TimersOwned
<1>4. ASSUME NEW p \in Stoppers, ReceiveStop(p) \/ StopperStep(p) PROVE Same
  BY <1>4 DEF ReceiveStop, StopperStep, StopCallback, StopClear, StopGet, StopCall, StopTask,
     BeginStop
<1>5. CASE UNCHANGED vars
  BY <1>5 DEF vars
<1>. QED
  BY <1>1, <1>2, <1>3, <1>4, <1>5 DEF Next

LEMMA HoldersFinite ==
  /\ \A s \in Sites : IsFiniteSet(Holders(s)) /\ Cardinality(Holders(s)) \in Nat
  /\ (\A s \in Sites : IsFiniteSet(Holders(s)))'
<1>1. \A s \in Sites : Holders(s) \in SUBSET Calls /\ (Holders(s) \in SUBSET Calls)'
  BY DEF Holders
<1>. QED
  BY <1>1, CallAssumption, FS_Subset, FS_CardinalityType

LEMMA SlotsStep ==
  ASSUME TypeOK, TimersOwned, ContextAfterSlot, SlotsCounted, [Next]_vars
  PROVE  SlotsCounted'
<1>. SUFFICES ASSUME NEW s \in Sites
              PROVE  /\ siteRunning'[s] = Cardinality(Holders(s)')
                     /\ s \in Limited => siteRunning'[s] <= Limit[s]
  BY DEF SlotsCounted
<1>. USE DEF TypeOK
<1>0. /\ siteRunning[s] = Cardinality(Holders(s)) /\ siteRunning[s] \in Nat
      /\ s \in Limited => siteRunning[s] <= Limit[s] /\ Limit[s] \in Nat
      /\ IsFiniteSet(Holders(s))
  BY HoldersFinite, LimitAssumption DEF SlotsCounted
<1>1. CASE /\ UNCHANGED <<siteRunning, slotFlag>>
           /\ \A r \in Calls : pc'[r] = "reserved" <=> pc[r] = "reserved"
  <2>1. Holders(s)' = Holders(s)
    BY <1>1 DEF Holders
  <2>. QED
    BY <1>0, <1>1, <2>1
<1>2. ASSUME NEW r \in Calls, MarkSlotReserved(r)
      PROVE  siteRunning' = siteRunning /\ Holders(s)' = Holders(s)
  BY <1>2 DEF MarkSlotReserved, Goto, Holders
<1>3. ASSUME NEW r \in Calls, ReserveSiteSlot(r)
      PROVE  /\ siteRunning'[s] = Cardinality(Holders(s)')
             /\ s \in Limited => siteRunning'[s] <= Limit[s]
  <2>0. r \notin Holders(s)
    BY <1>3 DEF ReserveSiteSlot, Holders, ContextAfterSlot
  <2>1. CASE SiteOf[r] = s /\ ~AtLimit(s)
    <3>1. Holders(s)' = Holders(s) \cup {r}
      BY <1>3, <2>1 DEF ReserveSiteSlot, Goto, Holders
    <3>2. siteRunning'[s] = siteRunning[s] + 1
      BY <1>3, <2>1 DEF ReserveSiteSlot
    <3>3. Cardinality(Holders(s) \cup {r}) = Cardinality(Holders(s)) + 1
      BY <1>0, <2>0, FS_AddElement
    <3>4. s \in Limited => siteRunning[s] < Limit[s]
      BY <1>0, <2>1 DEF AtLimit
    <3>. QED
      BY <1>0, <3>1, <3>2, <3>3, <3>4
  <2>2. CASE SiteOf[r] # s \/ AtLimit(s)
    <3>1. Holders(s)' = Holders(s) /\ siteRunning'[s] = siteRunning[s]
      BY <1>3, <2>2, Shapes DEF ReserveSiteSlot, Goto, Holders
    <3>. QED
      BY <1>0, <3>1
  <2>. QED
    BY <2>1, <2>2
<1>4. ASSUME NEW r \in Calls, ReleaseResources(r)
      PROVE  /\ siteRunning'[s] = Cardinality(Holders(s)')
             /\ s \in Limited => siteRunning'[s] <= Limit[s]
  <2>1. CASE SiteOf[r] = s /\ slotFlag[r]
    <3>1. r \in Holders(s) /\ Holders(s)' = Holders(s) \ {r}
      BY <1>4, <2>1 DEF ReleaseResources, Holders, ContextAfterSlot
    <3>2. Cardinality(Holders(s) \ {r}) = Cardinality(Holders(s)) - 1
      BY <1>0, <3>1, FS_RemoveElement
    <3>3. siteRunning[s] > 0
      <4>1. Holders(s) # {}
        BY <3>1
      <4>2. Cardinality(Holders(s)) # 0
        BY <1>0, <4>1, FS_EmptySet
      <4>. QED
        BY <1>0, <4>2
    <3>4. siteRunning'[s] = siteRunning[s] - 1
      BY <1>4, <2>1, <3>3 DEF ReleaseResources
    <3>. QED
      BY <1>0, <3>1, <3>2, <3>4
  <2>2. CASE SiteOf[r] # s \/ ~slotFlag[r]
    <3>1. Holders(s)' = Holders(s) /\ siteRunning'[s] = siteRunning[s]
      BY <1>4, <2>2, Shapes DEF ReleaseResources, Holders
    <3>. QED
      BY <1>0, <3>1
  <2>. QED
    BY <2>1, <2>2
<1>. QED
  BY <1>0, <1>1, <1>2, <1>3, <1>4, SlotSteps

LEMMA ContextStep ==
  ASSUME TypeOK, TimersOwned, OnlyRegisteredStop, ContextAfterSlot, [Next]_vars
  PROVE  ContextAfterSlot'
<1>. USE DEF TypeOK, Goto, ContextAfterSlot, OnlyRegisteredStop, runVars, timerVars, stopperVars,
             Unregistered, Initialising
<1>1. ASSUME NEW q \in Calls, CallStep(q) \/ StartTask(q) PROVE ContextAfterSlot'
  <2>1. CASE \/ ParkStart(q) \/ StartCallback(q) \/ ParkStop(q) \/ StartTask(q)
             \/ RefuseSite(q) \/ ArmStop(q) \/ ArmStart(q) \/ NoStopSchedule(q)
             \/ MissingProfile(q) \/ Register(q)
    BY <2>1 DEF ParkStart, StartCallback, ParkStop, StartTask, RefuseSite, ArmStop, ArmStart,
       NoStopSchedule, MissingProfile, Register
  <2>2. CASE ReserveSiteSlot(q)
    BY <2>2 DEF ReserveSiteSlot
  <2>3. CASE MarkSlotReserved(q)
    BY <2>3 DEF MarkSlotReserved
  <2>4. CASE CreateContext(q)
    BY <2>4 DEF CreateContext
  <2>5. CASE FinishInit(q) \/ LoopStep(q)
    <3>1. \E to \in {"loop", "exited", "stopReturn", "stopLoop"} : pc' = [pc EXCEPT ![q] = to]
      BY <2>5, Zenon DEF FinishInit, LoopStep
    <3>2. UNCHANGED <<ctx, slotFlag, stopPhase>>
      BY <2>5 DEF FinishInit, LoopStep
    <3>. QED
      BY <2>5, <3>1, <3>2
  <2>6. CASE LoopHead(q) \/ SelfStopReturns(q)
    BY <2>6 DEF LoopHead, SelfStopReturns
  <2>7. CASE SelfStop(q)
    BY <2>7 DEF SelfStop, StopTask, BeginStop
  <2>. QED
    BY <1>1, <2>1, <2>2, <2>3, <2>4, <2>5, <2>6, <2>7 DEF CallStep
<1>2. ASSUME NEW q \in Calls, StopBody(q) PROVE ContextAfterSlot'
  <2>1. CASE QueueTerminalStatus(q)
    BY <2>1 DEF QueueTerminalStatus
  <2>2. CASE ReleaseResources(q)
    BY <2>2 DEF ReleaseResources
  <2>3. CASE Deregister(q)
    BY <2>3 DEF Deregister
  <2>. QED
    BY <1>2, <2>1, <2>2, <2>3 DEF StopBody
<1>3. ASSUME NEW q \in Calls, TimerFires(q) PROVE ContextAfterSlot'
  BY <1>3 DEF TimerFires, FireStart, FireStop, TimersOwned
<1>4. ASSUME NEW p \in Stoppers, ReceiveStop(p) \/ StopperStep(p) PROVE ContextAfterSlot'
  <2>1. CASE StopCall(p)
    BY <2>1 DEF StopCall, StopperAt, StopTask, BeginStop
  <2>. QED
    BY <1>4, <2>1 DEF ReceiveStop, StopperStep, StopCallback, StopClear, StopGet
<1>5. CASE UNCHANGED vars
  BY <1>5 DEF vars
<1>. QED
  BY <1>1, <1>2, <1>3, <1>4, <1>5 DEF Next

-----------------------------------------------------------------------------
\* Timers.

LEMMA TimerShapes ==
  /\ \A r \in Calls : /\ StartTimer(r) \in Timers /\ StopTimer(r) \in Timers
                      /\ StartTimer(r)[1] = r /\ StartTimer(r)[2] = "start"
                      /\ StopTimer(r)[1] = r /\ StopTimer(r)[2] = "stop"
  /\ \A t \in Timers : /\ t[1] \in Calls /\ TaskOf[t[1]] \in TaskIds
                       /\ t = StartTimer(t[1]) \/ t = StopTimer(t[1])
  /\ None \notin Timers
BY CallAssumption, NoneAssumption DEF Timers, StartTimer, StopTimer

\* Taking an entry back leaves no timer armed that was not, and never the one
\* that was taken back.
LEMMA DisarmArms ==
  ASSUME TypeOK, NEW id \in TaskIds
  PROVE  \A u \in Timers : Disarm(pending[id])[u] = "armed" =>
           timer[u] = "armed" /\ u # pending[id]
BY TimerShapes DEF TypeOK, Disarm

\* A step sets an entry, clears one, arms a timer, fires one or leaves them be.
LEMMA TimerSteps ==
  ASSUME [Next]_vars
  PROVE  \/ UNCHANGED timerVars
         \/ \E r \in Calls : ParkStart(r) \/ ParkStop(r)
         \/ \E id \in TaskIds : clearPendingSchedule(id) /\ UNCHANGED parking
         \/ \E r \in Calls : ArmStart(r) \/ ArmStop(r) \/ TimerFires(r)
<1>. USE Shapes DEF runVars, timerVars, stopperVars
<1>1. ASSUME NEW r \in Calls, CallStep(r) \/ StartTask(r), ~ParkStart(r), ~ParkStop(r),
             ~ArmStart(r), ~ArmStop(r), ~StartCallback(r)
      PROVE  UNCHANGED timerVars
  BY <1>1 DEF CallStep, StartTask, RefuseSite, NoStopSchedule, MissingProfile, Register,
     ReserveSiteSlot, MarkSlotReserved, CreateContext, FinishInit, LoopHead, LoopStep, SelfStop,
     SelfStopReturns
<1>2. ASSUME NEW r \in Calls, StartCallback(r)
      PROVE  \E id \in TaskIds : clearPendingSchedule(id) /\ UNCHANGED parking
  BY <1>2 DEF StartCallback
<1>3. ASSUME NEW r \in Calls, StopBody(r) PROVE UNCHANGED timerVars
  BY <1>3 DEF StopBody, QueueTerminalStatus, ReleaseResources, Deregister
<1>4. ASSUME NEW p \in Stoppers, StopCallback(p) \/ StopClear(p)
      PROVE  \E id \in TaskIds : clearPendingSchedule(id) /\ UNCHANGED parking
  BY <1>4 DEF StopCallback, StopClear
<1>5. ASSUME NEW p \in Stoppers, ReceiveStop(p) \/ StopGet(p) \/ StopCall(p)
      PROVE  UNCHANGED timerVars
  BY <1>5 DEF ReceiveStop, StopGet, StopCall
<1>6. CASE UNCHANGED vars
  BY <1>6 DEF vars
<1>. QED
  BY <1>1, <1>2, <1>3, <1>4, <1>5, <1>6 DEF Next, CallStep, StopperStep

\* A call waits, or stands between arming and storing its stop timer, until the
\* step that ends it.
LEMMA WaitingSteps ==
  ASSUME TypeOK, TimersOwned, [Next]_vars
  PROVE  \A r \in Calls : /\ pc[r] = "waiting" => pc'[r] = "waiting" \/ FireStart(r)
                          /\ pc[r] = "armedStop" => pc'[r] = "armedStop" \/ ParkStop(r)
<1>. DEFINE Kept(r) == /\ pc[r] = "waiting" => pc'[r] = "waiting" \/ FireStart(r)
                       /\ pc[r] = "armedStop" => pc'[r] = "armedStop" \/ ParkStop(r)
<1>. USE DEF TypeOK, Goto, runVars, timerVars, stopperVars
<1>1. ASSUME NEW q \in Calls, CallStep(q) \/ StartTask(q) PROVE \A r \in Calls : Kept(r)
  <2>1. CASE ParkStop(q)
    <3>1. \A r \in Calls \ {q} : pc'[r] = pc[r]
      BY <2>1 DEF ParkStop
    <3>2. pc[q] = "armedStop"
      BY <2>1 DEF ParkStop
    <3>. QED
      BY <2>1, <3>1, <3>2
  <2>2. CASE \/ ParkStart(q) \/ StartCallback(q) \/ StartTask(q) \/ RefuseSite(q) \/ ArmStop(q)
             \/ ArmStart(q) \/ NoStopSchedule(q) \/ MissingProfile(q) \/ Register(q)
    BY <2>2 DEF ParkStart, StartCallback, StartTask, RefuseSite, ArmStop, ArmStart,
       NoStopSchedule, MissingProfile, Register
  <2>3. CASE \/ ReserveSiteSlot(q) \/ MarkSlotReserved(q) \/ CreateContext(q) \/ LoopHead(q)
             \/ SelfStop(q) \/ SelfStopReturns(q)
    BY <2>3 DEF ReserveSiteSlot, MarkSlotReserved, CreateContext, LoopHead, SelfStop,
       SelfStopReturns
  <2>4. CASE FinishInit(q) \/ LoopStep(q)
    <3>1. \A r \in Calls \ {q} : pc'[r] = pc[r]
      BY <2>4 DEF FinishInit, LoopStep
    <3>2. pc[q] \in {"live", "step"}
      BY <2>4 DEF FinishInit, LoopStep
    <3>. QED
      BY <3>1, <3>2
  <2>. QED
    BY <1>1, <2>1, <2>2, <2>3, <2>4 DEF CallStep
<1>2. ASSUME NEW q \in Calls, StopBody(q) PROVE UNCHANGED pc
  BY <1>2 DEF StopBody, QueueTerminalStatus, ReleaseResources, Deregister
<1>3. ASSUME NEW q \in Calls, TimerFires(q) PROVE \A r \in Calls : Kept(r)
  <2>1. CASE FireStart(q)
    <3>1. \A r \in Calls \ {q} : pc'[r] = pc[r]
      BY <2>1 DEF FireStart
    <3>2. pc[q] = "waiting"
      BY <2>1 DEF FireStart, TimersOwned
    <3>. QED
      BY <2>1, <3>1, <3>2
  <2>. QED
    BY <1>3, <2>1 DEF TimerFires, FireStop
<1>4. ASSUME NEW p \in Stoppers, ReceiveStop(p) \/ StopperStep(p) PROVE UNCHANGED pc
  BY <1>4 DEF ReceiveStop, StopperStep, StopCallback, StopClear, StopGet, StopCall
<1>5. CASE UNCHANGED vars
  BY <1>5 DEF vars
<1>. QED
  BY <1>1, <1>2, <1>3, <1>4, <1>5 DEF Next

LEMMA TimersOwnedStep ==
  ASSUME TypeOK, TimersOwned, [Next]_vars
  PROVE  TimersOwned'
<1>. USE TimerShapes DEF TypeOK
<1>1. ASSUME NEW r \in Calls, timer'[StartTimer(r)] = "armed", ~FireStart(r)
      PROVE  pc'[r] = "waiting"
  <2>1. timer[StartTimer(r)] = "armed" => pc'[r] = "waiting"
    BY <1>1, WaitingSteps DEF TimersOwned
  <2>2. CASE UNCHANGED timerVars
    BY <1>1, <2>1, <2>2 DEF timerVars
  <2>3. ASSUME NEW q \in Calls, ParkStart(q) \/ ParkStop(q) PROVE timer[StartTimer(r)] = "armed"
    BY <1>1, <2>3, DisarmArms, Shapes DEF ParkStart, ParkStop, setPendingSchedule
  <2>4. ASSUME NEW id \in TaskIds, clearPendingSchedule(id) PROVE timer[StartTimer(r)] = "armed"
    BY <1>1, <2>4, DisarmArms DEF clearPendingSchedule
  <2>5. ASSUME NEW q \in Calls, ArmStart(q)
        PROVE  timer[StartTimer(r)] = "armed" \/ pc'[r] = "waiting"
    BY <1>1, <2>5 DEF ArmStart, Goto
  <2>6. ASSUME NEW q \in Calls, ArmStop(q) \/ TimerFires(q)
        PROVE  timer[StartTimer(r)] = "armed"
    <3>1. \A t \in Timers : timer'[t] = "armed" => timer[t] = "armed" \/ t = StopTimer(q)
      BY <2>6 DEF ArmStop, TimerFires, FireStart, FireStop
    <3>. QED
      BY <1>1, <3>1
  <2>. QED
    BY <2>1, <2>2, <2>3, <2>4, <2>5, <2>6, TimerSteps
<1>2. ASSUME NEW r \in Calls, FireStart(r) PROVE timer'[StartTimer(r)] # "armed"
  BY <1>2 DEF FireStart
<1>3. ASSUME NEW id \in TaskIds, pending'[id] # None PROVE TaskOf[pending'[id][1]] = id
  <2>1. CASE UNCHANGED pending
    BY <1>3, <2>1 DEF TimersOwned
  <2>2. ASSUME NEW q \in Calls, ParkStart(q) \/ ParkStop(q) PROVE TaskOf[pending'[id][1]] = id
    BY <1>3, <2>2, Shapes DEF TimersOwned, ParkStart, ParkStop, setPendingSchedule
  <2>3. ASSUME NEW i \in TaskIds, clearPendingSchedule(i) PROVE TaskOf[pending'[id][1]] = id
    BY <1>3, <2>3 DEF TimersOwned, clearPendingSchedule
  <2>4. ASSUME NEW q \in Calls, ArmStart(q) \/ ArmStop(q) \/ TimerFires(q)
        PROVE  UNCHANGED pending
    BY <2>4 DEF ArmStart, ArmStop, TimerFires, FireStart, FireStop
  <2>. QED
    BY <2>1, <2>2, <2>3, <2>4, TimerSteps DEF timerVars
<1>. QED
  BY <1>1, <1>2, <1>3 DEF TimersOwned

LEMMA ArmedStep ==
  ASSUME TypeOK, TimersOwned, ArmedTimersReachable, [Next]_vars
  PROVE  ArmedTimersReachable'
<1>. SUFFICES ASSUME NEW t \in Timers, timer'[t] = "armed"
              PROVE  \/ pending'[TaskOf[t[1]]] = t
                     \/ t[2] = "start" /\ t[1] \in parking'
                     \/ t[2] = "stop" /\ pc'[t[1]] = "armedStop"
  BY DEF ArmedTimersReachable
<1>. DEFINE Found == \/ pending'[TaskOf[t[1]]] = t
                     \/ t[2] = "start" /\ t[1] \in parking'
                     \/ t[2] = "stop" /\ pc'[t[1]] = "armedStop"
<1>. USE TimerShapes DEF TypeOK
\* What it takes, when t was armed before: the entry stays, or it is t's own
\* call that stores it.
<1>1. ASSUME timer[t] = "armed", pending[TaskOf[t[1]]] = t => pending'[TaskOf[t[1]]] = t,
             t[1] \in parking => t[1] \in parking' \/ pending'[TaskOf[t[1]]] = StartTimer(t[1])
      PROVE  Found
  <2>1. CASE t[2] = "stop" /\ pc[t[1]] = "armedStop"
    <3>1. CASE ParkStop(t[1])
      BY <2>1, <3>1 DEF ParkStop, setPendingSchedule
    <3>. QED
      BY <2>1, <3>1, WaitingSteps
  <2>. QED
    BY <1>1, <2>1 DEF ArmedTimersReachable
<1>2. CASE UNCHANGED timerVars
  BY <1>1, <1>2 DEF timerVars
<1>3. ASSUME NEW q \in Calls, ParkStart(q) \/ ParkStop(q) PROVE Found
  <2>1. timer[t] = "armed" /\ t # pending[TaskOf[q]]
    BY <1>3, DisarmArms DEF ParkStart, ParkStop, setPendingSchedule
  <2>2. pending[TaskOf[t[1]]] = t => pending'[TaskOf[t[1]]] = t
    BY <1>3, <2>1 DEF ParkStart, ParkStop, setPendingSchedule
  <2>3. t[1] \in parking => t[1] \in parking' \/ pending'[TaskOf[t[1]]] = StartTimer(t[1])
    BY <1>3 DEF ParkStart, ParkStop, setPendingSchedule
  <2>. QED
    BY <1>1, <2>1, <2>2, <2>3
<1>4. ASSUME NEW id \in TaskIds, clearPendingSchedule(id), UNCHANGED parking PROVE Found
  <2>1. timer[t] = "armed" /\ t # pending[id]
    BY <1>4, DisarmArms DEF clearPendingSchedule
  <2>2. pending[TaskOf[t[1]]] = t => pending'[TaskOf[t[1]]] = t
    BY <1>4, <2>1 DEF clearPendingSchedule
  <2>. QED
    BY <1>1, <1>4, <2>1, <2>2
<1>5. ASSUME NEW q \in Calls, ArmStart(q) \/ ArmStop(q) PROVE Found
  <2>1. CASE timer[t] = "armed"
    BY <1>1, <1>5, <2>1 DEF ArmStart, ArmStop
  <2>2. CASE timer[t] # "armed"
    BY <1>5, <2>2 DEF ArmStart, ArmStop, Goto
  <2>. QED
    BY <2>1, <2>2
<1>6. ASSUME NEW q \in Calls, TimerFires(q) PROVE Found
  <2>1. timer[t] = "armed"
    BY <1>6 DEF TimerFires, FireStart, FireStop
  <2>. QED
    BY <1>1, <1>6, <2>1 DEF TimerFires, FireStart, FireStop
<1>. QED
  BY <1>2, <1>3, <1>4, <1>5, <1>6, TimerSteps

-----------------------------------------------------------------------------
\* IInv holds of every behaviour of the specification, for any constants.
THEOREM Invariance == Spec => []IInv
<1>1. IInv /\ [Next]_vars => IInv'
  BY TypeStep, TerminalStep, StoppedStep, SlotsStep, RegisteredStopStep, ContextStep,
     UnreachableStep, TimersOwnedStep, ArmedStep DEF IInv
<1>. QED
  BY InitIInv, <1>1, PTL DEF Spec

\* Every variable keeps its type: in particular no release takes siteRunning
\* below zero.
THEOREM TypeCorrect == Spec => []TypeOK
<1>1. IInv => TypeOK
  BY DEF IInv
<1>. QED
  BY Invariance, <1>1, PTL

\* However many callers stop a run, its stop queues exactly one terminal status.
THEOREM TerminalOnce == Spec => []OneTerminalStatus
<1>1. IInv => OneTerminalStatus
  BY DEF IInv
<1>. QED
  BY Invariance, <1>1, PTL

\* A run whose StopTask has returned is never found by a lookup again.
THEOREM StoppedGone == Spec => []StoppedNotRegistered
<1>1. IInv => StoppedNotRegistered
  BY DEF IInv
<1>. QED
  BY Invariance, <1>1, PTL

\* No interleaving of reserveSiteSlot, InitTask and StopTask lets more runs of a
\* site hold a slot than siteLimits allows: the runs marked as holding one are
\* among those the counter counts.
THEOREM LimitKept == Spec => []SiteLimitHolds
<1>1. IInv => SiteLimitHolds
  <2>. SUFFICES ASSUME IInv, NEW s \in Limited PROVE Cardinality(Flagged(s)) <= Limit[s]
    BY DEF SiteLimitHolds
  <2>1. s \in Sites /\ Limit[s] \in Nat
    BY LimitAssumption
  <2>2. siteRunning[s] = Cardinality(Holders(s)) /\ siteRunning[s] <= Limit[s]
    BY <2>1 DEF IInv, SlotsCounted
  <2>3. IsFiniteSet(Holders(s)) /\ Cardinality(Holders(s)) \in Nat
    BY <2>1, HoldersFinite
  <2>4. Flagged(s) \in SUBSET Holders(s)
    BY DEF Flagged, Holders
  <2>5. Cardinality(Flagged(s)) <= Cardinality(Holders(s)) /\ IsFiniteSet(Flagged(s))
    BY <2>3, <2>4, FS_Subset
  <2>6. Cardinality(Flagged(s)) \in Nat
    BY <2>5, FS_CardinalityType
  <2>. QED
    BY <2>1, <2>2, <2>3, <2>5, <2>6
<1>. QED
  BY Invariance, <1>1, PTL

\* A stop that found a context to cancel has given the slot back on return.
THEOREM SlotReturned == Spec => []CancelledRunsReturnSlot
<1>1. IInv => CancelledRunsReturnSlot
  BY DEF IInv, ContextAfterSlot, CancelledRunsReturnSlot
<1>. QED
  BY Invariance, <1>1, PTL

\* A run no stop can reach exists only if its id was registered more than once.
THEOREM UnreachableRuns == Spec => []UnreachableOnlyByDoubleStart
<1>1. IInv => UnreachableOnlyByDoubleStart
  BY DEF IInv
<1>. QED
  BY Invariance, <1>1, PTL

\* Every armed schedule timer is one a stop of its id disarms, or is about to be
\* stored where a stop will find it.
THEOREM ArmedReachable == Spec => []ArmedTimersReachable
<1>1. IInv => ArmedTimersReachable
  BY DEF IInv
<1>. QED
  BY Invariance, <1>1, PTL

-----------------------------------------------------------------------------
\* Where a step may take a call.

\* All that a step may do to where a call is.
Entered == {"live", "loop", "step", "stopLoop", "stopReturn", "exited"}
PcStep(r) ==
  \/ pc'[r] = pc[r]
  \/ pc[r] \in Unregistered /\ pc'[r] \in Unregistered
  \/ pc[r] \in Entered /\ pc'[r] \in Entered
  \/ Register(r) \/ ReserveSiteSlot(r) \/ MarkSlotReserved(r) \/ CreateContext(r)

LEMMA PcSteps ==
  ASSUME TypeOK, TimersOwned, [Next]_vars
  PROVE  \A r \in Calls : PcStep(r)
<1>. USE DEF TypeOK, Goto, runVars, timerVars, stopperVars
<1>0. ASSUME NEW q \in Calls, NEW to, Goto(q, to)
      PROVE  pc'[q] = to /\ \A r \in Calls \ {q} : pc'[r] = pc[r]
  BY <1>0
<1>1. ASSUME NEW q \in Calls, CallStep(q) \/ StartTask(q)
      PROVE  \A r \in Calls : PcStep(r)
  <2>1. CASE StartCallback(q) \/ ParkStop(q) \/ StartTask(q) \/ RefuseSite(q)
             \/ ArmStop(q) \/ ArmStart(q) \/ NoStopSchedule(q) \/ MissingProfile(q)
    <3>1. pc[q] \in Unregistered /\ \E to \in Unregistered : Goto(q, to)
      BY <2>1 DEF StartCallback, ParkStop, StartTask, RefuseSite, ArmStart, ArmStop,
         NoStopSchedule, MissingProfile, Unregistered
    <3>. QED
      BY <1>0, <3>1 DEF PcStep
  <2>2. CASE Register(q) \/ ReserveSiteSlot(q) \/ MarkSlotReserved(q) \/ CreateContext(q)
    <3>1. \E to : Goto(q, to)
      BY <2>2 DEF Register, ReserveSiteSlot, MarkSlotReserved, CreateContext
    <3>. QED
      BY <1>0, <2>2, <3>1 DEF PcStep
  <2>3. CASE FinishInit(q) \/ LoopStep(q) \/ LoopHead(q) \/ SelfStopReturns(q)
    <3>1. pc[q] \in Entered /\ \E to \in Entered : Goto(q, to)
      BY <2>3, Zenon DEF FinishInit, LoopStep, LoopHead, SelfStopReturns, Entered
    <3>. QED
      BY <1>0, <3>1 DEF PcStep
  <2>4. CASE ParkStart(q) \/ SelfStop(q)
    BY <2>4 DEF ParkStart, SelfStop, PcStep
  <2>. QED
    BY <1>1, <2>1, <2>2, <2>3, <2>4 DEF CallStep
<1>2. ASSUME NEW q \in Calls, StopBody(q) PROVE \A r \in Calls : PcStep(r)
  BY <1>2 DEF StopBody, QueueTerminalStatus, ReleaseResources, Deregister, PcStep
<1>3. ASSUME NEW q \in Calls, TimerFires(q) PROVE \A r \in Calls : PcStep(r)
  BY <1>3 DEF TimerFires, FireStart, FireStop, TimersOwned, Unregistered, PcStep
<1>4. ASSUME NEW p \in Stoppers, ReceiveStop(p) \/ StopperStep(p) PROVE \A r \in Calls : PcStep(r)
  BY <1>4 DEF ReceiveStop, StopperStep, StopCallback, StopClear, StopGet, StopCall, PcStep
<1>5. CASE UNCHANGED vars
  BY <1>5 DEF vars, PcStep
<1>. QED
  BY <1>1, <1>2, <1>3, <1>4, <1>5 DEF Next

-----------------------------------------------------------------------------
\* The slots of SiteSlots.

Phases == [r \in Calls |-> SlotOf(r)]

LEMMA SlotsFull ==
  ASSUME IInv, NEW s \in Sites
  PROVE  Slots!Full(s) <=> AtLimit(s)
<1>1. \A r \in Calls : SlotOf(r) = "held" <=> slotFlag[r] \/ pc[r] = "reserved"
  BY DEF IInv, ContextAfterSlot, SlotOf, Unregistered
<1>2. Slots!Held(s) = Holders(s)
  BY <1>1 DEF Slots!Held, Holders
<1>3. siteRunning[s] = Cardinality(Slots!Held(s))
  BY <1>2 DEF IInv, SlotsCounted
<1>. QED
  BY <1>3 DEF Slots!Full, AtLimit, Slots!Cardinality, Cardinality

LEMMA SlotsInit == Init => Slots!Init
  BY DEF Init, Slots!Init, SlotOf, Unregistered

LEMMA OneSlotMoves ==
  ASSUME NEW r \in Calls, NEW to, SlotOf(r)' = to, \A q \in Calls \ {r} : SlotOf(q)' = SlotOf(q)
  PROVE  Phases' = [Phases EXCEPT ![r] = to]
BY DEF Phases

LEMMA SlotsRefine ==
  ASSUME IInv, IInv', [Next]_vars
  PROVE  [Slots!Next]_Phases
<1>. USE DEF TypeOK, Goto, runVars, timerVars, stopperVars
<1>1. TypeOK /\ TimersOwned /\ ContextAfterSlot /\ SlotsCounted
  BY DEF IInv
<1>2. ASSUME NEW r \in Calls, ReserveSiteSlot(r)
      PROVE  Slots!Next
  <2>1. SlotOf(r) = "new"
    BY <1>1, <1>2 DEF ReserveSiteSlot, SlotOf, ContextAfterSlot
  <2>2. /\ pc'[r] = IF AtLimit(SiteOf[r]) THEN "stopReturn" ELSE "reserved"
        /\ slotFlag' = slotFlag /\ ~slotFlag[r] /\ \A q \in Calls \ {r} : pc'[q] = pc[q]
    BY <1>1, <1>2 DEF ReserveSiteSlot, ContextAfterSlot
  <2>3. \A q \in Calls \ {r} : SlotOf(q)' = SlotOf(q)
    BY <2>2 DEF SlotOf
  <2>4. SiteOf[r] \in Sites
    BY Shapes
  <2>5. CASE AtLimit(SiteOf[r])
    <3>1. SlotOf(r)' = "over"
      BY <2>2, <2>5 DEF SlotOf, Unregistered
    <3>2. Slots!TurnAway(r)
      BY <2>1, <2>3, <2>4, <2>5, <3>1, SlotsFull, OneSlotMoves
      DEF Slots!TurnAway, Slots!Becomes, Phases
    <3>. QED
      BY <3>2 DEF Slots!Next
  <2>6. CASE ~AtLimit(SiteOf[r])
    <3>1. SlotOf(r)' = "held"
      BY <2>2, <2>6 DEF SlotOf, Unregistered
    <3>2. Slots!Take(r)
      BY <2>1, <2>3, <2>4, <2>6, <3>1, SlotsFull, OneSlotMoves
      DEF Slots!Take, Slots!Becomes, Phases
    <3>. QED
      BY <3>2 DEF Slots!Next
  <2>. QED
    BY <2>5, <2>6
<1>3. ASSUME NEW r \in Calls, ReleaseResources(r)
      PROVE  [Slots!Next]_Phases
  <2>1. pc' = pc /\ slotFlag' = [slotFlag EXCEPT ![r] = FALSE]
    BY <1>3 DEF ReleaseResources
  <2>2. \A q \in Calls \ {r} : SlotOf(q)' = SlotOf(q)
    BY <1>1, <2>1 DEF SlotOf
  <2>3. CASE slotFlag[r]
    <3>1. SlotOf(r) = "held" /\ SlotOf(r)' = "over"
      BY <1>1, <2>1, <2>3 DEF SlotOf, ContextAfterSlot
    <3>2. Slots!GiveBack(r)
      BY <2>2, <3>1, OneSlotMoves DEF Slots!GiveBack, Slots!Becomes, Phases
    <3>. QED
      BY <3>2 DEF Slots!Next
  <2>4. CASE ~slotFlag[r]
    <3>1. slotFlag' = slotFlag
      BY <1>1, <2>1, <2>4
    <3>. QED
      BY <2>1, <3>1 DEF Phases, SlotOf
  <2>. QED
    BY <1>1, <2>3, <2>4
<1>4. ASSUME ~\E r \in Calls : ReserveSiteSlot(r) \/ ReleaseResources(r)
      PROVE  Phases' = Phases
  <2>1. SUFFICES ASSUME NEW r \in Calls PROVE SlotOf(r)' = SlotOf(r)
    BY DEF Phases
  <2>2. PcStep(r)
    BY <1>1, PcSteps
  <2>3. \/ slotFlag'[r] = slotFlag[r] /\ (pc'[r] = "reserved" <=> pc[r] = "reserved")
        \/ MarkSlotReserved(r)
    BY <1>1, <1>4, SlotSteps DEF MarkSlotReserved
  <2>4. CASE MarkSlotReserved(r)
    BY <1>1, <2>4 DEF MarkSlotReserved, SlotOf, Unregistered
  <2>5. CASE ~MarkSlotReserved(r)
    <3>1. pc'[r] \in Unregistered \cup {"registered"} <=> pc[r] \in Unregistered \cup {"registered"}
      BY <1>1, <1>4, <2>2, <2>5 DEF PcStep, Register, CreateContext, Unregistered, Entered
    <3>. QED
      BY <2>3, <2>5, <3>1 DEF SlotOf
  <2>. QED
    BY <2>4, <2>5
<1>. QED
  BY <1>2, <1>3, <1>4

\* The counters, flags and stops implement SiteSlots: a run is turned away only by as many
\* holders as the limit, and every slot is handed out and given back once (ImplementsSlots).
THEOREM HandsOutSlots == Spec => ImplementsSlots
<1>1. Init => Slots!Init
  BY SlotsInit
<1>2. IInv /\ IInv' /\ [Next]_vars => [Slots!Next]_Phases
  BY SlotsRefine
<1>. QED
  BY <1>1, <1>2, Invariance, PTL DEF Spec, ImplementsSlots, Slots!Spec, Phases

-----------------------------------------------------------------------------
\* Stops that overtake InitTask.

\* A stop never begins between UserTasks.Set and the assignment of the context.
NoStopOvertakes ==
  [][\A r \in Calls : stopPhase[r] = "none" /\ stopPhase'[r] # "none"
       => pc[r] \notin Initialising]_vars

StopsMeetContext ==
  \A r \in Calls :
    /\ stopPhase[r] # "none" => pc[r] \notin Initialising /\ ctx[r] # "live"
    /\ stopPhase[r] \in {"released", "done"} => ~slotFlag[r]

\* A run whose stop has ended counts for no site.
StoppedRunsHoldNothing == \A r \in Calls : stopPhase[r] = "done" => SlotOf(r) # "held"

\* The context of a run is made by its InitTask, and only the beginning of its stop
\* touches it afterwards.
LEMMA CtxSteps ==
  ASSUME TypeOK, [Next]_vars
  PROVE  \A r \in Calls :
           \/ ctx'[r] = ctx[r] /\ (ctx[r] = "live" /\ stopPhase[r] = "none" => stopPhase'[r] = "none")
           \/ CreateContext(r) /\ ctx'[r] = "live"
           \/ ctx[r] = "live" /\ ctx'[r] = "cancelled" /\ stopPhase[r] = "none" /\ stopPhase'[r] = "begun"
<1>. USE DEF TypeOK, runVars, timerVars, stopperVars
<1>. DEFINE Steps ==
       \A r \in Calls :
         \/ ctx'[r] = ctx[r] /\ (ctx[r] = "live" /\ stopPhase[r] = "none" => stopPhase'[r] = "none")
         \/ CreateContext(r) /\ ctx'[r] = "live"
         \/ ctx[r] = "live" /\ ctx'[r] = "cancelled" /\ stopPhase[r] = "none" /\ stopPhase'[r] = "begun"
<1>1. ASSUME NEW q \in Calls, CallStep(q) \/ StartTask(q), ~SelfStop(q), ~CreateContext(q)
      PROVE  UNCHANGED <<ctx, stopPhase>>
  BY <1>1 DEF CallStep, StartTask, ParkStart, StartCallback, ParkStop, ArmStart, RefuseSite,
     ArmStop, NoStopSchedule, MissingProfile, Register, ReserveSiteSlot, MarkSlotReserved,
     FinishInit, LoopHead, LoopStep, SelfStopReturns
<1>2. ASSUME NEW q \in Calls, CreateContext(q)
      PROVE  Steps
  BY <1>2 DEF CreateContext
<1>3. ASSUME NEW q \in Calls, StopTask(q)
      PROVE  Steps
  BY <1>3 DEF StopTask, BeginStop
<1>4. ASSUME NEW q \in Calls, StopBody(q)
      PROVE  Steps
  BY <1>4 DEF StopBody, QueueTerminalStatus, ReleaseResources, Deregister
<1>5. ASSUME NEW q \in Calls, TimerFires(q)
      PROVE  UNCHANGED <<ctx, stopPhase>>
  BY <1>5 DEF TimerFires, FireStart, FireStop
<1>6. ASSUME NEW p \in Stoppers, ReceiveStop(p) \/ StopperStep(p), ~StopCall(p)
      PROVE  UNCHANGED <<ctx, stopPhase>>
  BY <1>6 DEF ReceiveStop, StopperStep, StopCallback, StopClear, StopGet
<1>7. ASSUME NEW p \in Stoppers, StopCall(p)
      PROVE  Steps
  <2>1. CASE target[p] \in Calls
    BY <1>3, <1>7, <2>1 DEF StopCall
  <2>2. CASE target[p] \notin Calls
    BY <1>7, <2>2 DEF StopCall, StopTask, BeginStop
  <2>. QED
    BY <2>1, <2>2
<1>8. ASSUME UNCHANGED vars
      PROVE  UNCHANGED <<ctx, stopPhase>>
  BY <1>8 DEF vars, runVars
<1>9. ASSUME NEW q \in Calls, SelfStop(q)
      PROVE  Steps
  BY <1>3, <1>9 DEF SelfStop
<1>. HIDE DEF Steps
<1>10. UNCHANGED <<ctx, stopPhase>> => Steps
  BY DEF Steps
<1>11. ASSUME NEW q \in Calls, CallStep(q) \/ StartTask(q)
       PROVE  Steps
  BY <1>1, <1>2, <1>9, <1>10, <1>11
<1>12. ASSUME NEW p \in Stoppers, ReceiveStop(p) \/ StopperStep(p)
       PROVE  Steps
  BY <1>6, <1>7, <1>10, <1>12
<1>13. Steps
  BY <1>4, <1>8, <1>10, <1>11, <1>12, <1>5 DEF Next
<1>. QED
  BY <1>13 DEF Steps

\* A slot is marked by its run only, and given back where a stop comes to that.
LEMMA FlagSteps ==
  ASSUME TypeOK, TimersOwned, [Next]_vars, NEW r \in Calls
  PROVE  /\ slotFlag'[r] => slotFlag[r] \/ MarkSlotReserved(r)
         /\ stopPhase'[r] \in {"released", "done"} =>
              stopPhase[r] \in {"released", "done"} \/ ~slotFlag'[r]
<1>1. slotFlag'[r] => slotFlag[r] \/ MarkSlotReserved(r)
  BY SlotSteps DEF TypeOK, ReserveSiteSlot, MarkSlotReserved, ReleaseResources
<1>2. ASSUME NEW q \in Calls, StopBody(q), stopPhase'[r] \in {"released", "done"}
      PROVE  stopPhase[r] \in {"released", "done"} \/ ~slotFlag'[r]
  BY <1>2 DEF TypeOK, StopBody, QueueTerminalStatus, ReleaseResources, Deregister
<1>3. ASSUME (\E q \in Calls : SelfStop(q)) \/ (\E p \in Stoppers : StopCall(p)),
             stopPhase'[r] \in {"released", "done"}
      PROVE  stopPhase[r] \in {"released", "done"}
  BY <1>3 DEF TypeOK, SelfStop, StopCall, StopTask, BeginStop, runVars
<1>. QED
  BY <1>1, <1>2, <1>3, StopSteps

\* The context that a stop has cancelled is not replaced: the loop that it ends does not go
\* on under another.
CancelledForGood ==
  [][\A r \in Calls : ctx[r] = "cancelled" => ctx'[r] = "cancelled"]_vars

THEOREM CancelsForGood == Spec => CancelledForGood
<1>1. IInv /\ [Next]_vars => \A r \in Calls : ctx[r] = "cancelled" => ctx'[r] = "cancelled"
  BY CtxSteps DEF IInv, CreateContext, ContextAfterSlot, Initialising
<1>. QED
  BY <1>1, Invariance, PTL DEF Spec, CancelledForGood

\* What a stop that overtakes InitTask leaves behind, it leaves for that reason alone: as long
\* as no stop begins between UserTasks.Set and the context, a run whose stop has returned has
\* no live context and holds no slot (StoppedRunsAreCancelled).
THEOREM LateStopsCancel ==
  Spec /\ NoStopOvertakes => [](StoppedRunsAreCancelled /\ StoppedRunsHoldNothing)
<1>. DEFINE Late == \A r \in Calls : stopPhase[r] = "none" /\ stopPhase'[r] # "none"
                                        => pc[r] \notin Initialising
<1>1. Init => StopsMeetContext
  BY DEF Init, StopsMeetContext
<1>2. IInv /\ StopsMeetContext /\ [Next]_vars /\ [Late]_vars => StopsMeetContext'
  <2>. SUFFICES ASSUME IInv, StopsMeetContext, [Next]_vars, [Late]_vars, NEW r \in Calls
                PROVE  /\ stopPhase'[r] # "none" => pc'[r] \notin Initialising /\ ctx'[r] # "live"
                       /\ stopPhase'[r] \in {"released", "done"} => ~slotFlag'[r]
    BY DEF StopsMeetContext
  <2>0. TypeOK /\ TimersOwned /\ OnlyRegisteredStop
    BY DEF IInv
  <2>1. stopPhase'[r] # "none" => pc[r] \notin Initialising
    BY DEF StopsMeetContext, vars, runVars
  <2>2. PcStep(r)
    BY <2>0, PcSteps
  <2>3. Register(r) => stopPhase'[r] = "none"
    BY <2>0 DEF OnlyRegisteredStop, Register, Unregistered
  <2>4. stopPhase'[r] # "none" => pc'[r] \notin Initialising
    BY <2>1, <2>2, <2>3 DEF PcStep, ReserveSiteSlot, MarkSlotReserved, CreateContext, Initialising,
       Unregistered, Entered
  <2>5. stopPhase'[r] # "none" => ctx'[r] # "live"
    BY <2>0, <2>1, CtxSteps DEF StopsMeetContext, CreateContext, Initialising
  <2>6. stopPhase'[r] \in {"released", "done"} => ~slotFlag'[r]
    BY <2>0, <2>1, FlagSteps DEF StopsMeetContext, MarkSlotReserved, Initialising
  <2>. QED
    BY <2>4, <2>5, <2>6
<1>3. IInv /\ StopsMeetContext => StoppedRunsAreCancelled /\ StoppedRunsHoldNothing
  BY DEF StopsMeetContext, StoppedRunsAreCancelled, StoppedRunsHoldNothing, SlotOf, Initialising
<1>. QED
  BY <1>1, <1>2, <1>3, Invariance, PTL DEF Spec, NoStopOvertakes

\* What it leaves behind stays: a run whose stop has returned cannot be stopped any more, so a
\* context that is live by then stays live and a slot that is held by then stays held.
LeftoversStay ==
  [][\A r \in Calls :
       stopPhase[r] = "done" =>
         /\ stopPhase'[r] = "done"
         /\ ctx[r] = "live" => ctx'[r] = "live"
         /\ slotFlag[r] => slotFlag'[r]]_vars

THEOREM LeavesForGood == Spec => LeftoversStay
<1>1. IInv /\ [Next]_vars =>
        \A r \in Calls :
          stopPhase[r] = "done" => /\ stopPhase'[r] = "done"
                                   /\ ctx[r] = "live" => ctx'[r] = "live"
                                   /\ slotFlag[r] => slotFlag'[r]
  <2>. SUFFICES ASSUME IInv, [Next]_vars, NEW r \in Calls, stopPhase[r] = "done"
                PROVE  /\ stopPhase'[r] = "done"
                       /\ ctx[r] = "live" => ctx'[r] = "live"
                       /\ slotFlag[r] => slotFlag'[r]
    OBVIOUS
  <2>0. TypeOK /\ TimersOwned
    BY DEF IInv
  <2>1. stopPhase'[r] = "done"
    <3>1. ASSUME NEW q \in Calls, StopBody(q) PROVE stopPhase'[r] = "done"
      BY <2>0, <3>1 DEF TypeOK, StopBody, QueueTerminalStatus, ReleaseResources, Deregister
    <3>2. CASE (\E q \in Calls : SelfStop(q)) \/ (\E p \in Stoppers : StopCall(p))
      BY <2>0, <3>2 DEF TypeOK, SelfStop, StopCall, StopTask, BeginStop, runVars
    <3>. QED
      BY <3>1, <3>2, StopSteps
  <2>2. ctx[r] = "live" => ctx'[r] = "live"
    BY <2>0, CtxSteps
  <2>3. slotFlag[r] => slotFlag'[r]
    BY <2>0, SlotSteps DEF TypeOK, ReserveSiteSlot, MarkSlotReserved, ReleaseResources
  <2>. QED
    BY <2>1, <2>2, <2>3
<1>. QED
  BY <1>1, Invariance, PTL DEF Spec, LeftoversStay

=============================================================================
