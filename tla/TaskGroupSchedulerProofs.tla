---------------------- MODULE TaskGroupSchedulerProofs ----------------------
(***************************************************************************)
(* Proofs about TaskGroupScheduler for any groups, schedules and delays,   *)
(* with and without a remote runtime. What handling one group does, in a   *)
(* sync pass or when its timer fires, is stated once (Handled); IInv, the  *)
(* inductive invariant, follows from it and from the remaining actions.    *)
(***************************************************************************)
EXTENDS TaskGroupScheduler, TLAPS

InSeq(g, s) == \E i \in 1 .. Len(s) : s[i] = g

Schedule == [start : Nat, stop : Nat]
Timer == [at : Nat, due : Nat]

\* The start of g has a timer, or its window closes before another try.
StartKept(g) ==
  \/ timers[g]["start"] # NoTimer
  \/ /\ schedule[g].stop # 0 /\ now + RetryDelay >= schedule[g].stop
     /\ timers[g]["stop"] # NoTimer

\* What StopStaysArmed says of each group the sync pass has dealt with.
StopsArmed ==
  ~paused => \A g \in Groups :
    ~InSeq(g, queue) /\ schedule[g].stop # 0 => timers[g]["stop"].at = schedule[g].stop

\* What StartStaysArmed says of each group the sync pass has dealt with and whose
\* readiness result is not on its way.
StartsArmed ==
  ~paused => \A g \in Groups :
    ~InSeq(g, queue) /\ ~InSeq(g, starting) /\ schedule[g].start # 0 => StartKept(g)

\* A start timer never fires before the start that is stored.
TimersNotEarly ==
  \A g \in Groups : timers[g]["start"] # NoTimer => schedule[g].start <= timers[g]["start"].at

StartingIsDue == \A g \in Groups : InSeq(g, starting) => schedule[g].start <= now

\* A start on its way belongs to an engine session; only one that waits for the runtime
\* outlives a session, when that ends without onLock.
LaunchesHaveSession ==
  /\ starting # <<>> => session = "engine"
  /\ launching # None => session = "engine" \/ lapsed

IInv ==
  /\ TypeOK /\ PausedIsSilent /\ SignedOutIdle /\ LaunchesHaveSession
  /\ StopsArmed /\ StartsArmed /\ TimersNotEarly /\ StartingIsDue

\* The effect of handling g.
Handled(g) ==
  /\ timers' \in [Groups -> [Kinds -> Timer]] /\ schedule' \in [Groups -> Schedule]
  /\ \A h \in Groups \ {g} : /\ schedule'[h] = schedule[h]
                             /\ \A k \in Kinds : timers'[h][k] = timers[h][k]
  /\ schedule'[g].start \in {0, schedule[g].start}
  /\ schedule'[g].stop # 0 => timers'[g]["stop"].at = schedule'[g].stop
  /\ timers'[g]["start"] # NoTimer => schedule'[g].start <= timers'[g]["start"].at
  /\ \/ starting' = starting
     \/ starting' = Append(starting, g) /\ schedule'[g].start <= now /\ session = "engine"
  /\ \/ starting' = Append(starting, g)
     \/ schedule'[g].start = 0
     \/ timers'[g]["start"] # NoTimer
     \/ schedule'[g].stop # 0 /\ now + RetryDelay >= schedule'[g].stop
  /\ running' \subseteq running /\ (wanted' => wanted) /\ wanted' \in BOOLEAN
  /\ owner' \in Groups \cup {None} /\ launching' \in {launching, None}

-----------------------------------------------------------------------------
(* Sequences *)

LEMMA InSeqEmpty == \A g : ~InSeq(g, <<>>)
BY DEF InSeq

LEMMA InSeqTail ==
  ASSUME NEW s \in Seq(Groups), s # <<>>
  PROVE  /\ Head(s) \in Groups /\ Tail(s) \in Seq(Groups)
         /\ \A g : InSeq(g, s) => g = Head(s) \/ InSeq(g, Tail(s))
         /\ \A g : InSeq(g, Tail(s)) => InSeq(g, s)
<1>1. Head(s) = s[1] /\ Len(s) \in Nat /\ Len(s) > 0 /\ Len(Tail(s)) = Len(s) - 1
  OBVIOUS
<1>2. \A i \in 1 .. Len(Tail(s)) : Tail(s)[i] = s[i + 1]
  OBVIOUS
<1>3. ASSUME NEW g, NEW i \in 1 .. Len(s), s[i] = g, i # 1 PROVE InSeq(g, Tail(s))
  <2>1. i - 1 \in 1 .. Len(Tail(s)) /\ Tail(s)[i - 1] = s[i]
    BY <1>1, <1>2, <1>3
  <2>. QED
    BY <2>1, <1>3 DEF InSeq
<1>4. ASSUME NEW g, NEW i \in 1 .. Len(Tail(s)), Tail(s)[i] = g PROVE InSeq(g, s)
  <2>1. i + 1 \in 1 .. Len(s) /\ s[i + 1] = g
    BY <1>1, <1>2, <1>4
  <2>. QED
    BY <2>1 DEF InSeq
<1>5. Head(s) \in Groups /\ Tail(s) \in Seq(Groups)
  OBVIOUS
<1>. QED
  BY <1>1, <1>3, <1>4, <1>5 DEF InSeq

LEMMA InSeqAppend ==
  ASSUME NEW s \in Seq(Groups), NEW e \in Groups
  PROVE  /\ Append(s, e) \in Seq(Groups) /\ Append(s, e) # <<>>
         /\ \A g : InSeq(g, Append(s, e)) <=> g = e \/ InSeq(g, s)
<1>1. Len(s) \in Nat /\ Len(Append(s, e)) = Len(s) + 1 /\ Append(s, e)[Len(s) + 1] = e
  OBVIOUS
<1>2. \A i \in 1 .. Len(s) : Append(s, e)[i] = s[i]
  OBVIOUS
<1>3. Append(s, e) \in Seq(Groups) /\ Append(s, e) # <<>>
  BY <1>1
<1>4. InSeq(e, Append(s, e))
  BY <1>1 DEF InSeq
<1>5. ASSUME NEW g, InSeq(g, s) PROVE InSeq(g, Append(s, e))
  BY <1>1, <1>2, <1>5 DEF InSeq
<1>6. ASSUME NEW g, InSeq(g, Append(s, e)) PROVE g = e \/ InSeq(g, s)
  BY <1>1, <1>2, <1>6 DEF InSeq
<1>. QED
  BY <1>3, <1>4, <1>5, <1>6

-----------------------------------------------------------------------------
(* Handling one group *)

LEMMA ArmType ==
  ASSUME TypeOK, NEW ts \in [Groups -> [Kinds -> Timer]], NEW g \in Groups, NEW k \in Kinds,
         NEW at \in Nat
  PROVE  /\ Arm(ts, g, k, at) \in [Groups -> [Kinds -> Timer]]
         /\ \A h \in Groups, j \in Kinds : ~(h = g /\ j = k) => Arm(ts, g, k, at)[h][j] = ts[h][j]
         /\ at > now => /\ Arm(ts, g, k, at)[g][k].at = at
                        /\ Arm(ts, g, k, at)[g][k] # NoTimer
         /\ at <= now => Arm(ts, g, k, at)[g][k] = ts[g][k]
BY TimeAssumption DEF Arm, ArmedAt, TypeOK, Timer, NoTimer

LEMMA ArmStartType ==
  ASSUME TypeOK, NEW ts \in [Groups -> [Kinds -> Timer]], NEW g \in Groups, NEW at \in Nat
  PROVE  /\ Arm(ts, g, "start", at) \in [Groups -> [Kinds -> Timer]]
         /\ \A h \in Groups, j \in Kinds :
              ~(h = g /\ j = "start") => Arm(ts, g, "start", at)[h][j] = ts[h][j]
         /\ at > now => /\ Arm(ts, g, "start", at)[g]["start"] # NoTimer
                        /\ Arm(ts, g, "start", at)[g]["start"].at = at
         /\ at <= now => Arm(ts, g, "start", at)[g]["start"] = ts[g]["start"]
<1>1. "start" \in Kinds
  BY DEF Kinds
<1>. QED
  BY <1>1, ArmType, SMTT(30)

LEMMA ArmStopType ==
  ASSUME TypeOK, NEW ts \in [Groups -> [Kinds -> Timer]], NEW g \in Groups, NEW at \in Nat
  PROVE  /\ Arm(ts, g, "stop", at) \in [Groups -> [Kinds -> Timer]]
         /\ \A h \in Groups, j \in Kinds :
              ~(h = g /\ j = "stop") => Arm(ts, g, "stop", at)[h][j] = ts[h][j]
         /\ at > now => Arm(ts, g, "stop", at)[g]["stop"].at = at
         /\ at <= now => Arm(ts, g, "stop", at)[g]["stop"] = ts[g]["stop"]
<1>1. "stop" \in Kinds
  BY DEF Kinds
<1>. QED
  BY <1>1, ArmType, SMTT(30)

\* Arming both timers of a group.
LEMMA ArmBothType ==
  ASSUME TypeOK, NEW ts \in [Groups -> [Kinds -> Timer]], NEW g \in Groups,
         NEW from \in Nat, NEW at \in Nat
  PROVE  \E bs \in [Groups -> [Kinds -> Timer]] :
           /\ bs = Arm(Arm(ts, g, "start", from), g, "stop", at)
           /\ \A h \in Groups \ {g}, j \in Kinds : bs[h][j] = ts[h][j]
           /\ from > now => bs[g]["start"] # NoTimer /\ bs[g]["start"].at = from
           /\ from <= now => bs[g]["start"] = ts[g]["start"]
           /\ at > now => bs[g]["stop"].at = at
           /\ at <= now => bs[g]["stop"] = ts[g]["stop"]
<1>1. PICK as \in [Groups -> [Kinds -> Timer]] :
        /\ as = Arm(ts, g, "start", from)
        /\ \A h \in Groups, j \in Kinds : ~(h = g /\ j = "start") => as[h][j] = ts[h][j]
        /\ from > now => as[g]["start"] # NoTimer /\ as[g]["start"].at = from
        /\ from <= now => as[g]["start"] = ts[g]["start"]
  BY ArmStartType, SMTT(30)
<1>2. PICK bs \in [Groups -> [Kinds -> Timer]] :
        /\ bs = Arm(as, g, "stop", at)
        /\ \A h \in Groups, j \in Kinds : ~(h = g /\ j = "stop") => bs[h][j] = as[h][j]
        /\ at > now => bs[g]["stop"].at = at
        /\ at <= now => bs[g]["stop"] = as[g]["stop"]
  BY ArmStopType, Zenon
<1>3. bs[g]["start"] = as[g]["start"] /\ as[g]["stop"] = ts[g]["stop"]
  BY <1>1, <1>2 DEF Kinds
<1>4. \A h \in Groups \ {g}, j \in Kinds : bs[h][j] = ts[h][j]
  BY <1>1, <1>2
<1>. QED
  BY <1>1, <1>2, <1>3, <1>4

LEMMA DisarmType ==
  ASSUME NEW ts \in [Groups -> [Kinds -> Timer]], NEW g \in Groups, NEW k \in Kinds
  PROVE  /\ Disarm(ts, g, k) \in [Groups -> [Kinds -> Timer]]
         /\ \A h \in Groups, j \in Kinds : ~(h = g /\ j = k) => Disarm(ts, g, k)[h][j] = ts[h][j]
         /\ Disarm(ts, g, k)[g][k] = NoTimer
BY DEF Disarm, Timer, NoTimer

LEMMA ClearType ==
  ASSUME TypeOK, NEW g \in Groups
  PROVE  /\ clearStart(g) => /\ schedule' \in [Groups -> Schedule]
                             /\ \A h \in Groups \ {g} : schedule'[h] = schedule[h]
                             /\ schedule'[g].start = 0 /\ schedule'[g].stop = schedule[g].stop
         /\ clearBoth(g) => /\ schedule' \in [Groups -> Schedule]
                            /\ \A h \in Groups \ {g} : schedule'[h] = schedule[h]
                            /\ schedule'[g].start = 0 /\ schedule'[g].stop = 0
<1>1. schedule \in [Groups -> Schedule] /\ schedule[g] \in Schedule /\ NoSchedule \in Schedule
  BY DEF TypeOK, Schedule, NoSchedule
<1>2. ASSUME clearStart(g)
      PROVE  /\ schedule' \in [Groups -> Schedule]
             /\ \A h \in Groups \ {g} : schedule'[h] = schedule[h]
             /\ schedule'[g].start = 0 /\ schedule'[g].stop = schedule[g].stop
  <2>1. schedule' = [schedule EXCEPT ![g] = [schedule[g] EXCEPT !.start = 0]]
    BY <1>2 DEF clearStart
  <2>2. /\ [schedule[g] EXCEPT !.start = 0] \in Schedule
        /\ [schedule[g] EXCEPT !.start = 0].start = 0
        /\ [schedule[g] EXCEPT !.start = 0].stop = schedule[g].stop
    BY <1>1 DEF Schedule
  <2>. QED
    BY <1>1, <2>1, <2>2
<1>3. ASSUME clearBoth(g)
      PROVE  /\ schedule' \in [Groups -> Schedule]
             /\ \A h \in Groups \ {g} : schedule'[h] = schedule[h]
             /\ schedule'[g].start = 0 /\ schedule'[g].stop = 0
  BY <1>1, <1>3 DEF clearBoth, NoSchedule
<1>. QED
  BY <1>2, <1>3

LEMMA RetryType ==
  ASSUME TypeOK, NEW ts \in [Groups -> [Kinds -> Timer]], NEW g \in Groups
  PROVE  /\ Retry(ts, g) \in [Groups -> [Kinds -> Timer]]
         /\ \A h \in Groups, j \in Kinds :
              ~(h = g /\ j = "start") => Retry(ts, g)[h][j] = ts[h][j]
         /\ CanRetry(g) => /\ Retry(ts, g)[g]["start"] # NoTimer
                           /\ Retry(ts, g)[g]["start"].at = now + RetryDelay
         /\ ~CanRetry(g) => Retry(ts, g)[g]["start"] = NoTimer
<1>. DEFINE ds == Disarm(ts, g, "start")
<1>1. now \in Nat /\ RetryDelay \in Nat \ {0} /\ now + RetryDelay > now /\ "start" \in Kinds
  BY TimeAssumption DEF TypeOK, Kinds
<1>2. ds \in [Groups -> [Kinds -> Timer]] /\ ds[g]["start"] = NoTimer
      /\ \A h \in Groups, j \in Kinds : ~(h = g /\ j = "start") => ds[h][j] = ts[h][j]
  BY <1>1, DisarmType
<1>. HIDE DEF ds
<1>3. CASE CanRetry(g)
  <2>1. Retry(ts, g) = Arm(ds, g, "start", now + RetryDelay)
    BY <1>3 DEF Retry, ds
  <2>2. /\ Arm(ds, g, "start", now + RetryDelay) \in [Groups -> [Kinds -> Timer]]
        /\ \A h \in Groups, j \in Kinds :
             ~(h = g /\ j = "start") => Arm(ds, g, "start", now + RetryDelay)[h][j] = ds[h][j]
        /\ Arm(ds, g, "start", now + RetryDelay)[g]["start"].at = now + RetryDelay
        /\ Arm(ds, g, "start", now + RetryDelay)[g]["start"] # NoTimer
    BY <1>1, <1>2, ArmType
  <2>. QED
    BY <1>2, <1>3, <2>1, <2>2
<1>4. CASE ~CanRetry(g)
  BY <1>2, <1>4 DEF Retry, ds
<1>. QED
  BY <1>3, <1>4

LEMMA GuardedStartType ==
  ASSUME TypeOK, NEW g \in Groups, NEW what \in {"tasks", "monitor"}, GuardedStart(what, g)
  PROVE  /\ running' \subseteq Groups /\ wanted' \in BOOLEAN
         /\ owner' \in Groups \cup {None} /\ launching' \in Launches \cup {None}
<1>1. <<what, g>> \in Launches
  BY DEF Launches
<1>2. CASE Remote
  BY <1>1, <1>2 DEF GuardedStart, TypeOK
<1>3. CASE ~Remote
  <2>1. launching' = launching /\ running' \in {running, running \cup {g}} /\ AdoptMonitor(g)
    BY <1>3 DEF GuardedStart, StartTarget
  <2>. QED
    BY <2>1 DEF AdoptMonitor, TypeOK
<1>. QED
  BY <1>2, <1>3

\* fireStart, called with timers ts that differ from the armed ones for g only.
LEMMA FireStartHandles ==
  ASSUME TypeOK, NEW g \in Groups, NEW ts \in [Groups -> [Kinds -> Timer]],
         \A h \in Groups \ {g}, k \in Kinds : ts[h][k] = timers[h][k],
         schedule[g].stop # 0 => ts[g]["stop"].at = schedule[g].stop,
         schedule[g].start <= now,
         FireStart(g, ts), UNCHANGED engineVars
  PROVE  Handled(g)
<1>. DEFINE rs == Retry(ts, g)
            ds == Disarm(ts, g, "start")
<1>1. /\ rs \in [Groups -> [Kinds -> Timer]]
      /\ \A h \in Groups, j \in Kinds : ~(h = g /\ j = "start") => rs[h][j] = ts[h][j]
      /\ CanRetry(g) => rs[g]["start"] # NoTimer /\ rs[g]["start"].at = now + RetryDelay
      /\ ~CanRetry(g) => rs[g]["start"] = NoTimer
  BY RetryType
<1>2. /\ ds \in [Groups -> [Kinds -> Timer]]
      /\ \A h \in Groups, j \in Kinds : ~(h = g /\ j = "start") => ds[h][j] = ts[h][j]
      /\ ds[g]["start"] = NoTimer
  BY DisarmType DEF Kinds
<1>3. now \in Nat /\ RetryDelay \in Nat /\ schedule \in [Groups -> Schedule]
      /\ schedule[g].start \in Nat /\ schedule[g].stop \in Nat
  BY TimeAssumption DEF TypeOK, Schedule
<1>4. ~CanRetry(g) => schedule[g].stop # 0 /\ now + RetryDelay >= schedule[g].stop
  BY <1>3 DEF CanRetry
<1>5. /\ running' \subseteq running /\ (wanted' => wanted) /\ wanted' \in BOOLEAN
      /\ owner' \in Groups \cup {None} /\ launching' \in {launching, None}
  BY DEF engineVars, TypeOK
<1>6. clearStart(g) => /\ schedule' \in [Groups -> Schedule]
                       /\ \A h \in Groups \ {g} : schedule'[h] = schedule[h]
                       /\ schedule'[g].start = 0 /\ schedule'[g].stop = schedule[g].stop
  BY ClearType
<1>. HIDE DEF rs, ds
<1>7. CASE timers' = rs /\ (schedule' = schedule \/ (clearStart(g) /\ ~CanRetry(g)))
           /\ starting' = starting
  BY <1>1, <1>3, <1>4, <1>5, <1>6, <1>7 DEF Handled, Kinds
<1>8. CASE timers' = ds /\ clearStart(g) /\ starting' = starting
  BY <1>2, <1>3, <1>5, <1>6, <1>8 DEF Handled, Kinds
<1>9. CASE timers' = ds /\ starting' = Append(starting, g) /\ schedule' = schedule
           /\ session = "engine"
  BY <1>2, <1>3, <1>5, <1>9 DEF Handled, Kinds
<1>. QED
  BY <1>7, <1>8, <1>9 DEF FireStart, canStart, rs, ds

LEMMA FireStopHandles ==
  ASSUME TypeOK, NEW g \in Groups, FireStop(g), TimersNotEarly
  PROVE  Handled(g)
<1>1. /\ timers' \in [Groups -> [Kinds -> Timer]]
      /\ \A h \in Groups, j \in Kinds : ~(h = g /\ j = "stop") => timers'[h][j] = timers[h][j]
  <2>1. timers \in [Groups -> [Kinds -> Timer]] /\ timers' = Disarm(timers, g, "stop")
    BY DEF FireStop, TypeOK, Timer
  <2>. QED
    BY <2>1, DisarmType DEF Kinds
<1>2. /\ schedule' \in [Groups -> Schedule]
      /\ \A h \in Groups \ {g} : schedule'[h] = schedule[h]
      /\ schedule'[g].start = 0 /\ schedule'[g].stop = 0
  BY ClearType DEF FireStop
<1>3. /\ running' \subseteq running /\ (wanted' => wanted) /\ wanted' \in BOOLEAN
      /\ owner' \in Groups \cup {None} /\ launching' = None
  BY DEF FireStop, StopTasks, ClearMonitorIntent, TypeOK
<1>4. timers'[g]["start"].at \in Nat
  BY <1>1 DEF Timer, Kinds
<1>. QED
  BY <1>1, <1>2, <1>3, <1>4 DEF Handled, FireStop, Kinds

\* What a sync pass does with one group.
LEMMA ProcessGroupHandles ==
  ASSUME TypeOK, TimersNotEarly, NEW g \in Groups, ProcessGroup(g)
  PROVE  Handled(g)
<1>. DEFINE at == schedule[g].stop
            from == schedule[g].start
<1>1. /\ now \in Nat /\ schedule \in [Groups -> Schedule] /\ from \in Nat /\ at \in Nat
      /\ timers \in [Groups -> [Kinds -> Timer]] /\ "start" \in Kinds /\ "stop" \in Kinds
      /\ now >= 1
  <2>1. schedule \in [Groups -> Schedule] /\ schedule[g] \in Schedule /\ now \in 1 .. Horizon
        /\ timers \in [Groups -> [Kinds -> Timer]]
    BY DEF TypeOK, Schedule, Timer
  <2>. QED
    BY <2>1, TimeAssumption DEF Schedule, Kinds
<1>3. ~StopDue(g) => at = 0 \/ at > now
  BY <1>1 DEF StopDue
<1>4. StartDue(g) => from <= now
  BY <1>1 DEF StartDue
<1>5. ~StartDue(g) => from = 0 \/ from > now
  BY <1>1 DEF StartDue
<1>. HIDE DEF at, from
<1>. DEFINE ss == Arm(timers, g, "stop", at)
<1>2. /\ ss \in [Groups -> [Kinds -> Timer]]
      /\ \A h \in Groups, j \in Kinds : ~(h = g /\ j = "stop") => ss[h][j] = timers[h][j]
      /\ at > now => ss[g]["stop"].at = at
  BY <1>1, ArmStopType
<1>13. PICK bs \in [Groups -> [Kinds -> Timer]] :
         /\ bs = Arm(Arm(timers, g, "start", from), g, "stop", at)
         /\ \A h \in Groups \ {g}, j \in Kinds : bs[h][j] = timers[h][j]
         /\ from > now => bs[g]["start"] # NoTimer /\ bs[g]["start"].at = from
         /\ from <= now => bs[g]["start"] = timers[g]["start"]
         /\ at > now => bs[g]["stop"].at = at
  BY <1>1, ArmBothType, SMTT(30)
<1>. HIDE DEF ss
<1>6. UNCHANGED engineVars =>
        /\ running' \subseteq running /\ (wanted' => wanted) /\ wanted' \in BOOLEAN
        /\ owner' \in Groups \cup {None} /\ launching' \in {launching, None}
  BY DEF engineVars, TypeOK
<1>7. \A h \in Groups : timers[h]["start"].at \in Nat
  BY <1>1 DEF Timer
<1>8. CASE FireStop(g)
  BY <1>8, FireStopHandles
<1>9. CASE clearBoth(g) /\ UNCHANGED <<timers, starting, engineVars>>
  BY <1>1, <1>6, <1>7, <1>9, ClearType DEF Handled
<1>10. CASE StartDue(g) /\ ~StopDue(g) /\ FireStart(g, ss) /\ UNCHANGED engineVars
  <2>1. \A h \in Groups \ {g}, k \in Kinds : ss[h][k] = timers[h][k]
    BY <1>2
  <2>2. at # 0 => ss[g]["stop"].at = at
    BY <1>2, <1>3, <1>10
  <2>3. from <= now
    BY <1>4, <1>10
  <2>. QED
    BY <1>2, <1>10, <2>1, <2>2, <2>3, FireStartHandles DEF at, from
<1>11. CASE ~StopDue(g) /\ clearStart(g) /\ timers' = ss /\ UNCHANGED <<starting, engineVars>>
  <2>1. /\ schedule' \in [Groups -> Schedule]
        /\ \A h \in Groups \ {g} : schedule'[h] = schedule[h]
        /\ schedule'[g].start = 0 /\ schedule'[g].stop = at
    BY <1>11, ClearType DEF at
  <2>2. timers'[g]["start"].at \in Nat
    BY <1>1, <1>2, <1>7, <1>11
  <2>. QED
    BY <1>1, <1>2, <1>3, <1>6, <1>11, <2>1, <2>2 DEF Handled
<1>12. CASE ~StartDue(g) /\ ~StopDue(g) /\ timers' = bs
            /\ UNCHANGED <<schedule, starting, engineVars>>
  <2>5. timers'[g]["start"] # NoTimer => from <= timers'[g]["start"].at
    BY <1>1, <1>5, <1>7, <1>12, <1>13
  <2>6. from = 0 \/ timers'[g]["start"] # NoTimer
    BY <1>5, <1>12, <1>13
  <2>7. at # 0 => timers'[g]["stop"].at = at
    BY <1>3, <1>12, <1>13
  <2>. QED
    BY <1>1, <1>6, <1>12, <1>13, <2>5, <2>6, <2>7 DEF Handled, at, from
<1>. QED
  BY <1>8, <1>9, <1>10, <1>11, <1>12, <1>13 DEF ProcessGroup, ss, at, from

\* What a timer does when it fires.
LEMMA FireTimerHandles ==
  ASSUME IInv, NEW g \in Groups, NEW k \in Kinds, FireTimer(g, k)
  PROVE  Handled(g) /\ ~paused
<1>. DEFINE t == timers[g][k]
<1>1. /\ now \in Nat /\ schedule \in [Groups -> Schedule]
      /\ schedule[g].start \in Nat /\ schedule[g].stop \in Nat
      /\ timers \in [Groups -> [Kinds -> Timer]] /\ t \in Timer
      /\ t.at \in Nat /\ t # NoTimer /\ TypeOK
  <2>1. TypeOK /\ t # NoTimer
    BY DEF IInv, FireTimer
  <2>2. /\ now \in Nat /\ schedule \in [Groups -> Schedule]
        /\ timers \in [Groups -> [Kinds -> Timer]]
    BY <2>1, TimeAssumption DEF TypeOK, Schedule, Timer
  <2>. QED
    BY <2>1, <2>2 DEF Schedule, Timer
<1>2. ~paused
  BY <1>1 DEF IInv, PausedIsSilent, NoTimers
<1>3. schedule[g].stop # 0 => timers[g]["stop"].at = schedule[g].stop
  <2>1. ~InSeq(g, queue)
    BY InSeqEmpty DEF FireTimer, Idle
  <2>. QED
    BY <1>2, <2>1 DEF IInv, StopsArmed
<1>4. schedule[g].start # 0 => \/ timers[g]["start"] # NoTimer
                              \/ /\ schedule[g].stop # 0
                                 /\ now + RetryDelay >= schedule[g].stop
  <2>1. ~InSeq(g, queue) /\ ~InSeq(g, starting)
    BY InSeqEmpty DEF FireTimer, Idle
  <2>. QED
    BY <1>2, <2>1 DEF IInv, StartsArmed, StartKept
<1>5. timers[g]["start"] # NoTimer => schedule[g].start <= timers[g]["start"].at
  BY DEF IInv, TimersNotEarly
<1>6. CASE t.at > now /\ timers' = Arm(timers, g, k, t.at)
           /\ UNCHANGED <<schedule, starting, engineVars>>
  <2>. DEFINE as == Arm(timers, g, k, t.at)
  <2>1. /\ as \in [Groups -> [Kinds -> Timer]]
        /\ \A h \in Groups, j \in Kinds : ~(h = g /\ j = k) => as[h][j] = timers[h][j]
        /\ as[g][k].at = t.at /\ as[g][k] # NoTimer
    BY <1>1, <1>6, ArmType
  <2>. HIDE DEF as
  <2>2. timers' = as /\ schedule' = schedule /\ starting' = starting
    BY <1>6 DEF as
  <2>3. /\ running' \subseteq running /\ (wanted' => wanted) /\ wanted' \in BOOLEAN
        /\ owner' \in Groups \cup {None} /\ launching' \in {launching, None}
    BY <1>1, <1>6 DEF engineVars, TypeOK
  <2>4. schedule[g].stop # 0 => as[g]["stop"].at = schedule[g].stop
    BY <1>3, <2>1 DEF Kinds
  <2>5. as[g]["start"] # NoTimer => schedule[g].start <= as[g]["start"].at
    BY <1>5, <1>1, <2>1 DEF Kinds
  <2>6. timers[g]["start"] # NoTimer => as[g]["start"] # NoTimer
    BY <2>1 DEF Kinds
  <2>. QED
    BY <1>1, <1>2, <1>4, <2>1, <2>2, <2>3, <2>4, <2>5, <2>6 DEF Handled
<1>7. CASE t.at <= now /\ k = "start" /\ FireStart(g, timers) /\ UNCHANGED engineVars
  <2>1. schedule[g].start <= now
    BY <1>1, <1>5, <1>7
  <2>. QED
    BY <1>1, <1>2, <1>3, <1>7, <2>1, FireStartHandles
<1>8. CASE FireStop(g)
  BY <1>1, <1>2, <1>8, FireStopHandles DEF IInv
<1>. QED
  BY <1>6, <1>7, <1>8 DEF FireTimer

-----------------------------------------------------------------------------
(* The invariant *)

LEMMA OrderCovers == GroupOrder \in Seq(Groups) /\ \A g \in Groups : InSeq(g, GroupOrder)
BY OrderAssumption DEF InSeq

LEMMA EmptySeq == <<>> \in Seq(Groups)
OBVIOUS

LEMMA NoTimersType ==
  /\ NoTimers \in [Groups -> [Kinds -> Timer]]
  /\ \A g \in Groups, k \in Kinds : NoTimers[g][k] = NoTimer
BY DEF NoTimers, NoTimer, Timer

LEMMA InitIInv == Init => IInv
<1>. SUFFICES ASSUME Init PROVE IInv
  OBVIOUS
<1>. USE DEF Init
<1>1. TypeOK
  <2>1. schedule \in [Groups -> Schedule]
    BY ScheduleAssumption DEF Schedule
  <2>2. now \in 1 .. Horizon /\ edits \in 0 .. MaxEdits
    BY TimeAssumption
  <2>. QED
    BY <2>1, <2>2, OrderCovers, EmptySeq, NoTimersType DEF TypeOK, Timer, Schedule
<1>2. PausedIsSilent /\ SignedOutIdle /\ LaunchesHaveSession
  BY DEF PausedIsSilent, SignedOutIdle, LaunchesHaveSession
<1>3. StopsArmed /\ StartsArmed
  BY OrderCovers DEF StopsArmed, StartsArmed
<1>4. TimersNotEarly /\ StartingIsDue
  BY NoTimersType, InSeqEmpty DEF TimersNotEarly, StartingIsDue, Kinds
<1>. QED
  BY <1>1, <1>2, <1>3, <1>4 DEF IInv

\* Handling the first group of the queue, or a group whose timer fires while nothing
\* is queued, keeps the invariant.
LEMMA HandledKeeps ==
  ASSUME IInv, NEW g \in Groups, Handled(g), ~paused,
         UNCHANGED <<now, edits, paused, session, lapsed, restoring>>,
         queue' \in Seq(Groups),
         \A h \in Groups : InSeq(h, queue) => h = g \/ InSeq(h, queue')
  PROVE  IInv'
<1>1. /\ now \in Nat /\ RetryDelay \in Nat
      /\ starting \in Seq(Groups) /\ starting' \in Seq(Groups)
      /\ \A h \in Groups : InSeq(h, starting) => InSeq(h, starting')
      /\ \A h \in Groups \ {g} : InSeq(h, starting') => InSeq(h, starting)
      /\ starting' = Append(starting, g) => InSeq(g, starting')
  <2>1. now \in Nat /\ RetryDelay \in Nat /\ starting \in Seq(Groups)
    BY TimeAssumption DEF IInv, TypeOK
  <2>2. starting' = starting \/ starting' = Append(starting, g)
    BY DEF Handled
  <2>3. CASE starting' = starting
    <3>1. starting = Append(starting, g) => InSeq(g, starting)
      BY <2>1, InSeqAppend
    <3>. QED
      BY <2>1, <2>3, <3>1
  <2>4. CASE starting' = Append(starting, g)
    BY <2>1, <2>4, InSeqAppend
  <2>. QED
    BY <2>2, <2>3, <2>4
<1>2. TypeOK'
  BY <1>1 DEF IInv, TypeOK, Handled, Schedule, Timer
<1>3. PausedIsSilent'
  BY DEF PausedIsSilent
<1>4. SignedOutIdle' /\ LaunchesHaveSession'
  BY DEF IInv, SignedOutIdle, LaunchesHaveSession, Handled
<1>5. StopsArmed'
  <2>1. ASSUME NEW h \in Groups, ~InSeq(h, queue'), schedule'[h].stop # 0
        PROVE  timers'[h]["stop"].at = schedule'[h].stop
    <3>1. CASE h = g
      BY <2>1, <3>1 DEF Handled
    <3>2. CASE h # g
      BY <2>1, <3>2 DEF IInv, StopsArmed, Handled, Kinds
    <3>. QED
      BY <3>1, <3>2
  <2>. QED
    BY <2>1 DEF StopsArmed
<1>6. StartsArmed'
  <2>1. ASSUME NEW h \in Groups, ~InSeq(h, queue'), ~InSeq(h, starting'), schedule'[h].start # 0
        PROVE  StartKept(h)'
    <3>1. CASE h = g
      <4>1. \/ timers'[g]["start"] # NoTimer
            \/ schedule'[g].stop # 0 /\ now + RetryDelay >= schedule'[g].stop
        <5>1. starting' # Append(starting, g)
          BY <1>1, <2>1, <3>1
        <5>2. schedule'[g].start # 0
          BY <2>1, <3>1
        <5>. QED
          BY <5>1, <5>2 DEF Handled
      <4>2. schedule'[g].stop # 0 => timers'[g]["stop"] # NoTimer
        BY DEF Handled, NoTimer
      <4>. QED
        BY <3>1, <4>1, <4>2 DEF StartKept
    <3>2. CASE h # g
      <4>1. StartKept(h)
        BY <1>1, <2>1, <3>2 DEF IInv, StartsArmed, Handled
      <4>. QED
        BY <3>2, <4>1 DEF StartKept, Handled, Kinds
    <3>. QED
      BY <3>1, <3>2
  <2>. QED
    BY <2>1 DEF StartsArmed
<1>7. TimersNotEarly'
  BY DEF IInv, TimersNotEarly, Handled, Kinds
<1>8. StartingIsDue'
  <2>1. ASSUME NEW h \in Groups, InSeq(h, starting') PROVE schedule'[h].start <= now
    <3>. schedule'[g].start \in {0, schedule[g].start} /\ now \in Nat
      BY <1>1 DEF Handled
    <3>0. InSeq(h, starting) => schedule[h].start <= now
      BY DEF IInv, StartingIsDue
    <3>1. CASE h # g
      <4>1. InSeq(h, starting)
        BY <1>1, <2>1, <3>1
      <4>2. schedule'[h] = schedule[h]
        BY <3>1 DEF Handled
      <4>. QED
        BY <3>0, <4>1, <4>2
    <3>2. CASE h = g /\ starting' = Append(starting, g) /\ schedule'[g].start <= now
      BY <3>2
    <3>3. CASE h = g /\ starting' = starting
      BY <2>1, <3>0, <3>3
    <3>. QED
      BY <3>1, <3>2, <3>3 DEF Handled
  <2>. QED
    BY <2>1 DEF StartingIsDue
<1>. QED
  BY <1>2, <1>3, <1>4, <1>5, <1>6, <1>7, <1>8 DEF IInv

LEMMA SyncStepKeeps ==
  ASSUME IInv, SyncStep
  PROVE  IInv' /\ Handled(Head(queue))
<1>1. queue \in Seq(Groups) /\ queue # <<>> /\ TypeOK /\ TimersNotEarly
  BY DEF IInv, TypeOK, SyncStep
<1>2. /\ Head(queue) \in Groups /\ Tail(queue) \in Seq(Groups)
      /\ \A g : InSeq(g, queue) => g = Head(queue) \/ InSeq(g, Tail(queue))
  BY <1>1, InSeqTail
<1>3. ~paused
  BY <1>1 DEF IInv, PausedIsSilent, Idle
<1>4. Handled(Head(queue))
  BY <1>1, <1>2, ProcessGroupHandles DEF SyncStep
<1>5. queue' = Tail(queue) /\ UNCHANGED <<now, edits, paused, session, lapsed, restoring>>
  BY DEF SyncStep
<1>. QED
  BY <1>2, <1>3, <1>4, <1>5, HandledKeeps

LEMMA FireTimerKeeps ==
  ASSUME IInv, NEW g \in Groups, NEW k \in Kinds, FireTimer(g, k)
  PROVE  IInv'
<1>1. Handled(g) /\ ~paused
  BY FireTimerHandles
<1>2. queue' = queue /\ UNCHANGED <<now, edits, paused, session, lapsed, restoring>>
  BY DEF FireTimer
<1>3. queue' \in Seq(Groups)
  BY <1>2 DEF IInv, TypeOK
<1>. QED
  BY <1>1, <1>2, <1>3, HandledKeeps

LEMMA FinishStartKeeps ==
  ASSUME IInv, NEW g \in Groups, FinishStart(g)
  PROVE  IInv'
<1>1. /\ starting \in Seq(Groups) /\ starting # <<>> /\ g = Head(starting)
      /\ starting' = Tail(starting) /\ TypeOK
      /\ UNCHANGED <<now, edits, timers, queue, paused, session, lapsed, restoring>>
  BY DEF FinishStart, IInv, TypeOK
<1>2. /\ starting' \in Seq(Groups)
      /\ \A h : InSeq(h, starting) => h = g \/ InSeq(h, starting')
      /\ \A h : InSeq(h, starting') => InSeq(h, starting)
  BY <1>1, InSeqTail
<1>3. session = "engine" /\ ~paused
  BY <1>1 DEF IInv, LaunchesHaveSession, PausedIsSilent, Idle
<1>4. /\ schedule' \in [Groups -> Schedule]
      /\ \A h \in Groups \ {g} : schedule'[h] = schedule[h]
      /\ schedule'[g].start = 0 /\ schedule'[g].stop = schedule[g].stop
  BY <1>1, ClearType DEF FinishStart, TypeOK, Schedule
<1>5. /\ running' \subseteq Groups /\ wanted' \in BOOLEAN
      /\ owner' \in Groups \cup {None} /\ launching' \in Launches \cup {None}
  <2>1. CASE UNCHANGED engineVars
    BY <1>1, <2>1 DEF engineVars, TypeOK
  <2>2. CASE GuardedStart("tasks", g)
    BY <1>1, <2>2, GuardedStartType
  <2>. QED
    BY <2>1, <2>2 DEF FinishStart
<1>6. TypeOK'
  BY <1>1, <1>2, <1>4, <1>5 DEF TypeOK, Schedule
<1>7. PausedIsSilent' /\ SignedOutIdle' /\ LaunchesHaveSession'
  BY <1>1, <1>3 DEF PausedIsSilent, SignedOutIdle, LaunchesHaveSession
<1>8. StopsArmed'
  BY <1>1, <1>4 DEF IInv, StopsArmed
<1>9. StartsArmed'
  <2>1. ASSUME NEW h \in Groups, ~InSeq(h, queue'), ~InSeq(h, starting'), schedule'[h].start # 0
        PROVE  StartKept(h)'
    <3>1. h # g
      BY <2>1, <1>4
    <3>2. ~InSeq(h, queue) /\ ~InSeq(h, starting) /\ schedule[h].start # 0
      BY <1>1, <1>2, <1>4, <2>1, <3>1
    <3>3. StartKept(h)
      BY <1>3, <3>2 DEF IInv, StartsArmed
    <3>. QED
      BY <1>1, <1>4, <3>1, <3>3 DEF StartKept
  <2>. QED
    BY <2>1 DEF StartsArmed
<1>10. TimersNotEarly'
  <2>1. \A h \in Groups : timers[h]["start"].at \in Nat
    BY <1>1 DEF TypeOK, Kinds
  <2>. QED
    BY <1>1, <1>4, <2>1 DEF IInv, TimersNotEarly
<1>11. StartingIsDue'
  <2>1. now \in Nat
    BY TimeAssumption DEF IInv, TypeOK
  <2>. QED
    BY <1>1, <1>2, <1>4, <2>1 DEF IInv, StartingIsDue
<1>. QED
  BY <1>6, <1>7, <1>8, <1>9, <1>10, <1>11 DEF IInv

\* The conjuncts about timers and schedules hold after a sync began, and after the
\* scheduler was paused.
LEMMA SyncKeeps ==
  ASSUME queue = <<>> \/ ~paused', starting' = <<>>, TypeOK',
         \/ paused' /\ timers' = NoTimers /\ queue' = queue
         \/ ~paused' /\ timers' = NoTimers /\ queue' = GroupOrder
  PROVE  PausedIsSilent' /\ StopsArmed' /\ StartsArmed' /\ TimersNotEarly' /\ StartingIsDue'
<1>1. PausedIsSilent'
  BY DEF PausedIsSilent, Idle
<1>2. StopsArmed' /\ StartsArmed'
  BY OrderCovers DEF StopsArmed, StartsArmed
<1>3. TimersNotEarly'
  BY NoTimersType DEF TimersNotEarly, Kinds
<1>4. StartingIsDue'
  BY InSeqEmpty DEF StartingIsDue
<1>. QED
  BY <1>1, <1>2, <1>3, <1>4

LEMMA UserAndSessionKeep ==
  ASSUME IInv, \/ Lock \/ EndQuietly \/ RestoreBegin \/ RestoreEnd \/ RestoreRefused \/ Restart
               \/ \E g \in Groups, s \in Schedules : SaveGroups(g, s)
               \/ \E kind \in {"engine", "harvester"} : LicenseOk(kind)
  PROVE  IInv'
<1>. USE OrderCovers, EmptySeq, NoTimersType DEF IInv
<1>1. CASE Lock \/ RestoreBegin
  <2>1. TypeOK'
    BY <1>1 DEF TypeOK, Lock, RestoreBegin, StopAll, ClearMonitorIntent, storeVars, Timer
  <2>2. SignedOutIdle' /\ LaunchesHaveSession'
    BY <1>1 DEF SignedOutIdle, LaunchesHaveSession, Lock, RestoreBegin, StopAll,
                ClearMonitorIntent, Idle
  <2>. QED
    BY <1>1, <2>1, <2>2, SyncKeeps DEF Lock, RestoreBegin, Idle
<1>2. CASE RestoreEnd
  <2>1. schedule' \in [Groups -> Schedule]
    BY <1>2, ScheduleAssumption DEF RestoreEnd, TypeOK, Schedule
  <2>2. /\ paused' \in BOOLEAN /\ (paused' => paused)
        /\ IF paused' THEN UNCHANGED <<timers, queue>>
                       ELSE timers' = NoTimers /\ queue' = GroupOrder
        /\ queue = <<>> /\ starting = <<>> /\ restoring' = FALSE
        /\ UNCHANGED <<now, edits, starting, session, lapsed, running, wanted, owner, launching>>
    BY <1>2 DEF RestoreEnd, Sync, Idle, TypeOK, engineVars
  <2>3. paused' => timers' = NoTimers /\ queue' = queue
    BY <2>2 DEF PausedIsSilent
  <2>4. TypeOK'
    BY <2>1, <2>2 DEF TypeOK, Schedule, Timer
  <2>5. SignedOutIdle' /\ LaunchesHaveSession'
    BY <2>2 DEF SignedOutIdle, LaunchesHaveSession
  <2>. QED
    BY <2>2, <2>3, <2>4, <2>5, SyncKeeps
<1>3. CASE Restart
  <2>1. TypeOK'
    <3>1. edits' \in 0 .. MaxEdits
      BY <1>3, TimeAssumption DEF TypeOK, Restart
    <3>. QED
      BY <1>3, <3>1 DEF TypeOK, Restart, ClearMonitorIntent, Timer
  <2>2. SignedOutIdle' /\ LaunchesHaveSession'
    BY <1>3 DEF SignedOutIdle, LaunchesHaveSession, Restart, ClearMonitorIntent
  <2>. QED
    BY <1>3, <2>1, <2>2, SyncKeeps DEF Restart
<1>4. ASSUME NEW g \in Groups, NEW s \in Schedules, SaveGroups(g, s) PROVE IInv'
  <2>1. schedule' \in [Groups -> Schedule]
    BY <1>4, ScheduleAssumption DEF SaveGroups, TypeOK, Schedule
  <2>2. /\ IF paused THEN UNCHANGED <<timers, queue>> ELSE timers' = NoTimers /\ queue' = GroupOrder
        /\ queue = <<>> /\ starting = <<>> /\ edits' \in 0 .. MaxEdits
        /\ UNCHANGED <<now, starting, paused, session, lapsed, restoring>>
        /\ UNCHANGED <<running, wanted, owner, launching>>
    BY <1>4, TimeAssumption DEF SaveGroups, Sync, Idle, TypeOK, engineVars
  <2>3. paused' => timers' = NoTimers /\ queue' = queue
    BY <2>2 DEF PausedIsSilent
  <2>4. TypeOK'
    BY <2>1, <2>2 DEF TypeOK, Schedule, Timer
  <2>5. SignedOutIdle' /\ LaunchesHaveSession'
    BY <2>2 DEF SignedOutIdle, LaunchesHaveSession
  <2>. QED
    BY <2>2, <2>3, <2>4, <2>5, SyncKeeps
<1>5. ASSUME NEW kind \in {"engine", "harvester"}, LicenseOk(kind) PROVE IInv'
  <2>1. /\ paused' = FALSE /\ timers' = NoTimers /\ queue' = GroupOrder
        /\ queue = <<>> /\ starting' = <<>> /\ session' = kind
        /\ lapsed' = (lapsed /\ kind # "engine")
        /\ UNCHANGED <<now, schedule, edits, restoring>>
        /\ IF session = "engine" /\ kind = "harvester"
           THEN running' = {} /\ wanted' = FALSE /\ owner' = None /\ launching' = None
           ELSE UNCHANGED <<running, wanted, owner, launching>>
    BY <1>5 DEF LicenseOk, Sync, Idle, storeVars, engineVars, StopAll, ClearMonitorIntent
  <2>2. TypeOK'
    BY <2>1 DEF TypeOK, Timer
  <2>3. SignedOutIdle' /\ LaunchesHaveSession'
    BY <2>1 DEF SignedOutIdle, LaunchesHaveSession
  <2>. QED
    BY <2>1, <2>2, <2>3, SyncKeeps
<1>6. CASE RestoreRefused
  <2>1. /\ paused' = FALSE /\ timers' = NoTimers /\ queue' = GroupOrder /\ queue = <<>>
        /\ starting' = <<>> /\ running' = {} /\ wanted' = FALSE /\ owner' = None
        /\ launching' = None /\ UNCHANGED <<now, schedule, edits, session, lapsed, restoring>>
    BY <1>6 DEF RestoreRefused, Sync, Idle, storeVars, StopAll, ClearMonitorIntent
  <2>2. TypeOK'
    BY <2>1 DEF TypeOK, Timer
  <2>3. SignedOutIdle' /\ LaunchesHaveSession'
    BY <2>1 DEF SignedOutIdle, LaunchesHaveSession
  <2>. QED
    BY <2>1, <2>2, <2>3, SyncKeeps
<1>7. CASE EndQuietly
  <2>1. /\ UNCHANGED <<now, schedule, edits, timers, queue, starting, paused, restoring,
                        running, wanted, owner, launching>>
        /\ queue = <<>> /\ starting = <<>> /\ session' = "none" /\ lapsed' = TRUE
    BY <1>7 DEF EndQuietly, Idle, storeVars, schedVars, engineVars
  <2>2. TypeOK' /\ SignedOutIdle' /\ LaunchesHaveSession'
    BY <2>1 DEF TypeOK, SignedOutIdle, LaunchesHaveSession
  <2>3. PausedIsSilent' /\ StopsArmed' /\ StartsArmed' /\ TimersNotEarly' /\ StartingIsDue'
    BY <2>1 DEF PausedIsSilent, Idle, StopsArmed, StartsArmed, StartKept, TimersNotEarly,
                StartingIsDue
  <2>. QED
    BY <2>2, <2>3
<1>. QED
  BY <1>1, <1>2, <1>3, <1>4, <1>5, <1>6, <1>7

LEMMA EngineKeeps ==
  ASSUME IInv, \/ LaunchReady \/ StopMonitor \/ EngineFailure
               \/ \E g \in Groups : ManualStop(g) \/ TaskEnd(g)
               \/ \E g \in Groups, what \in {"tasks", "monitor"} : ManualStart(what, g)
  PROVE  IInv'
<1>. USE DEF IInv
<1>1. /\ UNCHANGED <<now, schedule, edits, timers, queue, starting, paused>>
      /\ UNCHANGED <<session, lapsed, restoring>>
      /\ starting = <<>>
  BY DEF LaunchReady, StopMonitor, EngineFailure, ManualStop, TaskEnd, ManualStart, Idle,
         storeVars, schedVars
<1>2. /\ running' \subseteq Groups /\ wanted' \in BOOLEAN
      /\ owner' \in Groups \cup {None} /\ launching' \in Launches \cup {None}
      /\ launching' # None => session = "engine" \/ lapsed
      /\ session # "engine" /\ ~lapsed => running' = {} /\ ~wanted'
  <2>. USE DEF TypeOK, SignedOutIdle, LaunchesHaveSession, Launches
  <2>1. CASE LaunchReady
    BY <2>1 DEF LaunchReady, StartTarget, AdoptMonitor
  <2>2. CASE StopMonitor \/ EngineFailure
    BY <2>2 DEF StopMonitor, EngineFailure, ClearMonitorIntent
  <2>3. CASE \E g \in Groups : ManualStop(g) \/ TaskEnd(g)
    BY <2>3 DEF ManualStop, TaskEnd, StopTasks, ClearMonitorIntent
  <2>4. CASE \E g \in Groups, what \in {"tasks", "monitor"} : ManualStart(what, g)
    <3>1. PICK g \in Groups, what \in {"tasks", "monitor"} : ManualStart(what, g)
      BY <2>4
    <3>. QED
      BY <3>1, GuardedStartType DEF ManualStart
  <2>. QED
    BY <2>1, <2>2, <2>3, <2>4
<1>3. TypeOK'
  BY <1>1, <1>2 DEF TypeOK
<1>4. SignedOutIdle' /\ LaunchesHaveSession'
  BY <1>1, <1>2 DEF SignedOutIdle, LaunchesHaveSession
<1>5. PausedIsSilent' /\ StopsArmed' /\ StartsArmed' /\ TimersNotEarly' /\ StartingIsDue'
  BY <1>1 DEF PausedIsSilent, Idle, StopsArmed, StartsArmed, StartKept, TimersNotEarly,
              StartingIsDue
<1>. QED
  BY <1>3, <1>4, <1>5

LEMMA TickKeeps ==
  ASSUME IInv, Tick
  PROVE  IInv'
<1>. USE DEF IInv
<1>1. /\ UNCHANGED <<schedule, edits, timers, queue, starting, paused, session, lapsed, restoring,
                      running, wanted, owner, launching>>
      /\ now' = now + 1 /\ now < Horizon
  BY DEF Tick, storeVars, schedVars, engineVars
<1>2. /\ now \in Nat /\ now >= 1 /\ RetryDelay \in Nat /\ Horizon \in Nat
      /\ \A g \in Groups : schedule[g].start \in Nat /\ schedule[g].stop \in Nat
  BY TimeAssumption DEF TypeOK
<1>3. TypeOK'
  BY <1>1, <1>2 DEF TypeOK
<1>4. PausedIsSilent' /\ SignedOutIdle' /\ LaunchesHaveSession' /\ StopsArmed' /\ TimersNotEarly'
  BY <1>1 DEF PausedIsSilent, Idle, SignedOutIdle, LaunchesHaveSession, StopsArmed, TimersNotEarly
<1>5. StartsArmed'
  BY <1>1, <1>2 DEF StartsArmed, StartKept
<1>6. StartingIsDue'
  BY <1>1, <1>2 DEF StartingIsDue
<1>. QED
  BY <1>3, <1>4, <1>5, <1>6

LEMMA StutterKeeps ==
  ASSUME IInv, UNCHANGED vars
  PROVE  IInv'
BY DEF IInv, vars, storeVars, schedVars, engineVars, TypeOK, PausedIsSilent, Idle, SignedOutIdle,
       LaunchesHaveSession, StopsArmed, StartsArmed, StartKept, TimersNotEarly, StartingIsDue

\* Every reachable state satisfies the inductive invariant.
THEOREM Invariant == Spec => []IInv
<1>1. IInv /\ [Next]_vars => IInv'
  BY SyncStepKeeps, FireTimerKeeps, FinishStartKeeps, UserAndSessionKeep, EngineKeeps, TickKeeps,
     StutterKeeps DEF Next
<1>. QED
  BY InitIInv, <1>1, PTL DEF Spec

-----------------------------------------------------------------------------
(* What the invariant says of the scheduler *)

\* Timers, schedules, the sync pass and the engine keep their shapes.
THEOREM TypeCorrect == Spec => []TypeOK
<1>1. IInv => TypeOK
  BY DEF IInv
<1>. QED
  BY Invariant, <1>1, PTL

\* pause() leaves no timer behind, and none is armed before resume().
THEOREM PausedSilent == Spec => []PausedIsSilent
<1>1. IInv => PausedIsSilent
  BY DEF IInv
<1>. QED
  BY Invariant, <1>1, PTL

\* A lock, or a change to a harvester's session, ends all that runs for Target and whatever start
\* was on its way, until an engine session is back, for any number of groups and whether or not
\* a start waits for the runtime. It says nothing after an end that onStatus alone reports.
THEOREM SignedOut == Spec => []SignedOutIdle
<1>1. IInv => SignedOutIdle
  BY DEF IInv
<1>. QED
  BY Invariant, <1>1, PTL

\* Between two passes of the event loop every stored stop has its timer.
THEOREM StopsStayArmed == Spec => []StopStaysArmed
<1>1. IInv => StopStaysArmed
  BY InSeqEmpty DEF IInv, StopsArmed, StopStaysArmed, Idle
<1>. QED
  BY Invariant, <1>1, PTL

\* Between two passes of the event loop every stored start has its timer, or its
\* window is about to be closed.
THEOREM StartsStayArmed == Spec => []StartStaysArmed
<1>1. IInv => StartStaysArmed
  BY InSeqEmpty DEF IInv, StartsArmed, StartKept, StartStaysArmed, Idle
<1>. QED
  BY Invariant, <1>1, PTL

\* The scheduler launches a group only when the stored schedule says so.
THEOREM LaunchesDue == Spec => LaunchesAreDue
<1>. DEFINE Launch(g) ==
       /\ starting # <<>> /\ Head(starting) = g /\ starting' = Tail(starting)
       /\ (g \in running' \ running \/ (launching' # launching /\ launching' = <<"tasks", g>>))
<1>1. ASSUME IInv, [Next]_vars, NEW g \in Groups, Launch(g)
      PROVE  schedule[g].start \in 1 .. now
  <2>1. CASE \E h \in Groups : FinishStart(h)
    <3>1. FinishStart(g)
      BY <1>1, <2>1 DEF FinishStart
    <3>2. schedule[g].start # 0
      BY <1>1, <3>1 DEF FinishStart, engineVars
    <3>3. starting \in Seq(Groups) /\ starting # <<>> /\ g = Head(starting)
      BY <1>1 DEF IInv, TypeOK
    <3>4. InSeq(g, starting)
      <4>1. 1 \in 1 .. Len(starting) /\ starting[1] = g
        BY <3>3
      <4>. QED
        BY <4>1 DEF InSeq
    <3>5. schedule[g].start <= now /\ schedule[g].start \in Nat /\ now \in Nat
      BY <1>1, <3>4, TimeAssumption DEF IInv, StartingIsDue, TypeOK
    <3>. QED
      BY <3>2, <3>5
  <2>2. CASE SyncStep
    <3>1. Handled(Head(queue))
      BY <1>1, <2>2, SyncStepKeeps
    <3>2. running' \subseteq running /\ launching' \in {launching, None} /\ None # <<"tasks", g>>
      BY <3>1, NoneAssumption DEF Handled
    <3>. QED
      BY <1>1, <3>2
  <2>3. CASE Restart
    BY <1>1, <2>3, NoneAssumption DEF Restart
  <2>4. CASE Idle
    BY <1>1, <2>4 DEF Idle
  <2>5. CASE UNCHANGED vars
    BY <1>1, <2>5 DEF vars, engineVars
  <2>6. [Next]_vars => \/ \E h \in Groups : FinishStart(h)
                       \/ SyncStep \/ Restart \/ Idle \/ UNCHANGED vars
    BY DEF Next, Tick, LaunchReady, StopMonitor, EngineFailure, Lock, EndQuietly, RestoreBegin,
           RestoreEnd, RestoreRefused, ManualStop, TaskEnd, FireTimer, SaveGroups, ManualStart,
           LicenseOk
  <2>. QED
    BY <1>1, <2>1, <2>2, <2>3, <2>4, <2>5, <2>6
<1>2. IInv /\ [Next]_vars => [\A g \in Groups : Launch(g) => schedule[g].start \in 1 .. now]_vars
  BY <1>1
<1>. QED
  BY Invariant, <1>2, PTL DEF Spec, LaunchesAreDue

-----------------------------------------------------------------------------
(* Boundaries in the store *)

Due(t) == t \in 1 .. now

\* A stop timer is for the stop that is stored, and during a sync pass for one to come.
StopTimersCurrent ==
  \A g \in Groups : timers[g]["stop"] # NoTimer =>
    /\ timers[g]["stop"].at = schedule[g].stop /\ schedule[g].stop # 0
    /\ queue # <<>> => schedule[g].stop > now

\* No stored window ends before it begins.
WindowsOrdered ==
  \A g \in Groups : schedule[g].start # 0 /\ schedule[g].stop # 0 =>
    schedule[g].start < schedule[g].stop

\* A boundary goes only when its time has come.
GoneWhenDue(g) ==
  /\ schedule'[g].start # schedule[g].start => Due(schedule[g].start)
  /\ schedule'[g].stop # schedule[g].stop => Due(schedule[g].stop)

\* Unless the user saves or a backup is restored, a start or a stop that is stored stays
\* stored until its time.
BoundariesKept ==
  [][edits' = edits /\ restoring' = restoring => \A g \in Groups : GoneWhenDue(g)]_vars

\* What the handling of g keeps of both.
InTime(g) ==
  /\ GoneWhenDue(g)
  /\ schedule'[g].start \in {0, schedule[g].start} /\ schedule'[g].stop \in {0, schedule[g].stop}
  /\ timers'[g]["stop"] # NoTimer =>
       /\ timers'[g]["stop"].at = schedule'[g].stop /\ schedule'[g].stop # 0
       /\ queue # <<>> => schedule'[g].stop > now

\* A start that is tried leaves the stop and its timer alone.
LEMMA FireStartInTime ==
  ASSUME TypeOK, NEW g \in Groups, NEW ts \in [Groups -> [Kinds -> Timer]], FireStart(g, ts)
  PROVE  /\ timers'[g]["stop"] = ts[g]["stop"] /\ schedule'[g].stop = schedule[g].stop
         /\ schedule'[g].start \in {0, schedule[g].start}
<1>1. timers' \in {Retry(ts, g), Disarm(ts, g, "start")}
  BY DEF FireStart
<1>2. Retry(ts, g)[g]["stop"] = ts[g]["stop"] /\ Disarm(ts, g, "start")[g]["stop"] = ts[g]["stop"]
  BY RetryType, DisarmType DEF Kinds
<1>3. schedule' = schedule \/ clearStart(g)
  BY DEF FireStart
<1>. QED
  BY <1>1, <1>2, <1>3, ClearType

\* When the stop is due, so is the start.
LEMMA FireStopInTime ==
  ASSUME TypeOK, WindowsOrdered, NEW g \in Groups, FireStop(g), Due(schedule[g].stop)
  PROVE  InTime(g)
<1>1. schedule[g].start \in Nat /\ schedule[g].stop \in Nat /\ now \in Nat
  BY DEF TypeOK
<1>2. schedule'[g].start = 0 /\ schedule'[g].stop = 0
  BY ClearType DEF FireStop
<1>3. timers'[g]["stop"] = NoTimer
  <2>1. timers \in [Groups -> [Kinds -> Timer]] /\ timers' = Disarm(timers, g, "stop")
    BY DEF FireStop, TypeOK, Timer
  <2>. QED
    BY <2>1, DisarmType DEF Kinds
<1>4. schedule[g].start # 0 => Due(schedule[g].start)
  BY <1>1 DEF WindowsOrdered, Due
<1>. QED
  BY <1>2, <1>3, <1>4 DEF InTime, GoneWhenDue

LEMMA ProcessGroupInTime ==
  ASSUME TypeOK, StopTimersCurrent, WindowsOrdered, NEW g \in Groups, ProcessGroup(g),
         queue # <<>>
  PROVE  InTime(g)
<1>. DEFINE at == schedule[g].stop
            from == schedule[g].start
<1>1. /\ now \in Nat /\ now >= 1 /\ from \in Nat /\ at \in Nat
      /\ timers \in [Groups -> [Kinds -> Timer]] /\ "stop" \in Kinds
  <2>1. /\ now \in 1 .. Horizon /\ from \in Nat /\ at \in Nat
        /\ timers \in [Groups -> [Kinds -> Timer]]
    BY DEF TypeOK, Timer
  <2>. QED
    BY <2>1, TimeAssumption DEF Kinds
<1>2. timers[g]["stop"] # NoTimer => timers[g]["stop"].at = at /\ at > now
  BY DEF StopTimersCurrent
<1>3. (StopDue(g) <=> Due(at)) /\ (StartDue(g) <=> Due(from))
  BY DEF StopDue, StartDue, Due
<1>. HIDE DEF at, from
<1>4. PICK ss \in [Groups -> [Kinds -> Timer]] :
        /\ ss = Arm(timers, g, "stop", at)
        /\ at > now => ss[g]["stop"].at = at
        /\ at <= now => ss[g]["stop"] = timers[g]["stop"]
  BY <1>1, ArmStopType, Zenon
<1>5. PICK bs \in [Groups -> [Kinds -> Timer]] :
        /\ bs = Arm(Arm(timers, g, "start", from), g, "stop", at)
        /\ at > now => bs[g]["stop"].at = at
        /\ at <= now => bs[g]["stop"] = timers[g]["stop"]
  BY <1>1, ArmBothType, SMTT(30)
<1>6. ASSUME NEW ts \in {ss, bs}, ts[g]["stop"] # NoTimer
      PROVE  ts[g]["stop"].at = at /\ at # 0 /\ at > now
  BY <1>1, <1>2, <1>4, <1>5, <1>6
<1>7. CASE StopDue(g) /\ FireStop(g)
  BY <1>3, <1>7, FireStopInTime DEF at
<1>8. CASE StopDue(g) /\ clearBoth(g) /\ timers' = timers
  <2>1. timers'[g]["stop"] = NoTimer
    BY <1>1, <1>2, <1>3, <1>8 DEF Due
  <2>2. from # 0 => Due(from)
    BY <1>1, <1>3, <1>8 DEF WindowsOrdered, Due, at, from
  <2>3. schedule'[g].start = 0 /\ schedule'[g].stop = 0
    BY <1>8, ClearType
  <2>. QED
    BY <1>3, <1>8, <2>1, <2>2, <2>3 DEF InTime, GoneWhenDue, at, from
<1>9. CASE StartDue(g) /\ FireStart(g, ss)
  <2>1. /\ timers'[g]["stop"] = ss[g]["stop"] /\ schedule'[g].stop = at
        /\ schedule'[g].start \in {0, from}
    BY <1>4, <1>9, FireStartInTime DEF at, from
  <2>. QED
    BY <1>3, <1>6, <1>9, <2>1 DEF InTime, GoneWhenDue, at, from
<1>10. CASE StartDue(g) /\ clearStart(g) /\ timers' = ss
  <2>1. schedule'[g].start = 0 /\ schedule'[g].stop = at
    BY <1>10, ClearType DEF at
  <2>. QED
    BY <1>3, <1>6, <1>10, <2>1 DEF InTime, GoneWhenDue, at, from
<1>11. CASE timers' = bs /\ schedule' = schedule
  BY <1>6, <1>11 DEF InTime, GoneWhenDue, at
<1>. QED
  BY <1>4, <1>5, <1>7, <1>8, <1>9, <1>10, <1>11 DEF ProcessGroup, at, from

LEMMA FireTimerInTime ==
  ASSUME TypeOK, StopTimersCurrent, WindowsOrdered, TimersNotEarly, NEW g \in Groups,
         NEW k \in Kinds, FireTimer(g, k)
  PROVE  InTime(g) /\ queue = <<>>
<1>. DEFINE t == timers[g][k]
<1>1. /\ now \in Nat /\ schedule[g].start \in Nat /\ schedule[g].stop \in Nat
      /\ timers \in [Groups -> [Kinds -> Timer]] /\ t.at \in Nat /\ t # NoTimer
      /\ "stop" \in Kinds /\ queue = <<>>
  <2>1. t # NoTimer /\ queue = <<>>
    BY DEF FireTimer, Idle
  <2>. QED
    BY <2>1 DEF TypeOK, Timer, Kinds
<1>2. /\ timers[g]["stop"] # NoTimer =>
           timers[g]["stop"].at = schedule[g].stop /\ schedule[g].stop # 0
      /\ timers[g]["start"] # NoTimer => schedule[g].start <= timers[g]["start"].at
  BY DEF StopTimersCurrent, TimersNotEarly
<1>3. CASE t.at > now /\ timers' = Arm(timers, g, k, t.at) /\ schedule' = schedule
  <2>. DEFINE as == Arm(timers, g, k, t.at)
  <2>1. /\ as[g][k].at = t.at
        /\ \A h \in Groups, j \in Kinds : ~(h = g /\ j = k) => as[h][j] = timers[h][j]
    BY <1>1, <1>3, ArmType
  <2>. HIDE DEF as
  <2>2. as[g]["stop"] # NoTimer => as[g]["stop"].at = schedule[g].stop /\ schedule[g].stop # 0
    BY <1>1, <1>2, <2>1
  <2>. QED
    BY <1>1, <1>3, <2>2 DEF InTime, GoneWhenDue, as
<1>4. CASE t.at <= now /\ k = "start" /\ FireStart(g, timers)
  <2>1. schedule[g].start # 0 => Due(schedule[g].start)
    BY <1>1, <1>2, <1>4 DEF Due
  <2>. QED
    BY <1>1, <1>2, <1>4, <2>1, FireStartInTime DEF InTime, GoneWhenDue
<1>5. CASE t.at <= now /\ k = "stop" /\ FireStop(g)
  <2>1. Due(schedule[g].stop)
    BY <1>1, <1>2, <1>5 DEF Due
  <2>. QED
    BY <1>1, <1>5, <2>1, FireStopInTime
<1>. QED
  BY <1>1, <1>3, <1>4, <1>5 DEF FireTimer

\* A pass and a timer touch one group; the invariant carries over and nothing goes early.
LEMMA BoundarySteps ==
  ASSUME IInv, StopTimersCurrent, WindowsOrdered,
         SyncStep \/ \E g \in Groups, k \in Kinds : FireTimer(g, k)
  PROVE  StopTimersCurrent' /\ WindowsOrdered' /\ \A g \in Groups : GoneWhenDue(g)
<1>1. \E g \in Groups : /\ InTime(g) /\ Handled(g) /\ now' = now
                        /\ queue = <<>> => queue' = <<>>
  <2>1. CASE SyncStep
    <3>1. queue # <<>> /\ Head(queue) \in Groups
      BY <2>1, InSeqTail DEF SyncStep, IInv, TypeOK
    <3>. QED
      BY <2>1, <3>1, ProcessGroupInTime, SyncStepKeeps DEF SyncStep, IInv
  <2>2. CASE \E g \in Groups, k \in Kinds : FireTimer(g, k)
    <3>1. PICK g \in Groups, k \in Kinds : FireTimer(g, k)
      BY <2>2
    <3>. QED
      BY <3>1, FireTimerInTime, FireTimerHandles DEF IInv, FireTimer
  <2>. QED
    BY <2>1, <2>2
<1>2. PICK g \in Groups : /\ InTime(g) /\ Handled(g) /\ now' = now
                          /\ queue = <<>> => queue' = <<>>
  BY <1>1
<1>3. \A h \in Groups \ {g} : /\ schedule'[h] = schedule[h]
                              /\ timers'[h]["stop"] = timers[h]["stop"]
  BY <1>2 DEF Handled, Kinds
<1>4. StopTimersCurrent'
  BY <1>2, <1>3 DEF StopTimersCurrent, InTime
<1>5. WindowsOrdered'
  BY <1>2, <1>3 DEF WindowsOrdered, InTime
<1>. QED
  BY <1>2, <1>3, <1>4, <1>5 DEF InTime, GoneWhenDue

\* A save and a restore bring windows that are in order, and the timers go.
LEMMA SyncsForget ==
  ASSUME IInv, StopTimersCurrent, WindowsOrdered,
         \/ Lock \/ RestoreBegin \/ RestoreEnd \/ RestoreRefused \/ Restart
         \/ \E g \in Groups, s \in Schedules : SaveGroups(g, s)
         \/ \E kind \in {"engine", "harvester"} : LicenseOk(kind)
  PROVE  StopTimersCurrent' /\ WindowsOrdered'
<1>1. timers' = NoTimers
  BY DEF Lock, RestoreBegin, RestoreEnd, RestoreRefused, Restart, SaveGroups, LicenseOk, Sync,
     IInv, PausedIsSilent
<1>2. StopTimersCurrent'
  BY <1>1, NoTimersType DEF StopTimersCurrent, Kinds
<1>3. CASE schedule' = schedule
  BY <1>2, <1>3 DEF WindowsOrdered
<1>4. CASE schedule' \in [Groups -> Schedules]
  BY <1>2, <1>4, ScheduleAssumption DEF WindowsOrdered
<1>5. ASSUME NEW g \in Groups, NEW s \in Schedules, SaveGroups(g, s) PROVE WindowsOrdered'
  <2>1. schedule' = [schedule EXCEPT ![g] = s] /\ schedule \in [Groups -> Schedule]
    BY <1>5 DEF SaveGroups, IInv, TypeOK, Schedule
  <2>. QED
    BY <2>1, ScheduleAssumption DEF WindowsOrdered
<1>6. \/ schedule' = schedule \/ schedule' \in [Groups -> Schedules]
      \/ \E g \in Groups, s \in Schedules : SaveGroups(g, s)
  BY DEF Lock, RestoreBegin, RestoreEnd, RestoreRefused, Restart, LicenseOk, storeVars
<1>. QED
  BY <1>2, <1>3, <1>4, <1>5, <1>6

LEMMA FinishStartInTime ==
  ASSUME IInv, StopTimersCurrent, WindowsOrdered, NEW g \in Groups, FinishStart(g)
  PROVE  StopTimersCurrent' /\ WindowsOrdered' /\ \A h \in Groups : GoneWhenDue(h)
<1>1. /\ starting \in Seq(Groups) /\ starting # <<>> /\ g = Head(starting)
      /\ TypeOK /\ UNCHANGED <<now, timers, queue>> /\ queue = <<>>
  BY DEF FinishStart, IInv, TypeOK
<1>2. \/ schedule' = schedule
      \/ /\ \A h \in Groups \ {g} : schedule'[h] = schedule[h]
         /\ schedule'[g].start = 0 /\ schedule'[g].stop = schedule[g].stop
         /\ schedule[g].start # 0
  BY <1>1, ClearType DEF FinishStart
<1>3. schedule[g].start # 0 => Due(schedule[g].start)
  <2>1. InSeq(g, starting)
    <3>1. 1 \in 1 .. Len(starting) /\ starting[1] = g
      BY <1>1
    <3>. QED
      BY <3>1 DEF InSeq
  <2>2. schedule[g].start <= now /\ schedule[g].start \in Nat /\ now \in Nat
    BY <1>1, <2>1 DEF IInv, StartingIsDue, TypeOK
  <2>. QED
    BY <2>2 DEF Due
<1>. QED
  BY <1>1, <1>2, <1>3 DEF StopTimersCurrent, WindowsOrdered, GoneWhenDue

LEMMA BoundaryStep ==
  ASSUME IInv, StopTimersCurrent, WindowsOrdered, [Next]_vars
  PROVE  /\ StopTimersCurrent' /\ WindowsOrdered'
         /\ edits' = edits /\ restoring' = restoring => \A g \in Groups : GoneWhenDue(g)
<1>1. CASE \/ Lock \/ RestoreBegin \/ RestoreEnd \/ RestoreRefused \/ Restart
           \/ \E g \in Groups, s \in Schedules : SaveGroups(g, s)
           \/ \E kind \in {"engine", "harvester"} : LicenseOk(kind)
  <2>1. schedule' = schedule \/ edits' # edits \/ restoring' # restoring
    <3>1. edits + 1 # edits
      BY TimeAssumption DEF IInv, TypeOK
    <3>2. CASE RestoreEnd
      BY <3>2 DEF RestoreEnd
    <3>3. CASE \E g \in Groups, s \in Schedules : SaveGroups(g, s)
      BY <3>1, <3>3 DEF SaveGroups
    <3>. QED
      BY <1>1, <3>2, <3>3 DEF Lock, RestoreBegin, RestoreRefused, Restart, LicenseOk, storeVars
  <2>. QED
    BY <1>1, <2>1, SyncsForget DEF GoneWhenDue
<1>2. CASE SyncStep \/ \E g \in Groups, k \in Kinds : FireTimer(g, k)
  BY <1>2, BoundarySteps
<1>3. CASE \E g \in Groups : FinishStart(g)
  BY <1>3, FinishStartInTime
<1>4. CASE Tick
  BY <1>4 DEF Tick, Idle, storeVars, schedVars, StopTimersCurrent, WindowsOrdered, GoneWhenDue
<1>5. CASE \/ UNCHANGED vars \/ LaunchReady \/ StopMonitor \/ EngineFailure \/ EndQuietly
           \/ \E g \in Groups : ManualStop(g) \/ TaskEnd(g)
           \/ \E g \in Groups, what \in {"tasks", "monitor"} : ManualStart(what, g)
  <2>1. UNCHANGED <<now, schedule, timers, queue>>
    BY <1>5 DEF vars, storeVars, schedVars, LaunchReady, StopMonitor, EngineFailure, EndQuietly,
       ManualStop, TaskEnd, ManualStart
  <2>. QED
    BY <2>1 DEF StopTimersCurrent, WindowsOrdered, GoneWhenDue
<1>. QED
  BY <1>1, <1>2, <1>3, <1>4, <1>5 DEF Next

LEMMA BoundaryInit == Init => StopTimersCurrent /\ WindowsOrdered
BY NoTimersType, ScheduleAssumption DEF Init, StopTimersCurrent, WindowsOrdered, Kinds

\* No stop timer outlives the stop it was set for, whatever edits, syncs, restores and
\* clipped delays come between.
THEOREM StopTimersStayCurrent == Spec => []StopTimersCurrent
<1>1. IInv /\ StopTimersCurrent /\ WindowsOrdered /\ [Next]_vars
        => StopTimersCurrent' /\ WindowsOrdered'
  BY BoundaryStep
<1>. QED
  BY Invariant, BoundaryInit, <1>1, PTL DEF Spec

\* The scheduler forgets no start and no stop before its time: the boundary of another group,
\* a retry, an edit elsewhere or a sign-in does not take it away.
THEOREM BoundariesStay == Spec => BoundariesKept
<1>1. IInv /\ StopTimersCurrent /\ WindowsOrdered /\ [Next]_vars
        => /\ StopTimersCurrent' /\ WindowsOrdered'
           /\ edits' = edits /\ restoring' = restoring => \A g \in Groups : GoneWhenDue(g)
  BY BoundaryStep
<1>2. IInv /\ StopTimersCurrent /\ WindowsOrdered /\ [Next]_vars
        => [edits' = edits /\ restoring' = restoring => \A g \in Groups : GoneWhenDue(g)]_vars
  BY <1>1
<1>. QED
  BY Invariant, BoundaryInit, <1>1, <1>2, PTL DEF Spec, BoundariesKept

-----------------------------------------------------------------------------
(* One group at a time *)

OneGroupRuns == \A g, h \in running : g = h

\* The page lets nobody start the tasks of a group while another group runs.
PageRefuses == [][\A g \in Groups : ManualStart("tasks", g) => running \subseteq {g}]_vars

\* No second group falls due while the readiness of a first is looked up.
OneDueAtATime == Len(starting) <= 1

\* A start that is looked up finds nothing running, and the one that waits for the runtime
\* nothing but its own group.
NothingInTheWay ==
  /\ ~Remote => launching = None
  /\ OneGroupRuns
  /\ \A g \in Groups : launching = <<"tasks", g>> => running \subseteq {g}
  /\ starting # <<>> => running = {}

\* fireStart asks for the readiness of a group only while no Target task runs.
LEMMA StartFindsQuiet ==
  ASSUME IInv, SyncStep \/ \E g \in Groups, k \in Kinds : FireTimer(g, k)
  PROVE  /\ running' \subseteq running /\ launching' \in {launching, None}
         /\ starting' # starting => running = {}
<1>1. CASE SyncStep
  <2>1. Handled(Head(queue)) /\ ProcessGroup(Head(queue))
    BY <1>1, SyncStepKeeps DEF SyncStep
  <2>. QED
    BY <2>1 DEF Handled, ProcessGroup, FireStart, FireStop, otherTargetGroupRunning
<1>2. ASSUME NEW g \in Groups, NEW k \in Kinds, FireTimer(g, k)
      PROVE  /\ running' \subseteq running /\ launching' \in {launching, None}
             /\ starting' # starting => running = {}
  <2>1. Handled(g)
    BY <1>2, FireTimerHandles
  <2>. QED
    BY <1>2, <2>1 DEF Handled, FireTimer, FireStart, FireStop, otherTargetGroupRunning
<1>. QED
  BY <1>1, <1>2

LEMMA FinishStartKeepsOne ==
  ASSUME IInv, NothingInTheWay, NEW g \in Groups, FinishStart(g), Remote \/ OneDueAtATime
  PROVE  NothingInTheWay'
<1>1. /\ starting \in Seq(Groups) /\ starting # <<>> /\ starting' = Tail(starting)
      /\ running = {} /\ Remote \in BOOLEAN
  BY TimeAssumption DEF FinishStart, IInv, TypeOK, NothingInTheWay
<1>2. CASE UNCHANGED engineVars
  BY <1>1, <1>2 DEF NothingInTheWay, OneGroupRuns, engineVars
<1>3. CASE GuardedStart("tasks", g) /\ Remote
  BY <1>1, <1>3 DEF NothingInTheWay, OneGroupRuns, GuardedStart
<1>4. CASE GuardedStart("tasks", g) /\ ~Remote
  <2>1. running' = {g} /\ launching' = None
    BY <1>1, <1>4 DEF GuardedStart, StartTarget, NothingInTheWay
  <2>2. starting' = <<>>
    BY <1>1, <1>4 DEF OneDueAtATime
  <2>3. \A h \in Groups : None # <<"tasks", h>>
    BY NoneAssumption
  <2>. QED
    BY <2>1, <2>2, <2>3 DEF NothingInTheWay, OneGroupRuns
<1>. QED
  BY <1>1, <1>2, <1>3, <1>4 DEF FinishStart

LEMMA ManualStartKeepsOne ==
  ASSUME IInv, NothingInTheWay, NEW g \in Groups, NEW what \in {"tasks", "monitor"},
         ManualStart(what, g), what = "tasks" => running \subseteq {g}
  PROVE  NothingInTheWay'
<1>1. starting' = <<>> /\ GuardedStart(what, g)
  BY DEF ManualStart, Idle, schedVars
<1>2. CASE Remote
  <2>1. running' = running /\ launching' = <<what, g>>
    BY <1>1, <1>2 DEF GuardedStart
  <2>. QED
    BY <1>1, <1>2, <2>1 DEF NothingInTheWay, OneGroupRuns
<1>3. CASE ~Remote
  <2>1. launching' = launching /\ launching = None
    BY <1>1, <1>3 DEF GuardedStart, NothingInTheWay
  <2>2. \/ running' = running
        \/ running' = running \cup {g} /\ running \subseteq {g}
    BY <1>1, <1>3 DEF GuardedStart, StartTarget
  <2>3. \A h \in Groups : None # <<"tasks", h>>
    BY NoneAssumption
  <2>. QED
    BY <1>1, <1>3, <2>1, <2>2, <2>3 DEF NothingInTheWay, OneGroupRuns
<1>. QED
  BY <1>2, <1>3

LEMMA LaunchKeepsOne ==
  ASSUME IInv, NothingInTheWay, LaunchReady
  PROVE  NothingInTheWay'
<1>1. starting' = <<>> /\ launching' = None /\ launching \in Launches
  BY DEF LaunchReady, Idle, schedVars, IInv, TypeOK
<1>2. PICK what \in {"tasks", "monitor"}, g \in Groups : launching = <<what, g>>
  BY <1>1 DEF Launches
<1>3. running' = running \/ (what = "tasks" /\ running' = running \cup {g})
  BY <1>2 DEF LaunchReady, StartTarget
<1>4. \A h \in Groups : None # <<"tasks", h>>
  BY NoneAssumption
<1>. QED
  BY <1>1, <1>2, <1>3, <1>4 DEF NothingInTheWay, OneGroupRuns

LEMMA OneGroupStep ==
  ASSUME IInv, NothingInTheWay, [Next]_vars, Remote \/ OneDueAtATime,
         [\A g \in Groups : ManualStart("tasks", g) => running \subseteq {g}]_vars
  PROVE  NothingInTheWay'
<1>1. \A h \in Groups : None # <<"tasks", h>>
  BY NoneAssumption
<1>2. CASE /\ running' \subseteq running /\ launching' \in {launching, None}
           /\ starting' # <<>> => starting' = starting \/ running = {}
  BY <1>1, <1>2 DEF NothingInTheWay, OneGroupRuns
<1>3. CASE SyncStep \/ \E g \in Groups, k \in Kinds : FireTimer(g, k)
  BY <1>2, <1>3, StartFindsQuiet
<1>4. CASE \E g \in Groups : FinishStart(g)
  BY <1>4, FinishStartKeepsOne
<1>5. ASSUME NEW g \in Groups, NEW what \in {"tasks", "monitor"}, ManualStart(what, g)
      PROVE  NothingInTheWay'
  <2>1. CASE UNCHANGED vars
    BY <1>2, <2>1 DEF vars, schedVars, engineVars
  <2>2. CASE ~UNCHANGED vars
    BY <1>5, <2>2, ManualStartKeepsOne
  <2>. QED
    BY <2>1, <2>2
<1>6. CASE LaunchReady
  BY <1>6, LaunchKeepsOne
<1>7. CASE \/ Lock \/ RestoreBegin \/ RestoreRefused \/ Restart \/ EngineFailure
           \/ \E kind \in {"engine", "harvester"} : LicenseOk(kind)
  BY <1>2, <1>7 DEF Lock, RestoreBegin, RestoreRefused, Restart, EngineFailure, LicenseOk, StopAll,
     engineVars, schedVars
<1>8. CASE \/ UNCHANGED vars \/ Tick \/ StopMonitor \/ RestoreEnd \/ EndQuietly
           \/ \E g \in Groups : ManualStop(g) \/ TaskEnd(g)
           \/ \E g \in Groups, s \in Schedules : SaveGroups(g, s)
  <2>1. starting' = starting /\ running' \subseteq running /\ launching' \in {launching, None}
    BY <1>8 DEF vars, Tick, StopMonitor, RestoreEnd, EndQuietly, ManualStop, StopTasks, TaskEnd,
           SaveGroups,
       schedVars, engineVars
  <2>. QED
    BY <1>2, <2>1
<1>. QED
  BY <1>3, <1>4, <1>5, <1>6, <1>7, <1>8 DEF Next

\* Two Target groups run at once only after somebody started one past the page's refusal, or,
\* where a start does not wait for the runtime, after two fell due in one pass: the check for
\* other groups comes before the readiness of either is known.
THEOREM OneGroupAtATime == Spec /\ PageRefuses /\ [](Remote \/ OneDueAtATime) => []OneGroupRuns
<1>1. Init => NothingInTheWay
  BY NoneAssumption DEF Init, NothingInTheWay, OneGroupRuns
<1>2. /\ IInv /\ NothingInTheWay /\ [Next]_vars /\ (Remote \/ OneDueAtATime)
      /\ [\A g \in Groups : ManualStart("tasks", g) => running \subseteq {g}]_vars
      => NothingInTheWay'
  BY OneGroupStep
<1>3. NothingInTheWay => OneGroupRuns
  BY DEF NothingInTheWay
<1>. QED
  BY Invariant, <1>1, <1>2, <1>3, PTL DEF Spec, PageRefuses
=============================================================================
