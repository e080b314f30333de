----------------------- MODULE CollectionServiceProofs -----------------------
(***************************************************************************)
(* Theorems about CollectionService, for every set of service objects and  *)
(* places and every value of the intervals and bounds, whether or not a    *)
(* start may overtake a stop.                                              *)
(***************************************************************************)
EXTENDS CollectionService, SequenceTheorems, TLAPS

-----------------------------------------------------------------------------
(* Type correctness, in three parts *)

\* The clock and the flags.
ClockOK == now \in 0 .. MaxTime /\ deaths \in 0 .. MaxDeaths

FlagsOK ==
  /\ permitted \in BOOLEAN /\ booting \in BOOLEAN /\ isRunning \in BOOLEAN
  /\ enabled \in BOOLEAN /\ stopped \in BOOLEAN

\* The intents and the objects.
LifeOK ==
  /\ commands \in Seq({"start", "stop"}) /\ leaving \in -1 .. Len(commands)
  /\ current \in Services \cup {NoService}
  /\ updates \in Services \cup {NoService}
  /\ undelivered \in Services \cup {NoService}
  /\ open \subseteq Services
  /\ current # NoService => current \in open
  /\ current = NoService => leaving = -1

\* The samples.
Tasks == [pc : {"none", "record", "end"}, place : Places \cup {Nowhere}, at : 0 .. MaxTime]

SamplesOK ==
  /\ looper \in [service : Services \cup {NoService}, fix : Sample]
  /\ waiting \in [Services -> Seq(Sample)]
  /\ task \in [Services -> Tasks]
  /\ lastSample \in [Services -> Sample]

LocksOK == lockedUntil \in [Services -> now + 1 .. now + LockTimeout \cup {-1}]

LEMMA TypeParts == TypeOK <=> ClockOK /\ FlagsOK /\ LifeOK /\ SamplesOK /\ LocksOK
BY DEF TypeOK, ClockOK, FlagsOK, LifeOK, SamplesOK, LocksOK, Tasks

LEMMA InitType == Init => TypeOK
<1> SUFFICES ASSUME Init PROVE ClockOK /\ FlagsOK /\ LifeOK /\ SamplesOK /\ LocksOK
  BY TypeParts
<1>0. ClockOK
  BY ConstantsAssumption DEF Init, ClockOK
<1>1. FlagsOK
  BY DEF Init, FlagsOK
<1>2. LifeOK
  BY ConstantsAssumption DEF Init, LifeOK
<1>3. SamplesOK
  BY ConstantsAssumption DEF Init, SamplesOK, Tasks, NoTask, NotBusy, NoSample, Sample
<1>4. LocksOK
  BY ConstantsAssumption DEF Init, LocksOK
<1> QED
  BY <1>0, <1>1, <1>2, <1>3, <1>4

LEMMA TypePartsNext ==
  ClockOK' /\ FlagsOK' /\ LifeOK' /\ SamplesOK' /\ LocksOK' => TypeOK'
BY DEF TypeOK, ClockOK, FlagsOK, LifeOK, SamplesOK, LocksOK, Tasks

\* Sending an intent can only lengthen the queue of intents.
LEMMA SendType ==
  ASSUME TypeOK, NEW c \in {"start", "stop"}, Send(c), ClockOK' /\ FlagsOK'
  PROVE  TypeOK'
<1>1. LifeOK'
  <2>1. commands \in Seq({"start", "stop"}) /\ leaving \in -1 .. Len(commands)
    BY TypeParts DEF LifeOK
  <2>2. commands' \in Seq({"start", "stop"}) /\ Len(commands') >= Len(commands)
    BY <2>1 DEF Send
  <2> QED
    BY <2>1, <2>2, TypeParts DEF Send, LifeOK, lifecycle
<1>2. SamplesOK' /\ LocksOK'
  BY TypeParts DEF Send, SamplesOK, LocksOK, sampling, outside
<1> QED
  BY <1>1, <1>2, TypePartsNext

LEMMA IntentsType ==
  ASSUME TypeOK, AskToStart \/ AskToStop \/ OpenApp \/ Boot
  PROVE  TypeOK'
<1> USE DEF lifecycle, sampling, outside
<1>1. ClockOK'
  BY TypeParts DEF ClockOK, AskToStart, AskToStop, OpenApp, Boot, Send
<1>2. FlagsOK'
  BY TypeParts DEF FlagsOK, AskToStart, AskToStop, OpenApp, Boot, Send
<1>3. CASE AskToStart \/ OpenApp
  BY <1>1, <1>2, <1>3, SendType DEF AskToStart, OpenApp
<1>4. CASE AskToStop
  BY <1>1, <1>2, <1>4, SendType DEF AskToStop
<1>5. CASE Boot
  <2>1. CASE enabled
    BY <1>1, <1>2, <1>5, <2>1, SendType DEF Boot
  <2>2. CASE ~enabled
    <3>1. LifeOK' /\ SamplesOK' /\ LocksOK'
      BY <1>5, <2>2, TypeParts DEF Boot, LifeOK, SamplesOK, LocksOK
    <3> QED
      BY <1>1, <1>2, <3>1, TypePartsNext
  <2> QED
    BY <2>1, <2>2
<1> QED
  BY <1>3, <1>4, <1>5

\* Handling an intent shortens the queue, and an object that is leaving counts it.
LEMMA HandleType ==
  ASSUME TypeOK, NEW s \in Services, HandleStart(s) \/ HandleStop(s)
  PROVE  TypeOK'
<1> USE DEF HandleStart, HandleStop
<1>1. Handle(s, "start") \/ Handle(s, "stop")
  OBVIOUS
<1>2. ClockOK'
  BY <1>1, TypeParts DEF ClockOK, Handle, outside
<1>3. FlagsOK'
  BY TypeParts DEF FlagsOK, Handle, StartCollecting, StopCollecting, outside
<1>4. SamplesOK'
  <2> NoSample \in Sample
    BY TypeParts, ConstantsAssumption DEF NoSample, Sample, ClockOK
  <2> QED
    BY <1>1, TypeParts DEF SamplesOK, Handle
<1>5. LocksOK'
  BY <1>1, TypeParts DEF LocksOK, Handle, outside
<1>6. LifeOK'
  <2>1. commands \in Seq({"start", "stop"}) /\ commands # <<>> /\ commands' = Tail(commands)
    BY <1>1, TypeParts DEF LifeOK, Handle
  <2>2. /\ Len(commands) \in Nat \ {0}
        /\ commands' \in Seq({"start", "stop"}) /\ Len(commands') = Len(commands) - 1
    BY <2>1
  <2>3. current' = s /\ s # NoService /\ open' = open \cup {s} /\ open \subseteq Services
    BY <1>1, ConstantsAssumption, TypeParts DEF Handle, LifeOK
  <2>4. updates' \in Services \cup {NoService} /\ undelivered' \in Services \cup {NoService}
    BY TypeParts DEF LifeOK, StartCollecting, StopCollecting
  <2>5. leaving = -1 \/ leaving \in 1 .. Len(commands)
    BY <1>1, <2>2, <2>3, TypeParts DEF LifeOK, Handle, Receives
  <2>6. Leave(Len(commands) - 1) \/ Stay
    BY DEF StartCollecting, StopCollecting
  <2>7. leaving' \in -1 .. Len(commands')
    BY <2>2, <2>5, <2>6 DEF Leave, Stay
  <2> QED
    BY <2>2, <2>3, <2>4, <2>7 DEF LifeOK
<1> QED
  BY <1>2, <1>3, <1>4, <1>5, <1>6, TypePartsNext

LEMMA DestroyType ==
  ASSUME TypeOK, Destroy
  PROVE  TypeOK'
<1> USE DEF intents, sampling, outside
<1>1. ClockOK' /\ SamplesOK'
  BY TypeParts DEF ClockOK, SamplesOK, Destroy
<1>2. FlagsOK'
  BY TypeParts DEF FlagsOK, Destroy
<1>3. LocksOK'
  BY TypeParts DEF LocksOK, ClockOK, Destroy
<1>4. LifeOK'
  BY TypeParts DEF LifeOK, Destroy
<1> QED
  BY <1>1, <1>2, <1>3, <1>4, TypePartsNext

\* The main thread's callback takes the lock ...
LEMMA AcquireType ==
  ASSUME TypeOK, NEW s \in Services, NEW place \in Places,
         OnLocationResult(s, place) \/ OnLateResult(s, place)
  PROVE  TypeOK'
<1> USE DEF OnLocationResult, OnLateResult, intents, sampling, outside
<1>1. AcquireLock(s, place) /\ undelivered' \in {undelivered, NoService}
  OBVIOUS
<1>2. ClockOK' /\ now' = now
  BY <1>1, TypeParts DEF ClockOK, AcquireLock
<1>3. FlagsOK'
  BY <1>1, TypeParts DEF FlagsOK, AcquireLock
<1>4. LifeOK'
  BY <1>1, TypeParts DEF LifeOK, AcquireLock
<1>5. SamplesOK'
  <2> [place |-> place, at |-> now] \in Sample
    BY TypeParts DEF Sample, ClockOK
  <2> QED
    BY <1>1, TypeParts DEF SamplesOK, AcquireLock
<1>6. LocksOK'
  <2> now + LockTimeout \in now + 1 .. now + LockTimeout
    BY TypeParts, ConstantsAssumption DEF ClockOK
  <2> QED
    BY <1>1, <1>2, TypeParts DEF LocksOK, AcquireLock
<1> QED
  BY <1>2, <1>3, <1>4, <1>5, <1>6, TypePartsNext

\* ... and hands the fix to the executor.
LEMMA ExecuteType ==
  ASSUME TypeOK, Execute
  PROVE  TypeOK'
<1> USE DEF Execute, intents, lifecycle, outside
<1>1. ClockOK'
  BY TypeParts DEF ClockOK
<1>2. FlagsOK'
  BY TypeParts DEF FlagsOK
<1>3. LifeOK'
  BY TypeParts DEF LifeOK
<1>4. SamplesOK'
  <2>1. NoSample \in Sample
    BY TypeParts, ConstantsAssumption DEF NoSample, Sample, ClockOK
  <2>2. looper' \in [service : Services \cup {NoService}, fix : Sample]
    BY <2>1 DEF NotBusy
  <2>3. looper.fix \in Sample /\ waiting \in [Services -> Seq(Sample)]
    BY TypeParts DEF SamplesOK
  <2>4. waiting' \in [Services -> Seq(Sample)]
    <3>1. ASSUME NEW s \in Services PROVE Append(waiting[s], looper.fix) \in Seq(Sample)
      BY <2>3
    <3>2. \/ waiting' = waiting
          \/ waiting' = [waiting EXCEPT ![looper.service] = Append(@, looper.fix)]
      OBVIOUS
    <3> QED
      BY <2>3, <3>1, <3>2
  <2> QED
    BY <2>2, <2>4, TypeParts DEF SamplesOK
<1>5. LocksOK'
  BY TypeParts DEF LocksOK, ClockOK
<1> QED
  BY <1>1, <1>2, <1>3, <1>4, <1>5, TypePartsNext

LEMMA ThreadType ==
  ASSUME TypeOK, NEW s \in Services, Thread(s)
  PROVE  TypeOK'
<1> USE DEF Thread, Executor, intents, lifecycle, outside
<1>1. ClockOK'
  BY TypeParts DEF ClockOK, BeginSample, Record, EndSample
<1>2. FlagsOK'
  BY TypeParts DEF FlagsOK, BeginSample, Record, EndSample
<1>3. LifeOK'
  BY TypeParts DEF LifeOK, BeginSample, Record, EndSample
<1>4. LocksOK'
  BY TypeParts DEF LocksOK, ClockOK, BeginSample, Record, EndSample
<1>5. SamplesOK'
  <2> NoTask \in Tasks /\ [NoTask EXCEPT !.pc = "end"] \in Tasks
    BY TypeParts, ConstantsAssumption DEF Tasks, NoTask, ClockOK
  <2>1. CASE BeginSample(s)
    <3>1. Head(waiting[s]) \in Sample /\ Tail(waiting[s]) \in Seq(Sample)
      BY <2>1, TypeParts DEF BeginSample, SamplesOK
    <3>2. [pc |-> "record", place |-> Head(waiting[s]).place, at |-> now] \in Tasks
      BY <3>1, TypeParts DEF Tasks, Sample, ClockOK
    <3> QED
      BY <2>1, <3>1, <3>2, TypeParts DEF BeginSample, SamplesOK
  <2>2. CASE Record(s)
    <3>1. [place |-> task[s].place, at |-> task[s].at] \in Sample
      BY TypeParts DEF SamplesOK, Tasks, Sample
    <3> QED
      BY <2>2, <3>1, TypeParts DEF Record, SamplesOK
  <2>3. CASE EndSample(s)
    BY <2>3, TypeParts DEF EndSample, SamplesOK
  <2> QED
    BY <2>1, <2>2, <2>3
<1> QED
  BY <1>1, <1>2, <1>3, <1>4, <1>5, TypePartsNext

\* A lock that has not timed out still has its time to go.
LEMMA TickType ==
  ASSUME TypeOK, Tick
  PROVE  TypeOK'
<1> USE DEF Tick, intents, lifecycle, sampling
<1>1. ClockOK'
  BY TypeParts, ConstantsAssumption DEF ClockOK
<1>2. FlagsOK'
  BY TypeParts DEF FlagsOK
<1>3. LifeOK' /\ SamplesOK'
  BY TypeParts DEF LifeOK, SamplesOK
<1>4. LocksOK'
  <2>1. ASSUME NEW s \in Services, lockedUntil[s] > now'
        PROVE  lockedUntil[s] \in now' + 1 .. now' + LockTimeout
    BY <2>1, TypeParts, ConstantsAssumption DEF LocksOK, ClockOK
  <2> QED
    BY <2>1 DEF LocksOK
<1> QED
  BY <1>1, <1>2, <1>3, <1>4, TypePartsNext

\* What is left when the process dies is of the right type, whatever is sent next.
LEMMA DeathType ==
  ASSUME TypeOK, ProcessDies, commands' \in Seq({"start", "stop"}),
         permitted' \in BOOLEAN, booting' \in BOOLEAN
  PROVE  TypeOK'
<1> USE DEF ProcessDies
<1>1. ClockOK'
  <2> now' = now /\ deaths < MaxDeaths /\ deaths' = deaths + 1
    OBVIOUS
  <2> QED
    BY TypeParts, ConstantsAssumption DEF ClockOK
<1>2. FlagsOK'
  BY TypeParts DEF FlagsOK
<1>3. LifeOK'
  <2>1. /\ current' = NoService /\ updates' = NoService /\ undelivered' = NoService
        /\ leaving' = -1 /\ open' = {}
    OBVIOUS
  <2>2. Len(commands') \in Nat
    OBVIOUS
  <2> QED
    BY <2>1, <2>2 DEF LifeOK
<1>4. SamplesOK'
  <2>1. NoSample \in Sample /\ NoTask \in Tasks
    BY TypeParts, ConstantsAssumption DEF NoSample, Sample, NoTask, Tasks, ClockOK
  <2>2. /\ looper' = [service |-> NoService, fix |-> NoSample]
        /\ waiting' = [s \in Services |-> <<>>]
        /\ task' = [s \in Services |-> NoTask]
        /\ lastSample' = [s \in Services |-> NoSample]
    BY DEF NotBusy
  <2> QED
    BY <2>1, <2>2 DEF SamplesOK
<1>5. LocksOK'
  BY DEF LocksOK
<1> QED
  BY <1>1, <1>2, <1>3, <1>4, <1>5, TypePartsNext

\* What a dead process leaves to be sent again are intents.
LEMMA RestartType ==
  ASSUME TypeOK
  PROVE  Restart \in Seq({"start", "stop"})
<1>1. commands \in Seq({"start", "stop"}) /\ leaving \in -1 .. Len(commands)
  BY TypeParts DEF LifeOK
<1>2. CASE current = NoService
  BY <1>1, <1>2 DEF Restart
<1>3. CASE current # NoService /\ leaving >= 0
  <2>1. SubSeq(commands, leaving + 1, Len(commands)) \in Seq({"start", "stop"})
    BY <1>1, <1>3
  <2> QED
    BY <1>3, <2>1 DEF Restart
<1>4. CASE current # NoService /\ ~(leaving >= 0)
  <2>1. <<"start">> \in Seq({"start", "stop"})
    OBVIOUS
  <2> QED
    BY <1>1, <1>4, <2>1 DEF Restart
<1> QED
  BY <1>2, <1>3, <1>4

LEMMA EnvironmentType ==
  ASSUME TypeOK, GrantPermission \/ Kill \/ Reboot
  PROVE  TypeOK'
<1>1. CASE GrantPermission
  <2> USE DEF GrantPermission, intents, lifecycle, sampling
  <2>1. ClockOK' /\ LifeOK' /\ SamplesOK' /\ LocksOK'
    BY <1>1, TypeParts DEF ClockOK, LifeOK, SamplesOK, LocksOK
  <2>2. FlagsOK'
    BY <1>1, TypeParts DEF FlagsOK
  <2> QED
    BY <2>1, <2>2, TypePartsNext
<1>2. CASE Kill
  <2>1. permitted' \in BOOLEAN /\ booting' \in BOOLEAN
    BY <1>2, TypeParts DEF Kill, FlagsOK
  <2>2. ProcessDies /\ commands' \in Seq({"start", "stop"})
    BY <1>2, RestartType DEF Kill
  <2> QED
    BY <2>1, <2>2, DeathType
<1>3. CASE Reboot
  <2>1. permitted' \in BOOLEAN /\ booting' \in BOOLEAN
    BY <1>3, TypeParts DEF Reboot, FlagsOK
  <2>2. ProcessDies /\ commands' \in Seq({"start", "stop"})
    BY <1>3 DEF Reboot
  <2> QED
    BY <2>1, <2>2, DeathType
<1> QED
  BY <1>1, <1>2, <1>3

LEMMA NextType == TypeOK /\ [Next]_vars => TypeOK'
<1> SUFFICES ASSUME TypeOK, [Next]_vars PROVE TypeOK'
  OBVIOUS
<1>1. CASE AskToStart \/ AskToStop \/ OpenApp \/ Boot
  BY <1>1, IntentsType
<1>2. CASE MainThread
  BY <1>2, HandleType, DestroyType, ExecuteType, AcquireType DEF MainThread
<1>3. CASE \E s \in Services : Thread(s) \/ \E place \in Places : OnLocationResult(s, place)
  BY <1>3, ThreadType, AcquireType
<1>4. CASE Tick \/ GrantPermission \/ Kill \/ Reboot
  BY <1>4, TickType, EnvironmentType
<1>5. CASE UNCHANGED vars
  <2>1. ClockOK' /\ LifeOK' /\ SamplesOK' /\ LocksOK'
    BY <1>5, TypeParts
    DEF ClockOK, LifeOK, SamplesOK, LocksOK, vars, intents, lifecycle, sampling, outside
  <2>2. FlagsOK'
    BY <1>5, TypeParts DEF FlagsOK, vars, intents, lifecycle, outside
  <2> QED
    BY <2>1, <2>2, TypePartsNext
<1> QED
  BY <1>1, <1>2, <1>3, <1>4, <1>5 DEF Next

\* Every variable keeps its type; an object that exists has an open executor, and no
\* lock is held longer than its timeout.
THEOREM TypeCorrect == Spec => []TypeOK
BY InitType, NextType, PTL DEF Spec

-----------------------------------------------------------------------------
(* Wake locks.  Given the types, the property is inductive as it stands.    *)

LEMMA LockKept ==
  ASSUME TypeOK, NoLockWithoutWork, [Next]_vars
  PROVE  NoLockWithoutWork'
<1> SUFFICES ASSUME NEW s \in Services, Held(s)'
             PROVE  looper'.service = s \/ waiting'[s] # <<>> \/ task'[s] # NoTask
  BY DEF NoLockWithoutWork, NoTask
<1> lockedUntil'[s] # -1
  BY DEF Held
<1>1. /\ lockedUntil \in [Services -> Int] /\ waiting \in [Services -> Seq(Sample)]
      /\ task \in [Services -> Tasks] /\ s # NoService
  BY TypeParts, ConstantsAssumption DEF LocksOK, ClockOK, SamplesOK
<1>2. lockedUntil[s] # -1 => looper.service = s \/ waiting[s] # <<>> \/ task[s] # NoTask
  BY DEF NoLockWithoutWork, Held
<1>3. CASE UNCHANGED <<looper, waiting, task, lockedUntil>>
  BY <1>2, <1>3
<1>4. CASE Tick
  BY <1>1, <1>2, <1>4 DEF Tick, sampling
<1>5. CASE Destroy
  <2>1. lockedUntil[s] # -1
    BY <1>1, <1>5 DEF Destroy
  <2> QED
    BY <1>2, <1>5, <2>1 DEF Destroy, sampling
<1>6. CASE Execute
  <2>1. CASE looper.service = s
    <3>1. waiting'[s] = Append(waiting[s], looper.fix)
      BY <1>1, <1>6, <2>1 DEF Execute
    <3> QED
      BY SMTT(30), <1>1, <3>1
  <2>2. CASE looper.service # s
    <3>1. waiting'[s] = waiting[s] /\ task' = task /\ lockedUntil'[s] = lockedUntil[s]
      BY <1>1, <1>6, <2>2 DEF Execute
    <3> QED
      BY <1>2, <2>2, <3>1
  <2> QED
    BY <2>1, <2>2
<1>7. ASSUME NEW t \in Services, NEW place \in Places, AcquireLock(t, place)
      PROVE  looper'.service = s \/ waiting'[s] # <<>> \/ task'[s] # NoTask
  <2>1. CASE t = s
    BY <1>7, <2>1 DEF AcquireLock
  <2>2. CASE t # s
    <3>1. lockedUntil'[s] = lockedUntil[s] /\ looper.service # s
          /\ waiting' = waiting /\ task' = task
      BY <1>1, <1>7, <2>2 DEF AcquireLock, MainIsFree, NotBusy, sampling
    <3> QED
      BY <1>2, <3>1
  <2> QED
    BY <2>1, <2>2
<1>8. ASSUME NEW t \in Services, Thread(t)
      PROVE  looper'.service = s \/ waiting'[s] # <<>> \/ task'[s] # NoTask
  <2> USE DEF Executor
  <2>1. CASE t = s /\ (BeginSample(t) \/ Record(t))
    <3>1. task'[s] # NoTask
      BY <1>1, <2>1 DEF BeginSample, Record, NoTask
    <3> QED
      BY <3>1
  <2>2. CASE t = s /\ EndSample(t)
    BY <1>1, <2>2 DEF EndSample
  <2>3. CASE t # s
    <3>1. /\ looper' = looper /\ waiting'[s] = waiting[s] /\ task'[s] = task[s]
          /\ lockedUntil'[s] = lockedUntil[s]
      BY <1>1, <1>8, <2>3 DEF Thread, BeginSample, Record, EndSample
    <3> QED
      BY <1>2, <3>1
  <2> QED
    BY <1>8, <2>1, <2>2, <2>3 DEF Thread
<1>9. CASE Kill \/ Reboot
  BY <1>9 DEF Kill, Reboot, ProcessDies
<1>10. CASE AskToStart \/ AskToStop \/ OpenApp \/ Boot
  <2> UNCHANGED <<looper, waiting, task, lockedUntil>>
    BY <1>10 DEF AskToStart, AskToStop, OpenApp, Boot, Send, sampling
  <2> QED
    BY <1>3
<1>11. CASE \/ \E t \in Services : HandleStart(t) \/ HandleStop(t)
            \/ GrantPermission \/ UNCHANGED vars
  <2> UNCHANGED <<looper, waiting, task, lockedUntil>>
    BY <1>11 DEF HandleStart, HandleStop, Handle, GrantPermission, sampling, vars
  <2> QED
    BY <1>3
<1> QED
  BY <1>4, <1>5, <1>6, <1>7, <1>8, <1>9, <1>10, <1>11
  DEF Next, MainThread, OnLocationResult, OnLateResult

\* No wake lock outlives its object's work, whatever the order of callbacks, samples,
\* stops and destructions.
THEOREM LocksReleased == Spec => []NoLockWithoutWork
<1>1. Init => NoLockWithoutWork
  BY DEF Init, NoLockWithoutWork, Held
<1>2. TypeOK /\ NoLockWithoutWork /\ [Next]_vars => NoLockWithoutWork'
  BY LockKept
<1> QED
  BY <1>1, <1>2, TypeCorrect, PTL DEF Spec

-----------------------------------------------------------------------------
(* Stopping.  That the user's stop holds rests on what could undo it: the  *)
(* preference (OpenApp, Boot), a start on its way, and a restart after the *)
(* death of an object that was not told to leave.                          *)

StopStays ==
  stopped =>
    /\ ~isRunning /\ updates = NoService /\ ~enabled
    /\ \A i \in DOMAIN commands : commands[i] = "stop"
    /\ current # NoService => leaving >= 0

\* Nothing but AskToStart ends a stop, and nothing that follows a stop undoes it.
LEMMA StopKept ==
  ASSUME TypeOK, StopStays, [Next]_vars
  PROVE  StopStays'
<1> SUFFICES ASSUME stopped'
             PROVE  /\ ~isRunning' /\ updates' = NoService /\ ~enabled'
                    /\ \A i \in DOMAIN commands' : commands'[i] = "stop"
                    /\ current' # NoService => leaving' >= 0
  BY DEF StopStays
<1>1. /\ commands \in Seq({"start", "stop"}) /\ leaving \in -1 .. Len(commands)
      /\ current = NoService => leaving = -1
  BY TypeParts DEF LifeOK
<1>2. stopped => /\ ~isRunning /\ updates = NoService /\ ~enabled
                 /\ \A i \in DOMAIN commands : commands[i] = "stop"
                 /\ current # NoService => leaving >= 0
  BY DEF StopStays
<1>3. CASE UNCHANGED <<stopped, isRunning, updates, enabled, commands, current, leaving>>
  BY <1>2, <1>3
<1>4. CASE AskToStart
  BY <1>4 DEF AskToStart
<1>5. CASE AskToStop \/ OpenApp \/ Boot
  <2>1. CASE AskToStop \/ OpenApp
    BY <1>2, <2>1 DEF AskToStop, OpenApp
  <2>2. CASE Boot
    <3> UNCHANGED <<stopped, isRunning, updates, enabled, commands, current, leaving>>
      BY <1>2, <2>2 DEF Boot, lifecycle
    <3> QED
      BY <1>3
  <2> QED
    BY <1>5, <2>1, <2>2
<1>6. ASSUME NEW s \in Services, HandleStart(s)
      PROVE  FALSE
  BY <1>1, <1>2, <1>6 DEF HandleStart, Handle
<1>7. ASSUME NEW s \in Services, HandleStop(s)
      PROVE  /\ ~isRunning' /\ updates' = NoService /\ ~enabled'
             /\ \A i \in DOMAIN commands' : commands'[i] = "stop"
             /\ current' # NoService => leaving' >= 0
  <2> USE <1>7 DEF HandleStop
  <2>1. ~isRunning' /\ updates' = NoService /\ ~enabled'
    BY DEF StopCollecting
  <2>2. \A i \in DOMAIN commands : commands[i] = "stop"
    BY <1>2
  <2>3. commands # <<>> /\ commands' = Tail(commands)
    BY DEF Handle
  <2>4. \A i \in DOMAIN commands' : commands'[i] = "stop"
    BY <1>1, <2>2, <2>3
  <2>5. leaving' >= 0
    <3>1. Len(commands) \in Nat \ {0}
      BY <1>1, <2>3
    <3>2. leaving = -1 \/ leaving >= 1
      BY <1>1 DEF Handle, Receives
    <3> QED
      BY <1>1, <3>1, <3>2 DEF StopCollecting, Leave
  <2> QED
    BY <2>1, <2>4, <2>5
<1>8. CASE Destroy
  BY <1>2, <1>8 DEF Destroy, intents
<1>9. CASE Kill \/ Reboot
  <2>1. stopped /\ ~isRunning' /\ updates' = NoService /\ current' = NoService
        /\ enabled' = enabled
    BY <1>9 DEF Kill, Reboot, ProcessDies
  <2>2. \A i \in DOMAIN commands' : commands'[i] = "stop"
    <3>1. CASE Reboot
      BY <3>1 DEF Reboot
    <3>2. CASE Kill /\ current = NoService
      <4>1. commands' = commands
        BY <1>1, <3>2 DEF Kill, Restart
      <4> QED
        BY <1>2, <2>1, <4>1
    <3>3. CASE Kill /\ current # NoService
      <4>1. leaving >= 0 /\ commands' = SubSeq(commands, leaving + 1, Len(commands))
        BY <1>2, <2>1, <3>3 DEF Kill, Restart
      <4> QED
        BY <1>1, <1>2, <2>1, <4>1
    <3> QED
      BY <1>9, <3>1, <3>2, <3>3
  <2> QED
    BY <1>2, <2>1, <2>2
<1>10. ASSUME NEW s \in Services, NEW place \in Places, AcquireLock(s, place)
       PROVE  UNCHANGED <<stopped, isRunning, updates, enabled, commands, current, leaving>>
  BY <1>10 DEF AcquireLock, intents, outside
<1>11. CASE Execute \/ Tick \/ GrantPermission \/ UNCHANGED vars \/ \E s \in Services : Thread(s)
  <2> UNCHANGED <<stopped, isRunning, updates, enabled, commands, current, leaving>>
    BY <1>11 DEF Execute, Tick, GrantPermission, Thread, BeginSample, Record, EndSample,
                 Executor, vars, intents, lifecycle
  <2> QED
    BY <1>3
<1> QED
  BY <1>3, <1>4, <1>5, <1>6, <1>7, <1>8, <1>9, <1>10, <1>11
  DEF Next, MainThread, OnLocationResult, OnLateResult

\* After the user's stop collection is off until the user starts it again: no
\* reopening, restart or reboot undoes it.
THEOREM StopHolds == Spec => []StopMeansStop
<1>1. Init => StopStays
  BY DEF Init, StopStays
<1>2. TypeOK /\ StopStays /\ [Next]_vars => StopStays'
  BY StopKept
<1>3. StopStays => StopMeansStop
  BY DEF StopStays, StopMeansStop
<1> QED
  BY <1>1, <1>2, <1>3, TypeCorrect, PTL DEF Spec

-----------------------------------------------------------------------------
(* Spacing.  Sampling takes time: between the judgement of a fix and the   *)
(* mark that its sample leaves, the mark it was judged by is still there.  *)

Apart(before, after) ==
  before.place # after.place \/ after.at - before.at >= MinInterval

SampleApart ==
  \A s \in Services :
    task[s].pc = "record" /\ lastSample[s] # NoSample => Apart(lastSample[s], task[s])

\* A step of another object's thread leaves this one's sample and mark alone.
LEMMA OthersSample ==
  ASSUME TypeOK, NEW s \in Services, NEW t \in Services, t # s, Thread(t)
  PROVE  task'[s] = task[s] /\ lastSample'[s] = lastSample[s]
BY TypeParts DEF SamplesOK, Thread, BeginSample, Record, EndSample, Executor

\* A sample is begun only when it is apart from the last one.
LEMMA BegunApart ==
  ASSUME TypeOK, NEW s \in Services, BeginSample(s), task'[s].pc = "record",
         lastSample[s] # NoSample
  PROVE  lastSample'[s] = lastSample[s] /\ Apart(lastSample[s], task'[s])
<1> USE DEF BeginSample, Executor
<1>1. lastSample' = lastSample
  OBVIOUS
<1>2. task'[s] = [pc |-> "record", place |-> Head(waiting[s]).place, at |-> now]
  BY TypeParts DEF SamplesOK, NoTask
<1>3. ShouldSample(s, Head(waiting[s]))
  BY TypeParts DEF SamplesOK, NoTask
<1> QED
  BY <1>1, <1>2, <1>3 DEF ShouldSample, Apart

\* The marks and samples of an object change by its own thread, or are cleared.
LEMMA SampleSteps ==
  ASSUME TypeOK, [Next]_vars, NEW s \in Services
  PROVE  \/ Thread(s)
         \/ task'[s] = task[s] /\ lastSample'[s] = lastSample[s]
         \/ lastSample'[s] = NoSample
<1>1. CASE UNCHANGED sampling
  BY <1>1 DEF sampling
<1>2. ASSUME NEW t \in Services, HandleStart(t) \/ HandleStop(t)
      PROVE  \/ task'[s] = task[s] /\ lastSample'[s] = lastSample[s]
             \/ lastSample'[s] = NoSample
  BY <1>2, TypeParts DEF HandleStart, HandleStop, Handle, SamplesOK
<1>3. ASSUME NEW t \in Services, Thread(t), t # s
      PROVE  task'[s] = task[s] /\ lastSample'[s] = lastSample[s]
  BY <1>3, OthersSample
<1>4. CASE Kill \/ Reboot
  BY <1>4 DEF Kill, Reboot, ProcessDies
<1>5. CASE Execute
  BY <1>5 DEF Execute
<1>6. CASE \/ AskToStart \/ AskToStop \/ OpenApp \/ Boot \/ Destroy
           \/ Tick \/ GrantPermission \/ UNCHANGED vars
           \/ \E t \in Services, place \in Places :
                OnLocationResult(t, place) \/ OnLateResult(t, place)
  <2> UNCHANGED sampling
    BY <1>6 DEF AskToStart, AskToStop, OpenApp, Boot, Send, Destroy, Tick, GrantPermission,
                OnLocationResult, OnLateResult, AcquireLock, vars
  <2> QED
    BY <1>1
<1> QED
  BY <1>2, <1>3, <1>4, <1>5, <1>6 DEF Next, MainThread

LEMMA SampleApartKept ==
  ASSUME TypeOK, SampleApart, [Next]_vars
  PROVE  SampleApart'
<1> SUFFICES ASSUME NEW s \in Services, task'[s].pc = "record", lastSample'[s] # NoSample
             PROVE  Apart(lastSample'[s], task'[s])
  BY DEF SampleApart, Apart, NoSample
<1>1. CASE task'[s] = task[s] /\ lastSample'[s] = lastSample[s]
  BY <1>1 DEF SampleApart
<1>2. CASE BeginSample(s)
  <2> lastSample[s] # NoSample
    BY <1>2 DEF BeginSample
  <2> QED
    BY <1>2, BegunApart
<1>3. CASE Record(s) \/ EndSample(s)
  <2> task'[s].pc # "record"
    BY <1>3, TypeParts DEF Record, EndSample, Executor, NoTask, SamplesOK
  <2> QED
    OBVIOUS
<1> QED
  BY <1>1, <1>2, <1>3, SampleSteps DEF Thread

\* Consecutive records of an object are apart in place or in time, however long a fix
\* waited and a sample took.
THEOREM Spaced == Spec => RecordsSpaced
<1>1. Init => SampleApart
  BY DEF Init, SampleApart, NoTask
<1>2. TypeOK /\ SampleApart /\ [Next]_vars => SampleApart'
  BY SampleApartKept
<1> DEFINE Step == \A s \in Services :
       LET before == lastSample[s]
           after == lastSample'[s]
       IN (before # after /\ before # NoSample /\ after # NoSample)
          => before.place # after.place \/ after.at - before.at >= MinInterval
<1>3. TypeOK /\ SampleApart /\ [Next]_vars => Step
  <2> SUFFICES ASSUME TypeOK, SampleApart, [Next]_vars, NEW s \in Services,
                      lastSample'[s] # lastSample[s],
                      lastSample[s] # NoSample, lastSample'[s] # NoSample
               PROVE  Apart(lastSample[s], lastSample'[s])
    BY DEF Apart
  <2>1. Thread(s)
    BY SampleSteps
  <2>2. Record(s)
    BY <2>1 DEF Thread, BeginSample, EndSample
  <2>3. lastSample'[s] = [place |-> task[s].place, at |-> task[s].at]
    BY <2>2, TypeParts DEF Record, SamplesOK
  <2>4. Apart(lastSample[s], task[s])
    BY <2>2 DEF Record, SampleApart
  <2> QED
    BY <2>3, <2>4 DEF Apart
<1>4. TypeOK /\ SampleApart /\ [Next]_vars => [Step]_vars
  BY <1>3
<1> HIDE DEF Step
<1>5. Spec => [][Step]_vars
  BY <1>1, <1>2, <1>4, TypeCorrect, PTL DEF Spec
<1> QED
  BY <1>5 DEF Step, RecordsSpaced

=============================================================================
