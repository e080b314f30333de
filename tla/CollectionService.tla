--------------------------- MODULE CollectionService ---------------------------
(***************************************************************************)
(* Collection on the phone: the foreground service that takes a sample per *)
(* location fix, and what starts and stops it (CollectionService.kt,       *)
(* Sampler.kt, BootReceiver.kt and the switch in MainActivity.kt).         *)
(*                                                                         *)
(* Two threads: the main looper handles intents, location callbacks and    *)
(* the life cycle; each service object has an executor thread that works   *)
(* through its fixes.  Destroying an object only shuts its executor down,  *)
(* so the samples of an old object may overlap those of a new one.  What   *)
(* happens to an enqueued record is the business of StoreForward; a speed  *)
(* test is time that a sample takes; the phone is taken to be enrolled.    *)
(*                                                                         *)
(* Definitions whose names begin with Faulty are deliberate mistakes that  *)
(* no specification uses; they confirm that the properties notice them.    *)
(***************************************************************************)
EXTENDS Integers, Sequences

CONSTANTS
  Services,       \* bound: service objects that exist at the same time
  NoService,
  Places,         \* positions at least minDistanceMetres apart
  MinInterval,    \* minIntervalMillis
  MaxFixAge,      \* MAX_FIX_AGE_MILLIS
  LockTimeout,    \* WAKE_LOCK_TIMEOUT_MILLIS
  Overtaking,     \* whether a start may be sent while a stop is on its way
  MaxPending,     \* bound: fixes waiting for an executor
  MaxTime,        \* bound: the clock
  MaxDeaths       \* bound: deaths of the process and reboots

ASSUME ConstantsAssumption ==
  /\ NoService \notin Services
  /\ MinInterval \in Nat \ {0} /\ MaxFixAge \in Nat \ {0} /\ LockTimeout \in Nat \ {0}
  /\ MaxPending \in Nat /\ MaxTime \in Nat /\ MaxDeaths \in Nat
  /\ Overtaking \in BOOLEAN

VARIABLES
  now,
  permitted,      \* the location permission
  commands,       \* intents on their way to the service
  booting,        \* BOOT_COMPLETED has not been broadcast yet
  current,        \* the service object that exists, if any
  leaving,        \* after stopSelf: how many intents that object still gets; else -1
  updates,        \* the object that receives location updates, if any
  undelivered,    \* the object a last location result is on its way to
  isRunning,      \* CollectionService.isRunning
  enabled,        \* the collectionEnabled preference
  looper,         \* the callback the main thread is in the middle of
  open,           \* the objects whose executors accept tasks
  waiting,        \* of an object: fixes in its executor's queue
  task,           \* of an object: the sample in progress
  lastSample,     \* of an object: its Sampler
  lockedUntil,    \* of an object: when its wake lock times out; -1 while not held
  stopped,        \* history: the user's stop is the last word
  deaths

intents   == <<commands, booting>>
lifecycle == <<current, leaving, updates, undelivered, isRunning, enabled, open>>
sampling  == <<waiting, task, lastSample>>
outside   == <<now, permitted, deaths>>
vars == <<intents, lifecycle, looper, sampling, lockedUntil, stopped, outside>>

Nowhere == "nowhere"
Sample == [place : Places \cup {Nowhere}, at : 0 .. MaxTime]
NoSample == [place |-> Nowhere, at |-> 0]

NoTask == [pc |-> "none", place |-> Nowhere, at |-> 0]

NotBusy == [service |-> NoService, fix |-> NoSample]

Held(s) == lockedUntil[s] # -1

Quiet(s) == s \notin open /\ waiting[s] = <<>> /\ task[s] = NoTask /\ undelivered # s

-----------------------------------------------------------------------------
Init ==
  /\ now = 0 /\ permitted = TRUE /\ deaths = 0
  /\ commands = <<>> /\ booting = FALSE
  /\ current = NoService /\ leaving = -1
  /\ updates = NoService /\ undelivered = NoService
  /\ isRunning = FALSE /\ enabled = FALSE
  /\ looper = NotBusy
  /\ open = {}
  /\ waiting = [s \in Services |-> <<>>]
  /\ task = [s \in Services |-> NoTask]
  /\ lastSample = [s \in Services |-> NoSample]
  /\ lockedUntil = [s \in Services |-> -1]
  /\ stopped = FALSE

-----------------------------------------------------------------------------
(* Who sends intents.  One on its way is as good as two of a kind in a row. *)

Send(command) ==
  /\ commands' = IF /\ Len(commands) > leaving
                    /\ commands # <<>>
                    /\ commands[Len(commands)] = command
                 THEN commands ELSE Append(commands, command)
  /\ UNCHANGED <<lifecycle, looper, sampling, lockedUntil, outside>>

MaySendStart == Overtaking \/ \A i \in DOMAIN commands : commands[i] # "stop"

MainIsFree == looper = NotBusy

\* onToggle while collecting, or the button in the notification.
AskToStop ==
  /\ MainIsFree
  /\ isRunning
  /\ Send("stop")
  /\ UNCHANGED <<booting, stopped>>

\* onToggle while not collecting.
AskToStart ==
  /\ MainIsFree
  /\ ~isRunning
  /\ permitted
  /\ MaySendStart
  /\ stopped' = FALSE
  /\ Send("start")
  /\ UNCHANGED booting

\* resumeCollectionIfWanted
OpenApp ==
  /\ MainIsFree
  /\ ~isRunning
  /\ enabled
  /\ permitted
  /\ MaySendStart
  /\ Send("start")
  /\ UNCHANGED <<booting, stopped>>

\* BootReceiver.onReceive
Boot ==
  /\ booting
  /\ booting' = FALSE
  /\ MaySendStart
  /\ IF enabled
     THEN Send("start")
     ELSE UNCHANGED <<commands, lifecycle, looper, sampling, lockedUntil, outside>>
  /\ UNCHANGED stopped

-----------------------------------------------------------------------------
(* The life of the service, on the main thread                              *)

\* The object that gets the next intent: the one there is, for as long as Android
\* sends it any, or a new one.
Receives(s) ==
  \/ current = s /\ leaving # 0
  \/ current = NoService /\ Quiet(s)

Handle(s, command) ==
  /\ MainIsFree
  /\ commands # <<>> /\ Head(commands) = command
  /\ commands' = Tail(commands)
  /\ Receives(s)
  /\ current' = s
  /\ open' = open \cup {s}
  /\ lastSample' = [lastSample EXCEPT ![s] = IF current = s THEN @ ELSE NoSample]
  /\ UNCHANGED <<booting, waiting, task, lockedUntil, looper, outside>>

\* Once stopSelf is called the object gets the intents sent before, and goes.
Leave(n) == leaving' = IF leaving = -1 THEN n ELSE leaving - 1
Stay == leaving' = IF leaving = -1 THEN -1 ELSE leaving - 1

\* stopCollecting.  A location result may have been posted already.
StopCollecting ==
  /\ updates' = NoService
  /\ undelivered' = IF updates # NoService THEN updates ELSE undelivered
  /\ isRunning' = FALSE
  /\ enabled' = FALSE
  /\ Leave(Len(commands) - 1)

\* startCollecting, requestLocationUpdates; without the permission the request
\* throws and collection stops again (so up to Android 13: later ones already
\* refuse startForeground).
StartCollecting(s) ==
  \/ /\ permitted
     /\ updates' = s /\ isRunning' = TRUE /\ enabled' = TRUE
     /\ Stay
     /\ UNCHANGED undelivered
  \/ ~permitted /\ StopCollecting

HandleStart(s) ==
  /\ Handle(s, "start")
  /\ StartCollecting(s)
  /\ UNCHANGED stopped

\* Mistake: the preference keeps saying that collection is on.
FaultyHandleStop(s) ==
  /\ Handle(s, "stop")
  /\ updates' = NoService
  /\ undelivered' = IF updates # NoService THEN updates ELSE undelivered
  /\ isRunning' = FALSE
  /\ Leave(Len(commands) - 1)
  /\ stopped' = TRUE
  /\ UNCHANGED enabled

\* onStartCommand with ACTION_STOP.  With nothing behind it, it is the last word.
HandleStop(s) ==
  /\ Handle(s, "stop")
  /\ StopCollecting
  /\ stopped' = \/ stopped
                 \/ \A i \in DOMAIN commands : commands[i] = "stop"

\* onDestroy
Destroy ==
  /\ MainIsFree
  /\ leaving = 0
  /\ updates' = NoService
  /\ undelivered' = IF updates # NoService THEN updates ELSE undelivered
  /\ open' = open \ {current}
  /\ lockedUntil' = [lockedUntil EXCEPT ![current] = -1]
  /\ isRunning' = FALSE
  /\ current' = NoService
  /\ leaving' = -1
  /\ UNCHANGED <<intents, enabled, looper, sampling, stopped, outside>>

-----------------------------------------------------------------------------
(* onLocationResult, on the main thread                                     *)

\* The wake lock is taken before the sample is handed over.
AcquireLock(s, place) ==
  /\ MainIsFree
  /\ Len(waiting[s]) < MaxPending
  /\ looper' = [service |-> s, fix |-> [place |-> place, at |-> now]]
  /\ lockedUntil' = [lockedUntil EXCEPT ![s] = now + LockTimeout]
  /\ UNCHANGED <<intents, current, leaving, updates, isRunning, enabled, open, sampling,
                 stopped, outside>>

OnLocationResult(s, place) ==
  /\ updates = s
  /\ AcquireLock(s, place)
  /\ UNCHANGED undelivered

\* The one that was posted before the updates were removed.
OnLateResult(s, place) ==
  /\ undelivered = s
  /\ undelivered' = NoService
  /\ AcquireLock(s, place)

\* Mistake: the lock is left to time out when the executor refuses the task.
FaultyExecute ==
  /\ looper # NotBusy
  /\ looper' = NotBusy
  /\ waiting' = [waiting EXCEPT ![looper.service] =
                   IF looper.service \in open THEN Append(@, looper.fix) ELSE @]
  /\ UNCHANGED <<intents, lifecycle, task, lastSample, lockedUntil, stopped, outside>>

\* work.execute: an executor that is shut down refuses, and the lock is released.
Execute ==
  LET s == looper.service
  IN /\ looper # NotBusy
     /\ looper' = NotBusy
     /\ \/ /\ s \in open
           /\ waiting' = [waiting EXCEPT ![s] = Append(@, looper.fix)]
           /\ UNCHANGED lockedUntil
        \/ /\ s \notin open
           /\ lockedUntil' = [lockedUntil EXCEPT ![s] = -1]
           /\ UNCHANGED waiting
     /\ UNCHANGED <<intents, lifecycle, task, lastSample, stopped, outside>>

-----------------------------------------------------------------------------
(* onLocation, on the executor thread of object s                           *)

Executor(s, next) ==
  /\ task' = [task EXCEPT ![s] = next]
  /\ UNCHANGED <<intents, lifecycle, looper, stopped, outside>>

\* Mistake: the interval is one tick short.
FaultyShouldSample(s, fix) ==
  \/ lastSample[s] = NoSample
  \/ now - lastSample[s].at >= MinInterval - 1
  \/ fix.place # lastSample[s].place

\* Sampler.shouldSample
ShouldSample(s, fix) ==
  \/ lastSample[s] = NoSample
  \/ now - lastSample[s].at >= MinInterval
  \/ fix.place # lastSample[s].place

\* The sample begins: the fix is judged, and given up or measured.
BeginSample(s) ==
  /\ task[s] = NoTask
  /\ waiting[s] # <<>>
  /\ waiting' = [waiting EXCEPT ![s] = Tail(@)]
  /\ LET fix == Head(waiting[s])
     IN \/ Executor(s, [NoTask EXCEPT !.pc = "end"])
        \/ /\ ShouldSample(s, fix)
           /\ now - fix.at <= MaxFixAge
           /\ Executor(s, [pc |-> "record", place |-> fix.place, at |-> now])
  /\ UNCHANGED <<lastSample, lockedUntil>>

\* buildSigned and enqueue, either of which may fail; then markSampled.
Record(s) ==
  /\ task[s].pc = "record"
  /\ \/ lastSample' = [lastSample EXCEPT ![s] = [place |-> task[s].place, at |-> task[s].at]]
     \/ UNCHANGED lastSample
  /\ Executor(s, [NoTask EXCEPT !.pc = "end"])
  /\ UNCHANGED <<waiting, lockedUntil>>

\* The finally block.
EndSample(s) ==
  /\ task[s].pc = "end"
  /\ lockedUntil' = [lockedUntil EXCEPT ![s] = -1]
  /\ Executor(s, NoTask)
  /\ UNCHANGED <<waiting, lastSample>>

-----------------------------------------------------------------------------
(* The environment *)

Tick ==
  /\ now < MaxTime
  /\ now' = now + 1
  /\ lockedUntil' = [s \in Services |-> IF lockedUntil[s] > now' THEN lockedUntil[s] ELSE -1]
  /\ UNCHANGED <<intents, lifecycle, looper, sampling, stopped, permitted, deaths>>

GrantPermission ==
  /\ ~permitted
  /\ permitted' = TRUE
  /\ UNCHANGED <<intents, lifecycle, looper, sampling, lockedUntil, stopped, now, deaths>>

\* What is left of the process when it dies: its preferences.
ProcessDies ==
  /\ deaths < MaxDeaths
  /\ deaths' = deaths + 1
  /\ current' = NoService /\ leaving' = -1
  /\ updates' = NoService /\ undelivered' = NoService
  /\ isRunning' = FALSE
  /\ looper' = NotBusy
  /\ open' = {}
  /\ waiting' = [s \in Services |-> <<>>]
  /\ task' = [s \in Services |-> NoTask]
  /\ lockedUntil' = [s \in Services |-> -1]
  /\ lastSample' = [s \in Services |-> NoSample]
  /\ UNCHANGED <<enabled, stopped, now>>

\* Mistake: the service is not sticky.
FaultyRestart == commands

\* START_STICKY: a service that was started and not stopped is started again,
\* with the intents it has not seen or with none.
Restart ==
  CASE current = NoService -> commands
    [] leaving >= 0 -> SubSeq(commands, leaving + 1, Len(commands))
    [] OTHER -> IF commands = <<>> THEN <<"start">> ELSE commands

\* Android kills the process, for memory or because a permission is revoked.
Kill ==
  /\ ProcessDies
  /\ commands' = Restart
  /\ permitted' \in {permitted, FALSE}
  /\ UNCHANGED booting

Reboot ==
  /\ ProcessDies
  /\ commands' = <<>>
  /\ booting' = TRUE
  /\ UNCHANGED permitted

-----------------------------------------------------------------------------
MainThread ==
  \/ \E s \in Services : HandleStart(s) \/ HandleStop(s)
  \/ Destroy \/ Execute
  \/ \E s \in Services, place \in Places : OnLateResult(s, place)

Thread(s) ==
  \/ BeginSample(s) \/ Record(s) \/ EndSample(s)

Next ==
  \/ AskToStart \/ AskToStop \/ OpenApp \/ Boot
  \/ MainThread
  \/ \E s \in Services : Thread(s) \/ \E place \in Places : OnLocationResult(s, place)
  \/ Tick \/ GrantPermission \/ Kill \/ Reboot

Spec == Init /\ [][Next]_vars

\* Both threads go on, and the boot broadcast arrives.  Nobody is obliged to open
\* the app or to press a button, and no location need ever come.
FairSpec ==
  /\ Spec
  /\ WF_vars(MainThread) /\ WF_vars(Boot)
  /\ \A s \in Services : WF_vars(Thread(s))

-----------------------------------------------------------------------------
(* Properties *)

\* The type invariant.
TypeOK ==
  /\ now \in 0 .. MaxTime /\ deaths \in 0 .. MaxDeaths
  /\ permitted \in BOOLEAN /\ booting \in BOOLEAN /\ isRunning \in BOOLEAN
  /\ enabled \in BOOLEAN /\ stopped \in BOOLEAN
  /\ commands \in Seq({"start", "stop"}) /\ leaving \in -1 .. Len(commands)
  /\ {current, updates, undelivered} \subseteq Services \cup {NoService}
  /\ looper \in [service : Services \cup {NoService}, fix : Sample]
  /\ open \subseteq Services
  /\ current # NoService => current \in open
  /\ current = NoService => leaving = -1
  /\ waiting \in [Services -> Seq(Sample)]
  /\ task \in [Services -> [pc : {"none", "record", "end"},
                            place : Places \cup {Nowhere}, at : 0 .. MaxTime]]
  /\ lastSample \in [Services -> Sample]
  /\ lockedUntil \in [Services -> now + 1 .. now + LockTimeout \cup {-1}]

\* A wake lock is held only while its object has a sample to take: no order of
\* callback, sample, stop and destruction leaves a lock behind ("a held lock
\* outliving the service", collect/CollectionService.kt:460-463).
NoLockWithoutWork ==
  \A s \in Services :
    Held(s) => looper.service = s \/ waiting[s] # <<>> \/ task[s] # NoTask

\* "One record per 100 m or per 60 seconds" (collect/Sampler.kt:17-20), although fixes
\* wait their turn: consecutive records of an object are apart in place or in time.
RecordsSpaced ==
  [][\A s \in Services :
       LET before == lastSample[s]
           after == lastSample'[s]
       IN (before # after /\ before # NoSample /\ after # NoSample)
          => before.place # after.place \/ after.at - before.at >= MinInterval]_vars

\* "Stop still means stop ... a deliberate stop survives both a reopen and a reboot"
\* (ui/MainActivity.kt:169-172): after the user's stop only the user starts again.
StopMeansStop == stopped => ~isRunning /\ updates = NoService

\* Collection resumes after its process was killed and after a reboot, until the
\* user or a missing permission stops it (collect/CollectionService.kt:210-213,
\* collect/BootReceiver.kt:9-16).
ResumesUnlessStopped == enabled ~> isRunning \/ ~enabled

\* "the lock is taken on the callback thread ... and released when the sample is done"
\* (collect/CollectionService.kt:156-159).  Not so while a second fix waits: the
\* first sample's end releases the lock of both, and a long sample outlasts it.
AwakeWhileSampling ==
  \A s \in Services : waiting[s] # <<>> \/ task[s] # NoTask => Held(s)

=============================================================================
