----------------------------- MODULE SpeedTest -----------------------------
(***************************************************************************)
(* The throughput test of the collector and the daily allowance it spends  *)
(* (collect/SpeedTest.kt, maybeMeasureSpeed in CollectionService.kt, the   *)
(* allowance in CollectorPrefs.kt).                                        *)
(*                                                                         *)
(* A sample may include one test: asked for and checked against the        *)
(* allowance, timed, then charged.  The executor of each service object is *)
(* a thread, and one that is shut down finishes its samples while the next *)
(* object takes its own, so tests may overlap; midnight and the death of   *)
(* the process come between any two steps.  The interval between tests is  *)
(* whether an executor is `rested`, since it ends at some moment and the   *)
(* clock is read for nothing else.                                         *)
(* `FaultySpeedTestAllowed` and `FaultyReadForCharge` are mistakes the     *)
(* properties catch.                                                       *)
(***************************************************************************)
EXTENDS Naturals, FiniteSets

CONSTANTS
    Executors,  \* bound: service objects with samples under way
    Ping,       \* bytes charged for one round trip
    Attempts,   \* PING_ATTEMPTS
    Payload,    \* PAYLOAD_BYTES
    Reserve,    \* SPEEDTEST_RESERVE_BYTES
    Budget,     \* speedTestDailyBudgetBytes
    MaxDay      \* bound: days

TestCost == Attempts * Ping + Payload

\* A whole test fits into what is held back for it.
ASSUME SpeedTestAssumption ==
    /\ IsFiniteSet(Executors)
    /\ Ping \in Nat /\ Attempts \in Nat /\ Payload \in Nat /\ MaxDay \in Nat \ {0}
    /\ Reserve \in Nat /\ Budget \in Nat
    /\ TestCost <= Reserve /\ Reserve <= Budget

VARIABLES
    today,      \* LocalDate.now()
    ledger,     \* the preferences speedtest_day and _bytes
    trials,     \* of an executor: the test its sample is in the middle of
    rested,     \* the executors for which the interval has passed
    spentToday, \* history: bytes of the tests charged today, until they overlap
    overlapped, \* history: one was asked for while another was under way
    misplaced   \* history: a charge read on one day was added to the next

allowance == <<today, ledger, trials, rested, spentToday, overlapped, misplaced>>

NoTrial == [step |-> "none", spent |-> 0, read |-> [day |-> 0, bytes |-> 0]]

SpeedTestInit ==
    /\ today = 1 /\ ledger = NoTrial.read
    /\ trials = [e \in Executors |-> NoTrial]
    /\ rested = Executors
    /\ spentToday = 0 /\ overlapped = FALSE /\ misplaced = FALSE

Rolled == IF ledger.day = today THEN ledger ELSE [day |-> today, bytes |-> 0]

FaultySpeedTestAllowed == Rolled.bytes < Budget

SpeedTestAllowed == Rolled.bytes + Reserve <= Budget

Testing == {e \in Executors : trials[e].step # "none"}

TestStep(e, from, to, spent) ==
    /\ trials[e].step = from
    /\ trials' = [trials EXCEPT ![e].step = to, ![e].spent = @ + spent]

\* A sample comes to the allowance: the executor is rested, the phone is
\* registered and on cellular.  Asking rolls the day even when the allowance
\* or the backlog refuses.
MaybeMeasureSpeed(e, backlog) ==
    /\ e \in rested
    /\ ledger' = Rolled
    /\ IF SpeedTestAllowed /\ ~backlog
       THEN /\ TestStep(e, "none", "latency", 0)
            /\ rested' = rested \ {e}
       ELSE trials[e].step = "none" /\ UNCHANGED <<trials, rested>>
    /\ overlapped' = (overlapped \/ Testing # {})
    /\ UNCHANGED <<today, spentToday, misplaced>>

MeasureLatency(e) ==
    /\ \E answered \in 0..Attempts : TestStep(e, "latency", "download", answered * Ping)
    /\ UNCHANGED <<today, ledger, rested, spentToday, overlapped, misplaced>>

\* A download that breaks off, whatever came of it, counts for nothing.
MeasureDownload(e) ==
    /\ \E read \in {0, Payload} : TestStep(e, "download", "measured", read)
    /\ UNCHANGED <<today, ledger, rested, spentToday, overlapped, misplaced>>

\* The day is not rolled before the charge.
FaultyReadForCharge(e) ==
    /\ trials[e].step = "measured"
    /\ trials' = [trials EXCEPT ![e].step = "charging",
                                ![e].read = [ledger EXCEPT !.day = today]]
    /\ UNCHANGED <<today, ledger, rested, spentToday, overlapped, misplaced>>

ReadForCharge(e) ==
    /\ trials[e].step = "measured"
    /\ ledger' = Rolled
    /\ trials' = [trials EXCEPT ![e].step = "charging", ![e].read = Rolled]
    /\ UNCHANGED <<today, rested, spentToday, overlapped, misplaced>>

\* The sum of what was read and what was spent, and no day, is put; a count
\* of the runs is put beside it, which nothing asks for.
WriteCharge(e) ==
    LET trial == trials[e]
    IN  /\ trial.step = "charging"
        /\ ledger' = [ledger EXCEPT !.bytes = trial.read.bytes + trial.spent]
        /\ trials' = [trials EXCEPT ![e] = NoTrial]
        /\ spentToday' = IF overlapped THEN 0
                         ELSE IF trial.read.day = today THEN spentToday + trial.spent
                         ELSE spentToday
        /\ misplaced' = (misplaced \/ trial.read.day # ledger.day)
        /\ UNCHANGED <<today, rested, overlapped>>

\* The interval has passed, or a new service object takes the executor's place.
Recover(e) ==
    /\ trials[e].step = "none"
    /\ rested' = rested \cup {e}
    /\ UNCHANGED <<today, ledger, trials, spentToday, overlapped, misplaced>>

Midnight ==
    /\ today < MaxDay
    /\ today' = today + 1 /\ spentToday' = 0
    /\ UNCHANGED <<ledger, trials, rested, overlapped, misplaced>>

\* The process dies; tests under way are never charged.
LoseTests ==
    /\ trials' = [e \in Executors |-> NoTrial] /\ rested' = Executors
    /\ UNCHANGED <<today, ledger, spentToday, overlapped, misplaced>>

SpeedTestNext ==
    \/ \E e \in Executors :
        \/ \E backlog \in BOOLEAN : MaybeMeasureSpeed(e, backlog)
        \/ MeasureLatency(e) \/ MeasureDownload(e)
        \/ ReadForCharge(e) \/ WriteCharge(e) \/ Recover(e)
    \/ Midnight \/ LoseTests

-----------------------------------------------------------------------------
\* The ceiling is hard: what is charged in a day never passes the allowance,
\* although it is checked before a test and charged after it
\* (CollectorPrefs.kt 150-158).  Two executors whose tests overlap can carry it
\* over by one test, and by no more however often they do, as long as neither
\* writes a figure of yesterday to today; of three nothing is said, since what
\* one of them read can be written when it is two tests old.
CeilingHolds ==
    ~misplaced =>
        /\ ~overlapped => ledger.bytes <= Budget
        /\ Cardinality(Executors) <= 2 => ledger.bytes <= Budget - Reserve + 2 * TestCost

\* While tests do not overlap, the day's figure is the sum of what the tests
\* charged that day reported: none is lost to yesterday or counted from it,
\* through midnight in the middle of a test, refusals and deaths.
TodayIsCharged ==
    ~overlapped => ~misplaced /\ (ledger.day = today => ledger.bytes = spentToday)

SpeedTestTypeOK ==
    /\ today \in 1..MaxDay /\ rested \subseteq Executors
    /\ {overlapped, misplaced} \subseteq BOOLEAN /\ spentToday \in Nat
    /\ ledger \in [day : 0..MaxDay, bytes : Nat]
    /\ trials \in [Executors ->
                      [step : {"none", "latency", "download", "measured", "charging"},
                       spent : 0..TestCost,
                       read : [day : 0..MaxDay, bytes : Nat]]]
=============================================================================
