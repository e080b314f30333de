---------------------------- MODULE StoreForward ----------------------------
(***************************************************************************)
(* The path of a measurement from the phone's SQLite queue to the server's *)
(* measurements table.                                                     *)
(*                                                                         *)
(* Actors: the collection service's executor, which enqueues and trims     *)
(* (MeasurementStore.kt); two WorkManager jobs, the one-off upload and the *)
(* periodic safety net, which run the same UploadWorker and may overlap    *)
(* (UploadWorker.kt); requests in flight, which outlive the worker that    *)
(* sent them (ApiClient.kt); and one server transaction per request        *)
(* (services/ingest.py).                                                   *)
(*                                                                         *)
(* A record is a number; numbers order records by captured_at.             *)
(*                                                                         *)
(* Definitions whose names begin with Faulty are deliberate mistakes, each *)
(* a variant of the definition that follows it; no specification uses      *)
(* them.  They serve to confirm that the properties notice such a mistake. *)
(***************************************************************************)
EXTENDS Integers, FiniteSets, SequencesExt

CONSTANTS
  Records,      \* records that may be captured: numbers in captured_at order
  Workers,      \* the two WorkManager jobs
  OneOff,       \* the job requestUpload enqueues
  Slots,        \* bound: requests that can be in flight at once
  NoSlot,       \* a worker that is awaiting no answer
  QueueCap,     \* MAX_QUEUED_RECORDS
  BatchSize,    \* BATCH_SIZE
  MaxBatches,   \* MAX_BATCHES_PER_RUN
  SentLimit,    \* SENT_HISTORY_LIMIT
  Opens,        \* server time from which a record stops being in the future
  Closes,       \* last server time at which a record is not too old
  MaxClock,     \* bound: server time
  Jumps,        \* pairs (earlier, later) too far apart for the time between
  Malformed,    \* records outside the range the request schema accepts
  CanBlock,     \* whether somebody may block the device on the server
  MaxFaults     \* bound: lost answers, aborted transactions, dead processes

ASSUME ConstantsAssumption ==
  /\ Records \subseteq Nat
  /\ IsFiniteSet(Records)
  /\ OneOff \in Workers
  /\ NoSlot \notin Slots
  /\ QueueCap \in Nat \ {0}
  /\ BatchSize \in Nat \ {0}
  /\ MaxBatches \in Nat \ {0}
  /\ SentLimit \in Nat \ {0}
  /\ Opens \in [Records -> Nat]
  /\ Closes \in [Records -> Nat]
  /\ MaxClock \in Nat
  /\ Jumps \subseteq Records \X Records
  /\ Malformed \subseteq Records
  /\ CanBlock \in BOOLEAN
  /\ MaxFaults \in Nat

VARIABLES
  \* the phone's database
  captured,        \* history: records ever inserted
  queue,           \* rows of the queue table
  trimmed,         \* history: records trimIfOversized deleted
  sent,            \* rows of the sent table; age counts the rows inserted after
  totalAccepted,   \* the KEY_TOTAL_ACCEPTED preference
  \* the executor thread inside enqueue
  enqueuing, excess,
  \* WorkManager and its two workers
  work, pc, batch, left, awaiting, verdict, tally,
  \* requests in flight, or in the hands of a server handler
  request,
  \* the server's database
  stored,          \* rows of measurements
  recordsAccepted, \* devices.records_accepted
  refused,         \* history: records some committed batch rejected
  admitted,        \* the device row exists and is not blocked
  clock,
  faults

phone   == <<captured, queue, trimmed>>
history == <<sent, totalAccepted>>
adding  == <<enqueuing, excess>>
workers == <<work, pc, batch, left, awaiting, verdict, tally>>
server  == <<stored, recordsAccepted, refused, admitted, clock>>
vars    == <<phone, history, adding, workers, request, server, faults>>

-----------------------------------------------------------------------------
(* Data *)

Outcomes == {"sent", "rejected"}
Rows     == [rec : Records, outcome : Outcomes, age : 0 .. SentLimit - 1]
Steps    == {"idle", "peek", "wait", "record", "delete", "read", "write"}
Verdicts == [accepted : Nat, rejected : SUBSET Records]
Requests == [status : {"free", "sent", "open", "done"},
             batch : SUBSET Records, fresh : SUBSET Records,
             rejected : SUBSET Records, code : {"ok", "error", "refused"}]

Free ==
  [status |-> "free", batch |-> {}, fresh |-> {}, rejected |-> {}, code |-> "error"]

NoVerdict == [accepted |-> 0, rejected |-> {}]

\* The n rows of S first in captured_at order, and the n last.
Oldest(S, n) == {r \in S : Cardinality({x \in S : x < r}) < n}
FaultyNewest(S, n) == Oldest(S, n)

Newest(S, n) == {r \in S : Cardinality({x \in S : x > r}) < n}

\* check_trajectory: walk the batch in captured_at order; a record that the
\* previous surviving one cannot have reached is rejected and skipped over.
CheckTrajectory(S) ==
  LET Visit(walk, r) ==
        IF <<walk.previous, r>> \in Jumps
        THEN [walk EXCEPT !.rejected = @ \cup {r}]
        ELSE [walk EXCEPT !.previous = r]
  IN FoldLeft(Visit, [previous |-> -1, rejected |-> {}],
              SetToSortSeq(S, LAMBDA x, y : x < y)).rejected

\* validate_record, as far as it decides between storing and refusing.
Valid(r) == Opens[r] <= clock /\ clock <= Closes[r]

Rejected(S) == {r \in S \ stored : r \in CheckTrajectory(S) \/ ~Valid(r)}

\* Rejected records leave no trace on the phone.
FaultyHistoryNoRejections(S, rejected) ==
  {row \in {[row EXCEPT !.age = @ + Cardinality(S)] : row \in sent} \cup
           {[rec |-> r, outcome |-> "sent",
             age |-> Cardinality({x \in S : x > r})] : r \in S \ rejected} :
     row.age < SentLimit}

\* The sent table after a batch: the new rows on top, the oldest pruned.
History(S, rejected) ==
  LET older == {[row EXCEPT !.age = @ + Cardinality(S)] : row \in sent}
      newer == {[rec |-> r,
                 outcome |-> IF r \in rejected THEN "rejected" ELSE "sent",
                 age |-> Cardinality({x \in S : x > r})] : r \in S}
  IN {row \in older \cup newer : row.age < SentLimit}

-----------------------------------------------------------------------------
Init ==
  /\ captured = {} /\ queue = {} /\ trimmed = {}
  /\ sent = {} /\ totalAccepted = 0
  /\ enqueuing = "idle" /\ excess = 0
  /\ work = [w \in Workers |-> IF w = OneOff THEN "none" ELSE "enqueued"]
  /\ pc = [w \in Workers |-> "idle"]
  /\ batch = [w \in Workers |-> {}]
  /\ left = [w \in Workers |-> 0]
  /\ awaiting = [w \in Workers |-> NoSlot]
  /\ verdict = [w \in Workers |-> NoVerdict]
  /\ tally = [w \in Workers |-> 0]
  /\ request = [q \in Slots |-> Free]
  /\ stored = {} /\ recordsAccepted = 0 /\ refused = {}
  /\ admitted = TRUE
  /\ clock = 0
  /\ faults = 0

-----------------------------------------------------------------------------
(* The executor: CollectionService.onLocation, from enqueue on.  Each SQL   *)
(* statement of enqueue is a step of its own.                               *)

Enqueue(r) ==
  /\ enqueuing = "idle"
  /\ r \notin captured
  /\ captured' = captured \cup {r}
  /\ queue' = queue \cup {r}
  /\ enqueuing' = "count"
  /\ UNCHANGED <<trimmed, excess, history, workers, request, server, faults>>

CountQueue ==
  /\ enqueuing = "count"
  /\ excess' = Cardinality(queue) - QueueCap
  /\ enqueuing' = IF Cardinality(queue) > QueueCap THEN "trim" ELSE "request"
  /\ UNCHANGED <<phone, history, workers, request, server, faults>>

TrimIfOversized ==
  /\ enqueuing = "trim"
  /\ queue' = queue \ Newest(queue, excess)
  /\ trimmed' = trimmed \cup Newest(queue, excess)
  /\ enqueuing' = "request"
  /\ UNCHANGED <<captured, excess, history, workers, request, server, faults>>

\* ExistingWorkPolicy.KEEP: a request made while the job is enqueued or running
\* adds nothing.
RequestUpload ==
  /\ enqueuing = "request"
  /\ work' = [work EXCEPT ![OneOff] = IF @ = "none" THEN "enqueued" ELSE @]
  /\ enqueuing' = "idle"
  /\ excess' = 0
  /\ UNCHANGED <<phone, history, pc, batch, left, awaiting, verdict, tally,
                 request, server, faults>>

-----------------------------------------------------------------------------
(* UploadWorker.doWork *)

StartWork(w) ==
  /\ work[w] = "enqueued"
  /\ work' = [work EXCEPT ![w] = "running"]
  /\ pc' = [pc EXCEPT ![w] = "peek"]
  /\ left' = [left EXCEPT ![w] = MaxBatches]
  /\ UNCHANGED <<phone, history, adding, batch, awaiting, verdict, tally,
                 request, server, faults>>

FaultyEnded(w, result) == IF result # "retry" THEN "none" ELSE "enqueued"

\* How the job ends: the periodic one is always enqueued again, the one-off
\* one only when doWork answers retry.
Ended(w, result) ==
  IF w = OneOff /\ result # "retry" THEN "none" ELSE "enqueued"

Leave(w, result) ==
  /\ work' = [work EXCEPT ![w] = Ended(w, result)]
  /\ pc' = [pc EXCEPT ![w] = "idle"]
  /\ batch' = [batch EXCEPT ![w] = {}]
  /\ left' = [left EXCEPT ![w] = 0]
  /\ awaiting' = [awaiting EXCEPT ![w] = NoSlot]
  /\ verdict' = [verdict EXCEPT ![w] = NoVerdict]
  /\ tally' = [tally EXCEPT ![w] = 0]

NothingQueued(w) ==
  /\ pc[w] = "peek"
  /\ queue = {}
  /\ Leave(w, "success")
  /\ UNCHANGED <<phone, history, adding, request, server, faults>>

\* peekBatch and the start of uploadBatch: the queue may change as soon as the
\* query has returned.
PeekAndUpload(w, q) ==
  /\ pc[w] = "peek"
  /\ queue # {}
  /\ request[q].status = "free"
  /\ batch' = [batch EXCEPT ![w] = Oldest(queue, BatchSize)]
  /\ request' = [request EXCEPT ![q] =
       [Free EXCEPT !.status = "sent", !.batch = Oldest(queue, BatchSize)]]
  /\ awaiting' = [awaiting EXCEPT ![w] = q]
  /\ pc' = [pc EXCEPT ![w] = "wait"]
  /\ UNCHANGED <<phone, history, adding, work, left, verdict, tally, server, faults>>

\* Duplicates are credited again.
FaultyReceiveCountsAll(w, q) ==
  /\ pc[w] = "wait" /\ awaiting[w] = q
  /\ request[q].status = "done" /\ request[q].code = "ok"
  /\ verdict' = [verdict EXCEPT ![w] =
       [accepted |-> Cardinality(request[q].batch \ request[q].rejected),
        rejected |-> request[q].rejected]]
  /\ request' = [request EXCEPT ![q] = Free]
  /\ awaiting' = [awaiting EXCEPT ![w] = NoSlot]
  /\ pc' = [pc EXCEPT ![w] = "record"]
  /\ UNCHANGED <<phone, history, adding, work, batch, left, tally, server, faults>>

\* The list of rejected ids is not read.
FaultyReceiveAllSent(w, q) ==
  /\ pc[w] = "wait" /\ awaiting[w] = q
  /\ request[q].status = "done" /\ request[q].code = "ok"
  /\ verdict' = [verdict EXCEPT ![w] =
       [accepted |-> Cardinality(request[q].fresh), rejected |-> {}]]
  /\ request' = [request EXCEPT ![q] = Free]
  /\ awaiting' = [awaiting EXCEPT ![w] = NoSlot]
  /\ pc' = [pc EXCEPT ![w] = "record"]
  /\ UNCHANGED <<phone, history, adding, work, batch, left, tally, server, faults>>

\* A 200: the worker has a verdict on every record of its batch.
ReceiveVerdict(w, q) ==
  /\ pc[w] = "wait" /\ awaiting[w] = q
  /\ request[q].status = "done" /\ request[q].code = "ok"
  /\ verdict' = [verdict EXCEPT ![w] =
       [accepted |-> Cardinality(request[q].fresh), rejected |-> request[q].rejected]]
  /\ request' = [request EXCEPT ![q] = Free]
  /\ awaiting' = [awaiting EXCEPT ![w] = NoSlot]
  /\ pc' = [pc EXCEPT ![w] = "record"]
  /\ UNCHANGED <<phone, history, adding, work, batch, left, tally, server, faults>>

\* Anything but a 200.  401 and 403 end the job, everything else retries it.
ReceiveFailure(w, q) ==
  /\ pc[w] = "wait" /\ awaiting[w] = q
  /\ request[q].status = "done" /\ request[q].code # "ok"
  /\ Leave(w, IF request[q].code = "refused" THEN "failure" ELSE "retry")
  /\ request' = [request EXCEPT ![q] = Free]
  /\ UNCHANGED <<phone, history, adding, server, faults>>

\* A timeout or a broken connection.  The request may still reach the server,
\* or be half way through its transaction, or be answered already.
GiveUp(w, q) ==
  /\ pc[w] = "wait" /\ awaiting[w] = q
  /\ faults < MaxFaults
  /\ faults' = faults + 1
  /\ request' = [request EXCEPT ![q] = IF @.status = "done" THEN Free ELSE @]
  /\ Leave(w, "retry")
  /\ UNCHANGED <<phone, history, adding, server>>

RecordSent(w) ==
  /\ pc[w] = "record"
  /\ sent' = History(batch[w], verdict[w].rejected)
  /\ pc' = [pc EXCEPT ![w] = "delete"]
  /\ UNCHANGED <<phone, totalAccepted, adding, work, batch, left, awaiting,
                 verdict, tally, request, server, faults>>

\* The rows are looked up again instead of remembered.
FaultyDelete(w) ==
  /\ pc[w] = "delete"
  /\ queue' = queue \ Oldest(queue, BatchSize)
  /\ pc' = [pc EXCEPT ![w] = "read"]
  /\ UNCHANGED <<captured, trimmed, history, adding, work, batch, left, awaiting,
                 verdict, tally, request, server, faults>>

Delete(w) ==
  /\ pc[w] = "delete"
  /\ queue' = queue \ batch[w]
  /\ pc' = [pc EXCEPT ![w] = "read"]
  /\ UNCHANGED <<captured, trimmed, history, adding, work, batch, left, awaiting,
                 verdict, tally, request, server, faults>>

\* recordUploadResult reads the preference, adds, and writes it back.
ReadTotal(w) ==
  /\ pc[w] = "read"
  /\ tally' = [tally EXCEPT ![w] = totalAccepted]
  /\ pc' = [pc EXCEPT ![w] = "write"]
  /\ UNCHANGED <<phone, history, adding, work, batch, left, awaiting, verdict,
                 request, server, faults>>

\* The last statement of the loop body: a short batch, or the last one of the
\* run, ends it.
WriteTotal(w) ==
  /\ pc[w] = "write"
  /\ totalAccepted' = tally[w] + verdict[w].accepted
  /\ \/ /\ Cardinality(batch[w]) < BatchSize \/ left[w] <= 1
        /\ Leave(w, "success")
     \/ /\ Cardinality(batch[w]) >= BatchSize /\ left[w] > 1
        /\ left' = [left EXCEPT ![w] = @ - 1]
        /\ pc' = [pc EXCEPT ![w] = "peek"]
        /\ batch' = [batch EXCEPT ![w] = {}]
        /\ verdict' = [verdict EXCEPT ![w] = NoVerdict]
        /\ tally' = [tally EXCEPT ![w] = 0]
        /\ UNCHANGED <<work, awaiting>>
  /\ UNCHANGED <<phone, sent, adding, request, server, faults>>

-----------------------------------------------------------------------------
(* The server: upload_batch and process_batch, one transaction a request.   *)

Answer(q, code) ==
  request' = [request EXCEPT ![q] =
    IF \E w \in Workers : awaiting[w] = q
    THEN [@ EXCEPT !.status = "done", !.code = code]
    ELSE Free]

\* Records out of range are skipped and the batch answered.
FaultyRefuseSchema(q) ==
  /\ request[q].status = "sent"
  /\ request[q].batch \cap Malformed # {}
  /\ Answer(q, "ok")
  /\ UNCHANGED <<phone, history, adding, workers, server, faults>>

\* The body is validated before the handler runs: one record out of range
\* fails the request with 422.
RefuseSchema(q) ==
  /\ request[q].status = "sent"
  /\ request[q].batch \cap Malformed # {}
  /\ Answer(q, "error")
  /\ UNCHANGED <<phone, history, adding, workers, server, faults>>

\* 401 for an unknown device, 403 for a blocked one.
RefuseDevice(q) ==
  /\ request[q].status = "sent"
  /\ request[q].batch \cap Malformed = {}
  /\ ~admitted
  /\ Answer(q, "refused")
  /\ UNCHANGED <<phone, history, adding, workers, server, faults>>

\* received_at is stamped, the ids already stored are read, and every record is
\* judged against those two.
BeginBatch(q) ==
  /\ request[q].status = "sent"
  /\ request[q].batch \cap Malformed = {}
  /\ admitted
  /\ LET S == request[q].batch
     IN request' = [request EXCEPT ![q].status = "open",
                                   ![q].rejected = Rejected(S),
                                   ![q].fresh = (S \ stored) \ Rejected(S)]
  /\ UNCHANGED <<phone, history, adding, workers, server, faults>>

\* measurements has no unique constraint.
FaultyCommitBatch(q) ==
  /\ request[q].status = "open"
  /\ stored' = stored \cup request[q].fresh
  /\ recordsAccepted' = recordsAccepted + Cardinality(request[q].fresh)
  /\ refused' = refused \cup request[q].rejected
  /\ Answer(q, "ok")
  /\ UNCHANGED <<phone, history, adding, workers, admitted, clock, faults>>

CommitBatch(q) ==
  /\ request[q].status = "open"
  /\ request[q].fresh \cap stored = {}
  /\ stored' = stored \cup request[q].fresh
  /\ recordsAccepted' = recordsAccepted + Cardinality(request[q].fresh)
  /\ refused' = refused \cup request[q].rejected
  /\ Answer(q, "ok")
  /\ UNCHANGED <<phone, history, adding, workers, admitted, clock, faults>>

\* A conflict is taken to mean that every record is a duplicate.
FaultyConflictBatch(q) ==
  /\ request[q].status = "open"
  /\ request[q].fresh \cap stored # {}
  /\ Answer(q, "ok")
  /\ UNCHANGED <<phone, history, adding, workers, server, faults>>

\* Another transaction stored one of the records after this one had looked:
\* uq_measurements_device_record rolls the whole batch back with a 500.
ConflictBatch(q) ==
  /\ request[q].status = "open"
  /\ request[q].fresh \cap stored # {}
  /\ Answer(q, "error")
  /\ UNCHANGED <<phone, history, adding, workers, server, faults>>

\* The server process or its database connection dies: rolled back.
AbortBatch(q) ==
  /\ request[q].status = "open"
  /\ faults < MaxFaults
  /\ faults' = faults + 1
  /\ Answer(q, "error")
  /\ UNCHANGED <<phone, history, adding, workers, server>>

-----------------------------------------------------------------------------
(* The environment *)

\* A request nobody waits for any more may never arrive.
LoseRequest(q) ==
  /\ request[q].status = "sent"
  /\ \A w \in Workers : awaiting[w] # q
  /\ request' = [request EXCEPT ![q] = Free]
  /\ UNCHANGED <<phone, history, adding, workers, server, faults>>

\* Android kills the process.  WorkManager runs an interrupted job again.
KillProcess ==
  /\ faults < MaxFaults
  /\ faults' = faults + 1
  /\ enqueuing' = "idle"
  /\ excess' = 0
  /\ work' = [w \in Workers |-> IF work[w] = "running" THEN "enqueued" ELSE work[w]]
  /\ pc' = [w \in Workers |-> "idle"]
  /\ batch' = [w \in Workers |-> {}]
  /\ left' = [w \in Workers |-> 0]
  /\ awaiting' = [w \in Workers |-> NoSlot]
  /\ verdict' = [w \in Workers |-> NoVerdict]
  /\ tally' = [w \in Workers |-> 0]
  /\ request' = [q \in Slots |->
       IF request[q].status = "done" THEN Free ELSE request[q]]
  /\ UNCHANGED <<phone, history, server>>

BlockDevice ==
  /\ CanBlock
  /\ admitted
  /\ admitted' = FALSE
  /\ UNCHANGED <<phone, history, adding, workers, request, stored,
                 recordsAccepted, refused, clock, faults>>

Tick ==
  /\ clock < MaxClock
  /\ clock' = clock + 1
  /\ UNCHANGED <<phone, history, adding, workers, request, stored,
                 recordsAccepted, refused, admitted, faults>>

-----------------------------------------------------------------------------
Executor ==
  \/ \E r \in Records : Enqueue(r)
  \/ CountQueue \/ TrimIfOversized \/ RequestUpload

Worker(w) ==
  \/ StartWork(w)
  \/ NothingQueued(w)
  \/ \E q \in Slots :
       PeekAndUpload(w, q) \/ ReceiveVerdict(w, q) \/ ReceiveFailure(w, q)
  \/ RecordSent(w) \/ Delete(w) \/ ReadTotal(w) \/ WriteTotal(w)

Server(q) ==
  RefuseSchema(q) \/ RefuseDevice(q) \/ BeginBatch(q) \/ CommitBatch(q) \/ ConflictBatch(q)

Environment ==
  \/ \E w \in Workers, q \in Slots : GiveUp(w, q)
  \/ \E q \in Slots : AbortBatch(q) \/ LoseRequest(q)
  \/ KillProcess \/ BlockDevice \/ Tick

Next ==
  \/ Executor
  \/ \E w \in Workers : Worker(w)
  \/ \E q \in Slots : Server(q)
  \/ Environment

Spec == Init /\ [][Next]_vars

\* The executor thread, WorkManager and the server's event loop each keep going.
\* Nothing obliges a record to be captured or a fault to happen, and the faults
\* are finitely many: at some point the phone is in coverage long enough.
Fairness ==
  /\ WF_vars(CountQueue \/ TrimIfOversized \/ RequestUpload)
  /\ \A w \in Workers : WF_vars(Worker(w))
  /\ \A q \in Slots : WF_vars(Server(q))

FairSpec == Spec /\ Fairness

-----------------------------------------------------------------------------
(* Properties *)

TypeOK ==
  /\ captured \subseteq Records
  /\ queue \subseteq Records
  /\ trimmed \subseteq Records
  /\ sent \subseteq Rows
  /\ totalAccepted \in Nat
  /\ enqueuing \in {"idle", "count", "trim", "request"}
  /\ excess \in Int
  /\ work \in [Workers -> {"none", "enqueued", "running"}]
  /\ pc \in [Workers -> Steps]
  /\ batch \in [Workers -> SUBSET Records]
  /\ left \in [Workers -> 0 .. MaxBatches]
  /\ awaiting \in [Workers -> Slots \cup {NoSlot}]
  /\ verdict \in [Workers -> Verdicts]
  /\ tally \in [Workers -> Nat]
  /\ request \in [Slots -> Requests]
  /\ stored \subseteq Records
  /\ recordsAccepted \in Nat
  /\ refused \subseteq Records
  /\ admitted \in BOOLEAN
  /\ clock \in 0 .. MaxClock
  /\ faults \in 0 .. MaxFaults

\* No measurement vanishes: whatever was captured is still queued, or stored, or
\* was refused by the server, or was given up at the cap -- through lost answers,
\* overlapping workers and process death between any two statements.
NoSilentLoss == captured \subseteq queue \cup stored \cup refused \cup trimmed

\* Each record counts once on the server, however many requests carried it:
\* devices.records_accepted is the number of measurement rows.
CountedOnce == recordsAccepted = Cardinality(stored)

\* The collector is never credited with more than the server holds, although
\* two workers may send the same batch and both read and write the total.
TotalNeverOverstates == totalAccepted <= Cardinality(stored)

\* The history screen tells the truth: "sent" rows are on the server, and
\* "rejected" rows were refused by it.
HistoryTruthful ==
  \A row \in sent :
    IF row.outcome = "sent" THEN row.rec \in stored ELSE row.rec \in refused

\* A queued row goes only once the collector can see its verdict in the
\* history, or the history is full of other rows.
VerdictBeforeDeletion ==
  [][\A r \in queue \ queue' :
       \/ r \in trimmed'
       \/ \E row \in sent : row.rec = r
       \/ Cardinality(sent) = SentLimit]_vars

\* Trimming brings the queue back within its cap, and what it gives up is
\* captured after everything it keeps.
TrimSparesOldest ==
  [][\A r \in trimmed' \ trimmed :
       /\ Cardinality(queue') <= QueueCap
       /\ \A kept \in queue' : kept < r]_vars

\* A row leaves the queue ruled on and in the history, or as one of the newest.
RowsLeaveInOrder == VerdictBeforeDeletion /\ TrimSparesOldest

\* Two workers never wait for the same answer, and the answer a worker waits
\* for is about the very records it will delete.
AnswersMatch ==
  \A w \in Workers : pc[w] = "wait" =>
    /\ request[awaiting[w]].status # "free"
    /\ request[awaiting[w]].batch = batch[w]
    /\ \A v \in Workers \ {w} : awaiting[v] # awaiting[w]

\* The three facts that make the safety properties inductive.  The database and
\* the histories name captured records only;
OnlyCaptured == queue \cup trimmed \cup stored \cup refused \subseteq captured

\* an open transaction has found a reason for every record of its batch, and an
\* answered one has stored or refused each of them;
RequestsSound ==
  \A q \in Slots :
    /\ request[q].batch \subseteq captured
    /\ request[q].fresh \cup request[q].rejected \subseteq request[q].batch
    /\ request[q].status = "open" =>
         request[q].batch \subseteq request[q].fresh \cup request[q].rejected \cup stored
    /\ request[q].status = "done" /\ request[q].code = "ok" =>
         /\ request[q].rejected \subseteq refused
         /\ request[q].batch \subseteq request[q].rejected \cup stored

\* a worker that is not running is idle; one that runs awaits an answer about its own batch, which nobody else awaits, and
\* one about to delete its batch holds a true verdict on every record of it.
SoundWorker(w) ==
  /\ work[w] # "running" => pc[w] = "idle"
  /\ pc[w] = "wait" <=> awaiting[w] # NoSlot
  /\ awaiting[w] # NoSlot =>
       /\ request[awaiting[w]].status # "free"
       /\ request[awaiting[w]].batch = batch[w]
       /\ \A v \in Workers \ {w} : awaiting[v] # awaiting[w]
  /\ pc[w] \in {"record", "delete"} =>
       /\ verdict[w].rejected \subseteq refused
       /\ batch[w] \subseteq verdict[w].rejected \cup stored

WorkersSound == \A w \in Workers : SoundWorker(w)

Sound ==
  /\ NoSilentLoss
  /\ OnlyCaptured
  /\ RequestsSound
  /\ WorkersSound
  /\ HistoryTruthful

\* The store-and-forward promise: every queued record leaves the phone, ruled
\* on by the server or given up at the cap.
EventuallyRuledOn == \A r \in Records : r \in queue ~> r \notin queue

\* api/v1/ingest.py:44, "Returns 200 with a per-record breakdown even when some
\* records fail": a record the schema refuses holds up none of the others.
OneBadRecordCostsNoOther ==
  \A r \in Records \ Malformed : r \in queue ~> r \notin queue

\* MeasurementStore.kt:155 "every server verdict is final", and the comments in
\* UploadWorker.kt and ApiClient.kt: a record the server has rejected is one it
\* will never store.
VerdictsFinal == refused \cap stored = {}

\* MeasurementStore.kt:268, "Drops the newest records when the cap is hit": a
\* queue that is being trimmed stays at its cap.
TrimOnlyAtCap == [][trimmed' # trimmed => Cardinality(queue') >= QueueCap]_vars

\* The abstract promise this module implements.
Promise == INSTANCE Delivery WITH
  held <- queue, delivered <- stored, dropped <- trimmed

Implements == Promise!Spec

=============================================================================
