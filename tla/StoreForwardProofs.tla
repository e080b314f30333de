------------------------- MODULE StoreForwardProofs -------------------------
(***************************************************************************)
(* Theorems about StoreForward, for every set of records, workers and      *)
(* request slots and every value of the limits.                            *)
(***************************************************************************)
EXTENDS StoreForward, FiniteSetTheorems, TLAPS

-----------------------------------------------------------------------------
(* Data lemmas *)

\* Sets of records are finite, so that counting them gives a number.
LEMMA CardinalityOfRecords ==
  ASSUME NEW S, S \subseteq Records
  PROVE  IsFiniteSet(S) /\ Cardinality(S) \in Nat
BY ConstantsAssumption, FS_Subset, FS_CardinalityType

\* A record judged fresh or rejected comes from the batch.
LEMMA RejectedInBatch ==
  ASSUME NEW S
  PROVE  Rejected(S) \subseteq S \ stored
BY DEF Rejected

\* recordSent keeps the sent table a set of rows whose ages are in bounds.
LEMMA HistoryType ==
  ASSUME NEW S, NEW R, S \subseteq Records, sent \subseteq Rows
  PROVE  History(S, R) \subseteq Rows
<1> SUFFICES ASSUME NEW row \in History(S, R) PROVE row \in Rows
  OBVIOUS
<1> Cardinality(S) \in Nat /\ SentLimit \in Nat
  BY CardinalityOfRecords, ConstantsAssumption
<1>1. row.age < SentLimit
  BY DEF History
<1>2. CASE \E old \in sent : row = [old EXCEPT !.age = @ + Cardinality(S)]
  <2> PICK old \in sent : row = [old EXCEPT !.age = @ + Cardinality(S)]
    BY <1>2
  <2> old \in Rows
    OBVIOUS
  <2> QED
    BY <1>1 DEF Rows
<1>3. CASE \E r \in S : row = [rec |-> r,
              outcome |-> IF r \in R THEN "rejected" ELSE "sent",
              age |-> Cardinality({x \in S : x > r})]
  <2> PICK r \in S : row = [rec |-> r,
              outcome |-> IF r \in R THEN "rejected" ELSE "sent",
              age |-> Cardinality({x \in S : x > r})]
    BY <1>3
  <2>1. Cardinality({x \in S : x > r}) \in Nat
    <3> {x \in S : x > r} \subseteq Records
      OBVIOUS
    <3> QED
      BY CardinalityOfRecords
  <2> QED
    BY <1>1, <2>1 DEF Rows, Outcomes
<1> QED
  BY <1>2, <1>3 DEF History

-----------------------------------------------------------------------------
(* Type correctness *)

\* The part of the type invariant about the upload workers.
WorkersOK ==
  /\ work \in [Workers -> {"none", "enqueued", "running"}]
  /\ pc \in [Workers -> Steps]
  /\ batch \in [Workers -> SUBSET Records]
  /\ left \in [Workers -> 0 .. MaxBatches]
  /\ awaiting \in [Workers -> Slots \cup {NoSlot}]
  /\ verdict \in [Workers -> Verdicts]
  /\ tally \in [Workers -> Nat]

\* Ending a job leaves its worker with no batch and no request.
LEMMA LeaveType ==
  ASSUME NEW w \in Workers, NEW result, WorkersOK, Leave(w, result)
  PROVE  WorkersOK'
BY ConstantsAssumption DEF WorkersOK, Leave, Ended, Steps, Verdicts, NoVerdict

\* An answered request is a request.
LEMMA AnswerType ==
  ASSUME NEW q \in Slots, NEW code \in {"ok", "error", "refused"},
         request \in [Slots -> Requests], Answer(q, code)
  PROVE  request' \in [Slots -> Requests]
BY ZenonT(40) DEF Answer, Requests, Free

\* The rest of the type invariant.
RestOK ==
  /\ captured \subseteq Records /\ queue \subseteq Records /\ trimmed \subseteq Records
  /\ sent \subseteq Rows /\ totalAccepted \in Nat
  /\ enqueuing \in {"idle", "count", "trim", "request"} /\ excess \in Int
  /\ request \in [Slots -> Requests]
  /\ stored \subseteq Records /\ recordsAccepted \in Nat /\ refused \subseteq Records
  /\ admitted \in BOOLEAN /\ clock \in 0 .. MaxClock /\ faults \in 0 .. MaxFaults

LEMMA TypeParts == TypeOK <=> WorkersOK /\ RestOK
BY DEF TypeOK, WorkersOK, RestOK

LEMMA InitType == Init => TypeOK
<1> SUFFICES ASSUME Init PROVE WorkersOK /\ RestOK
  BY TypeParts
<1>1. WorkersOK
  BY ConstantsAssumption DEF Init, WorkersOK, Steps, Verdicts, NoVerdict
<1>2. RestOK
  BY ConstantsAssumption DEF Init, RestOK, Requests, Free
<1> QED
  BY <1>1, <1>2

LEMMA ExecutorType ==
  ASSUME TypeOK, Executor
  PROVE  TypeOK'
<1> USE DEF phone, history, adding, workers, server
<1> SUFFICES WorkersOK' /\ RestOK'
  BY DEF TypeOK, WorkersOK, RestOK
<1> WorkersOK /\ RestOK
  BY TypeParts
<1>1. ASSUME NEW r \in Records, Enqueue(r) PROVE WorkersOK' /\ RestOK'
  BY <1>1 DEF Enqueue, WorkersOK, RestOK
<1>2. CASE CountQueue
  <2> Cardinality(queue) \in Nat /\ QueueCap \in Nat
    BY CardinalityOfRecords, ConstantsAssumption DEF RestOK
  <2> QED
    BY <1>2 DEF CountQueue, WorkersOK, RestOK
<1>3. CASE TrimIfOversized
  <2> Newest(queue, excess) \subseteq queue
    BY DEF Newest
  <2> QED
    BY <1>3 DEF TrimIfOversized, WorkersOK, RestOK
<1>4. CASE RequestUpload
  BY <1>4, ConstantsAssumption DEF RequestUpload, WorkersOK, RestOK
<1> QED
  BY <1>1, <1>2, <1>3, <1>4 DEF Executor

LEMMA WorkerType ==
  ASSUME TypeOK, NEW w \in Workers, Worker(w)
  PROVE  TypeOK'
<1> USE DEF phone, history, adding, workers, server
<1> SUFFICES WorkersOK' /\ RestOK'
  BY DEF TypeOK, WorkersOK, RestOK
<1> WorkersOK /\ RestOK
  BY TypeParts
<1>1. CASE StartWork(w)
  BY <1>1, ConstantsAssumption DEF StartWork, WorkersOK, RestOK, Steps
<1>2. CASE NothingQueued(w)
  BY <1>2, LeaveType DEF NothingQueued, RestOK
<1>3. ASSUME NEW q \in Slots, PeekAndUpload(w, q) PROVE WorkersOK' /\ RestOK'
  <2> Oldest(queue, BatchSize) \in SUBSET Records
    BY DEF Oldest, RestOK
  <2>1. WorkersOK'
    BY <1>3 DEF PeekAndUpload, WorkersOK, Steps
  <2>2. request' \in [Slots -> Requests]
    BY <1>3 DEF PeekAndUpload, RestOK, Requests, Free
  <2> QED
    BY <1>3, <2>1, <2>2 DEF PeekAndUpload, RestOK
<1>4. ASSUME NEW q \in Slots, ReceiveVerdict(w, q) PROVE WorkersOK' /\ RestOK'
  <2> request[q] \in Requests
    BY DEF RestOK
  <2> Cardinality(request[q].fresh) \in Nat
    BY CardinalityOfRecords DEF Requests
  <2>1. [accepted |-> Cardinality(request[q].fresh),
         rejected |-> request[q].rejected] \in Verdicts
    BY DEF Requests, Verdicts
  <2>2. WorkersOK'
    BY <1>4, <2>1 DEF ReceiveVerdict, WorkersOK, Steps
  <2>3. request' \in [Slots -> Requests]
    BY <1>4 DEF ReceiveVerdict, RestOK, Requests, Free
  <2> QED
    BY <1>4, <2>2, <2>3 DEF ReceiveVerdict, RestOK
<1>5. ASSUME NEW q \in Slots, ReceiveFailure(w, q) PROVE WorkersOK' /\ RestOK'
  <2>1. WorkersOK'
    BY <1>5, LeaveType DEF ReceiveFailure
  <2>2. request' \in [Slots -> Requests]
    BY <1>5 DEF ReceiveFailure, RestOK, Requests, Free
  <2> QED
    BY <1>5, <2>1, <2>2 DEF ReceiveFailure, RestOK
<1>6. CASE RecordSent(w)
  <2> batch[w] \subseteq Records
    BY DEF WorkersOK
  <2>1. sent' \subseteq Rows
    BY <1>6, HistoryType DEF RecordSent, RestOK
  <2> QED
    BY <1>6, <2>1 DEF RecordSent, WorkersOK, RestOK, Steps
<1>7. CASE Delete(w)
  BY <1>7 DEF Delete, WorkersOK, RestOK, Steps
<1>8. CASE ReadTotal(w)
  BY <1>8 DEF ReadTotal, WorkersOK, RestOK, Steps
<1>9. CASE WriteTotal(w)
  <2>1. tally[w] + verdict[w].accepted \in Nat
    BY DEF WorkersOK, Verdicts
  <2>2. CASE Leave(w, "success")
    BY <1>9, <2>1, <2>2, LeaveType DEF WriteTotal, RestOK
  <2>3. CASE /\ left[w] > 1
             /\ left' = [left EXCEPT ![w] = @ - 1]
             /\ pc' = [pc EXCEPT ![w] = "peek"]
             /\ batch' = [batch EXCEPT ![w] = {}]
             /\ verdict' = [verdict EXCEPT ![w] = NoVerdict]
             /\ tally' = [tally EXCEPT ![w] = 0]
             /\ UNCHANGED <<work, awaiting>>
    <3>1. left[w] - 1 \in 0 .. MaxBatches
      BY <2>3, ConstantsAssumption DEF WorkersOK
    <3>2. WorkersOK'
      BY <2>3, <3>1 DEF WorkersOK, Steps, Verdicts, NoVerdict
    <3> QED
      BY <1>9, <2>1, <3>2 DEF WriteTotal, RestOK
  <2> QED
    BY <1>9, <2>2, <2>3 DEF WriteTotal
<1> QED
  BY <1>1, <1>2, <1>3, <1>4, <1>5, <1>6, <1>7, <1>8, <1>9
  DEF Worker

LEMMA ServerType ==
  ASSUME TypeOK, NEW q \in Slots, Server(q)
  PROVE  TypeOK'
<1> USE DEF phone, history, adding, workers, server
<1> SUFFICES WorkersOK' /\ RestOK'
  BY DEF TypeOK, WorkersOK, RestOK
<1> WorkersOK /\ RestOK
  BY TypeParts
<1> request[q] \in Requests
  BY DEF RestOK
<1>1. CASE RefuseSchema(q)
  BY <1>1, AnswerType DEF RefuseSchema, WorkersOK, RestOK
<1>2. CASE RefuseDevice(q)
  BY <1>2, AnswerType DEF RefuseDevice, WorkersOK, RestOK
<1>3. CASE BeginBatch(q)
  <2> DEFINE S == request[q].batch
  <2> S \subseteq Records /\ Rejected(S) \subseteq S
    BY RejectedInBatch DEF Requests
  <2> HIDE DEF S
  <2>1. request' \in [Slots -> Requests]
    BY <1>3 DEF BeginBatch, RestOK, Requests, S
  <2> QED
    BY <1>3, <2>1 DEF BeginBatch, WorkersOK, RestOK
<1>4. CASE CommitBatch(q)
  <2>1. request' \in [Slots -> Requests]
    BY <1>4, AnswerType DEF CommitBatch, RestOK
  <2>2. /\ request[q].fresh \subseteq Records
        /\ request[q].rejected \subseteq Records
    BY DEF Requests
  <2>3. Cardinality(request[q].fresh) \in Nat
    BY <2>2, CardinalityOfRecords
  <2> QED
    BY <1>4, <2>1, <2>2, <2>3 DEF CommitBatch, WorkersOK, RestOK
<1>5. CASE ConflictBatch(q)
  BY <1>5, AnswerType DEF ConflictBatch, WorkersOK, RestOK
<1> QED
  BY <1>1, <1>2, <1>3, <1>4, <1>5 DEF Server

LEMMA EnvironmentType ==
  ASSUME TypeOK, Environment
  PROVE  TypeOK'
<1> USE DEF phone, history, adding, workers, server
<1> SUFFICES WorkersOK' /\ RestOK'
  BY DEF TypeOK, WorkersOK, RestOK
<1> WorkersOK /\ RestOK
  BY TypeParts
<1>1. ASSUME NEW w \in Workers, NEW q \in Slots, GiveUp(w, q)
      PROVE  WorkersOK' /\ RestOK'
  <2>1. WorkersOK'
    BY <1>1, LeaveType DEF GiveUp
  <2>2. request' \in [Slots -> Requests]
    BY <1>1 DEF GiveUp, RestOK, Requests, Free
  <2> QED
    BY <1>1, <2>1, <2>2, ConstantsAssumption DEF GiveUp, RestOK
<1>2. ASSUME NEW q \in Slots, AbortBatch(q) PROVE WorkersOK' /\ RestOK'
  <2>1. request' \in [Slots -> Requests]
    BY <1>2, AnswerType DEF AbortBatch, RestOK
  <2> QED
    BY <1>2, <2>1, ConstantsAssumption DEF AbortBatch, WorkersOK, RestOK
<1>3. ASSUME NEW q \in Slots, LoseRequest(q) PROVE WorkersOK' /\ RestOK'
  <2>1. request' \in [Slots -> Requests]
    BY <1>3 DEF LoseRequest, RestOK, Requests, Free
  <2> QED
    BY <1>3, <2>1 DEF LoseRequest, WorkersOK, RestOK
<1>4. CASE KillProcess
  <2>1. WorkersOK'
    BY <1>4, ConstantsAssumption
    DEF KillProcess, WorkersOK, Steps, Verdicts, NoVerdict
  <2>2. request' \in [Slots -> Requests]
    BY <1>4 DEF KillProcess, RestOK, Requests, Free
  <2> QED
    BY <1>4, <2>1, <2>2, ConstantsAssumption DEF KillProcess, RestOK
<1>5. CASE BlockDevice
  BY <1>5 DEF BlockDevice, WorkersOK, RestOK
<1>6. CASE Tick
  BY <1>6, ConstantsAssumption DEF Tick, WorkersOK, RestOK
<1> QED
  BY <1>1, <1>2, <1>3, <1>4, <1>5, <1>6 DEF Environment

\* Every step, and every stutter, keeps the types.
LEMMA StepType == TypeOK /\ [Next]_vars => TypeOK'
<1>1. ASSUME TypeOK, UNCHANGED vars PROVE TypeOK'
  BY <1>1 DEF TypeOK, vars, phone, history, adding, workers, server
<1> QED
  BY <1>1, ExecutorType, WorkerType, ServerType, EnvironmentType DEF Next

\* The queue, the workers, the requests and the database hold what their
\* declarations say, whatever overlaps, is lost or dies.
THEOREM TypeCorrect == Spec => []TypeOK
<1>1. Init => TypeOK
  BY InitType
<1>2. TypeOK /\ [Next]_vars => TypeOK'
  BY StepType
<1> QED
  BY <1>1, <1>2, PTL DEF Spec

-----------------------------------------------------------------------------
(* The safety invariant *)

\* Nothing has been captured, sent or ruled on.
LEMMA InitSound == Init => Sound
BY DEF Init, Sound, NoSilentLoss, OnlyCaptured, RequestsSound, WorkersSound,
       SoundWorker, HistoryTruthful, Free

\* A phone-side step that touches neither workers nor requests, and forgets only
\* rows that are accounted for, keeps the invariant.
LEMMA ExecutorSound ==
  ASSUME TypeOK, Sound, Executor
  PROVE  Sound'
<1> USE DEF phone, history, workers, server
<1>0. UNCHANGED <<sent, pc, batch, awaiting, verdict, request, stored, refused>>
  BY DEF Executor, Enqueue, CountQueue, TrimIfOversized, RequestUpload
<1>1. /\ captured \subseteq captured'
      /\ NoSilentLoss' /\ OnlyCaptured'
  <2>1. ASSUME NEW r \in Records, Enqueue(r)
        PROVE  captured \subseteq captured' /\ NoSilentLoss' /\ OnlyCaptured'
    BY <1>0, <2>1 DEF Enqueue, Sound, NoSilentLoss, OnlyCaptured
  <2>2. CASE CountQueue
    BY <1>0, <2>2 DEF CountQueue, phone, Sound, NoSilentLoss, OnlyCaptured
  <2>3. CASE TrimIfOversized
    <3> Newest(queue, excess) \subseteq queue
      BY DEF Newest
    <3> QED
      BY <1>0, <2>3 DEF TrimIfOversized, Sound, NoSilentLoss, OnlyCaptured
  <2>4. CASE RequestUpload
    BY <1>0, <2>4 DEF RequestUpload, phone, Sound, NoSilentLoss, OnlyCaptured
  <2> QED
    BY <2>1, <2>2, <2>3, <2>4 DEF Executor
<1>2. RequestsSound'
  BY <1>0, <1>1 DEF Sound, RequestsSound
<1>3. WorkersSound'
  <2>1. \A w \in Workers : work'[w] # "running" => work[w] # "running"
    BY DEF Executor, Enqueue, CountQueue, TrimIfOversized, RequestUpload, TypeOK
  <2> QED
    BY <1>0, <2>1 DEF Sound, WorkersSound, SoundWorker
<1>4. HistoryTruthful'
  BY <1>0 DEF Sound, HistoryTruthful
<1> QED
  BY <1>1, <1>2, <1>3, <1>4 DEF Sound

\* A worker that ends its job gives up its answer and its batch, and disturbs
\* nobody else's.
LEMMA LeaveSound ==
  ASSUME TypeOK, Sound, NEW w \in Workers, NEW result, Leave(w, result),
         UNCHANGED <<stored, refused>>,
         \A v \in Workers \ {w} : awaiting[v] # NoSlot =>
           request'[awaiting[v]] = request[awaiting[v]]
  PROVE  WorkersSound'
<1> SUFFICES ASSUME NEW v \in Workers PROVE SoundWorker(v)'
  BY DEF WorkersSound
<1> TypeOK /\ WorkersSound
  BY DEF Sound
<1>1. CASE v = w
  BY <1>1 DEF Leave, TypeOK, SoundWorker
<1>2. CASE v # w
  <2> /\ pc'[v] = pc[v] /\ awaiting'[v] = awaiting[v] /\ batch'[v] = batch[v]
      /\ verdict'[v] = verdict[v] /\ work'[v] = work[v]
    BY <1>2 DEF Leave, TypeOK
  <2> \A u \in Workers \ {v} : awaiting'[u] = awaiting[u] \/ awaiting'[u] = NoSlot
    BY DEF Leave, TypeOK
  <2>1. SoundWorker(v)
    BY DEF WorkersSound
  <2>2. awaiting[v] # NoSlot => request'[awaiting[v]] = request[awaiting[v]]
    BY <1>2
  <2>3. awaiting'[v] # NoSlot =>
          /\ request'[awaiting'[v]].status # "free"
          /\ request'[awaiting'[v]].batch = batch'[v]
    BY <2>1, <2>2 DEF SoundWorker
  <2>4. awaiting'[v] # NoSlot => \A u \in Workers \ {v} : awaiting'[u] # awaiting'[v]
    BY <2>1 DEF SoundWorker
  <2> QED
    BY <2>1, <2>3, <2>4 DEF SoundWorker
<1> QED
  BY <1>1, <1>2

\* The rows recordSent adds repeat the verdict; the ones it keeps only age.
LEMMA HistorySound ==
  ASSUME TypeOK, HistoryTruthful, NEW S, NEW R, R \subseteq refused,
         S \subseteq R \cup stored
  PROVE  \A row \in History(S, R) :
           IF row.outcome = "sent" THEN row.rec \in stored ELSE row.rec \in refused
<1> SUFFICES ASSUME NEW row \in History(S, R)
             PROVE  IF row.outcome = "sent" THEN row.rec \in stored
                                            ELSE row.rec \in refused
  OBVIOUS
<1>1. CASE \E old \in sent : row = [old EXCEPT !.age = @ + Cardinality(S)]
  <2> PICK old \in sent : row = [old EXCEPT !.age = @ + Cardinality(S)]
    BY <1>1
  <2> old \in Rows
    BY DEF TypeOK
  <2> row.outcome = old.outcome /\ row.rec = old.rec
    BY DEF Rows
  <2> QED
    BY DEF HistoryTruthful
<1>2. CASE \E r \in S : row = [rec |-> r,
              outcome |-> IF r \in R THEN "rejected" ELSE "sent",
              age |-> Cardinality({x \in S : x > r})]
  <2> PICK r \in S : row = [rec |-> r,
              outcome |-> IF r \in R THEN "rejected" ELSE "sent",
              age |-> Cardinality({x \in S : x > r})]
    BY <1>2
  <2> QED
    OBVIOUS
<1> QED
  BY <1>1, <1>2 DEF History

LEMMA WorkerSound ==
  ASSUME TypeOK, Sound, NEW w \in Workers, Worker(w)
  PROVE  Sound'
<1> USE DEF phone, history, adding, server
<1> /\ NoSilentLoss /\ OnlyCaptured /\ RequestsSound /\ WorkersSound
    /\ HistoryTruthful
  BY DEF Sound
<1>1. CASE StartWork(w)
  <2>1. pc[w] = "idle" /\ awaiting[w] = NoSlot
    BY <1>1 DEF StartWork, WorkersSound, SoundWorker
  <2>2. WorkersSound'
    BY <1>1, <2>1 DEF StartWork, WorkersSound, SoundWorker, TypeOK
  <2> QED
    BY <1>1, <2>2
    DEF StartWork, Sound, NoSilentLoss, OnlyCaptured, RequestsSound, HistoryTruthful
<1>2. CASE NothingQueued(w)
  <2>1. WorkersSound'
    BY <1>2, LeaveSound DEF NothingQueued
  <2> QED
    BY <1>2, <2>1
    DEF NothingQueued, Sound, NoSilentLoss, OnlyCaptured, RequestsSound, HistoryTruthful
<1>3. ASSUME NEW q \in Slots, PeekAndUpload(w, q) PROVE Sound'
  <2> DEFINE B == Oldest(queue, BatchSize)
  <2>1. B \subseteq captured
    BY DEF Oldest, OnlyCaptured
  <2> HIDE DEF B
  <2>2. /\ request' = [request EXCEPT ![q] = [Free EXCEPT !.status = "sent", !.batch = B]]
        /\ batch' = [batch EXCEPT ![w] = B]
        /\ awaiting' = [awaiting EXCEPT ![w] = q]
        /\ pc' = [pc EXCEPT ![w] = "wait"]
        /\ request[q].status = "free"
        /\ UNCHANGED <<captured, stored, refused, verdict, work>>
    BY <1>3 DEF PeekAndUpload, B
  <2>3. RequestsSound'
    BY <2>1, <2>2 DEF RequestsSound, TypeOK, Requests, Free
  <2>4. WorkersSound'
    <3>0. work[w] = "running"
      BY <1>3 DEF PeekAndUpload, WorkersSound, SoundWorker
    <3>1. \A v \in Workers : awaiting[v] # q
      BY <2>2, ConstantsAssumption DEF WorkersSound, SoundWorker, TypeOK
    <3>2. q # NoSlot
      BY ConstantsAssumption
    <3>3. /\ request'[q].status = "sent" /\ request'[q].batch = B
          /\ \A p \in Slots \ {q} : request'[p] = request[p]
      BY <2>2 DEF TypeOK, Requests, Free
    <3>4. \A v \in Workers \ {w} :
            /\ pc'[v] = pc[v] /\ awaiting'[v] = awaiting[v] /\ batch'[v] = batch[v]
            /\ verdict'[v] = verdict[v]
      BY <2>2 DEF TypeOK
    <3>5. /\ pc'[w] = "wait" /\ awaiting'[w] = q /\ batch'[w] = B
      BY <2>2 DEF TypeOK
    <3> QED
      <4>1. SoundWorker(w)'
        <5>1. \A v \in Workers \ {w} : awaiting'[v] # q
          BY <3>1, <3>4
        <5> QED
          BY <2>2, <3>0, <3>2, <3>3, <3>5, <5>1 DEF SoundWorker
      <4>2. ASSUME NEW v \in Workers \ {w} PROVE SoundWorker(v)'
        BY <2>2, <3>1, <3>2, <3>3, <3>4, <3>5 DEF SoundWorker, WorkersSound, TypeOK
      <4> QED
        BY <4>1, <4>2 DEF WorkersSound
  <2> QED
    BY <1>3, <2>3, <2>4
    DEF PeekAndUpload, Sound, NoSilentLoss, OnlyCaptured, HistoryTruthful
<1>4. ASSUME NEW q \in Slots, ReceiveVerdict(w, q) PROVE Sound'
  <2>1. RequestsSound'
    BY <1>4 DEF ReceiveVerdict, RequestsSound, TypeOK, Requests, Free
  <2>2. WorkersSound'
    <3>1. /\ request[q].rejected \subseteq refused
          /\ batch[w] \subseteq request[q].rejected \cup stored
      BY <1>4, ConstantsAssumption DEF ReceiveVerdict, RequestsSound, WorkersSound, SoundWorker
    <3>2. \A v \in Workers \ {w} : awaiting[v] # q
      BY <1>4, ConstantsAssumption DEF ReceiveVerdict, WorkersSound, SoundWorker
    <3>3. /\ verdict'[w].rejected = request[q].rejected
          /\ pc'[w] = "record" /\ awaiting'[w] = NoSlot /\ batch' = batch
          /\ work' = work
          /\ stored' = stored /\ refused' = refused
      BY <1>4 DEF ReceiveVerdict, TypeOK
    <3>4. \A v \in Workers \ {w} :
            /\ pc'[v] = pc[v] /\ awaiting'[v] = awaiting[v] /\ verdict'[v] = verdict[v]
      BY <1>4 DEF ReceiveVerdict, TypeOK
    <3>5. \A p \in Slots \ {q} : request'[p] = request[p]
      BY <1>4 DEF ReceiveVerdict, TypeOK
    <3> QED
      <4>1. SoundWorker(w)'
        BY <1>4, <3>1, <3>3 DEF ReceiveVerdict, SoundWorker, WorkersSound
      <4>2. ASSUME NEW v \in Workers \ {w} PROVE SoundWorker(v)'
        <5>1. SoundWorker(v)
          BY DEF WorkersSound
        <5>2. \A u \in Workers : awaiting'[u] = awaiting[u] \/ awaiting'[u] = NoSlot
          BY <1>4 DEF ReceiveVerdict, TypeOK
        <5> QED
          BY <5>1, <5>2, <3>2, <3>3, <3>4, <3>5 DEF SoundWorker, TypeOK
      <4> QED
        BY <4>1, <4>2 DEF WorkersSound
  <2> QED
    BY <1>4, <2>1, <2>2
    DEF ReceiveVerdict, Sound, NoSilentLoss, OnlyCaptured, HistoryTruthful
<1>5. ASSUME NEW q \in Slots, ReceiveFailure(w, q) PROVE Sound'
  <2>1. RequestsSound'
    BY <1>5 DEF ReceiveFailure, RequestsSound, TypeOK, Requests, Free
  <2>2. \A v \in Workers \ {w} : awaiting[v] # NoSlot =>
          request'[awaiting[v]] = request[awaiting[v]]
    BY <1>5, ConstantsAssumption DEF ReceiveFailure, WorkersSound, SoundWorker, TypeOK
  <2>3. WorkersSound'
    BY <1>5, <2>2, LeaveSound DEF ReceiveFailure
  <2> QED
    BY <1>5, <2>1, <2>3
    DEF ReceiveFailure, Sound, NoSilentLoss, OnlyCaptured, HistoryTruthful
<1>6. CASE RecordSent(w)
  <2>1. /\ verdict[w].rejected \subseteq refused
        /\ batch[w] \subseteq verdict[w].rejected \cup stored
    BY <1>6 DEF RecordSent, WorkersSound, SoundWorker
  <2>2. HistoryTruthful'
    BY <1>6, <2>1, HistorySound DEF RecordSent, HistoryTruthful
  <2>3. WorkersSound'
    BY <1>6 DEF RecordSent, WorkersSound, SoundWorker, TypeOK
  <2> QED
    BY <1>6, <2>2, <2>3
    DEF RecordSent, Sound, NoSilentLoss, OnlyCaptured, RequestsSound
<1>7. CASE Delete(w)
  <2>1. batch[w] \subseteq refused \cup stored
    BY <1>7 DEF Delete, WorkersSound, SoundWorker
  <2>2. NoSilentLoss' /\ OnlyCaptured'
    BY <1>7, <2>1 DEF Delete, NoSilentLoss, OnlyCaptured
  <2>3. WorkersSound'
    BY <1>7 DEF Delete, WorkersSound, SoundWorker, TypeOK
  <2> QED
    BY <1>7, <2>2, <2>3 DEF Delete, Sound, RequestsSound, HistoryTruthful
<1>8. CASE ReadTotal(w)
  <2>1. WorkersSound'
    BY <1>8 DEF ReadTotal, WorkersSound, SoundWorker, TypeOK
  <2> QED
    BY <1>8, <2>1
    DEF ReadTotal, Sound, NoSilentLoss, OnlyCaptured, RequestsSound, HistoryTruthful
<1>9. CASE WriteTotal(w)
  <2>1. ASSUME Leave(w, "success") PROVE WorkersSound'
    BY <1>9, <2>1, LeaveSound DEF WriteTotal
  <2>2. ASSUME pc' = [pc EXCEPT ![w] = "peek"],
               batch' = [batch EXCEPT ![w] = {}],
               verdict' = [verdict EXCEPT ![w] = NoVerdict],
               UNCHANGED <<work, awaiting>>
        PROVE  WorkersSound'
    <3>1. awaiting[w] = NoSlot
      BY <1>9 DEF WriteTotal, WorkersSound, SoundWorker
    <3> QED
      BY <1>9, <2>2, <3>1 DEF WriteTotal, WorkersSound, SoundWorker, TypeOK
  <2>3. WorkersSound'
    BY <1>9, <2>1, <2>2 DEF WriteTotal
  <2> QED
    BY <1>9, <2>3
    DEF WriteTotal, Sound, NoSilentLoss, OnlyCaptured, RequestsSound, HistoryTruthful
<1> QED
  BY <1>1, <1>2, <1>3, <1>4, <1>5, <1>6, <1>7, <1>8, <1>9 DEF Worker

\* What answering a request means for its own slot: it is done if somebody
\* waits for it, and free otherwise.
LEMMA AnswerFacts ==
  ASSUME TypeOK, NEW q \in Slots, NEW code, Answer(q, code)
  PROVE  /\ \A p \in Slots \ {q} : request'[p] = request[p]
         /\ \/ request'[q] = [request[q] EXCEPT !.status = "done", !.code = code]
            \/ request'[q] = Free /\ \A w \in Workers : awaiting[w] # q
BY DEF Answer, TypeOK

\* An answer that is not a 200, or a 200 whose verdicts are in the database,
\* keeps the requests and the workers sound.
LEMMA AnswerSound ==
  ASSUME TypeOK, RequestsSound, WorkersSound, NEW q \in Slots, NEW code,
         Answer(q, code), UNCHANGED <<workers, captured>>,
         stored \subseteq stored', refused \subseteq refused',
         code = "ok" => /\ request[q].rejected \subseteq refused'
                        /\ request[q].batch \subseteq request[q].rejected \cup stored'
  PROVE  RequestsSound' /\ WorkersSound'
<1> USE DEF workers
<1>0. request[q] \in Requests
  BY DEF TypeOK
<1>1. /\ \A p \in Slots \ {q} : request'[p] = request[p]
      /\ \/ request'[q] = [request[q] EXCEPT !.status = "done", !.code = code]
         \/ request'[q] = Free /\ \A w \in Workers : awaiting[w] # q
  BY AnswerFacts
<1>2. RequestsSound'
  <2> SUFFICES ASSUME NEW p \in Slots
               PROVE  /\ request'[p].batch \subseteq captured'
                      /\ request'[p].fresh \cup request'[p].rejected
                           \subseteq request'[p].batch
                      /\ request'[p].status = "open" => request'[p].batch
                           \subseteq request'[p].fresh \cup request'[p].rejected \cup stored'
                      /\ request'[p].status = "done" /\ request'[p].code = "ok" =>
                           /\ request'[p].rejected \subseteq refused'
                           /\ request'[p].batch \subseteq request'[p].rejected \cup stored'
    BY DEF RequestsSound
  <2>1. CASE p # q
    BY <1>1, <2>1 DEF RequestsSound
  <2>2. CASE p = q /\ request'[q] = Free
    BY <2>2 DEF Free
  <2>3. CASE p = q /\ request'[q] = [request[q] EXCEPT !.status = "done", !.code = code]
    <3> /\ request'[p].batch = request[q].batch
        /\ request'[p].fresh = request[q].fresh
        /\ request'[p].rejected = request[q].rejected
        /\ request'[p].status = "done" /\ request'[p].code = code
      BY <1>0, <2>3 DEF Requests
    <3> QED
      BY <2>3 DEF RequestsSound
  <2> QED
    BY <1>1, <2>1, <2>2, <2>3
<1>3. WorkersSound'
  <2> SUFFICES ASSUME NEW w \in Workers PROVE SoundWorker(w)'
    BY DEF WorkersSound
  <2>1. SoundWorker(w)
    BY DEF WorkersSound
  <2>2. awaiting[w] # NoSlot =>
          /\ request'[awaiting[w]].status # "free"
          /\ request'[awaiting[w]].batch = request[awaiting[w]].batch
    <3>1. CASE awaiting[w] = q
      BY <1>0, <1>1, <3>1 DEF Requests
    <3>2. CASE awaiting[w] # q
      BY <1>1, <2>1, <3>2 DEF SoundWorker, TypeOK
    <3> QED
      BY <3>1, <3>2
  <2> QED
    BY <2>1, <2>2 DEF SoundWorker
<1> QED
  BY <1>2, <1>3

LEMMA ServerSound ==
  ASSUME TypeOK, Sound, NEW q \in Slots, Server(q)
  PROVE  Sound'
<1> USE DEF phone, history, server
<1> /\ NoSilentLoss /\ OnlyCaptured /\ RequestsSound /\ WorkersSound
    /\ HistoryTruthful
  BY DEF Sound
<1>1. CASE RefuseSchema(q)
  <2>1. RequestsSound' /\ WorkersSound'
    BY <1>1, AnswerSound DEF RefuseSchema
  <2> QED
    BY <1>1, <2>1 DEF RefuseSchema, Sound, NoSilentLoss, OnlyCaptured, HistoryTruthful
<1>2. CASE RefuseDevice(q)
  <2>1. RequestsSound' /\ WorkersSound'
    BY <1>2, AnswerSound DEF RefuseDevice
  <2> QED
    BY <1>2, <2>1 DEF RefuseDevice, Sound, NoSilentLoss, OnlyCaptured, HistoryTruthful
<1>3. CASE BeginBatch(q)
  <2> DEFINE S == request[q].batch
  <2> DEFINE R == Rejected(S)
  <2>1. R \subseteq S
    BY RejectedInBatch
  <2>2. request' = [request EXCEPT ![q].status = "open", ![q].rejected = R,
                                   ![q].fresh = (S \ stored) \ R]
    BY <1>3 DEF BeginBatch
  <2>3. /\ request'[q].status = "open" /\ request'[q].batch = S
        /\ request'[q].rejected = R /\ request'[q].fresh = (S \ stored) \ R
        /\ \A p \in Slots \ {q} : request'[p] = request[p]
    <3> HIDE DEF R
    <3> QED
      BY <2>2 DEF TypeOK, Requests
  <2> HIDE DEF R
  <2>4. RequestsSound'
    BY ZenonT(40), <1>3, <2>1, <2>3 DEF BeginBatch, RequestsSound
  <2>5. WorkersSound'
    <3> SUFFICES ASSUME NEW w \in Workers PROVE SoundWorker(w)'
      BY DEF WorkersSound
    <3>1. SoundWorker(w)
      BY DEF WorkersSound
    <3> QED
      BY <1>3, <2>3, <3>1 DEF BeginBatch, workers, SoundWorker, TypeOK
  <2> QED
    BY <1>3, <2>4, <2>5
    DEF BeginBatch, Sound, NoSilentLoss, OnlyCaptured, HistoryTruthful
<1>4. CASE CommitBatch(q)
  <2>1. request[q].batch \subseteq request[q].fresh \cup request[q].rejected \cup stored
    BY <1>4 DEF CommitBatch, RequestsSound
  <2>2. /\ stored' = stored \cup request[q].fresh
        /\ refused' = refused \cup request[q].rejected
        /\ Answer(q, "ok")
        /\ UNCHANGED <<captured, queue, trimmed, sent, workers>>
    BY <1>4 DEF CommitBatch
  <2>3. request[q].fresh \cup request[q].rejected \subseteq captured
    BY DEF RequestsSound
  <2>4. RequestsSound' /\ WorkersSound'
    BY <2>1, <2>2, AnswerSound
  <2>5. NoSilentLoss' /\ OnlyCaptured' /\ HistoryTruthful'
    BY <2>2, <2>3 DEF NoSilentLoss, OnlyCaptured, HistoryTruthful
  <2> QED
    BY <2>4, <2>5 DEF Sound
<1>5. CASE ConflictBatch(q)
  <2>1. RequestsSound' /\ WorkersSound'
    BY <1>5, AnswerSound DEF ConflictBatch
  <2> QED
    BY <1>5, <2>1 DEF ConflictBatch, Sound, NoSilentLoss, OnlyCaptured, HistoryTruthful
<1> QED
  BY <1>1, <1>2, <1>3, <1>4, <1>5 DEF Server

LEMMA EnvironmentSound ==
  ASSUME TypeOK, Sound, Environment
  PROVE  Sound'
<1> USE DEF phone, history, server
<1> /\ NoSilentLoss /\ OnlyCaptured /\ RequestsSound /\ WorkersSound
    /\ HistoryTruthful
  BY DEF Sound
<1>1. ASSUME NEW w \in Workers, NEW q \in Slots, GiveUp(w, q) PROVE Sound'
  <2>1. \A v \in Workers \ {w} : awaiting[v] # q
    BY <1>1, ConstantsAssumption DEF GiveUp, WorkersSound, SoundWorker
  <2>2. \A p \in Slots : request'[p] = request[p] \/ request'[p] = Free
    BY <1>1 DEF GiveUp, TypeOK
  <2>3. \A v \in Workers \ {w} : awaiting[v] # NoSlot =>
          request'[awaiting[v]] = request[awaiting[v]]
    BY <1>1, <2>1 DEF GiveUp, TypeOK
  <2>4. WorkersSound'
    BY <1>1, <2>3, LeaveSound DEF GiveUp
  <2>5. RequestsSound'
    BY <1>1, <2>2 DEF GiveUp, RequestsSound, Free
  <2> QED
    BY <1>1, <2>4, <2>5 DEF GiveUp, Sound, NoSilentLoss, OnlyCaptured, HistoryTruthful
<1>2. ASSUME NEW q \in Slots, AbortBatch(q) PROVE Sound'
  <2>1. RequestsSound' /\ WorkersSound'
    BY <1>2, AnswerSound DEF AbortBatch
  <2> QED
    BY <1>2, <2>1 DEF AbortBatch, Sound, NoSilentLoss, OnlyCaptured, HistoryTruthful
<1>3. ASSUME NEW q \in Slots, LoseRequest(q) PROVE Sound'
  <2>1. /\ request'[q] = Free
        /\ \A p \in Slots \ {q} : request'[p] = request[p]
        /\ \A w \in Workers : awaiting[w] # q
    BY <1>3 DEF LoseRequest, TypeOK
  <2>2. RequestsSound'
    BY <1>3, <2>1 DEF LoseRequest, RequestsSound, Free
  <2>3. WorkersSound'
    <3> SUFFICES ASSUME NEW w \in Workers PROVE SoundWorker(w)'
      BY DEF WorkersSound
    <3>1. SoundWorker(w)
      BY DEF WorkersSound
    <3> QED
      BY <1>3, <2>1, <3>1 DEF LoseRequest, workers, SoundWorker, TypeOK
  <2> QED
    BY <1>3, <2>2, <2>3 DEF LoseRequest, Sound, NoSilentLoss, OnlyCaptured, HistoryTruthful
<1>4. CASE KillProcess
  <2>1. WorkersSound'
    BY <1>4 DEF KillProcess, WorkersSound, SoundWorker
  <2>2. \A p \in Slots : request'[p] = request[p] \/ request'[p] = Free
    BY <1>4 DEF KillProcess, TypeOK
  <2>3. RequestsSound'
    BY <1>4, <2>2 DEF KillProcess, RequestsSound, Free
  <2> QED
    BY <1>4, <2>1, <2>3 DEF KillProcess, Sound, NoSilentLoss, OnlyCaptured, HistoryTruthful
<1>5. CASE BlockDevice \/ Tick
  <2> UNCHANGED <<captured, queue, trimmed, sent, workers, request, stored, refused>>
    BY <1>5 DEF BlockDevice, Tick
  <2> QED
    BY DEF workers, Sound, NoSilentLoss, OnlyCaptured, RequestsSound, WorkersSound,
           SoundWorker, HistoryTruthful
<1> QED
  BY <1>1, <1>2, <1>3, <1>4, <1>5 DEF Environment

LEMMA StepSound == TypeOK /\ Sound /\ [Next]_vars => Sound'
<1>1. ASSUME Sound, UNCHANGED vars PROVE Sound'
  BY <1>1 DEF vars, phone, history, workers, server, Sound, NoSilentLoss,
     OnlyCaptured, RequestsSound, WorkersSound, SoundWorker, HistoryTruthful
<1> QED
  BY <1>1, ExecutorSound, WorkerSound, ServerSound, EnvironmentSound DEF Next

\* The inductive invariant holds of every reachable state.
THEOREM Soundness == Spec => []Sound
<1>1. Init => TypeOK /\ Sound
  BY InitType, InitSound
<1>2. TypeOK /\ Sound /\ [Next]_vars => (TypeOK /\ Sound)'
  BY StepType, StepSound
<1> QED
  BY <1>1, <1>2, PTL DEF Spec

\* Store-and-forward loses nothing silently, however many records, workers and
\* requests there are and wherever answers are lost or processes die.
THEOREM NothingLost == Spec => []NoSilentLoss
<1>1. Sound => NoSilentLoss
  BY DEF Sound
<1> QED
  BY <1>1, Soundness, PTL

\* The phone's history screen never claims a record is on the server when it is
\* not, nor that the server refused one it did not.
THEOREM HistoryIsTruthful == Spec => []HistoryTruthful
<1>1. Sound => HistoryTruthful
  BY DEF Sound
<1> QED
  BY <1>1, Soundness, PTL

\* An upload worker's answer is about its own batch, and nobody else's answer.
THEOREM AnswersMatchBatches == Spec => []AnswersMatch
<1>1. Sound => AnswersMatch
  BY DEF Sound, WorkersSound, SoundWorker, AnswersMatch
<1> QED
  BY <1>1, Soundness, PTL

-----------------------------------------------------------------------------
(* Counting, and the abstract promise *)

LEMMA StepCounted == TypeOK /\ CountedOnce /\ [Next]_vars => CountedOnce'
<1> SUFFICES ASSUME TypeOK, CountedOnce, [Next]_vars PROVE CountedOnce'
  OBVIOUS
<1> USE DEF vars, phone, history, adding, workers, server
<1>1. ASSUME NEW q \in Slots, CommitBatch(q) PROVE CountedOnce'
  <2> DEFINE F == request[q].fresh
  <2>1. F \subseteq Records /\ F \cap stored = {}
    BY <1>1 DEF CommitBatch, TypeOK, Requests
  <2>2. IsFiniteSet(F) /\ IsFiniteSet(stored)
    BY <2>1, CardinalityOfRecords DEF TypeOK
  <2>3. /\ Cardinality(F) \in Nat /\ Cardinality(stored) \in Nat
        /\ Cardinality(stored \cup F) = Cardinality(stored) + Cardinality(F)
    <3>1. Cardinality(stored \cap F) = 0
      BY <2>1, FS_EmptySet
    <3>2. Cardinality(F) \in Nat /\ Cardinality(stored) \in Nat
      BY <2>2, FS_CardinalityType
    <3>3. Cardinality(stored \cup F)
            = Cardinality(stored) + Cardinality(F) - Cardinality(stored \cap F)
      BY <2>2, FS_Union
    <3> HIDE DEF F
    <3> QED
      BY <3>1, <3>2, <3>3
  <2> HIDE DEF F
  <2>4. /\ stored' = stored \cup F
        /\ recordsAccepted' = recordsAccepted + Cardinality(F)
    BY <1>1 DEF CommitBatch, F
  <2> QED
    BY <2>3, <2>4 DEF CountedOnce
<1>2. CASE UNCHANGED <<stored, recordsAccepted>>
  BY <1>2 DEF CountedOnce
<1>3. CASE Executor
  BY <1>2, <1>3 DEF Executor, Enqueue, CountQueue, TrimIfOversized, RequestUpload
<1>4. ASSUME NEW w \in Workers, Worker(w) PROVE CountedOnce'
  BY <1>2, <1>4 DEF Worker, StartWork, NothingQueued, PeekAndUpload, ReceiveVerdict,
     ReceiveFailure, RecordSent, Delete, ReadTotal, WriteTotal
<1>5. ASSUME NEW q \in Slots, Server(q) PROVE CountedOnce'
  BY <1>1, <1>2, <1>5 DEF Server, RefuseSchema, RefuseDevice, BeginBatch, ConflictBatch
<1>6. CASE Environment
  BY <1>2, <1>6 DEF Environment, GiveUp, AbortBatch, LoseRequest, KillProcess,
     BlockDevice, Tick
<1>7. CASE UNCHANGED vars
  BY <1>2, <1>7
<1> QED
  BY <1>3, <1>4, <1>5, <1>6, <1>7 DEF Next

\* devices.records_accepted equals the number of stored measurements, although
\* any number of overlapping requests may carry the same record.
THEOREM EachRecordCountsOnce == Spec => []CountedOnce
<1>1. Init => CountedOnce
  BY FS_EmptySet DEF Init, CountedOnce
<1>2. TypeOK /\ CountedOnce /\ [Next]_vars => CountedOnce'
  BY StepCounted
<1> QED
  BY <1>1, <1>2, TypeCorrect, PTL DEF Spec

LEMMA StepPromise ==
  TypeOK /\ Sound /\ [Next]_vars => [Promise!Next]_(Promise!vars)
<1> SUFFICES ASSUME TypeOK, Sound, [Next]_vars
             PROVE  Promise!Next \/ UNCHANGED Promise!vars
  OBVIOUS
<1> USE DEF vars, phone, history, adding, workers, server
<1>0. CASE UNCHANGED <<captured, queue, trimmed, stored, refused>>
  BY <1>0 DEF Promise!vars
<1>1. CASE Executor
  <2>1. ASSUME NEW r \in Records, Enqueue(r) PROVE Promise!Next
    BY <2>1 DEF Enqueue, Promise!Next, Promise!Capture
  <2>2. CASE TrimIfOversized
    <3>1. Newest(queue, excess) \in SUBSET Records /\ Newest(queue, excess) \subseteq queue
      BY DEF Newest, TypeOK
    <3>2. Promise!Drop(Newest(queue, excess))
      BY <2>2, <3>1 DEF TrimIfOversized, Promise!Drop
    <3> QED
      BY <3>1, <3>2 DEF Promise!Next
  <2>3. CASE CountQueue \/ RequestUpload
    BY <1>0, <2>3 DEF CountQueue, RequestUpload
  <2> QED
    BY <1>1, <2>1, <2>2, <2>3 DEF Executor
<1>2. ASSUME NEW w \in Workers, Worker(w)
      PROVE  Promise!Next \/ UNCHANGED Promise!vars
  <2>1. CASE Delete(w)
    <3> DEFINE S == batch[w] \cap queue
    <3>1. S \in SUBSET Records /\ S \subseteq queue /\ S \subseteq stored \cup refused
      BY <2>1 DEF Delete, Sound, WorkersSound, SoundWorker, TypeOK
    <3>2. queue' = queue \ S /\ UNCHANGED <<captured, stored, refused, trimmed>>
      BY <2>1 DEF Delete
    <3> HIDE DEF S
    <3>3. Promise!Release(S)
      BY <3>1, <3>2 DEF Promise!Release
    <3> QED
      BY <3>1, <3>3 DEF Promise!Next
  <2> QED
    BY <1>0, <1>2, <2>1 DEF Worker, StartWork, NothingQueued, PeekAndUpload,
       ReceiveVerdict, ReceiveFailure, RecordSent, ReadTotal, WriteTotal
<1>3. ASSUME NEW q \in Slots, Server(q)
      PROVE  Promise!Next \/ UNCHANGED Promise!vars
  <2>1. CASE CommitBatch(q)
    <3> DEFINE F == request[q].fresh
    <3> DEFINE R == request[q].rejected
    <3>1. /\ F \in SUBSET Records /\ R \in SUBSET Records
          /\ F \subseteq captured \ stored /\ R \subseteq captured
      BY <2>1 DEF CommitBatch, Sound, RequestsSound, TypeOK, Requests
    <3>2. /\ stored' = stored \cup F /\ refused' = refused \cup R
          /\ UNCHANGED <<captured, queue, trimmed>>
      BY <2>1 DEF CommitBatch
    <3> HIDE DEF F, R
    <3>3. Promise!Rule(F, R)
      BY <3>1, <3>2 DEF Promise!Rule
    <3> QED
      BY <3>1, <3>3 DEF Promise!Next
  <2> QED
    BY <1>0, <1>3, <2>1 DEF Server, RefuseSchema, RefuseDevice, BeginBatch, ConflictBatch
<1>4. CASE Environment
  BY <1>0, <1>4 DEF Environment, GiveUp, AbortBatch, LoseRequest, KillProcess,
     BlockDevice, Tick
<1>5. CASE UNCHANGED vars
  BY <1>0, <1>5
<1> QED
  BY <1>1, <1>2, <1>3, <1>4, <1>5 DEF Next

\* Store-and-forward implements the abstract delivery promise: records are
\* captured, ruled on at most once into storage, and released or dropped, in
\* that order.
THEOREM StoreForwardImplementsDelivery == Spec => Implements
<1>1. Init => Promise!Init
  BY DEF Init, Promise!Init
<1>2. TypeOK /\ Sound /\ [Next]_vars => [Promise!Next]_(Promise!vars)
  BY StepPromise
<1> QED
  BY <1>1, <1>2, TypeCorrect, Soundness, PTL DEF Spec, Implements, Promise!Spec

-----------------------------------------------------------------------------
(***************************************************************************)
(* The total the collector shows never exceeds what the server holds, for  *)
(* every set of records, workers and request slots: a total that two       *)
(* workers read, add to and write back without a lock can lose credit, but *)
(* cannot gain any.                                                        *)
(*                                                                         *)
(* The argument keeps track of which stored records each worker has still  *)
(* to be credited with.  These claims are disjoint, because a record is    *)
(* fresh in one committed request only; the preference, and every value a  *)
(* worker has read of it, stay within the records nobody claims.           *)
(***************************************************************************)


\* The answer that credits worker w has been given, and w has not read it yet.
Answered(w) ==
  /\ pc[w] = "wait"
  /\ request[awaiting[w]].status = "done"
  /\ request[awaiting[w]].code = "ok"

\* S can be what worker w has still to add to the total.
Claim(w, S) ==
  /\ Answered(w) => S = request[awaiting[w]].fresh
  /\ pc[w] \in {"record", "delete", "read", "write"} => Cardinality(S) = verdict[w].accepted
  /\ ~Answered(w) /\ pc[w] \in {"idle", "peek", "wait"} => S = {}

\* What is on the server and in nobody's claim.
Unclaimed(f) == {r \in stored : \A w \in Workers : r \notin f[w]}

Claims(f) ==
  /\ f \in [Workers -> SUBSET stored]
  /\ \A v, w \in Workers : v # w => f[v] \cap f[w] = {}
  /\ \A w \in Workers : Claim(w, f[w])

\* No value of the total that is kept anywhere exceeds the unclaimed records.
Covered(f) ==
  /\ totalAccepted <= Cardinality(Unclaimed(f))
  /\ \A w \in Workers : pc[w] = "write" => tally[w] <= Cardinality(Unclaimed(f))

\* The inductive invariant.
Credit == \E f \in [Workers -> SUBSET stored] : Claims(f) /\ Covered(f)

-----------------------------------------------------------------------------
\* Sets of stored records can be counted and compared.
LEMMA UnclaimedIsFinite ==
  ASSUME TypeOK, NEW f
  PROVE  IsFiniteSet(Unclaimed(f)) /\ Cardinality(Unclaimed(f)) \in Nat
<1>1. Unclaimed(f) \subseteq Records
  BY DEF TypeOK, Unclaimed
<1> QED
  BY <1>1, CardinalityOfRecords

\* The invariant gives the property.
LEMMA CreditSuffices == TypeOK /\ Credit => TotalNeverOverstates
<1> SUFFICES ASSUME TypeOK, NEW f \in [Workers -> SUBSET stored], Covered(f)
             PROVE  TotalNeverOverstates
  BY DEF Credit
<1>1. IsFiniteSet(stored) /\ Cardinality(stored) \in Nat
  BY CardinalityOfRecords DEF TypeOK
<1>2. Unclaimed(f) \subseteq stored
  BY DEF Unclaimed
<1>3. Cardinality(Unclaimed(f)) <= Cardinality(stored)
  BY <1>1, <1>2, FS_Subset
<1>4. Cardinality(Unclaimed(f)) \in Nat /\ totalAccepted \in Nat
  BY UnclaimedIsFinite DEF TypeOK
<1> QED
  BY <1>1, <1>3, <1>4 DEF Covered, TotalNeverOverstates

\* Claims that are dropped, or made of newly stored records, leave the rest
\* unclaimed: what was covered stays covered.
LEMMA StillCovered ==
  ASSUME TypeOK, TypeOK', NEW f, NEW g, Covered(f),
         Unclaimed(f) \subseteq Unclaimed(g)',
         totalAccepted' = totalAccepted,
         \A w \in Workers : pc'[w] = "write" =>
           \/ pc[w] = "write" /\ tally'[w] = tally[w]
           \/ tally'[w] = totalAccepted
  PROVE  Covered(g)'
<1>1. /\ Cardinality(Unclaimed(f)) \in Nat
      /\ IsFiniteSet(Unclaimed(g)') /\ Cardinality(Unclaimed(g)') \in Nat
  <2>1. Unclaimed(g)' \subseteq Records
    BY DEF TypeOK, Unclaimed
  <2> QED
    BY <2>1, CardinalityOfRecords, UnclaimedIsFinite
<1>2. Cardinality(Unclaimed(f)) <= Cardinality(Unclaimed(g)')
  BY <1>1, FS_Subset
<1>3. totalAccepted \in Nat /\ tally \in [Workers -> Nat] /\ tally' \in [Workers -> Nat]
  BY DEF TypeOK
<1>4. Cardinality(Unclaimed(g))' = Cardinality(Unclaimed(g)')
  OBVIOUS
<1>5. totalAccepted' <= Cardinality(Unclaimed(g)')
  BY <1>1, <1>2, <1>3 DEF Covered
<1>6. ASSUME NEW w \in Workers, pc'[w] = "write"
      PROVE  tally'[w] <= Cardinality(Unclaimed(g)')
  BY <1>1, <1>2, <1>3, <1>6 DEF Covered
<1> QED
  BY <1>5, <1>6 DEF Covered

\* A step after which the same claims hold.
LEMMA SameClaims ==
  ASSUME TypeOK, TypeOK', Credit,
         stored' = stored, totalAccepted' = totalAccepted,
         \A w \in Workers : \A S \in SUBSET stored : Claim(w, S) => Claim(w, S)',
         \A w \in Workers : pc'[w] = "write" =>
           \/ pc[w] = "write" /\ tally'[w] = tally[w]
           \/ tally'[w] = totalAccepted
  PROVE  Credit'
<1> PICK f \in [Workers -> SUBSET stored] : Claims(f) /\ Covered(f)
  BY DEF Credit
<1>1. Unclaimed(f) \subseteq Unclaimed(f)'
  BY DEF Unclaimed
<1>2. Covered(f)'
  BY <1>1, StillCovered
<1>3. Claims(f)'
  <2>1. \A w \in Workers : f[w] \in SUBSET stored
    OBVIOUS
  <2> QED
    BY <2>1 DEF Claims
<1> QED
  BY <1>2, <1>3 DEF Credit

\* A step after which the workers of D claim nothing and the others the same.
LEMMA ClaimsDropped ==
  ASSUME TypeOK, TypeOK', Credit, NEW D \in SUBSET Workers,
         stored' = stored, totalAccepted' = totalAccepted,
         \A w \in D : Claim(w, {})',
         \A w \in Workers \ D : \A S \in SUBSET stored : Claim(w, S) => Claim(w, S)',
         \A w \in Workers : pc'[w] = "write" => pc[w] = "write" /\ tally'[w] = tally[w]
  PROVE  Credit'
<1> PICK f \in [Workers -> SUBSET stored] : Claims(f) /\ Covered(f)
  BY DEF Credit
<1> DEFINE g == [w \in Workers |-> IF w \in D THEN {} ELSE f[w]]
<1>1. Unclaimed(f) \subseteq Unclaimed(g)'
  BY DEF Unclaimed
<1>2. g \in [Workers -> SUBSET stored']
  OBVIOUS
<1>3. \A w \in Workers : g[w] = IF w \in D THEN {} ELSE f[w]
  OBVIOUS
<1> HIDE DEF g
<1>4. Covered(g)'
  BY <1>1, StillCovered
<1>5. Claims(g)'
  BY <1>2, <1>3 DEF Claims
<1> QED
  BY <1>2, <1>4, <1>5 DEF Credit

-----------------------------------------------------------------------------
(* Steps *)

\* A worker's claim depends on where it is, its verdict and its answer only.
LEMMA SameWorker ==
  ASSUME NEW w \in Workers, UNCHANGED <<pc[w], verdict[w], awaiting[w]>>,
         pc[w] = "wait" => request'[awaiting[w]] = request[awaiting[w]],
         NEW S, Claim(w, S)
  PROVE  Claim(w, S)'
BY DEF Claim, Answered

LEMMA ExecutorCredit ==
  ASSUME TypeOK, TypeOK', Credit, Executor
  PROVE  Credit'
<1>1. UNCHANGED <<pc, verdict, awaiting, tally, request, stored, totalAccepted>>
  BY DEF Executor, Enqueue, CountQueue, TrimIfOversized, RequestUpload, phone, history,
         adding, workers, server
<1> QED
  BY <1>1, SameClaims, SameWorker

\* An answer that is not a 200 credits nobody.
LEMMA ErrorCredit ==
  ASSUME TypeOK, TypeOK', Credit, NEW q \in Slots, NEW code, code # "ok", Answer(q, code),
         request[q].status \in {"sent", "open"},
         UNCHANGED <<workers, stored, totalAccepted>>
  PROVE  Credit'
<1> USE DEF workers
<1>1. /\ \A p \in Slots \ {q} : request'[p] = request[p]
      /\ \/ request'[q] = [request[q] EXCEPT !.status = "done", !.code = code]
         \/ request'[q] = Free /\ \A w \in Workers : awaiting[w] # q
  BY AnswerFacts
<1>2. ASSUME NEW w \in Workers, NEW S \in SUBSET stored, Claim(w, S) PROVE Claim(w, S)'
  <2>1. CASE awaiting[w] = q
    <3>1. request[q] \in Requests
      BY DEF TypeOK
    <3>2. request'[q].code # "ok"
      BY <1>1, <2>1, <3>1 DEF Requests
    <3>3. ~Answered(w) /\ ~Answered(w)'
      BY <2>1, <3>2 DEF Answered
    <3> QED
      BY <1>2, <3>3 DEF Claim
  <2>2. CASE awaiting[w] # q
    <3>1. request'[awaiting[w]] = request[awaiting[w]] \/ awaiting[w] \notin Slots
      BY <1>1, <2>2
    <3>2. CASE awaiting[w] \notin Slots
      BY <1>2, <3>2 DEF Claim, Answered, Answer, TypeOK
    <3> QED
      BY <1>2, <3>1, <3>2, SameWorker
  <2> QED
    BY <2>1, <2>2
<1> QED
  BY <1>2, SameClaims

\* Committing a batch turns its fresh records into the claim of the worker that
\* waits for the answer, or into nobody's.
LEMMA CommitCredit ==
  ASSUME TypeOK, TypeOK', Sound, Credit, NEW q \in Slots, CommitBatch(q)
  PROVE  Credit'
<1> USE DEF workers, history, phone
<1> DEFINE F == request[q].fresh
<1>1. /\ F \cap stored = {} /\ stored' = stored \cup F /\ totalAccepted' = totalAccepted
      /\ request[q].status = "open" /\ Answer(q, "ok")
      /\ UNCHANGED workers
  BY DEF CommitBatch
<1>2. /\ \A p \in Slots \ {q} : request'[p] = request[p]
      /\ \/ request'[q] = [request[q] EXCEPT !.status = "done", !.code = "ok"]
         \/ request'[q] = Free /\ \A w \in Workers : awaiting[w] # q
  BY <1>1, AnswerFacts
<1> PICK f \in [Workers -> SUBSET stored] : Claims(f) /\ Covered(f)
  BY DEF Credit
<1> PICK g \in [Workers -> SUBSET stored'] :
      \A w \in Workers : g[w] = IF awaiting[w] = q THEN F ELSE f[w]
  <2> DEFINE G == [w \in Workers |-> IF awaiting[w] = q THEN F ELSE f[w]]
  <2>1. G \in [Workers -> SUBSET stored']
    BY <1>1
  <2>2. \A w \in Workers : G[w] = IF awaiting[w] = q THEN F ELSE f[w]
    OBVIOUS
  <2> QED
    BY <2>1, <2>2
<1>3. \A w \in Workers : awaiting[w] = q =>
         pc[w] = "wait" /\ \A v \in Workers \ {w} : awaiting[v] # q
  BY ConstantsAssumption DEF Sound, WorkersSound, SoundWorker
<1>4. \A w \in Workers : awaiting[w] = q => f[w] = {}
  BY <1>1, <1>3 DEF Claims, Claim, Answered
<1>5. Unclaimed(f) \subseteq Unclaimed(g)'
  <2> SUFFICES ASSUME NEW r \in stored, \A w \in Workers : r \notin f[w]
               PROVE  r \in Unclaimed(g)'
    BY DEF Unclaimed
  <2>1. \A w \in Workers : r \notin g[w]
    BY <1>1
  <2> QED
    BY <1>1, <2>1 DEF Unclaimed
<1>6. Covered(g)'
  BY <1>1, <1>5, StillCovered
<1>7. ASSUME NEW w \in Workers PROVE Claim(w, g[w])'
  <2>0. Claim(w, f[w])
    BY DEF Claims
  <2>1. CASE awaiting[w] = q
    <3>1. request[q] \in Requests
      BY DEF TypeOK
    <3>2. /\ request'[q].status = "done" /\ request'[q].code = "ok"
          /\ request'[q].fresh = F
      BY <1>2, <2>1, <3>1 DEF Requests
    <3> QED
      BY <1>1, <1>3, <2>1, <3>2 DEF Claim, Answered
  <2>2. CASE awaiting[w] # q
    <3>1. pc[w] = "wait" => awaiting[w] \in Slots
      BY DEF Sound, WorkersSound, SoundWorker, TypeOK
    <3> QED
      BY <1>1, <1>2, <2>0, <2>2, <3>1, SameWorker
  <2> QED
    BY <2>1, <2>2
<1>8. \A v, w \in Workers : v # w => g[v] \cap g[w] = {}
  <2> SUFFICES ASSUME NEW v \in Workers, NEW w \in Workers, v # w
               PROVE  g[v] \cap g[w] = {}
    OBVIOUS
  <2>1. f[v] \cap f[w] = {} /\ f[v] \cap F = {} /\ f[w] \cap F = {}
    BY <1>1 DEF Claims
  <2> HIDE DEF F
  <2> QED
    BY <1>3, <2>1
<1>9. Claims(g)'
  BY <1>7, <1>8 DEF Claims
<1> QED
  BY <1>6, <1>9 DEF Credit

LEMMA ServerCredit ==
  ASSUME TypeOK, TypeOK', Sound, Credit, NEW q \in Slots, Server(q)
  PROVE  Credit'
<1> USE DEF phone, history, server
<1>1. CASE BeginBatch(q)
  <2>1. /\ request[q].status = "sent" /\ request'[q].status = "open"
        /\ \A p \in Slots \ {q} : request'[p] = request[p]
    BY <1>1 DEF BeginBatch, TypeOK, Requests
  <2>2. UNCHANGED <<pc, verdict, awaiting, tally, stored, totalAccepted>>
    BY <1>1 DEF BeginBatch, workers
  <2>3. ASSUME NEW w \in Workers, NEW S \in SUBSET stored, Claim(w, S) PROVE Claim(w, S)'
    <3>1. pc[w] = "wait" => awaiting[w] \in Slots
      BY DEF Sound, WorkersSound, SoundWorker, TypeOK
    <3>2. CASE pc[w] = "wait" /\ awaiting[w] = q
      BY <2>1, <2>2, <2>3, <3>2 DEF Claim, Answered
    <3> QED
      BY <2>1, <2>2, <2>3, <3>1, <3>2, SameWorker
  <2> QED
    BY <2>2, <2>3, SameClaims
<1>2. CASE RefuseSchema(q) \/ RefuseDevice(q) \/ ConflictBatch(q)
  BY <1>2, ErrorCredit DEF RefuseSchema, RefuseDevice, ConflictBatch
<1> QED
  BY <1>1, <1>2, CommitCredit DEF Server

\* A worker that leaves doWork claims nothing more.
LEMMA LeaveCredit ==
  ASSUME TypeOK, TypeOK', Sound, Credit, NEW w \in Workers, NEW result, Leave(w, result),
         UNCHANGED <<stored, totalAccepted>>,
         \A v \in Workers \ {w} : pc[v] = "wait" =>
           request'[awaiting[v]] = request[awaiting[v]]
  PROVE  Credit'
<1>1. \A v \in Workers \ {w} : UNCHANGED <<pc[v], verdict[v], awaiting[v], tally[v]>>
  BY DEF Leave, TypeOK
<1>2. pc'[w] = "idle"
  BY DEF Leave, TypeOK
<1>3. {w} \in SUBSET Workers /\ \A v \in {w} : Claim(v, {})'
  BY <1>2 DEF Claim, Answered
<1>4. \A v \in Workers : pc'[v] = "write" => pc[v] = "write" /\ tally'[v] = tally[v]
  BY <1>1, <1>2
<1>5. \A v \in Workers \ {w} : \A S \in SUBSET stored : Claim(v, S) => Claim(v, S)'
  BY <1>1, SameWorker
<1> QED
  BY <1>3, <1>4, <1>5, ClaimsDropped

\* Steps of one worker that leave the answers of the others alone.
LEMMA WorkerKeepsClaims ==
  ASSUME TypeOK, TypeOK', Credit, NEW w \in Workers,
         UNCHANGED <<stored, totalAccepted>>,
         \A v \in Workers \ {w} : UNCHANGED <<pc[v], verdict[v], awaiting[v], tally[v]>>,
         \A v \in Workers \ {w} : pc[v] = "wait" =>
           request'[awaiting[v]] = request[awaiting[v]],
         \A S \in SUBSET stored : Claim(w, S) => Claim(w, S)',
         pc'[w] = "write" => tally'[w] = totalAccepted
  PROVE  Credit'
<1>1. \A v \in Workers \ {w} : \A S \in SUBSET stored : Claim(v, S) => Claim(v, S)'
  BY SameWorker
<1> QED
  BY <1>1, SameClaims

\* The worker writes back what it read and its own claim: the value is covered by
\* the records nobody claimed and those of the claim.
LEMMA WriteCredit ==
  ASSUME TypeOK, TypeOK', Sound, Credit, NEW w \in Workers, WriteTotal(w)
  PROVE  Credit'
<1> USE DEF workers, history, phone, adding, server
<1>1. /\ pc[w] = "write" /\ totalAccepted' = tally[w] + verdict[w].accepted
      /\ UNCHANGED <<stored, request>>
  BY DEF WriteTotal
<1>2. \A v \in Workers \ {w} : UNCHANGED <<pc[v], verdict[v], awaiting[v], tally[v]>>
  BY DEF WriteTotal, Leave, TypeOK
<1>3. pc'[w] \in {"idle", "peek"}
  BY DEF WriteTotal, Leave, TypeOK
<1> PICK f \in [Workers -> SUBSET stored] : Claims(f) /\ Covered(f)
  BY DEF Credit
<1> DEFINE g == [v \in Workers |-> IF v = w THEN {} ELSE f[v]]
<1>4. /\ g \in [Workers -> SUBSET stored']
      /\ \A v \in Workers : g[v] = IF v = w THEN {} ELSE f[v]
  BY <1>1
<1> HIDE DEF g
<1>5. Claims(g)'
  <2>1. Claim(w, {})'
    BY <1>3 DEF Claim, Answered
  <2>2. \A v \in Workers \ {w} : Claim(v, f[v])'
    BY <1>1, <1>2, SameWorker DEF Claims
  <2> QED
    BY <1>4, <2>1, <2>2 DEF Claims
<1>6. /\ Unclaimed(g)' = Unclaimed(f) \cup f[w]
      /\ Unclaimed(f) \cap f[w] = {}
  <2>1. \A v \in Workers \ {w} : f[v] \cap f[w] = {}
    BY DEF Claims
  <2> QED
    BY <1>1, <1>4, <2>1 DEF Unclaimed
<1>7. /\ Cardinality(Unclaimed(f)) \in Nat /\ Cardinality(f[w]) \in Nat
      /\ Cardinality(Unclaimed(g)') = Cardinality(Unclaimed(f)) + Cardinality(f[w])
  <2>1. IsFiniteSet(Unclaimed(f)) /\ Cardinality(Unclaimed(f)) \in Nat
    BY UnclaimedIsFinite
  <2>2. f[w] \subseteq Records
    BY DEF TypeOK
  <2>3. IsFiniteSet(f[w]) /\ Cardinality(f[w]) \in Nat
    BY <2>2, CardinalityOfRecords
  <2>4. Cardinality(Unclaimed(f) \cap f[w]) = 0
    BY <1>6, FS_EmptySet
  <2>5. Cardinality(Unclaimed(f) \cup f[w])
          = Cardinality(Unclaimed(f)) + Cardinality(f[w]) - Cardinality(Unclaimed(f) \cap f[w])
    BY <2>1, <2>3, FS_Union
  <2> QED
    BY <1>6, <2>1, <2>3, <2>4, <2>5
<1>8. /\ Cardinality(f[w]) = verdict[w].accepted
      /\ tally[w] <= Cardinality(Unclaimed(f))
      /\ \A v \in Workers : pc[v] = "write" => tally[v] <= Cardinality(Unclaimed(f))
  BY <1>1 DEF Claims, Claim, Covered
<1>9. Covered(g)'
  <2>1. tally \in [Workers -> Nat]
    BY DEF TypeOK
  <2>2. totalAccepted' <= Cardinality(Unclaimed(g)')
    BY <1>1, <1>7, <1>8, <2>1
  <2>3. ASSUME NEW v \in Workers, pc'[v] = "write"
        PROVE  tally'[v] <= Cardinality(Unclaimed(g)')
    <3>1. v # w /\ pc[v] = "write" /\ tally'[v] = tally[v]
      BY <1>2, <1>3, <2>3
    <3> QED
      BY <1>7, <1>8, <2>1, <3>1
  <2> QED
    BY <2>2, <2>3 DEF Covered
<1> QED
  BY <1>4, <1>5, <1>9 DEF Credit

LEMMA WorkerCredit ==
  ASSUME TypeOK, TypeOK', Sound, Credit, NEW w \in Workers, Worker(w)
  PROVE  Credit'
<1> USE DEF workers, history, phone, adding, server
<1>1. ASSUME NEW q \in Slots, PeekAndUpload(w, q) PROVE Credit'
  <2>1. /\ \A v \in Workers : pc[v] = "wait" => awaiting[v] # q
        /\ \A p \in Slots \ {q} : request'[p] = request[p]
        /\ request'[q].status = "sent"
    BY <1>1, ConstantsAssumption
    DEF PeekAndUpload, Sound, WorkersSound, SoundWorker, TypeOK, Free
  <2>2. \A v \in Workers : pc[v] = "wait" => awaiting[v] \in Slots
    BY DEF Sound, WorkersSound, SoundWorker, TypeOK
  <2>3. /\ pc[w] = "peek" /\ pc'[w] = "wait" /\ awaiting'[w] = q
        /\ UNCHANGED <<stored, totalAccepted, tally, verdict>>
        /\ \A v \in Workers \ {w} : UNCHANGED <<pc[v], awaiting[v]>>
    BY <1>1 DEF PeekAndUpload, TypeOK
  <2>4. \A S \in SUBSET stored : Claim(w, S) => Claim(w, S)'
    BY <2>1, <2>3 DEF Claim, Answered
  <2> QED
    BY <2>1, <2>2, <2>3, <2>4, WorkerKeepsClaims
<1>2. ASSUME NEW q \in Slots, ReceiveVerdict(w, q) PROVE Credit'
  <2>1. /\ \A v \in Workers \ {w} : awaiting[v] # q
        /\ \A p \in Slots \ {q} : request'[p] = request[p]
    BY <1>2, ConstantsAssumption
    DEF ReceiveVerdict, Sound, WorkersSound, SoundWorker, TypeOK
  <2>2. \A v \in Workers : pc[v] = "wait" => awaiting[v] \in Slots
    BY DEF Sound, WorkersSound, SoundWorker, TypeOK
  <2>3. /\ Answered(w) /\ awaiting[w] = q /\ pc'[w] = "record"
        /\ verdict'[w].accepted = Cardinality(request[q].fresh)
        /\ UNCHANGED <<stored, totalAccepted, tally>>
        /\ \A v \in Workers \ {w} : UNCHANGED <<pc[v], awaiting[v], verdict[v]>>
    BY <1>2 DEF ReceiveVerdict, Answered, TypeOK
  <2>4. \A S \in SUBSET stored : Claim(w, S) => Claim(w, S)'
    BY <2>3 DEF Claim, Answered
  <2> QED
    BY <2>1, <2>2, <2>3, <2>4, WorkerKeepsClaims
<1>3. ASSUME NEW q \in Slots, ReceiveFailure(w, q) PROVE Credit'
  <2>1. \A v \in Workers \ {w} : pc[v] = "wait" =>
           request'[awaiting[v]] = request[awaiting[v]]
    BY <1>3, ConstantsAssumption
    DEF ReceiveFailure, Sound, WorkersSound, SoundWorker, TypeOK
  <2> QED
    BY <1>3, <2>1, LeaveCredit DEF ReceiveFailure
<1>4. CASE NothingQueued(w)
  BY <1>4, LeaveCredit DEF NothingQueued
<1>5. CASE StartWork(w) \/ RecordSent(w) \/ Delete(w)
  <2>1. /\ UNCHANGED <<stored, totalAccepted, tally, verdict, awaiting, request>>
        /\ \A v \in Workers \ {w} : UNCHANGED pc[v]
    BY <1>5 DEF StartWork, RecordSent, Delete, TypeOK
  <2>2. \/ pc[w] = "idle" /\ pc'[w] = "peek"
        \/ pc[w] = "record" /\ pc'[w] = "delete"
        \/ pc[w] = "delete" /\ pc'[w] = "read"
    BY <1>5 DEF StartWork, RecordSent, Delete, Sound, WorkersSound, SoundWorker, TypeOK
  <2>3. \A S \in SUBSET stored : Claim(w, S) => Claim(w, S)'
    BY <2>1, <2>2 DEF Claim, Answered
  <2> QED
    BY <2>1, <2>2, <2>3, WorkerKeepsClaims
<1>6. CASE ReadTotal(w)
  <2>1. /\ UNCHANGED <<stored, totalAccepted, verdict, awaiting, request>>
        /\ \A v \in Workers \ {w} : UNCHANGED <<pc[v], tally[v]>>
        /\ pc[w] = "read" /\ pc'[w] = "write" /\ tally'[w] = totalAccepted
    BY <1>6 DEF ReadTotal, TypeOK
  <2>2. \A S \in SUBSET stored : Claim(w, S) => Claim(w, S)'
    BY <2>1 DEF Claim, Answered
  <2> QED
    BY <2>1, <2>2, WorkerKeepsClaims
<1> QED
  BY <1>1, <1>2, <1>3, <1>4, <1>5, <1>6, WriteCredit DEF Worker

LEMMA EnvironmentCredit ==
  ASSUME TypeOK, TypeOK', Sound, Credit, Environment
  PROVE  Credit'
<1> USE DEF workers, history, phone, adding, server
<1>1. ASSUME NEW w \in Workers, NEW q \in Slots, GiveUp(w, q) PROVE Credit'
  <2>1. \A v \in Workers \ {w} : pc[v] = "wait" =>
           request'[awaiting[v]] = request[awaiting[v]]
    BY <1>1, ConstantsAssumption DEF GiveUp, Sound, WorkersSound, SoundWorker, TypeOK
  <2> QED
    BY <1>1, <2>1, LeaveCredit DEF GiveUp
<1>2. ASSUME NEW q \in Slots, AbortBatch(q) PROVE Credit'
  BY <1>2, ErrorCredit DEF AbortBatch
<1>3. ASSUME NEW q \in Slots, LoseRequest(q) PROVE Credit'
  <2>1. /\ \A w \in Workers : pc[w] = "wait" => request'[awaiting[w]] = request[awaiting[w]]
        /\ UNCHANGED <<pc, verdict, awaiting, tally, stored, totalAccepted>>
    BY <1>3, ConstantsAssumption DEF LoseRequest, Sound, WorkersSound, SoundWorker, TypeOK
  <2> QED
    BY <2>1, SameClaims, SameWorker
<1>4. CASE KillProcess
  <2>1. /\ UNCHANGED <<stored, totalAccepted>>
        /\ \A w \in Workers : pc'[w] = "idle"
    BY <1>4 DEF KillProcess
  <2>2. \A w \in Workers : Claim(w, {})'
    BY <2>1 DEF Claim, Answered
  <2> QED
    BY <2>1, <2>2, ClaimsDropped
<1>5. CASE BlockDevice \/ Tick
  <2>1. UNCHANGED <<pc, verdict, awaiting, tally, request, stored, totalAccepted>>
    BY <1>5 DEF BlockDevice, Tick
  <2> QED
    BY <2>1, SameClaims, SameWorker
<1> QED
  BY <1>1, <1>2, <1>3, <1>4, <1>5 DEF Environment

LEMMA StepCredit == TypeOK /\ TypeOK' /\ Sound /\ Credit /\ [Next]_vars => Credit'
<1> SUFFICES ASSUME TypeOK, TypeOK', Sound, Credit, [Next]_vars PROVE Credit'
  OBVIOUS
<1>1. CASE UNCHANGED vars
  <2>1. UNCHANGED <<pc, verdict, awaiting, tally, request, stored, totalAccepted>>
    BY <1>1 DEF vars, workers, history, server
  <2> QED
    BY <2>1, SameClaims, SameWorker
<1> QED
  BY <1>1, ExecutorCredit, WorkerCredit, ServerCredit, EnvironmentCredit DEF Next

\* "Accepted so far" on the phone's screen is never more than the server holds,
\* although two workers read the total, add to it and write it back at once.
THEOREM TotalIsHonest == Spec => []TotalNeverOverstates
<1>1. Init => Credit
  <2> SUFFICES ASSUME Init PROVE Credit
    OBVIOUS
  <2> DEFINE f == [w \in Workers |-> {}]
  <2>1. f \in [Workers -> SUBSET stored] /\ \A w \in Workers : f[w] = {}
    OBVIOUS
  <2> HIDE DEF f
  <2>2. Claims(f)
    BY <2>1 DEF Init, Claims, Claim, Answered
  <2>3. Unclaimed(f) = {}
    BY DEF Init, Unclaimed
  <2>4. Covered(f)
    BY <2>3, FS_EmptySet DEF Init, Covered
  <2> QED
    BY <2>1, <2>2, <2>4 DEF Credit
<1>2. TypeOK /\ TypeOK' /\ Sound /\ Credit /\ [Next]_vars => Credit'
  BY StepCredit
<1>3. TypeOK /\ Credit => TotalNeverOverstates
  BY CreditSuffices
<1> QED
  BY <1>1, <1>2, <1>3, TypeCorrect, Soundness, PTL DEF Spec

-----------------------------------------------------------------------------
(* Rows leave the queue in order *)

\* How many records of S were captured after r.
After(S, r) == Cardinality({x \in S : x > r})

\* The records of a set, newest first, are numbered from 0 without a gap: what
\* the ages of recordSent and the limits of Newest count with.
LEMMA Ranks ==
  ASSUME NEW S, S \subseteq Records
  PROVE  /\ \A r \in S : After(S, r) \in 0 .. Cardinality(S) - 1
         /\ \A r, s \in S : r < s => After(S, s) < After(S, r)
         /\ \A a \in 0 .. Cardinality(S) - 1 : \E r \in S : After(S, r) = a
<1> S \subseteq Nat /\ IsFiniteSet(S) /\ Cardinality(S) \in Nat
  BY CardinalityOfRecords, ConstantsAssumption
<1>1. ASSUME NEW r \in S PROVE After(S, r) \in 0 .. Cardinality(S) - 1
  <2>1. {x \in S : x > r} \in SUBSET S /\ r \notin {x \in S : x > r}
    OBVIOUS
  <2>2. /\ After(S, r) \in Nat /\ After(S, r) <= Cardinality(S)
        /\ After(S, r) # Cardinality(S)
    BY <2>1, FS_Subset, FS_CardinalityType DEF After
  <2> QED
    BY <2>2
<1>2. ASSUME NEW r \in S, NEW s \in S, r < s PROVE After(S, s) < After(S, r)
  <2> DEFINE R == {x \in S : x > r}
             T == {x \in S : x > s}
  <2>0. r \in Nat /\ s \in Nat /\ \A x \in S : x \in Nat /\ (x > s => x > r)
    BY <1>2
  <2>1. R \subseteq S /\ T \in SUBSET R /\ s \in R /\ s \notin T
    <3>1. T \subseteq R
      BY <2>0
    <3>2. s \in R /\ s \notin T
      BY <1>2, <2>0
    <3> QED
      BY <3>1, <3>2
  <2>2. IsFiniteSet(R)
    BY <2>1, FS_Subset
  <2>3. After(S, s) <= After(S, r) /\ After(S, s) # After(S, r)
    BY <2>1, <2>2, FS_Subset DEF After
  <2> QED
    BY <1>1, <2>3
<1>3. ASSUME NEW a \in 0 .. Cardinality(S) - 1 PROVE \E r \in S : After(S, r) = a
  <2> DEFINE T == 0 .. Cardinality(S) - 1
             f == [r \in S |-> After(S, r)]
  <2>1. IsFiniteSet(T) /\ Cardinality(T) = Cardinality(S)
    BY FS_Interval
  <2>2. f \in [S -> T]
    BY <1>1
  <2>3. ASSUME NEW r \in S, NEW s \in S, f[r] = f[s] PROVE r = s
    <3>1. r \in Nat /\ s \in Nat
      OBVIOUS
    <3>2. After(S, r) = After(S, s) /\ After(S, r) \in Int
      BY <1>1, <2>3
    <3>3. ~(r < s) /\ ~(s < r)
      BY <1>2, <3>2
    <3> QED
      BY <3>1, <3>3
  <2>4. f \in Injection(S, T)
    BY <2>2, <2>3 DEF Injection, IsInjective
  <2> HIDE DEF f
  <2>5. f \in Surjection(S, T)
    BY <2>1, <2>4, FS_Injection
  <2> QED
    BY <2>5 DEF Surjection, f
<1> QED
  BY <1>1, <1>2, <1>3

\* Trimming: of a queue no larger than the cap and the excess counted, the
\* newest rows are given up and no more than the cap is kept.
LEMMA NewestIsEnough ==
  ASSUME TypeOK, excess \in Nat, Cardinality(queue) <= QueueCap + excess
  PROVE  LET kept == queue \ Newest(queue, excess)
         IN  /\ Cardinality(kept) <= QueueCap
             /\ \A r \in Newest(queue, excess), k \in kept : k < r
<1> DEFINE kept == queue \ Newest(queue, excess)
<1> queue \subseteq Records /\ queue \subseteq Nat /\ QueueCap \in Nat
  BY ConstantsAssumption DEF TypeOK
<1>1. /\ \A r \in queue : After(queue, r) \in 0 .. Cardinality(queue) - 1
      /\ \A r, s \in queue : r < s => After(queue, s) < After(queue, r)
      /\ \A a \in 0 .. Cardinality(queue) - 1 : \E r \in queue : After(queue, r) = a
  BY Ranks
<1>2. \A r \in queue : r \in Newest(queue, excess) <=> After(queue, r) < excess
  BY DEF Newest, After
<1>3. ASSUME NEW r \in Newest(queue, excess), NEW k \in kept PROVE k < r
  <2>1. r \in queue /\ k \in queue /\ r \in Nat /\ k \in Nat
    BY DEF Newest
  <2>2. After(queue, r) < excess /\ ~(After(queue, k) < excess)
    BY <1>2, <2>1
  <2>3. After(queue, r) \in Int /\ After(queue, k) \in Int
    BY <1>1, <2>1
  <2>4. ~(r < k) /\ r # k
    BY <1>1, <2>1, <2>2, <2>3
  <2> QED
    BY <2>1, <2>4
<1>4. Cardinality(kept) <= QueueCap
  <2> DEFINE T == excess .. Cardinality(queue) - 1
             f == [k \in kept |-> After(queue, k)]
  <2>1. Cardinality(queue) \in Nat
    BY CardinalityOfRecords
  <2>2. IsFiniteSet(T) /\ Cardinality(T) <= QueueCap /\ Cardinality(T) \in Nat
    <3>1. excess \in Int /\ Cardinality(queue) - 1 \in Int
      BY <2>1
    <3>2. /\ IsFiniteSet(T)
          /\ Cardinality(T) = IF excess > Cardinality(queue) - 1 THEN 0
                              ELSE (Cardinality(queue) - 1) - excess + 1
      BY <3>1, FS_Interval
    <3> HIDE DEF T
    <3> QED
      BY <2>1, <3>2
  <2>3. f \in [kept -> T]
    <3> SUFFICES ASSUME NEW k \in kept PROVE After(queue, k) \in T
      OBVIOUS
    <3>1. /\ k \in queue /\ After(queue, k) \in 0 .. Cardinality(queue) - 1
          /\ ~(After(queue, k) < excess)
      BY <1>1, <1>2
    <3> QED
      BY <2>1, <3>1
  <2>4. ASSUME NEW r \in kept, NEW k \in kept, f[r] = f[k] PROVE r = k
    <3>1. r \in queue /\ k \in queue /\ r \in Nat /\ k \in Nat
      OBVIOUS
    <3>2. After(queue, r) = After(queue, k) /\ After(queue, r) \in Int
      BY <1>1, <2>4, <3>1
    <3>3. ~(r < k) /\ ~(k < r)
      BY <1>1, <3>1, <3>2
    <3> QED
      BY <3>1, <3>3
  <2>5. f \in Injection(kept, T)
    BY <2>3, <2>4 DEF Injection, IsInjective
  <2> HIDE DEF f, kept, T
  <2>6. Cardinality(kept) <= Cardinality(T)
    BY <2>2, <2>5, FS_Injection
  <2>7. Cardinality(kept) \in Nat
    BY CardinalityOfRecords DEF kept
  <2> QED
    BY <2>2, <2>6, <2>7
<1> QED
  BY <1>3, <1>4

\* The rows of the history have the ages 0, 1, 2, ..., each once,
AgesOnce == \A x, y \in sent : x.age = y.age => x = y
AgesInARow == \A x \in sent : \A a \in 0 .. x.age : \E y \in sent : y.age = a

\* so that it is full when it has a row of every age;
HistoryFull == \A a \in 0 .. SentLimit - 1 : \E y \in sent : y.age = a

\* what a worker is about to delete is in it, unless it is full;
Told(S) == \A r \in S : HistoryFull \/ \E x \in sent : x.rec = r
DeletionsTold == \A w \in Workers : pc[w] = "delete" => Told(batch[w])

\* and the queue has not grown since its excess was counted.
TrimKnows == enqueuing = "trim" => excess \in Nat /\ Cardinality(queue) <= QueueCap + excess

Orderly == AgesOnce /\ AgesInARow /\ DeletionsTold /\ TrimKnows

LEMMA FullHistory ==
  ASSUME TypeOK, AgesOnce, HistoryFull
  PROVE  Cardinality(sent) = SentLimit
<1> DEFINE T == 0 .. SentLimit - 1
           f == [x \in sent |-> x.age]
<1>1. SentLimit \in Nat /\ IsFiniteSet(T) /\ Cardinality(T) = SentLimit
  BY ConstantsAssumption, FS_Interval
<1>2. f \in [sent -> T]
  BY DEF TypeOK, Rows
<1>3. f \in Injection(sent, T)
  BY <1>2 DEF AgesOnce, Injection, IsInjective
<1>4. f \in Surjection(sent, T)
  BY <1>2 DEF HistoryFull, Surjection
<1> HIDE DEF f, T
<1> QED
  BY <1>1, <1>3, <1>4, FS_Injection

\* recordSent puts its rows on top in order, and only full histories lose any.
LEMMA HistoryOrder ==
  ASSUME TypeOK, AgesOnce, AgesInARow, NEW S, S \subseteq Records, NEW R,
         sent' = History(S, R)
  PROVE  /\ AgesOnce' /\ AgesInARow' /\ Told(S)'
         /\ \A T : Told(T) => Told(T)'
<1> DEFINE n == Cardinality(S)
           shifted(x) == [x EXCEPT !.age = @ + n]
           new(r) == [rec |-> r, outcome |-> IF r \in R THEN "rejected" ELSE "sent",
                      age |-> After(S, r)]
<1>1. n \in Nat /\ SentLimit \in Nat /\ sent \subseteq Rows
  BY CardinalityOfRecords, ConstantsAssumption DEF TypeOK
<1>2. \A x \in sent : /\ x.age \in Nat /\ shifted(x).age = x.age + n
                      /\ shifted(x).rec = x.rec
  BY <1>1 DEF Rows
<1>3. \A r \in S : After(S, r) \in 0 .. n - 1
  BY Ranks
<1>4. \A r, t \in S : After(S, r) = After(S, t) => r = t
  <2> SUFFICES ASSUME NEW r \in S, NEW t \in S, After(S, r) = After(S, t) PROVE r = t
    OBVIOUS
  <2>1. r \in Nat /\ t \in Nat
    BY ConstantsAssumption
  <2>2. ~(r < t) /\ ~(t < r)
    BY Ranks, <1>3
  <2> QED
    BY <2>1, <2>2
<1>5. \A a \in 0 .. n - 1 : \E r \in S : After(S, r) = a
  BY Ranks
<1>6. \A y \in sent' : /\ y.age < SentLimit
                       /\ (\E x \in sent : y = shifted(x)) \/ (\E r \in S : y = new(r))
  BY DEF History, After
<1>7. \A x \in sent : x.age + n < SentLimit => shifted(x) \in sent'
  BY <1>2 DEF History
<1>8. \A r \in S : After(S, r) < SentLimit => new(r) \in sent'
  BY DEF History, After
<1> HIDE DEF n, shifted
<1>9. \A a \in 0 .. SentLimit - 1 : a < n => \E y \in sent' : y.age = a
  <2> SUFFICES ASSUME NEW a \in 0 .. SentLimit - 1, a < n PROVE \E y \in sent' : y.age = a
    OBVIOUS
  <2>1. PICK r \in S : After(S, r) = a
    BY <1>1, <1>5
  <2>2. new(r).age = a /\ a < SentLimit
    BY <1>1, <2>1
  <2> QED
    BY <1>8, <2>1, <2>2
<1>10. \A x \in sent, a \in 0 .. SentLimit - 1 :
          n <= a /\ a - n <= x.age => \E y \in sent' : y.age = a
  <2> SUFFICES ASSUME NEW x \in sent, NEW a \in 0 .. SentLimit - 1, n <= a, a - n <= x.age
               PROVE  \E y \in sent' : y.age = a
    OBVIOUS
  <2>1. a - n \in 0 .. x.age
    BY <1>1, <1>2
  <2>2. PICK z \in sent : z.age = a - n
    BY <2>1 DEF AgesInARow
  <2>3. z.age + n = a /\ a < SentLimit
    BY <1>1, <2>2
  <2> QED
    BY <1>2, <1>7, <2>3
<1>11. AgesOnce'
  <2> SUFFICES ASSUME NEW x \in sent', NEW y \in sent', x.age = y.age PROVE x = y
    BY DEF AgesOnce
  <2>1. CASE \E a, b \in sent : x = shifted(a) /\ y = shifted(b)
    <3>1. PICK a \in sent, b \in sent : x = shifted(a) /\ y = shifted(b)
      BY <2>1
    <3>2. a.age = b.age
      BY <1>1, <1>2, <3>1
    <3> QED
      BY <3>1, <3>2 DEF AgesOnce
  <2>2. CASE \E a, b \in S : x = new(a) /\ y = new(b)
    <3>1. PICK a \in S, b \in S : x = new(a) /\ y = new(b)
      BY <2>2
    <3>2. After(S, a) = After(S, b)
      BY <3>1
    <3> QED
      BY <1>4, <3>1, <3>2
  <2>3. ASSUME NEW a \in sent, NEW b \in S PROVE shifted(a).age # new(b).age
    BY <1>1, <1>2, <1>3
  <2> QED
    BY <1>6, <2>1, <2>2, <2>3
<1>12. AgesInARow'
  <2> SUFFICES ASSUME NEW x \in sent', NEW a \in 0 .. x.age
               PROVE  \E y \in sent' : y.age = a
    BY DEF AgesInARow
  <2>1. CASE \E z \in sent : x = shifted(z)
    <3>1. PICK z \in sent : x = shifted(z)
      BY <2>1
    <3>2. /\ x.age = z.age + n /\ z.age \in Nat
          /\ a \in 0 .. SentLimit - 1 /\ a - n <= z.age
      BY <1>1, <1>2, <1>6, <3>1
    <3> QED
      BY <1>1, <1>9, <1>10, <3>2
  <2>2. CASE \E r \in S : x = new(r)
    <3>1. PICK r \in S : x = new(r)
      BY <2>2
    <3>2. x.age \in 0 .. n - 1
      BY <1>3, <3>1
    <3>3. a \in 0 .. SentLimit - 1 /\ a < n
      BY <1>1, <1>6, <3>2
    <3> QED
      BY <1>9, <3>3
  <2> QED
    BY <1>6, <2>1, <2>2
<1>13. Told(S)'
  <2> SUFFICES ASSUME NEW r \in S, ~(\E x \in sent' : x.rec = r) PROVE HistoryFull'
    BY DEF Told
  <2>1. ~(After(S, r) < SentLimit)
    BY <1>8
  <2>2. SentLimit <= n
    BY <1>1, <1>3, <2>1
  <2> QED
    BY <1>1, <1>9, <2>2 DEF HistoryFull
<1>14. ASSUME NEW T, Told(T) PROVE Told(T)'
  <2> SUFFICES ASSUME NEW r \in T, ~(\E x \in sent' : x.rec = r) PROVE HistoryFull'
    BY DEF Told
  <2> SUFFICES ASSUME NEW a \in 0 .. SentLimit - 1 PROVE \E y \in sent' : y.age = a
    BY DEF HistoryFull
  <2>1. CASE HistoryFull
    <3>1. CASE n <= a
      <4>1. a - n \in 0 .. SentLimit - 1
        BY <1>1, <3>1
      <4>2. PICK x \in sent : x.age = a - n
        BY <2>1, <4>1 DEF HistoryFull
      <4> QED
        BY <1>1, <1>10, <3>1, <4>2
    <3> QED
      BY <1>1, <1>9, <3>1
  <2>2. CASE \E x \in sent : x.rec = r
    <3>1. PICK x \in sent : x.rec = r
      BY <2>2
    <3>2. ~(x.age + n < SentLimit)
      BY <1>2, <1>7, <3>1
    <3>3. CASE n <= a
      <4>1. a - n <= x.age
        BY <1>1, <1>2, <3>2
      <4> QED
        BY <1>10, <3>3, <4>1
    <3> QED
      BY <1>1, <1>9, <3>3
  <2> QED
    BY <1>14, <2>1, <2>2 DEF Told
<1> QED
  BY <1>11, <1>12, <1>13, <1>14

LEMMA InitOrderly == Init => Orderly
BY DEF Init, Orderly, AgesOnce, AgesInARow, DeletionsTold, TrimKnows

\* A step that leaves the history and the queue alone, lets no worker come to
\* delete and counts nothing.
LEMMA QuietOrderly ==
  ASSUME Orderly, UNCHANGED <<sent, queue>>,
         \A w \in Workers : pc'[w] = "delete" => pc[w] = "delete" /\ batch'[w] = batch[w],
         enqueuing' = "trim" => enqueuing = "trim" /\ excess' = excess
  PROVE  Orderly'
<1>1. AgesOnce' /\ AgesInARow' /\ TrimKnows'
  BY DEF Orderly, AgesOnce, AgesInARow, TrimKnows
<1>2. DeletionsTold'
  BY DEF Orderly, DeletionsTold, Told, HistoryFull
<1> QED
  BY <1>1, <1>2 DEF Orderly

LEMMA ExecutorOrderly ==
  ASSUME TypeOK, Orderly, Executor
  PROVE  Orderly'
<1> USE DEF phone, history, adding, workers, server
<1>0. ASSUME UNCHANGED <<sent, pc, batch>>, TrimKnows' PROVE Orderly'
  BY <1>0 DEF Orderly, AgesOnce, AgesInARow, DeletionsTold, Told, HistoryFull
<1>1. ASSUME NEW r \in Records, Enqueue(r) PROVE Orderly'
  BY <1>0, <1>1 DEF Enqueue, TrimKnows
<1>2. CASE CountQueue
  <2>1. Cardinality(queue) \in Nat /\ QueueCap \in Nat
    BY CardinalityOfRecords, ConstantsAssumption DEF TypeOK
  <2>2. TrimKnows'
    BY <1>2, <2>1 DEF CountQueue, TrimKnows
  <2> QED
    BY <1>0, <1>2, <2>2 DEF CountQueue
<1>3. CASE TrimIfOversized
  BY <1>0, <1>3 DEF TrimIfOversized, TrimKnows
<1>4. CASE RequestUpload
  BY <1>0, <1>4 DEF RequestUpload, TrimKnows
<1> QED
  BY <1>1, <1>2, <1>3, <1>4 DEF Executor

LEMMA WorkerOrderly ==
  ASSUME TypeOK, Orderly, NEW w \in Workers, Worker(w)
  PROVE  Orderly'
<1> USE DEF phone, history, adding, workers, server
<1> pc \in [Workers -> Steps] /\ batch \in [Workers -> SUBSET Records]
  BY DEF TypeOK
<1>1. CASE RecordSent(w)
  <2>1. sent' = History(batch[w], verdict[w].rejected) /\ batch[w] \subseteq Records
    BY <1>1 DEF RecordSent
  <2>2. PICK S \in SUBSET Records : S = batch[w]
    BY <2>1
  <2>3. AgesOnce' /\ AgesInARow' /\ Told(S)' /\ (\A T : Told(T) => Told(T)')
    BY <2>1, <2>2, HistoryOrder DEF Orderly
  <2>4. UNCHANGED <<queue, enqueuing, excess, batch>>
        /\ \A v \in Workers \ {w} : pc'[v] = pc[v]
    BY <1>1 DEF RecordSent
  <2>5. DeletionsTold'
    <3> SUFFICES ASSUME NEW v \in Workers, pc'[v] = "delete"
                 PROVE  \A r \in batch'[v] : HistoryFull' \/ \E x \in sent' : x.rec = r
      BY DEF DeletionsTold, Told
    <3>1. PICK T \in SUBSET Records : T = batch[v]
      OBVIOUS
    <3>2. Told(T)'
      <4>1. CASE v = w
        BY <2>2, <2>3, <3>1, <4>1
      <4>2. CASE v # w
        <5>1. Told(T)
          BY <2>4, <3>1, <4>2 DEF Orderly, DeletionsTold, Told
        <5> QED
          BY <2>3, <5>1
      <4> QED
        BY <4>1, <4>2
    <3> QED
      BY <2>4, <3>1, <3>2 DEF Told
  <2>6. TrimKnows'
    BY <2>4 DEF Orderly, TrimKnows
  <2> QED
    BY <2>3, <2>5, <2>6 DEF Orderly
<1>2. CASE Delete(w)
  <2>1. queue' \subseteq queue /\ UNCHANGED <<sent, batch, enqueuing, excess>>
    BY <1>2 DEF Delete
  <2>2. \A v \in Workers : pc'[v] = "delete" => pc[v] = "delete"
    BY <1>2 DEF Delete
  <2>3. TrimKnows'
    <3>1. /\ Cardinality(queue') <= Cardinality(queue)
          /\ Cardinality(queue') \in Nat /\ Cardinality(queue) \in Nat
      BY <2>1, CardinalityOfRecords, FS_Subset DEF TypeOK
    <3> QED
      BY <2>1, <3>1, ConstantsAssumption DEF Orderly, TrimKnows
  <2> QED
    BY <2>1, <2>2, <2>3 DEF Orderly, AgesOnce, AgesInARow, DeletionsTold, Told, HistoryFull
<1>3. CASE \/ StartWork(w) \/ NothingQueued(w) \/ ReadTotal(w) \/ WriteTotal(w)
           \/ \E q \in Slots : PeekAndUpload(w, q) \/ ReceiveVerdict(w, q)
                               \/ ReceiveFailure(w, q)
  <2>1. UNCHANGED <<sent, queue, enqueuing, excess>>
    BY <1>3 DEF StartWork, NothingQueued, ReadTotal, WriteTotal, PeekAndUpload,
       ReceiveVerdict, ReceiveFailure
  <2>2. \A v \in Workers :
           pc'[v] = "delete" => pc[v] = "delete" /\ batch'[v] = batch[v]
    BY <1>3 DEF StartWork, NothingQueued, ReadTotal, WriteTotal, PeekAndUpload,
       ReceiveVerdict, ReceiveFailure, Leave
  <2> QED
    BY <2>1, <2>2, QuietOrderly
<1> QED
  BY <1>1, <1>2, <1>3 DEF Worker

LEMMA StepOrderly == TypeOK /\ Orderly /\ [Next]_vars => Orderly'
<1> SUFFICES ASSUME TypeOK, Orderly, [Next]_vars PROVE Orderly'
  OBVIOUS
<1> USE DEF vars, phone, history, adding, workers, server
<1>1. ASSUME NEW q \in Slots, Server(q) PROVE Orderly'
  BY <1>1, QuietOrderly DEF Server, RefuseSchema, RefuseDevice, BeginBatch, CommitBatch,
     ConflictBatch
<1>2. CASE Environment
  <2>1. CASE KillProcess
    BY <2>1, QuietOrderly DEF KillProcess
  <2>2. ASSUME NEW w \in Workers, NEW q \in Slots, GiveUp(w, q) PROVE Orderly'
    <3>1. UNCHANGED <<sent, queue, enqueuing, excess>>
      BY <2>2 DEF GiveUp
    <3>2. \A v \in Workers :
             pc'[v] = "delete" => pc[v] = "delete" /\ batch'[v] = batch[v]
      BY <2>2 DEF GiveUp, Leave, TypeOK
    <3> QED
      BY <3>1, <3>2, QuietOrderly
  <2>3. CASE (\E q \in Slots : AbortBatch(q) \/ LoseRequest(q)) \/ BlockDevice \/ Tick
    BY <2>3, QuietOrderly DEF AbortBatch, LoseRequest, BlockDevice, Tick
  <2> QED
    BY <1>2, <2>1, <2>2, <2>3 DEF Environment
<1>3. CASE UNCHANGED vars
  BY <1>3, QuietOrderly
<1> QED
  BY <1>1, <1>2, <1>3, ExecutorOrderly, WorkerOrderly DEF Next

LEMMA OrderHolds == Spec => []Orderly
<1> QED
  BY InitOrderly, StepOrderly, TypeCorrect, PTL DEF Spec

\* A row leaves the queue ruled on and in the history, or as one of the newest:
\* whichever workers overlap, whatever is rotated out of the history meanwhile
\* and however stale the count is that trimIfOversized goes by.
THEOREM RowsGoInOrder == Spec => RowsLeaveInOrder
<1> USE DEF vars, phone, history, adding, workers, server
<1>1. TypeOK /\ Orderly /\ [Next]_vars =>
        [\A r \in queue \ queue' :
           \/ r \in trimmed'
           \/ \E row \in sent : row.rec = r
           \/ Cardinality(sent) = SentLimit]_vars
  <2> SUFFICES ASSUME TypeOK, Orderly, [Next]_vars, NEW r \in queue \ queue',
                      r \notin trimmed'
               PROVE  \/ \E row \in sent : row.rec = r
                      \/ Cardinality(sent) = SentLimit
    OBVIOUS
  <2>1. \E w \in Workers : Delete(w)
    BY ZenonT(40) DEF Next, Executor, Worker, Server, Environment, Enqueue, CountQueue, TrimIfOversized,
       RequestUpload, StartWork, NothingQueued, PeekAndUpload, ReceiveVerdict, ReceiveFailure,
       RecordSent, ReadTotal, WriteTotal, RefuseSchema, RefuseDevice, BeginBatch, CommitBatch,
       ConflictBatch, GiveUp, AbortBatch, LoseRequest, KillProcess, BlockDevice, Tick
  <2>2. PICK w \in Workers : Delete(w)
    BY <2>1
  <2>3. pc[w] = "delete" /\ r \in batch[w]
    BY <2>2 DEF Delete
  <2>4. HistoryFull \/ \E x \in sent : x.rec = r
    BY <2>3 DEF Orderly, DeletionsTold, Told
  <2> QED
    BY <2>4, FullHistory DEF Orderly
<1>2. TypeOK /\ Orderly /\ [Next]_vars =>
        [\A r \in trimmed' \ trimmed :
           /\ Cardinality(queue') <= QueueCap
           /\ \A kept \in queue' : kept < r]_vars
  <2> SUFFICES ASSUME TypeOK, Orderly, [Next]_vars, NEW r \in trimmed' \ trimmed
               PROVE  /\ Cardinality(queue') <= QueueCap
                      /\ \A kept \in queue' : kept < r
    OBVIOUS
  <2>1. TrimIfOversized
    BY ZenonT(40) DEF Next, Executor, Worker, Server, Environment, Enqueue, CountQueue, Delete,
       RequestUpload, StartWork, NothingQueued, PeekAndUpload, ReceiveVerdict, ReceiveFailure,
       RecordSent, ReadTotal, WriteTotal, RefuseSchema, RefuseDevice, BeginBatch, CommitBatch,
       ConflictBatch, GiveUp, AbortBatch, LoseRequest, KillProcess, BlockDevice, Tick
  <2>2. queue' = queue \ Newest(queue, excess) /\ r \in Newest(queue, excess)
    BY <2>1 DEF TrimIfOversized
  <2>3. excess \in Nat /\ Cardinality(queue) <= QueueCap + excess
    BY <2>1 DEF TrimIfOversized, Orderly, TrimKnows
  <2> QED
    BY <2>2, <2>3, NewestIsEnough
<1> QED
  BY <1>1, <1>2, TypeCorrect, OrderHolds, PTL
     DEF Spec, RowsLeaveInOrder, VerdictBeforeDeletion, TrimSparesOldest

=============================================================================
