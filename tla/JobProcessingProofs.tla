------------------------- MODULE JobProcessingProofs -------------------------
(***************************************************************************)
(* Theorems about JobProcessing, for any jobs, workers, queues and bounds. *)
(***************************************************************************)
EXTENDS JobProcessing, FiniteSetTheorems, TLAPS

\* Every statement takes a row to a row.
LEMMA StatementsKeepRows ==
    ASSUME NEW row \in Row
    PROVE  /\ Enqueued(row) \in Row
           /\ \A w \in Worker, age \in Age : Claimed(row, w, age) \in Row
           /\ Started(row) \in Row
           /\ Completed(row) \in Row
           /\ \A delay \in Nat : RetryScheduled(row, delay) \in Row
           /\ Buried(row) \in Row
           /\ Requeued(row) \in Row
           /\ Recovered(row) \in Row
           /\ Cancelled(row) \in Row
           /\ Retried(row) \in Row
           /\ Replayed(row) \in Row
  <1>0. row.version + 1 \in Nat /\ row.attempt_count + 1 \in Nat
    BY DEF Row
  <1>1. Enqueued(row) \in Row
    BY <1>0 DEF Row, Status, InFlight, Terminal, Enqueued
  <1>2. \A w \in Worker, age \in Age : Claimed(row, w, age) \in Row
    BY <1>0 DEF Row, Status, InFlight, Terminal, Claimed
  <1>3. Started(row) \in Row
    BY <1>0 DEF Row, Status, InFlight, Terminal, Started
  <1>4. Completed(row) \in Row
    BY <1>0 DEF Row, Status, InFlight, Terminal, Completed
  <1>5. \A delay \in Nat : RetryScheduled(row, delay) \in Row
    BY <1>0 DEF Row, Status, InFlight, Terminal, RetryScheduled
  <1>6. Buried(row) \in Row
    BY <1>0 DEF Row, Status, InFlight, Terminal, Buried
  <1>7. Requeued(row) \in Row
    BY <1>0 DEF Row, Status, InFlight, Terminal, Requeued
  <1>8. Recovered(row) \in Row
    BY <1>0 DEF Row, Status, InFlight, Terminal, Recovered
  <1>9. Cancelled(row) \in Row
    BY <1>0 DEF Row, Status, InFlight, Terminal, Cancelled
  <1>10. Retried(row) \in Row
    BY <1>0 DEF Row, Status, InFlight, Terminal, Retried
  <1>11. Replayed(row) \in Row
    BY <1>0 DEF Row, Status, InFlight, Terminal, Replayed
  <1>12. QED
    BY <1>1, <1>2, <1>3, <1>4, <1>5, <1>6, <1>7, <1>8, <1>9, <1>10, <1>11

LEMMA OlderInAge == \A age \in Age : Older(age) \in Age
  BY ClaimTimeoutAssumption DEF Age, StaleAge, Older

LEMMA AgedKeepsRows == \A row \in Row : Aged(row) \in Row
  <1> SUFFICES ASSUME NEW row \in Row PROVE Aged(row) \in Row
    OBVIOUS
  <1>1. row.claim_age # NULL => Older(row.claim_age) \in Age
    BY OlderInAge DEF Row
  <1>2. row.retry_in \notin {NULL, 0} => row.retry_in - 1 \in Nat
    BY DEF Row
  <1>3. QED
    BY <1>1, <1>2 DEF Row, Aged

LEMMA NoRowIsRow == NoRow \in Row
  BY DEF NoRow, Row

LEMMA NoPollIsPoll == NoPoll \in Poll
  BY ClaimTimeoutAssumption DEF NoPoll, Poll, Age, StaleAge

-----------------------------------------------------------------------------
(* Type correctness.  The steps are grouped by the variables they change.   *)

LEMMA InitTypeOK == Init => TypeOK
  BY NoRowIsRow, NoPollIsPoll, SettingsAssumption DEF Init, TypeOK, ProcState

LEMMA OnwardKeepsPoll ==
    ASSUME TypeOK, NEW w \in Worker, NEW left \in SUBSET Queue, Onward(w, left)
    PROVE  poll' \in [Worker -> Poll]
  BY NoPollIsPoll DEF TypeOK, Onward, NoPoll, Poll

LEMMA WorkerStepTypeOK ==
    ASSUME TypeOK, NEW w \in Worker, WorkerStep(w)
    PROVE  TypeOK'
  <1>1. CASE StartWorker(w)
    BY <1>1, StatementsKeepRows DEF TypeOK, StartWorker, RecoverStaleClaims, ProcState
  <1>2. CASE PollAborts(w)
    BY <1>2, NoPollIsPoll, SettingsAssumption DEF TypeOK, PollAborts
  <1>3. CASE Shutdown(w)
    BY <1>3, SettingsAssumption DEF TypeOK, Shutdown, ProcState
  <1>4. CASE Exit(w)
    BY <1>4, NoPollIsPoll DEF TypeOK, Exit, Leave, TasksOf, ProcState
  <1>5. CASE Crash(w)
    BY <1>5, NoPollIsPoll, SettingsAssumption
       DEF TypeOK, Crash, Leave, TasksOf, ProcState
  <1>6. CASE PollBegin(w)
    BY <1>6, OnwardKeepsPoll DEF TypeOK, PollBegin, ActiveQueues
  <1>7. CASE CountRunning(w)
    <2>1. PICK q \in Queue :
             \/ Onward(w, poll[w].left \ {q})
             \/ poll' = [poll EXCEPT ![w].at = "select", ![w].queue = q,
                                     ![w].left = @ \ {q}]
      BY <1>7 DEF CountRunning
    <2>2. poll[w].left \ {q} \in SUBSET Queue
      BY DEF TypeOK, Poll
    <2>3. CASE Onward(w, poll[w].left \ {q})
      BY <1>7, <2>2, <2>3, OnwardKeepsPoll DEF TypeOK, CountRunning
    <2>4. CASE poll' = [poll EXCEPT ![w].at = "select", ![w].queue = q,
                                    ![w].left = @ \ {q}]
      <3>1. [poll[w] EXCEPT !.at = "select", !.queue = q, !.left = @ \ {q}] \in Poll
        BY <2>2 DEF TypeOK, Poll
      <3>2. poll' = [poll EXCEPT ![w] = [poll[w] EXCEPT !.at = "select", !.queue = q,
                                                        !.left = @ \ {q}]]
        BY <2>4 DEF TypeOK, Poll
      <3>3. poll' \in [Worker -> Poll]
        BY <3>1, <3>2 DEF TypeOK
      <3>4. QED
        BY <1>7, <3>3 DEF TypeOK, CountRunning
    <2>5. QED
      BY <2>1, <2>3, <2>4
  <1>8. CASE PollReturns(w)
    BY <1>8, NoPollIsPoll DEF TypeOK, PollReturns
  <1>9. CASE ClaimSelect(w)
    <2>1. PICK q \in Queue, ids \in SUBSET Job :
             IF ids = {}
             THEN Onward(w, poll[w].left \ {q})
             ELSE poll' = [poll EXCEPT ![w] = [at |-> "commit", left |-> @.left \ {q},
                                               queue |-> NULL, ids |-> ids, age |-> 0]]
      BY <1>9 DEF ClaimSelect
    <2>2. poll[w].left \ {q} \in SUBSET Queue
      BY DEF TypeOK, Poll
    <2>3. 0 \in Age
      BY ClaimTimeoutAssumption DEF Age, StaleAge
    <2>4. CASE Onward(w, poll[w].left \ {q})
      BY <1>9, <2>2, <2>4, OnwardKeepsPoll DEF TypeOK, ClaimSelect
    <2>5. CASE poll' = [poll EXCEPT ![w] = [at |-> "commit", left |-> @.left \ {q},
                                            queue |-> NULL, ids |-> ids, age |-> 0]]
      <3>1. [at |-> "commit", left |-> poll[w].left \ {q}, queue |-> NULL,
             ids |-> ids, age |-> 0] \in Poll
        BY <2>2, <2>3 DEF Poll
      <3>2. poll' \in [Worker -> Poll]
        BY <2>5, <3>1 DEF TypeOK
      <3>3. QED
        BY <1>9, <3>2 DEF TypeOK, ClaimSelect
    <2>6. QED
      BY <2>1, <2>4, <2>5
  <1>10. CASE ClaimCommit(w)
    <2>1. poll[w].ids \subseteq Job /\ poll[w].left \subseteq Queue /\ poll[w].age \in Age
      BY DEF TypeOK, Poll
    <2>2. jobs' \in [Job -> Row]
      BY <1>10, <2>1, StatementsKeepRows DEF TypeOK, ClaimCommit
    <2>3. \A j \in poll[w].ids : Spawn(w, j) \in Task
      BY <2>1 DEF TypeOK, Spawn, Task, Row
    <2>4. Cardinality(poll[w].ids) \in Nat
      <3>1. IsFiniteSet(poll[w].ids)
        BY <2>1, JobAssumption, FS_Subset
      <3>2. QED
        BY <3>1, FS_CardinalityType
    <2>5. active' \in [Worker -> Int]
      BY <1>10, <2>4 DEF TypeOK, ClaimCommit
    <2>6. poll' \in [Worker -> Poll]
      BY <1>10, <2>1, OnwardKeepsPoll DEF ClaimCommit
    <2>7. QED
      BY <1>10, <2>2, <2>3, <2>5, <2>6 DEF TypeOK, ClaimCommit, Spawned
  <1>11. QED
    BY <1>1, <1>2, <1>3, <1>4, <1>5, <1>6, <1>7, <1>8, <1>9, <1>10
       DEF WorkerStep, PollStep

\* A task moves to another stage, or ends and leaves a record.
LEMMA MovesToKeepsTasks ==
    ASSUME TypeOK, NEW t \in tasks, NEW stage \in {"spawned", "working", "failing"},
           NEW seen \in Nat, MovesTo(t, stage, seen)
    PROVE  tasks' \subseteq Task
  BY DEF TypeOK, MovesTo, Task

LEMMA EndsKeepsTypes ==
    ASSUME TypeOK, NEW t \in tasks, Ends(t)
    PROVE  tasks' \subseteq Task /\ active' \in [Worker -> Int]
  BY DEF TypeOK, Ends, Task

LEMMA RecordKeepsTypes ==
    ASSUME TypeOK, NEW j \in Job, NEW n \in Nat, NEW status \in {"completed", "failed"},
           Record(j, n, status)
    PROVE  execs' \in [Job -> Seq(Execution)]
  <1>1. [attempt_number |-> n, status |-> status] \in Execution
    BY DEF Execution
  <1>2. QED
    BY <1>1 DEF TypeOK, Record

\* A retry is only scheduled at an attempt the policy's delays are given for.
LEMMA RetryDelayIsNat ==
    ASSUME TypeOK, NEW t \in tasks, HasRetryLeft(t)
    PROVE  Backoff[QueueOf[t.job]][t.seen] \in Nat
  <1>1. t.seen \in Nat /\ t.job \in Job
    BY DEF TypeOK, Task
  <1>2. t.seen \in Attempt
    BY <1>1, JobColumnsAssumption DEF HasRetryLeft, Attempt
  <1>3. QED
    BY <1>2, PolicyAssumption DEF HasRetryLeft

LEMMA TaskStepTypeOK ==
    ASSUME TypeOK, NEW t \in tasks, TaskStep(t) \/ TaskBreaks(t)
    PROVE  TypeOK'
  <1>1. t \in Task /\ t.job \in Job /\ t.worker \in Worker /\ t.seen \in Nat
    BY DEF TypeOK, Task
  <1>2. jobs[t.job] \in Row /\ jobs[t.job].attempt_count \in Nat
    BY <1>1 DEF TypeOK, Row
  <1>3. CASE MarkRunning(t)
    BY <1>1, <1>2, <1>3, StatementsKeepRows, MovesToKeepsTasks DEF TypeOK, MarkRunning
  <1>4. CASE MarkCompleted(t)
    BY <1>1, <1>2, <1>4, StatementsKeepRows, EndsKeepsTypes, RecordKeepsTypes
       DEF TypeOK, MarkCompleted
  <1>5. CASE WorkRaises(t)
    BY <1>1, <1>2, <1>5, MovesToKeepsTasks DEF TypeOK, WorkRaises
  <1>6. CASE MarkFailed(t)
    <2>1. jobs' \in [Job -> Row] /\ dlq' \in Seq(Entry)
      <3>1. CASE HasRetryLeft(t) /\ jobs' = [jobs EXCEPT ![t.job] =
                     RetryScheduled(@, Backoff[QueueOf[t.job]][t.seen])]
                 /\ UNCHANGED dlq
        BY <1>1, <1>2, <3>1, RetryDelayIsNat, StatementsKeepRows DEF TypeOK
      <3>2. CASE jobs' = [jobs EXCEPT ![t.job] = Buried(@)] /\ SendToDlq(t)
        <4>1. NewEntry(t) \in Entry
          BY <1>1 DEF NewEntry, Entry
        <4>2. QED
          BY <1>1, <1>2, <3>2, <4>1, StatementsKeepRows DEF TypeOK, SendToDlq
      <3>3. QED
        BY <1>6, <3>1, <3>2 DEF MarkFailed
    <2>2. execs' \in [Job -> Seq(Execution)]
      BY <1>1, <1>6, RecordKeepsTypes DEF MarkFailed
    <2>3. QED
      BY <1>6, <2>1, <2>2, EndsKeepsTypes DEF TypeOK, MarkFailed
  <1>7. CASE TaskBreaks(t)
    BY <1>1, <1>7, EndsKeepsTypes, SettingsAssumption DEF TypeOK, TaskBreaks
  <1>8. QED
    BY <1>3, <1>4, <1>5, <1>6, <1>7 DEF TaskStep

LEMMA TickTypeOK == TypeOK /\ Tick => TypeOK'
  <1> SUFFICES ASSUME TypeOK, Tick PROVE TypeOK'
    OBVIOUS
  <1>1. \A w \in Worker : AgedPoll(poll[w]) \in Poll
    BY OlderInAge DEF TypeOK, AgedPoll, Poll
  <1>2. QED
    BY <1>1, AgedKeepsRows DEF TypeOK, Tick

LEMMA RequeueTypeOK == TypeOK /\ RequeueRetryable => TypeOK'
  BY StatementsKeepRows DEF TypeOK, RequeueRetryable

LEMMA ApiTypeOK ==
    ASSUME TypeOK, NEW j \in Job, Enqueue(j) \/ Cancel(j) \/ Retry(j)
    PROVE  TypeOK'
  <1>1. CASE Enqueue(j)
    BY <1>1, StatementsKeepRows DEF TypeOK, Enqueue
  <1>2. CASE Cancel(j)
    BY <1>2, StatementsKeepRows DEF TypeOK, Cancel
  <1>3. CASE Retry(j)
    BY <1>3, StatementsKeepRows, SettingsAssumption DEF TypeOK, Retry, Command
  <1>4. QED
    BY <1>1, <1>2, <1>3

LEMMA DlqTypeOK ==
    ASSUME TypeOK, NEW e \in DOMAIN dlq, Replay(e) \/ Resolve(e)
    PROVE  TypeOK'
  <1>0. dlq[e] \in Entry
    BY DEF TypeOK
  <1>1. dlq[e].job \in Job
    BY <1>0 DEF Entry
  <1>2. [dlq[e] EXCEPT !.is_resolved = TRUE] \in Entry
    BY <1>0 DEF Entry
  <1>3. Resolved(e)
    BY DEF Replay, Resolve
  <1>4. dlq' \in Seq(Entry)
    BY <1>2, <1>3 DEF TypeOK, Resolved
  <1>5. CASE Replay(e)
    BY <1>1, <1>4, <1>5, StatementsKeepRows, SettingsAssumption DEF TypeOK, Replay, Command
  <1>6. CASE Resolve(e)
    BY <1>4, <1>6, SettingsAssumption DEF TypeOK, Resolve, Command
  <1>7. QED
    BY <1>5, <1>6

LEMMA PauseTypeOK == TypeOK /\ SetAnyPaused => TypeOK'
  BY SettingsAssumption DEF TypeOK, SetAnyPaused, SetPaused, Command

LEMMA NextTypeOK == TypeOK /\ [Next]_vars => TypeOK'
  <1> SUFFICES ASSUME TypeOK, [Next]_vars PROVE TypeOK'
    OBVIOUS
  <1>1. CASE SystemStep
    BY <1>1, WorkerStepTypeOK, TaskStepTypeOK, RequeueTypeOK, ApiTypeOK DEF SystemStep
  <1>2. CASE Operator
    BY <1>2, ApiTypeOK, DlqTypeOK, PauseTypeOK DEF Operator
  <1>3. CASE UNCHANGED vars
    BY <1>3 DEF vars, TypeOK
  <1>4. QED
    BY <1>1, <1>2, <1>3, TickTypeOK DEF Next

\* The tables and the processes' memory keep their types: in particular a row
\* never holds a status outside the life cycle.
THEOREM TypeCorrect == Spec => []TypeOK
  BY InitTypeOK, NextTypeOK, PTL DEF Spec

-----------------------------------------------------------------------------
(* What a step can do to one row and to one poll's locks.  The invariants     *)
(* below are about single rows and follow from this summary.                  *)

Claims(w, j) ==
    /\ j \in poll[w].ids
    /\ jobs'[j] = Claimed(jobs[j], w, poll[w].age)
    /\ poll'[w].ids = {}
    /\ Spawn(w, j) \in tasks'

\* The coroutine that makes job j running is at work on it afterwards.
Starts(j) ==
    /\ jobs'[j] = Started(jobs[j])
    /\ \E t \in tasks : t.job = j /\ MarkRunning(t)
    /\ \E t \in tasks' : t.job = j /\ t.stage = "working"

\* A coroutine of job j records how its attempt ended.
Settles(j) ==
    \E t \in tasks :
        /\ t.job = j
        /\ \/ MarkCompleted(t) /\ jobs'[j] = Completed(jobs[j])
           \/ MarkFailed(t) /\ SendToDlq(t) /\ jobs'[j] = Buried(jobs[j])
           \/ MarkFailed(t) /\ \E delay \in Nat : jobs'[j] = RetryScheduled(jobs[j], delay)

\* The operator sends job j back to the queue.
Commanded(j) ==
    /\ ops' = ops + 1
    /\ jobs'[j] \in {Retried(jobs[j]), Replayed(jobs[j])}

\* Statements that wait for the lock of a row a poll has selected.
WritesUnlocked(j) ==
    /\ Unlocked(j)
    /\ \/ Starts(j)
       \/ Settles(j)
       \/ Commanded(j)
       \/ IsCancellable(jobs[j]) /\ jobs'[j] = Cancelled(jobs[j])

RowWrite(j) ==
    \/ jobs'[j] = jobs[j]
    \/ IsStale(jobs[j]) /\ jobs'[j] = Recovered(jobs[j])
    \/ IsDue(jobs[j]) /\ jobs'[j] = Requeued(jobs[j])
    \/ jobs[j].status = "absent" /\ jobs'[j] = Enqueued(jobs[j])
    \/ \E w \in Worker : Claims(w, j)
    \/ WritesUnlocked(j)

RowStep(j) == jobs'[j] = Aged(jobs[j]) \/ RowWrite(j)

LEMMA StepOfRowButTick ==
    ASSUME TypeOK, [SystemStep \/ Operator]_vars, NEW j \in Job
    PROVE  RowWrite(j)
  <1> USE DEF TypeOK
  <1>1. ASSUME NEW w \in Worker, WorkerStep(w) PROVE RowWrite(j)
    <2>1. CASE StartWorker(w)
      BY <2>1 DEF StartWorker, RecoverStaleClaims, RowWrite
    <2>2. CASE ClaimCommit(w)
      <3>1. poll'[w].ids = {}
        BY <2>2 DEF ClaimCommit, Onward, NoPoll
      <3>2. j \in poll[w].ids => Spawn(w, j) \in tasks'
        BY <2>2 DEF ClaimCommit, Spawned
      <3>3. QED
        BY <2>2, <3>1, <3>2 DEF ClaimCommit, RowWrite, Claims
    <2>3. CASE UNCHANGED jobs
      BY <2>3 DEF RowWrite
    <2>4. QED
      BY <1>1, <2>1, <2>2, <2>3 DEF WorkerStep, PollStep, PollAborts, Shutdown, Exit,
         Crash, PollBegin, CountRunning, PollReturns, ClaimSelect
  <1>2. ASSUME NEW t \in tasks, TaskStep(t) \/ TaskBreaks(t) PROVE RowWrite(j)
    <2>1. t.job \in Job
      BY DEF Task
    <2>2. CASE MarkRunning(t)
      <3>1. [t EXCEPT !.stage = "working", !.seen = 0] \in tasks'
        BY <2>2 DEF MarkRunning, MovesTo
      <3>2. t.job = j => \E s \in tasks' : s.job = j /\ s.stage = "working"
        BY <3>1 DEF Task
      <3>3. QED
        BY <2>1, <2>2, <3>2 DEF MarkRunning, RowWrite, WritesUnlocked, Starts
    <2>3. CASE MarkCompleted(t)
      <3>1. t.job = j => Settles(j)
        BY <2>1, <2>3 DEF MarkCompleted, Settles
      <3>2. QED
        BY <2>1, <2>3, <3>1 DEF MarkCompleted, RowWrite, WritesUnlocked
    <2>4. CASE MarkFailed(t)
      <3>1. CASE HasRetryLeft(t) /\ jobs' = [jobs EXCEPT ![t.job] =
                     RetryScheduled(@, Backoff[QueueOf[t.job]][t.seen])]
        <4>1. t.job = j => Settles(j)
          BY <2>1, <2>4, <3>1, RetryDelayIsNat DEF Settles
        <4>2. QED
          BY <2>1, <2>4, <3>1, <4>1 DEF MarkFailed, RowWrite, WritesUnlocked
      <3>2. CASE SendToDlq(t) /\ jobs' = [jobs EXCEPT ![t.job] = Buried(@)]
        <4>1. t.job = j => Settles(j)
          BY <2>1, <2>4, <3>2 DEF Settles
        <4>2. QED
          BY <2>1, <2>4, <3>2, <4>1 DEF MarkFailed, RowWrite, WritesUnlocked
      <3>3. QED
        BY <2>4, <3>1, <3>2 DEF MarkFailed
    <2>5. CASE UNCHANGED jobs
      BY <2>5 DEF RowWrite
    <2>6. QED
      BY <1>2, <2>2, <2>3, <2>4, <2>5 DEF TaskStep, WorkRaises, TaskBreaks
  <1>3. CASE RequeueRetryable
    BY <1>3 DEF RequeueRetryable, RowWrite
  <1>4. ASSUME NEW i \in Job, Enqueue(i) \/ Cancel(i) \/ Retry(i) PROVE RowWrite(j)
    <2>1. CASE Enqueue(i)
      BY <2>1 DEF Enqueue, RowWrite
    <2>2. CASE Cancel(i)
      BY <2>2 DEF Cancel, RowWrite, WritesUnlocked
    <2>3. CASE Retry(i)
      BY <2>3 DEF Retry, Command, RowWrite, WritesUnlocked, Commanded
    <2>4. QED
      BY <1>4, <2>1, <2>2, <2>3
  <1>5. ASSUME NEW e \in DOMAIN dlq, Replay(e) \/ Resolve(e) PROVE RowWrite(j)
    BY <1>5 DEF Replay, Resolve, Command, RowWrite, WritesUnlocked, Commanded
  <1>6. CASE SetAnyPaused
    BY <1>6 DEF SetAnyPaused, SetPaused, RowWrite
  <1>7. CASE UNCHANGED vars
    BY <1>7 DEF vars, RowWrite
  <1>8. QED
    BY <1>1, <1>2, <1>3, <1>4, <1>5, <1>6, <1>7 DEF SystemStep, Operator

LEMMA StepOfRow ==
    ASSUME TypeOK, [Next]_vars, NEW j \in Job
    PROVE  RowStep(j)
  <1>1. CASE Tick
    BY <1>1 DEF TypeOK, Tick, RowStep
  <1>2. CASE [SystemStep \/ Operator]_vars
    BY <1>2, StepOfRowButTick DEF RowStep
  <1>3. QED
    BY <1>1, <1>2 DEF Next

\* Only the claim query takes locks, and it takes them on claimable rows.
LocksRows(w) ==
    /\ \E q \in Queue : poll'[w].ids \subseteq Claimable(q)
    /\ \A v \in Worker \ {w} : poll'[v] = poll[v]
    /\ UNCHANGED jobs

LEMMA StepOfLocks ==
    ASSUME TypeOK, [Next]_vars
    PROVE  \/ \A w \in Worker : poll'[w].ids \subseteq poll[w].ids
           \/ \E w \in Worker : LocksRows(w)
  <1> USE DEF TypeOK
  <1> DEFINE NoNewLocks == \A w \in Worker : poll'[w].ids \subseteq poll[w].ids
  <1>1. ASSUME NEW w \in Worker, NEW left, Onward(w, left) PROVE NoNewLocks
    BY <1>1 DEF Onward, NoPoll
  <1>2. ASSUME NEW w \in Worker, poll' = [poll EXCEPT ![w] = NoPoll] PROVE NoNewLocks
    BY <1>2 DEF NoPoll
  <1>3. ASSUME NEW w \in Worker, ClaimSelect(w) PROVE NoNewLocks \/ LocksRows(w)
    BY <1>1, <1>3 DEF ClaimSelect, IsHead, LocksRows
  <1>4. ASSUME NEW w \in Worker, CountRunning(w) PROVE NoNewLocks
    <2>1. PICK q \in Queue :
             \/ Onward(w, poll[w].left \ {q})
             \/ poll' = [poll EXCEPT ![w].at = "select", ![w].queue = q,
                                     ![w].left = @ \ {q}]
      BY <1>4 DEF CountRunning
    <2>2. CASE poll' = [poll EXCEPT ![w].at = "select", ![w].queue = q,
                                    ![w].left = @ \ {q}]
      BY <2>2 DEF Poll
    <2>3. QED
      BY <1>1, <2>1, <2>2
  <1>5. ASSUME NEW w \in Worker, WorkerStep(w) PROVE NoNewLocks \/ LocksRows(w)
    BY <1>1, <1>2, <1>3, <1>4, <1>5 DEF WorkerStep, PollStep, StartWorker, PollAborts,
       Shutdown, Exit, Crash, Leave, PollBegin, PollReturns, ClaimCommit
  <1>6. CASE Tick
    <2>1. \A w \in Worker : AgedPoll(poll[w]).ids = poll[w].ids
      BY DEF AgedPoll, Poll
    <2>2. QED
      BY <1>6, <2>1 DEF Tick
  <1>7. CASE UNCHANGED poll
    BY <1>7
  <1>8. QED
    BY <1>5, <1>6, <1>7 DEF Next, SystemStep, Operator, TaskStep, MarkRunning,
       MarkCompleted, WorkRaises, MarkFailed, TaskBreaks, RequeueRetryable, Enqueue,
       Cancel, Retry, Replay, Resolve, SetAnyPaused, SetPaused, vars

-----------------------------------------------------------------------------
(* The claim protocol *)

LEMMA NextLockedRowsStayQueued ==
    ASSUME TypeOK, LockedRowsStayQueued, [Next]_vars
    PROVE  LockedRowsStayQueued'
  <1>1. ASSUME NEW w \in Worker, LocksRows(w) PROVE LockedRowsStayQueued'
    BY <1>1 DEF LocksRows, LockedRowsStayQueued, Locked, Claimable
  <1>2. ASSUME \A w \in Worker : poll'[w].ids \subseteq poll[w].ids
        PROVE  LockedRowsStayQueued'
    <2>1. ASSUME NEW v \in Worker, NEW j \in poll'[v].ids
          PROVE  jobs'[j].status = "queued"
      <3>1. j \in poll[v].ids /\ j \in Locked /\ j \in Job
        BY <1>2 DEF Locked, TypeOK, Poll
      <3>2. jobs[j].status = "queued" /\ jobs[j] \in Row
        BY <3>1 DEF LockedRowsStayQueued, TypeOK
      <3>3. \A w \in Worker : ~Claims(w, j)
        BY <2>1, <3>1 DEF Claims, LockedRowsStayQueued
      <3>4. ~WritesUnlocked(j)
        BY <3>1 DEF WritesUnlocked, Unlocked
      <3>5. jobs'[j] \in {jobs[j], Aged(jobs[j])}
        BY <3>1, <3>2, <3>3, <3>4, StepOfRow
           DEF RowStep, RowWrite, IsStale, InFlight, IsDue
      <3>6. QED
        BY <3>2, <3>5 DEF Aged, Row
    <2>2. QED
      BY <1>2, <2>1 DEF LockedRowsStayQueued, Locked
  <1>3. QED
    BY <1>1, <1>2, StepOfLocks

LEMMA InitLockedRows == Init => LockedRowsStayQueued
  BY DEF Init, NoPoll, LockedRowsStayQueued, Locked

\* A job never returns from the hands of one poll into those of another: the
\* rows a poll has selected stay queued, and its own, until it claims them.
THEOREM LockedRowsAreSafe == Spec => []LockedRowsStayQueued
  BY InitLockedRows, TypeCorrect, NextLockedRowsStayQueued, PTL DEF Spec

LEMMA OnlyQueuedAreClaimed ==
    ASSUME TypeOK, LockedRowsStayQueued, [Next]_vars, NEW j \in Job,
           jobs'[j].status = "claimed", jobs'[j].version # jobs[j].version
    PROVE  jobs[j].status = "queued"
  <1>1. jobs[j] \in Row
    BY DEF TypeOK
  <1>2. ASSUME NEW w \in Worker, Claims(w, j) PROVE jobs[j].status = "queued"
    BY <1>2 DEF Claims, LockedRowsStayQueued, Locked
  <1>3. ~WritesUnlocked(j)
    BY <1>1 DEF WritesUnlocked, Starts, Settles, Commanded, Row, Started, Completed,
                Buried, Retried, Replayed, RetryScheduled, Cancelled
  <1>4. jobs'[j] \notin {jobs[j], Aged(jobs[j]), Recovered(jobs[j]),
                        Requeued(jobs[j]), Enqueued(jobs[j])}
    BY <1>1 DEF Row, Aged, Recovered, Requeued, Enqueued
  <1>5. QED
    BY <1>2, <1>3, <1>4, StepOfRow DEF RowStep, RowWrite

\* "Multiple workers running concurrently must not claim the same job": whatever
\* the number of workers, batch sizes, crashes and operator commands.
THEOREM ClaimsAreExclusive == Spec => ClaimsComeFromQueue
  <1>1. ASSUME TypeOK, LockedRowsStayQueued, [Next]_vars
        PROVE  [\A j \in Job :
                  jobs'[j].status = "claimed" /\ jobs'[j].version # jobs[j].version
                    => jobs[j].status = "queued"]_vars
    BY <1>1, OnlyQueuedAreClaimed
  <1>2. QED
    BY <1>1, TypeCorrect, LockedRowsAreSafe, PTL DEF Spec, ClaimsComeFromQueue

-----------------------------------------------------------------------------
(* The columns of a row *)

\* RowsAgree for one row.
RowAgrees(row) ==
    /\ row.status = "claimed" => NULL \notin {row.claimed_by, row.claim_age}
    /\ row.claimed_by # NULL => row.status \in InFlight
    /\ row.status = "retry_scheduled" => row.retry_in # NULL
    /\ row.status = "absent" => row = NoRow

LEMMA StepKeepsRowAgreement ==
    ASSUME TypeOK, [Next]_vars, NEW j \in Job, RowAgrees(jobs[j])
    PROVE  RowAgrees(jobs'[j])
  <1>1. jobs[j] \in Row /\ jobs'[j] \in Row
    BY NextTypeOK DEF TypeOK
  <1>2. CASE jobs'[j] = Aged(jobs[j])
    <2>1. Aged(NoRow) = NoRow
      BY DEF Aged, NoRow
    <2>2. jobs[j].claim_age # NULL => Aged(jobs[j]).claim_age # NULL
      BY <1>1, OlderInAge, NullAssumption, ClaimTimeoutAssumption
         DEF Row, Aged, Age, StaleAge
    <2>3. jobs[j].retry_in # NULL => Aged(jobs[j]).retry_in # NULL
      BY <1>1, NullAssumption DEF Row, Aged
    <2>4. /\ Aged(jobs[j]).status = jobs[j].status
          /\ Aged(jobs[j]).claimed_by = jobs[j].claimed_by
      BY <1>1 DEF Row, Aged
    <2>5. QED
      BY <1>2, <2>1, <2>2, <2>3, <2>4 DEF RowAgrees
  <1>3. ASSUME NEW w \in Worker, Claims(w, j) PROVE RowAgrees(jobs'[j])
    <2>1. w # NULL /\ poll[w].age # NULL
      BY NullAssumption, ClaimTimeoutAssumption DEF TypeOK, Poll, Age, StaleAge
    <2>2. QED
      BY <1>1, <1>3, <2>1 DEF Claims, Claimed, Row, RowAgrees, InFlight
  <1>4. CASE WritesUnlocked(j)
    <2>1. CASE Starts(j)
      BY <1>1, <2>1 DEF Starts, Started, Row, RowAgrees, InFlight
    <2>2. CASE jobs'[j] \in {Completed(jobs[j]), Buried(jobs[j])}
      BY <1>1, <2>2 DEF Completed, Buried, Row, RowAgrees, InFlight
    <2>3. CASE jobs'[j] \in {Retried(jobs[j]), Replayed(jobs[j])}
      BY <1>1, <2>3 DEF Retried, Replayed, Row, RowAgrees, InFlight
    <2>4. ASSUME NEW delay \in Nat, jobs'[j] = RetryScheduled(jobs[j], delay)
          PROVE  RowAgrees(jobs'[j])
      BY <1>1, <2>4, NullAssumption DEF RetryScheduled, Row, RowAgrees, InFlight
    <2>5. CASE IsCancellable(jobs[j]) /\ jobs'[j] = Cancelled(jobs[j])
      BY <1>1, <2>5 DEF IsCancellable, Cancelled, Row, RowAgrees, InFlight
    <2>6. QED
      BY <1>4, <2>1, <2>2, <2>3, <2>4, <2>5 DEF WritesUnlocked, Settles, Commanded
  <1>5. CASE IsStale(jobs[j]) /\ jobs'[j] = Recovered(jobs[j])
    BY <1>1, <1>5 DEF Recovered, Row, RowAgrees, InFlight
  <1>6. CASE IsDue(jobs[j]) /\ jobs'[j] = Requeued(jobs[j])
    BY <1>1, <1>6 DEF IsDue, Requeued, Row, RowAgrees, InFlight
  <1>7. CASE jobs[j].status = "absent" /\ jobs'[j] = Enqueued(jobs[j])
    BY <1>1, <1>7 DEF Enqueued, NoRow, Row, RowAgrees, InFlight
  <1>8. QED
    BY <1>2, <1>3, <1>4, <1>5, <1>6, <1>7, StepOfRow DEF RowStep, RowWrite

LEMMA InitRowsAgree == Init => RowsAgree
  BY DEF Init, RowsAgree, NoRow

LEMMA NextKeepsRowsAgree == TypeOK /\ RowsAgree /\ [Next]_vars => RowsAgree'
  BY StepKeepsRowAgreement DEF RowsAgree, RowAgrees

\* A job has an owner only in flight, a claimed one always has, and one that
\* waits for a retry has a time at which the scheduler will find it.
THEOREM RowsAlwaysAgree == Spec => []RowsAgree
  BY InitRowsAgree, NextKeepsRowsAgree, TypeCorrect, PTL DEF Spec

-----------------------------------------------------------------------------
(* Jobs in flight and their tasks *)

\* A task stays, or is lost, or takes its next step.
LEMMA StepOfTask ==
    ASSUME TypeOK, [Next]_vars, NEW t \in tasks \cup lost
    PROVE  t \in tasks' \cup lost' \/ (t \in tasks /\ TaskStep(t))
  <1> DEFINE Stays == t \in tasks' \cup lost'
  <1>1. ASSUME NEW w \in Worker, WorkerStep(w) PROVE Stays
    BY <1>1 DEF WorkerStep, PollStep, StartWorker, PollAborts, Shutdown, Exit, Crash,
       Leave, PollBegin, CountRunning, PollReturns, ClaimSelect, ClaimCommit
  <1>2. ASSUME NEW s \in tasks, TaskStep(s) PROVE Stays \/ s = t
    BY <1>2 DEF TaskStep, MarkRunning, MarkCompleted, WorkRaises, MarkFailed, MovesTo, Ends
  <1>3. ASSUME NEW s \in tasks, TaskBreaks(s) PROVE Stays
    BY <1>3 DEF TaskBreaks, Ends
  <1>4. CASE UNCHANGED <<tasks, lost>>
    BY <1>4
  <1>5. QED
    BY <1>1, <1>2, <1>3, <1>4 DEF Next, SystemStep, Operator, RequeueRetryable, Tick,
       Enqueue, Cancel, Retry, Replay, Resolve, SetAnyPaused, SetPaused, vars

\* InFlightHasTask for one job.
ClaimedHasTask(j) ==
    jobs[j].status = "claimed" =>
        \E t \in tasks \cup lost :
            /\ t.job = j /\ t.stage = "spawned"
            /\ t.claim = jobs[j].version /\ t.worker = jobs[j].claimed_by

RunningHasTask(j) ==
    jobs[j].status = "running" =>
        \E t \in tasks \cup lost : t.job = j /\ t.stage # "spawned"

LEMMA StepKeepsClaimedTask ==
    ASSUME TypeOK, [Next]_vars, NEW j \in Job, ClaimedHasTask(j)
    PROVE  ClaimedHasTask(j)'
  <1> SUFFICES ASSUME jobs'[j].status = "claimed"
               PROVE  \E t \in tasks' \cup lost' :
                         /\ t.job = j /\ t.stage = "spawned"
                         /\ t.claim = jobs'[j].version /\ t.worker = jobs'[j].claimed_by
    BY DEF ClaimedHasTask
  <1>1. jobs[j] \in Row
    BY DEF TypeOK
  <1>2. ASSUME NEW w \in Worker, Claims(w, j)
        PROVE  /\ Spawn(w, j).job = j /\ Spawn(w, j).stage = "spawned"
               /\ Spawn(w, j).claim = jobs'[j].version
               /\ Spawn(w, j).worker = jobs'[j].claimed_by
    BY <1>1, <1>2 DEF Claims, Claimed, Spawn, Row
  <1>3. CASE jobs'[j] \in {jobs[j], Aged(jobs[j])}
    <2>1. /\ jobs[j].status = "claimed" /\ jobs'[j].version = jobs[j].version
          /\ jobs'[j].claimed_by = jobs[j].claimed_by
      BY <1>1, <1>3 DEF Aged, Row
    <2>2. PICK t \in tasks \cup lost :
             /\ t.job = j /\ t.stage = "spawned"
             /\ t.claim = jobs[j].version /\ t.worker = jobs[j].claimed_by
      BY <2>1 DEF ClaimedHasTask
    <2>3. ~TaskStep(t)
      <3>1. ~MarkRunning(t)
        <4>1. MarkRunning(t) => jobs'[j] = Started(jobs[j])
          BY <2>2 DEF MarkRunning, TypeOK
        <4>2. Started(jobs[j]).status = "running"
          BY <1>1 DEF Started, Row
        <4>3. QED
          BY <4>1, <4>2
      <3>2. QED
        BY <2>2, <3>1 DEF TaskStep, MarkCompleted, WorkRaises, MarkFailed
    <2>4. QED
      BY <2>1, <2>2, <2>3, StepOfTask
  <1>4. ~WritesUnlocked(j)
    BY <1>1
       DEF WritesUnlocked, Starts, Settles, Commanded, Row, Started, Completed, Buried, Retried,
                Replayed, RetryScheduled, Cancelled
  <1>5. jobs'[j] \notin {Recovered(jobs[j]), Requeued(jobs[j]), Enqueued(jobs[j])}
    BY <1>1 DEF Row, Recovered, Requeued, Enqueued
  <1>6. QED
    BY <1>2, <1>3, <1>4, <1>5, StepOfRow DEF RowStep, RowWrite, Claims

LEMMA StepKeepsRunningTask ==
    ASSUME TypeOK, [Next]_vars, NEW j \in Job, RunningHasTask(j)
    PROVE  RunningHasTask(j)'
  <1> SUFFICES ASSUME jobs'[j].status = "running"
               PROVE  \E t \in tasks' \cup lost' : t.job = j /\ t.stage # "spawned"
    BY DEF RunningHasTask
  <1>1. jobs[j] \in Row
    BY DEF TypeOK
  <1>2. CASE jobs'[j] \in {jobs[j], Aged(jobs[j])}
    <2>1. jobs[j].status = "running"
      BY <1>1, <1>2 DEF Aged, Row
    <2>2. PICK t \in tasks \cup lost : t.job = j /\ t.stage # "spawned"
      BY <2>1 DEF RunningHasTask
    <2>3. t \in Task
      BY DEF TypeOK
    <2>4. CASE t \in tasks /\ WorkRaises(t)
      <3>1. [t EXCEPT !.stage = "failing", !.seen = jobs[t.job].attempt_count] \in tasks'
        BY <2>4 DEF WorkRaises, MovesTo
      <3>2. /\ [t EXCEPT !.stage = "failing", !.seen = jobs[t.job].attempt_count].job = j
            /\ [t EXCEPT !.stage = "failing", !.seen = jobs[t.job].attempt_count].stage
                 = "failing"
        BY <2>2, <2>3 DEF Task
      <3>3. QED
        BY <3>1, <3>2
    <2>5. CASE t \in tasks /\ TaskStep(t) /\ ~WorkRaises(t)
      <3>1. ~MarkRunning(t)
        BY <2>2 DEF MarkRunning
      <3>2. jobs'[j] = Completed(jobs[j]) \/ jobs'[j] = Buried(jobs[j])
              \/ \E delay \in Nat : jobs'[j] = RetryScheduled(jobs[j], delay)
        BY <2>2, <2>5, <3>1, RetryDelayIsNat
           DEF TaskStep, MarkCompleted, MarkFailed, TypeOK
      <3>3. QED
        BY <1>1, <3>2 DEF Completed, Buried, RetryScheduled, Row
    <2>6. QED
      BY <2>2, <2>4, <2>5, StepOfTask
  <1>3. CASE WritesUnlocked(j)
    BY <1>1, <1>3
       DEF WritesUnlocked, Starts, Settles, Commanded, Row, Completed, Buried, Retried,
                      Replayed, RetryScheduled, Cancelled
  <1>4. ASSUME NEW w \in Worker PROVE ~Claims(w, j)
    BY <1>1 DEF Claims, Claimed, Row
  <1>5. jobs'[j] \notin {Recovered(jobs[j]), Requeued(jobs[j]), Enqueued(jobs[j])}
    BY <1>1 DEF Row, Recovered, Requeued, Enqueued
  <1>6. QED
    BY <1>2, <1>3, <1>4, <1>5, StepOfRow DEF RowStep, RowWrite

LEMMA InitInFlight == Init => InFlightHasTask
  BY DEF Init, InFlightHasTask, NoRow

LEMMA NextKeepsInFlight ==
    ASSUME TypeOK, InFlightHasTask, [Next]_vars
    PROVE  InFlightHasTask'
  <1> SUFFICES ASSUME NEW j \in Job PROVE ClaimedHasTask(j)' /\ RunningHasTask(j)'
    BY DEF InFlightHasTask, ClaimedHasTask, RunningHasTask
  <1>1. ClaimedHasTask(j) /\ RunningHasTask(j)
    BY DEF InFlightHasTask, ClaimedHasTask, RunningHasTask
  <1>2. QED
    BY <1>1, StepKeepsClaimedTask, StepKeepsRunningTask

\* No job is in flight without a coroutine that took it there and is, or was when
\* it was lost, responsible for it.
THEOREM InFlightAlwaysHasTask == Spec => []InFlightHasTask
  BY InitInFlight, NextKeepsInFlight, TypeCorrect, PTL DEF Spec

-----------------------------------------------------------------------------
(* Pausing a queue: a poll works on a snapshot of the active queues that the *)
(* pause does not reach.                                                     *)

\* A poll visits queue q only if it did before, or if q was active when it began.
LEMMA VisitsComeFromSnapshot ==
    ASSUME TypeOK, [Next]_vars, NEW q \in Queue, q \in paused,
           NEW v \in Worker, ~IsVisiting(v, q)
    PROVE  ~IsVisiting(v, q)'
  <1> DEFINE Quiet == ~IsVisiting(v, q)'
  <1> USE DEF TypeOK
  <1>1. poll[v] \in Poll /\ q # NULL
    BY QueueAssumption
  <1>2. q \notin poll[v].left /\ q # poll[v].queue
          /\ \A j \in poll[v].ids : QueueOf[j] # q
    BY DEF IsVisiting
  <1>3. poll'[v] = poll[v] => Quiet
    BY <1>2 DEF IsVisiting
  <1>4. poll'[v] = NoPoll => Quiet
    BY <1>1 DEF IsVisiting, NoPoll
  <1>5. ASSUME NEW w \in Worker, NEW left, Onward(w, left), v = w => q \notin left
        PROVE  Quiet
    <2>1. CASE v # w
      BY <1>3, <1>5, <2>1 DEF Onward
    <2>2. CASE v = w
      <3>1. poll'[v] = NoPoll \/ poll'[v] = [NoPoll EXCEPT !.at = "check", !.left = left]
        BY <1>5, <2>2 DEF Onward
      <3>2. CASE poll'[v] = [NoPoll EXCEPT !.at = "check", !.left = left]
        BY <1>1, <1>5, <2>2, <3>2 DEF IsVisiting, NoPoll
      <3>3. QED
        BY <1>4, <3>1, <3>2
    <2>3. QED
      BY <2>1, <2>2
  <1>6. ASSUME NEW w \in Worker, poll' = [poll EXCEPT ![w] = NoPoll] PROVE Quiet
    BY <1>3, <1>4, <1>6
  <1>7. ASSUME NEW w \in Worker, PollBegin(w) PROVE Quiet
    BY <1>5, <1>7 DEF PollBegin, ActiveQueues
  <1>8. ASSUME NEW w \in Worker, CountRunning(w) PROVE Quiet
    <2>1. PICK r \in Queue :
             /\ IsNextQueue(w, r)
             /\ \/ Onward(w, poll[w].left \ {r})
                \/ poll' = [poll EXCEPT ![w].at = "select", ![w].queue = r,
                                        ![w].left = @ \ {r}]
      BY <1>8 DEF CountRunning
    <2>2. CASE Onward(w, poll[w].left \ {r})
      BY <1>2, <1>5, <2>2
    <2>3. CASE poll' = [poll EXCEPT ![w].at = "select", ![w].queue = r, ![w].left = @ \ {r}]
      <3>1. CASE v # w
        BY <1>3, <2>3, <3>1
      <3>2. CASE v = w
        <4>1. poll'[v].queue = r /\ poll'[v].left = poll[v].left \ {r}
                /\ poll'[v].ids = poll[v].ids
          BY <1>1, <2>3, <3>2 DEF Poll
        <4>2. r \in poll[v].left
          BY <2>1, <3>2 DEF IsNextQueue
        <4>3. QED
          BY <1>2, <4>1, <4>2 DEF IsVisiting
      <3>3. QED
        BY <3>1, <3>2
    <2>4. QED
      BY <2>1, <2>2, <2>3
  <1>9. ASSUME NEW w \in Worker, ClaimSelect(w) PROVE Quiet
    <2>1. PICK r \in Queue, ids \in SUBSET Job :
             /\ MayClaimFrom(w, r)
             /\ IsHead(ids, r, Remaining(w))
             /\ IF ids = {}
                THEN Onward(w, poll[w].left \ {r})
                ELSE poll' = [poll EXCEPT ![w] = [at |-> "commit", left |-> @.left \ {r},
                                                  queue |-> NULL, ids |-> ids, age |-> 0]]
      BY <1>9 DEF ClaimSelect
    <2>2. CASE Onward(w, poll[w].left \ {r})
      BY <1>2, <1>5, <2>2
    <2>3. CASE poll' = [poll EXCEPT ![w] = [at |-> "commit", left |-> @.left \ {r},
                                            queue |-> NULL, ids |-> ids, age |-> 0]]
      <3>1. CASE v # w
        BY <1>3, <2>3, <3>1
      <3>2. CASE v = w
        <4>1. poll'[v].queue = NULL /\ poll'[v].left = poll[v].left \ {r}
                /\ poll'[v].ids = ids
          BY <2>3, <3>2
        <4>2. r # q
          BY <1>2, <2>1, <3>2 DEF MayClaimFrom, IsNextQueue
        <4>3. \A j \in ids : QueueOf[j] = r
          BY <2>1 DEF IsHead, Claimable
        <4>4. QED
          BY <1>1, <1>2, <4>1, <4>2, <4>3 DEF IsVisiting
      <3>3. QED
        BY <3>1, <3>2
    <2>4. QED
      BY <2>1, <2>2, <2>3
  <1>10. ASSUME NEW w \in Worker, ClaimCommit(w) PROVE Quiet
    BY <1>2, <1>5, <1>10 DEF ClaimCommit
  <1>11. ASSUME NEW w \in Worker, WorkerStep(w) PROVE Quiet
    <2>1. CASE UNCHANGED poll
      BY <1>3, <2>1
    <2>2. QED
      BY <1>6, <1>7, <1>8, <1>9, <1>10, <1>11, <2>1 DEF WorkerStep, PollStep, StartWorker,
         PollAborts, Shutdown, Exit, Crash, Leave, PollReturns
  <1>12. CASE Tick
    <2>1. /\ poll'[v].left = poll[v].left /\ poll'[v].queue = poll[v].queue
          /\ poll'[v].ids = poll[v].ids
      BY <1>1, <1>12 DEF Tick, AgedPoll, Poll
    <2>2. QED
      BY <1>2, <2>1 DEF IsVisiting
  <1>13. CASE UNCHANGED poll
    BY <1>3, <1>13
  <1>14. QED
    BY <1>11, <1>12, <1>13 DEF Next, SystemStep, Operator, TaskStep, MarkRunning,
       MarkCompleted, WorkRaises, MarkFailed, TaskBreaks, RequeueRetryable, Enqueue,
       Cancel, Retry, Replay, Resolve, SetAnyPaused, SetPaused, vars

\* A row gets an owner from a poll that has locked it.
LEMMA OwnersComeFromPolls ==
    ASSUME TypeOK, [Next]_vars, NEW j \in Job
    PROVE  \/ jobs'[j].claimed_by \in {NULL, jobs[j].claimed_by}
           \/ \E w \in Worker : j \in poll[w].ids
  <1>1. jobs[j] \in Row
    BY DEF TypeOK
  <1>2. CASE Starts(j)
    BY <1>1, <1>2 DEF Starts, Started, Row
  <1>3. CASE Settles(j)
    BY <1>1, <1>3 DEF Settles, Completed, Buried, RetryScheduled, Row
  <1>4. CASE Commanded(j) \/ jobs'[j] = Cancelled(jobs[j])
    BY <1>1, <1>4 DEF Commanded, Retried, Replayed, Cancelled, Row
  <1>5. CASE jobs'[j] \in {jobs[j], Aged(jobs[j]), Recovered(jobs[j]), Requeued(jobs[j]),
                           Enqueued(jobs[j])}
    BY <1>1, <1>5 DEF Aged, Recovered, Requeued, Enqueued, Row
  <1>6. QED
    BY <1>2, <1>3, <1>4, <1>5, StepOfRow DEF RowStep, RowWrite, WritesUnlocked, Claims

\* Once the polls that had seen a queue active are over, no job of it is claimed
\* by any worker until it is resumed.
THEOREM PauseIsKept == Spec => PausedQueueStaysQuiet
  <1>1. ASSUME TypeOK, [Next]_vars
        PROVE  [\A q \in Queue :
                  q \in paused /\ (\A w \in Worker : ~IsVisiting(w, q)) =>
                      \/ q \notin paused'
                      \/ /\ \A w \in Worker : ~IsVisiting(w, q)'
                         /\ \A j \in Job : QueueOf[j] = q =>
                               jobs'[j].claimed_by \in {NULL, jobs[j].claimed_by}]_vars
    <2> SUFFICES ASSUME NEW q \in Queue, q \in paused, \A w \in Worker : ~IsVisiting(w, q)
                 PROVE  /\ \A w \in Worker : ~IsVisiting(w, q)'
                        /\ \A j \in Job : QueueOf[j] = q =>
                              jobs'[j].claimed_by \in {NULL, jobs[j].claimed_by}
      OBVIOUS
    <2>1. \A w \in Worker : ~IsVisiting(w, q)'
      BY <1>1, VisitsComeFromSnapshot
    <2>2. ASSUME NEW j \in Job, QueueOf[j] = q
          PROVE  jobs'[j].claimed_by \in {NULL, jobs[j].claimed_by}
      BY <1>1, <2>2, OwnersComeFromPolls DEF IsVisiting
    <2>3. QED
      BY <2>1, <2>2
  <1>2. QED
    BY <1>1, TypeCorrect, PTL DEF Spec, PausedQueueStaysQuiet
=============================================================================
