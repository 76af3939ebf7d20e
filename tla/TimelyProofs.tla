----------------------------- MODULE TimelyProofs -----------------------------
(***************************************************************************)
(* Theorems about TimelyProcessing: as long as claims do not outlive the   *)
(* timeout and the operator leaves live jobs alone, a coroutine owns the   *)
(* row it writes to, although it never asks whose row it is.               *)
(***************************************************************************)
EXTENDS TimelyProcessing, AccountingProofs

\* Recovery looks at the age of a claim only, so a row stays with its coroutine
\* as long as the claim is not stale; a poll's `now` is older than its commit.
ClaimsAreFresh ==
    /\ \A t \in tasks : jobs[t.job].claim_age # StaleAge
    /\ \A w \in Worker : poll[w].at = "commit" => poll[w].age # StaleAge

\* The invariants of Spec, which hold for TimelySpec as well, and what time and
\* the operator add to them.
SpecInv == TypeOK /\ RowsAgree /\ LockedRowsStayQueued /\ CapacityInv /\ HistoryInv

OwnInv == TasksOwnTheirRows /\ ClaimsAreFresh

\* TasksOwnTheirRows for one coroutine.
Owns(t, row) ==
    /\ row.claimed_by = t.worker
    /\ IF t.stage = "spawned"
       THEN row.status = "claimed" /\ row.version = t.claim
       ELSE row.status = "running" /\ row.version = t.claim + 1
    /\ t.stage = "failing" => row.attempt_count = t.seen

\* A step that cannot lose patience is a step.
LEMMA TimelyStep == TimelyNext => Next
  BY DEF TimelyNext, CarefulOperator, Next, Operator

LEMMA TimelySpecIsSpec == TimelySpec => Spec
  <1>1. [TimelyNext]_vars => [Next]_vars
    BY TimelyStep
  <1>2. QED
    BY <1>1, PTL DEF TimelySpec, Spec

LEMMA SpecInvariants == TimelySpec => []SpecInv
  BY TimelySpecIsSpec, LockedRowsAreSafe, InvariantsOfTasks, PTL DEF SpecInv

-----------------------------------------------------------------------------
(* Coroutines and their rows *)

\* Two coroutines that own the same row have the same claim.
LEMMA OwnersAreSingle ==
    ASSUME TypeOK, CapacityInv, TasksOwnTheirRows,
           NEW s \in tasks, NEW t \in tasks, s.job = t.job
    PROVE  s = t
  <1>1. s.claim \in Nat /\ t.claim \in Nat
    BY DEF TypeOK, Task
  <1>2. s.claim = t.claim
    BY <1>1 DEF TasksOwnTheirRows
  <1>3. QED
    BY <1>2 DEF CapacityInv, ClaimsIdentifyTasks

\* The row of a live coroutine is in flight and nobody has selected it.
LEMMA OwnedRows ==
    ASSUME SpecInv, TasksOwnTheirRows, NEW t \in tasks
    PROVE  /\ t \in Task /\ t.job \in Job /\ t.worker \in Worker /\ t.claim \in Nat
           /\ jobs[t.job] \in Row /\ Owns(t, jobs[t.job])
           /\ jobs[t.job].status \in InFlight
           /\ t.job \notin Locked
  <1>1. /\ t \in Task /\ t.job \in Job /\ t.worker \in Worker /\ t.claim \in Nat
        /\ jobs[t.job] \in Row
    BY DEF SpecInv, TypeOK, Task
  <1>2. Owns(t, jobs[t.job])
    BY DEF TasksOwnTheirRows, Owns
  <1>3. jobs[t.job].status \in InFlight
    BY <1>2 DEF Owns, InFlight
  <1>4. t.job \notin Locked
    BY <1>3 DEF SpecInv, LockedRowsStayQueued, InFlight
  <1>5. QED
    BY <1>1, <1>2, <1>3, <1>4

\* Only the operator spends commands, and a careful one on dead jobs.
LEMMA CommandsAreCareful ==
    ASSUME TypeOK, [SystemStep \/ CarefulOperator]_vars, NEW j \in Job, Commanded(j)
    PROVE  jobs[j].status = "dead"
  <1>1. ops \in Nat
    BY SettingsAssumption DEF TypeOK
  <1>2. ~UNCHANGED ops
    BY <1>1 DEF Commanded
  <1>3. CarefulOperator
    BY <1>2 DEF SystemStep, WorkerStep, PollStep, StartWorker, PollAborts, Shutdown, Exit,
       Crash, PollBegin, CountRunning, PollReturns, ClaimSelect, ClaimCommit, TaskStep,
       MarkRunning, MarkCompleted, WorkRaises, MarkFailed, TaskBreaks, RequeueRetryable,
       Enqueue, Cancel, vars
  <1>4. jobs'[j] # jobs[j] /\ jobs[j] \in Row
    <2>1. jobs[j] \in Row
      BY DEF TypeOK
    <2>2. jobs'[j].version = jobs[j].version + 1 /\ jobs[j].version \in Nat
      BY <2>1, StatementsRaiseVersion DEF Commanded
    <2>3. QED
      BY <2>1, <2>2
  <1>5. ASSUME NEW i \in Job, jobs[i].status = "dead", Retry(i) PROVE jobs[j].status = "dead"
    BY <1>4, <1>5 DEF Retry, TypeOK
  <1>6. ASSUME NEW e \in DOMAIN dlq, jobs[dlq[e].job].status = "dead", Replay(e)
        PROVE  jobs[j].status = "dead"
    <2>1. dlq[e].job # j => jobs'[j] = jobs[j]
      BY <1>6 DEF Replay, TypeOK
    <2>2. QED
      BY <1>4, <1>6, <2>1
  <1>7. UNCHANGED jobs => jobs[j].status = "dead"
    BY <1>4
  <1>8. QED
    BY <1>3, <1>5, <1>6, <1>7 DEF CarefulOperator, Resolve, SetAnyPaused, SetPaused

\* While a coroutine lives only it writes to its row.
LEMMA HeldRowsStay ==
    ASSUME SpecInv, OwnInv, [SystemStep \/ CarefulOperator]_vars, NEW t \in tasks
    PROVE  \/ jobs'[t.job] = jobs[t.job]
           \/ MarkRunning(t) /\ jobs'[t.job] = Started(jobs[t.job])
           \/ MarkCompleted(t)
           \/ MarkFailed(t)
  <1>1. /\ t.job \in Job /\ jobs[t.job].status \in InFlight /\ t.job \notin Locked
    BY OwnedRows DEF OwnInv
  <1>2. TypeOK /\ [SystemStep \/ Operator]_vars
    BY DEF SpecInv, CarefulOperator, Operator
  <1>3. ~IsStale(jobs[t.job]) /\ ~IsDue(jobs[t.job]) /\ ~IsCancellable(jobs[t.job])
          /\ jobs[t.job].status \notin {"absent", "dead"}
    BY <1>1 DEF OwnInv, ClaimsAreFresh, IsStale, IsDue, IsCancellable, InFlight
  <1>4. \A w \in Worker : ~Claims(w, t.job)
    BY <1>1 DEF Claims, Locked
  <1>5. ~Commanded(t.job)
    BY <1>1, <1>2, <1>3, CommandsAreCareful
  <1>6. \A s \in tasks : s.job = t.job => s = t
    BY OwnersAreSingle DEF SpecInv, OwnInv
  <1>7. QED
    BY <1>1, <1>2, <1>3, <1>4, <1>5, <1>6, StepOfRowButTick
       DEF RowWrite, WritesUnlocked, Starts, Settles

\* A coroutine that stays as it is finds its row as it was.
LEMMA StayersKeepRows ==
    ASSUME SpecInv, OwnInv, [SystemStep \/ CarefulOperator]_vars, NEW t \in tasks, t \in tasks'
    PROVE  jobs'[t.job] = jobs[t.job]
  <1>1. ~MarkCompleted(t) /\ ~MarkFailed(t)
    BY DEF MarkCompleted, MarkFailed, Ends
  <1>2. ~MarkRunning(t)
    <2>1. MarkRunning(t) => Moves(t, "working", 0)
      BY DEF MarkRunning, Moves
    <2>2. QED
      BY <2>1, MovedIsNew DEF SpecInv
  <1>3. QED
    BY <1>1, <1>2, HeldRowsStay

-----------------------------------------------------------------------------
(* What a step leaves of ownership *)

\* A poll reads its `now` when it selects; only the clock makes it older.
LEMMA StepOfPollAge ==
    ASSUME TypeOK, [SystemStep \/ CarefulOperator]_vars, NEW v \in Worker
    PROVE  poll'[v] = poll[v] \/ poll'[v].at # "commit" \/ poll'[v].age = 0
  <1> DEFINE Aim == poll'[v] = poll[v] \/ poll'[v].at # "commit" \/ poll'[v].age = 0
  <1> USE DEF TypeOK
  <1>1. ASSUME NEW w \in Worker, NEW left, Onward(w, left) PROVE Aim
    BY <1>1 DEF Onward, NoPoll
  <1>2. ASSUME NEW w \in Worker, poll' = [poll EXCEPT ![w] = NoPoll] PROVE Aim
    BY <1>2 DEF NoPoll
  <1>3. ASSUME NEW w \in Worker, ClaimSelect(w) PROVE Aim
    BY <1>1, <1>3 DEF ClaimSelect
  <1>4. ASSUME NEW w \in Worker, CountRunning(w) PROVE Aim
    <2>1. PICK q \in Queue :
             \/ Onward(w, poll[w].left \ {q})
             \/ poll' = [poll EXCEPT ![w].at = "select", ![w].queue = q,
                                     ![w].left = @ \ {q}]
      BY <1>4 DEF CountRunning
    <2>2. CASE poll' = [poll EXCEPT ![w].at = "select", ![w].queue = q,
                                    ![w].left = @ \ {q}]
      BY <2>2 DEF Poll
    <2>3. QED
      BY <1>1, <2>1, <2>2
  <1>5. ASSUME NEW w \in Worker, WorkerStep(w) PROVE Aim
    BY <1>1, <1>2, <1>3, <1>4, <1>5 DEF WorkerStep, PollStep, StartWorker, PollAborts,
       Shutdown, Exit, Crash, Leave, PollBegin, PollReturns, ClaimCommit
  <1>6. CASE UNCHANGED poll
    BY <1>6
  <1>7. QED
    BY <1>5, <1>6 DEF SystemStep, CarefulOperator, TaskStep, MarkRunning,
       MarkCompleted, WorkRaises, MarkFailed, TaskBreaks, RequeueRetryable, Enqueue,
       Cancel, Retry, Replay, Resolve, SetAnyPaused, SetPaused, vars

\* A coroutine that was not there before has just been spawned or moved on.
LEMMA NewcomersOwn ==
    ASSUME SpecInv, OwnInv, [SystemStep \/ CarefulOperator]_vars, NEW t \in tasks' \ tasks
    PROVE  Owns(t, jobs'[t.job]) /\ jobs'[t.job].claim_age # StaleAge
  <1>1. TypeOK /\ CapacityInv /\ HistoryInv /\ [Next]_vars
    BY TimelyStep DEF SpecInv, TimelyNext
  <1>2. ASSUME NEW w \in Worker, ClaimCommit(w)
        PROVE  Owns(t, jobs'[t.job]) /\ jobs'[t.job].claim_age # StaleAge
    <2>1. PICK j \in poll[w].ids : t = Spawn(w, j)
      BY <1>2 DEF ClaimCommit, Spawned
    <2>2. j \in Job /\ jobs[j] \in Row /\ poll[w].age # StaleAge
      BY <1>1, <1>2 DEF TypeOK, Poll, ClaimCommit, OwnInv, ClaimsAreFresh
    <2>3. jobs'[j] = Claimed(jobs[j], w, poll[w].age)
      BY <1>2, <2>2 DEF ClaimCommit
    <2>4. t.job = j /\ t.worker = w /\ t.stage = "spawned" /\ t.claim = jobs[j].version + 1
      BY <2>1 DEF Spawn
    <2>5. QED
      BY <2>2, <2>3, <2>4 DEF Claimed, Row, Owns
  <1>3. ASSUME NEW s \in tasks, MarkRunning(s)
        PROVE  Owns(t, jobs'[t.job]) /\ jobs'[t.job].claim_age # StaleAge
    <2>1. Moves(s, "working", 0) /\ s.stage = "spawned"
      BY <1>3 DEF MarkRunning, Moves
    <2>2. /\ t.job = s.job /\ t.claim = s.claim /\ t.worker = s.worker
          /\ t.stage = "working"
      BY <1>1, <2>1, MovedIsNew
    <2>3. /\ s.job \in Job /\ s.claim \in Nat /\ jobs[s.job] \in Row
          /\ Owns(s, jobs[s.job]) /\ jobs[s.job].claim_age # StaleAge
      BY OwnedRows DEF OwnInv, ClaimsAreFresh
    <2>4. jobs'[s.job] = Started(jobs[s.job])
      BY <1>1, <1>3, <2>3 DEF MarkRunning, TypeOK
    <2>5. QED
      BY <2>1, <2>2, <2>3, <2>4 DEF Started, Row, Owns
  <1>4. ASSUME NEW s \in tasks, WorkRaises(s)
        PROVE  Owns(t, jobs'[t.job]) /\ jobs'[t.job].claim_age # StaleAge
    <2>1. /\ s.job \in Job /\ jobs[s.job] \in Row /\ jobs[s.job].attempt_count \in Nat
          /\ Owns(s, jobs[s.job]) /\ jobs[s.job].claim_age # StaleAge
      BY OwnedRows DEF OwnInv, ClaimsAreFresh, Row
    <2>2. /\ Moves(s, "failing", jobs[s.job].attempt_count)
          /\ s.stage = "working" /\ UNCHANGED jobs
      BY <1>4 DEF WorkRaises, Moves
    <2>3. /\ t.job = s.job /\ t.claim = s.claim /\ t.worker = s.worker
          /\ t.stage = "failing" /\ t.seen = jobs[s.job].attempt_count
      BY <1>1, <2>1, <2>2, MovedIsNew
    <2>4. QED
      BY <2>1, <2>2, <2>3 DEF Owns
  <1>5. QED
    BY <1>1, <1>2, <1>3, <1>4, StepOfTasks DEF TasksStep, Loses

LEMMA StepKeepsOwn ==
    ASSUME SpecInv, OwnInv, [SystemStep \/ CarefulOperator]_vars
    PROVE  OwnInv'
  <1>1. ASSUME NEW t \in tasks'
        PROVE  Owns(t, jobs'[t.job]) /\ jobs'[t.job].claim_age # StaleAge
    <2>1. CASE t \in tasks
      BY <2>1, OwnedRows, StayersKeepRows DEF OwnInv, ClaimsAreFresh
    <2>2. CASE t \notin tasks
      BY <2>2, NewcomersOwn
    <2>3. QED
      BY <2>1, <2>2
  <1>2. ASSUME NEW w \in Worker, poll'[w].at = "commit" PROVE poll'[w].age # StaleAge
    BY <1>2, StepOfPollAge, ClaimTimeoutAssumption
       DEF SpecInv, OwnInv, ClaimsAreFresh, StaleAge
  <1>3. QED
    BY <1>1, <1>2 DEF OwnInv, TasksOwnTheirRows, ClaimsAreFresh, Owns

LEMMA TickKeepsOwn ==
    ASSUME SpecInv, OwnInv, OnTime, Tick
    PROVE  OwnInv'
  <1>1. \A age \in Age : age # ClaimTimeout /\ age # StaleAge => Older(age) # StaleAge
    BY ClaimTimeoutAssumption DEF Age, StaleAge, Older
  <1>2. ASSUME NEW t \in tasks
        PROVE  Owns(t, jobs'[t.job]) /\ jobs'[t.job].claim_age # StaleAge
    <2>1. /\ jobs[t.job] \in Row /\ Owns(t, jobs[t.job]) /\ t.job \in Job
          /\ jobs[t.job].claim_age \notin {ClaimTimeout, StaleAge}
      BY OwnedRows DEF OwnInv, ClaimsAreFresh, OnTime
    <2>2. jobs'[t.job] = Aged(jobs[t.job])
      BY <2>1 DEF Tick
    <2>3. Owns(t, Aged(jobs[t.job]))
      BY <2>1 DEF Owns, Aged, Row
    <2>4. Aged(jobs[t.job]).claim_age =
             IF jobs[t.job].claim_age = NULL THEN NULL ELSE Older(jobs[t.job].claim_age)
      BY <2>1 DEF Aged, Row
    <2>5. jobs[t.job].claim_age \in Age \cup {NULL}
      BY <2>1 DEF Row
    <2>6. QED
      BY <1>1, <2>1, <2>2, <2>3, <2>4, <2>5
  <1>3. ASSUME NEW w \in Worker, poll'[w].at = "commit" PROVE poll'[w].age # StaleAge
    <2>1. poll[w] \in Poll /\ poll'[w] = AgedPoll(poll[w])
      BY DEF SpecInv, TypeOK, Tick
    <2>2. poll[w].at = "commit" /\ poll[w].age \in Age /\ poll'[w].age = Older(poll[w].age)
      BY <1>3, <2>1 DEF AgedPoll, Poll
    <2>3. QED
      BY <1>1, <2>2 DEF OnTime, OwnInv, ClaimsAreFresh
  <1>4. tasks' = tasks
    BY DEF Tick
  <1>5. QED
    BY <1>2, <1>3, <1>4 DEF OwnInv, TasksOwnTheirRows, ClaimsAreFresh, Owns

LEMMA NextKeepsOwn == SpecInv /\ OwnInv /\ [TimelyNext]_vars => OwnInv'
  BY StepKeepsOwn, TickKeepsOwn DEF TimelyNext

LEMMA OwnAlways == TimelySpec => [](SpecInv /\ OwnInv)
  <1>1. Init => OwnInv
    BY DEF Init, OwnInv, TasksOwnTheirRows, ClaimsAreFresh, NoPoll
  <1>2. QED
    BY <1>1, SpecInvariants, NextKeepsOwn, PTL DEF TimelySpec

\* A live coroutine owns its row until it settles it, although no statement of
\* the code makes sure of it.
THEOREM TasksAlwaysOwnTheirRows == TimelySpec => []TasksOwnTheirRows
  BY OwnAlways, PTL DEF OwnInv

\* A job is executed by one coroutine at a time, through crashes, stop signals,
\* retries and recoveries.
THEOREM ExecutionIsSingle == TimelySpec => []SingleExecution
  <1>1. SpecInv /\ OwnInv => SingleExecution
    BY OwnersAreSingle DEF SpecInv, OwnInv, SingleExecution
  <1>2. QED
    BY <1>1, OwnAlways, PTL

-----------------------------------------------------------------------------
(* Attempts and their bound *)

LostOf(j) == {t \in lost : t.job = j}

\* The row is on its way to one more attempt, or its attempt was lost.
IsDueOneMore(j) ==
    \/ jobs[j].status \in {"queued", "claimed", "retry_scheduled"}
    \/ jobs[j].status = "running" /\ \A t \in tasks : t.job # j

\* AttemptsBounded, with the attempt that is still to come.
BudgetKept(j) ==
    jobs[j].attempt_count + (IF IsDueOneMore(j) THEN 1 ELSE 0)
        <= MaxAttempts[j] + Cardinality(LostOf(j)) + ops

BudgetInv == \A j \in Job : BudgetKept(j)

\* Lost coroutines stay lost, commands stay spent.
LEMMA AllowanceGrows ==
    ASSUME SpecInv, [TimelyNext]_vars, NEW j \in Job
    PROVE  /\ MaxAttempts[j] \in Nat /\ ops \in Nat /\ ops' \in Nat /\ ops <= ops'
           /\ IsFiniteSet(LostOf(j)) /\ IsFiniteSet(LostOf(j)')
           /\ Cardinality(LostOf(j)) \in Nat /\ Cardinality(LostOf(j)') \in Nat
           /\ Cardinality(LostOf(j)) <= Cardinality(LostOf(j)')
  <1>1. TypeOK /\ [Next]_vars
    BY TimelyStep DEF SpecInv
  <1>2. MaxAttempts[j] \in Nat /\ ops \in Nat /\ ops' \in Nat
    BY <1>1, NextTypeOK, SettingsAssumption, JobColumnsAssumption DEF TypeOK
  <1>3. ops' = ops \/ ops' = ops + 1
    BY DEF TimelyNext, SystemStep, WorkerStep, PollStep, StartWorker, PollAborts, Shutdown,
       Exit, Crash, PollBegin, CountRunning, PollReturns, ClaimSelect, ClaimCommit, TaskStep,
       MarkRunning, MarkCompleted, WorkRaises, MarkFailed, TaskBreaks, RequeueRetryable,
       Enqueue, Cancel, Tick, CarefulOperator, Retry, Replay, Resolve, SetAnyPaused,
       SetPaused, Command, vars
  <1>4. lost \subseteq lost'
    BY <1>1, StepOfTasks DEF TasksStep, ClaimCommit, Loses, Moves
  <1>5. IsFiniteSet(lost) /\ IsFiniteSet(lost')
    BY <1>1, NextKeepsHistory DEF SpecInv, HistoryInv
  <1>6. /\ LostOf(j) \in SUBSET lost /\ LostOf(j)' \in SUBSET lost'
        /\ LostOf(j) \subseteq LostOf(j)'
    BY <1>4 DEF LostOf
  <1>7. IsFiniteSet(LostOf(j)) /\ IsFiniteSet(LostOf(j)')
    BY <1>5, <1>6, FS_Subset
  <1>8. /\ Cardinality(LostOf(j)) \in Nat /\ Cardinality(LostOf(j)') \in Nat
        /\ Cardinality(LostOf(j)) <= Cardinality(LostOf(j)')
    BY <1>6, <1>7, FS_Subset, FS_CardinalityType
  <1>9. QED
    BY <1>2, <1>3, <1>7, <1>8

\* The allowance of job j.
Allowance(j) == MaxAttempts[j] + Cardinality(LostOf(j)) + ops

LEMMA AllowanceIsNat ==
    ASSUME SpecInv, [TimelyNext]_vars, NEW j \in Job
    PROVE  Allowance(j) \in Nat /\ Allowance(j)' \in Nat /\ Allowance(j) <= Allowance(j)'
  BY AllowanceGrows DEF Allowance

\* A row that no statement touches: its coroutine may have been lost.
LEMMA UntouchedKeepsBudget ==
    ASSUME SpecInv, OwnInv, [TimelyNext]_vars, NEW j \in Job, BudgetKept(j),
           jobs'[j] \in {jobs[j], Aged(jobs[j])}
    PROVE  BudgetKept(j)'
  <1>1. TypeOK /\ [Next]_vars /\ CapacityInv /\ HistoryInv
    BY TimelyStep DEF SpecInv
  <1>2. /\ jobs[j] \in Row /\ jobs[j].attempt_count \in Nat
        /\ jobs'[j].attempt_count = jobs[j].attempt_count
        /\ jobs'[j].status = jobs[j].status
        /\ jobs'[j].version = jobs[j].version
    BY <1>1 DEF TypeOK, Row, Aged
  <1>3. CASE IsDueOneMore(j)' => IsDueOneMore(j)
    BY <1>2, <1>3, AllowanceIsNat DEF BudgetKept, Allowance
  <1>4. CASE IsDueOneMore(j)' /\ ~IsDueOneMore(j)
    <2>1. PICK t \in tasks : t.job = j /\ t \notin tasks'
      BY <1>2, <1>4 DEF IsDueOneMore
    <2>2. jobs[j].status = "running" /\ \A u \in tasks' : u.job # j
      BY <1>2, <1>4 DEF IsDueOneMore
    <2>3. ASSUME NEW s \in tasks, NEW stage, NEW n \in Nat, Moves(s, stage, n) PROVE FALSE
      BY <1>1, <2>1, <2>2, <2>3, MovedIsNew
    <2>4. ASSUME NEW s \in tasks, MarkCompleted(s) \/ MarkFailed(s), tasks' = tasks \ {s}
          PROVE  FALSE
      <3>1. s = t
        BY <2>1, <2>4
      <3>2. \/ jobs'[j] = Completed(jobs[j]) \/ jobs'[j] = Buried(jobs[j])
            \/ \E delay \in Nat : jobs'[j] = RetryScheduled(jobs[j], delay)
        BY <1>1, <2>1, <2>4, <3>1, RetryDelayIsNat DEF MarkCompleted, MarkFailed, TypeOK
      <3>3. QED
        BY <1>2, <2>2, <3>2 DEF Completed, Buried, RetryScheduled, Row
    <2>5. t \in lost' /\ t \notin lost
      <3>1. PICK S \in SUBSET tasks : Loses(S)
        BY <1>1, <2>1, <2>3, <2>4, StepOfTasks DEF TasksStep, ClaimCommit
      <3>2. t \notin lost
        BY <1>1 DEF HistoryInv, LostAreGone
      <3>3. QED
        BY <2>1, <3>1, <3>2 DEF Loses
    <2>6. Cardinality(LostOf(j)') >= Cardinality(LostOf(j)) + 1
      <3>1. lost \subseteq lost'
        BY <1>1, StepOfTasks DEF TasksStep, ClaimCommit, Loses, Moves
      <3>2. LostOf(j) \cup {t} \in SUBSET (LostOf(j)') /\ t \notin LostOf(j)
        BY <2>1, <2>5, <3>1 DEF LostOf
      <3>3. Cardinality(LostOf(j) \cup {t}) = Cardinality(LostOf(j)) + 1
        BY <3>2, AllowanceGrows, FS_AddElement
      <3>4. Cardinality(LostOf(j) \cup {t}) <= Cardinality(LostOf(j)')
        BY <3>2, AllowanceGrows, FS_Subset
      <3>5. QED
        BY <3>3, <3>4, AllowanceGrows
    <2>7. QED
      BY <1>2, <1>4, <2>6, AllowanceGrows DEF BudgetKept
  <1>5. QED
    BY <1>3, <1>4

\* A statement on the row of job j, by whoever writes it.
LEMMA WritersKeepBudget ==
    ASSUME \A i \in Job : MaxAttempts[i] >= 1, SpecInv, OwnInv,
           [SystemStep \/ CarefulOperator]_vars, NEW j \in Job, BudgetKept(j),
           jobs'[j] # jobs[j]
    PROVE  BudgetKept(j)'
  <1>1. TypeOK /\ RowsAgree /\ [SystemStep \/ Operator]_vars /\ [TimelyNext]_vars
    BY DEF SpecInv, CarefulOperator, Operator, TimelyNext
  <1>2. /\ jobs[j] \in Row /\ jobs[j].attempt_count \in Nat
        /\ \A w \in Worker : poll[w].age \in Age
    BY <1>1 DEF TypeOK, Row, Poll
  <1>3. \A t \in tasks : t.job = j =>
           /\ Owns(t, jobs[j]) /\ jobs[j].status \in InFlight /\ j \notin Locked
           /\ jobs[j].claim_age # StaleAge
    BY OwnedRows DEF OwnInv, ClaimsAreFresh
  <1>4. ASSUME jobs'[j].attempt_count = jobs[j].attempt_count, IsDueOneMore(j)
        PROVE  BudgetKept(j)'
    BY <1>1, <1>2, <1>4, AllowanceIsNat DEF BudgetKept, Allowance
  <1>5. ASSUME jobs'[j].attempt_count = jobs[j].attempt_count, ~IsDueOneMore(j)'
        PROVE  BudgetKept(j)'
    BY <1>1, <1>2, <1>5, AllowanceIsNat DEF BudgetKept, Allowance
  <1>6. CASE Starts(j)
    <2>1. PICK t \in tasks : t.job = j /\ t.stage = "spawned"
      BY <1>6 DEF Starts, MarkRunning
    <2>2. IsDueOneMore(j)
      BY <1>3, <2>1 DEF Owns, IsDueOneMore
    <2>3. jobs'[j].status = "running" /\ jobs'[j].attempt_count = jobs[j].attempt_count + 1
      BY <1>2, <1>6 DEF Starts, Started, Row
    <2>4. ~IsDueOneMore(j)'
      BY <1>6, <2>3 DEF Starts, IsDueOneMore
    <2>5. QED
      BY <1>1, <1>2, <2>2, <2>3, <2>4, AllowanceIsNat DEF BudgetKept, Allowance
  <1>7. CASE Settles(j)
    <2>1. CASE jobs'[j] = Completed(jobs[j]) \/ jobs'[j] = Buried(jobs[j])
      <3>1. jobs'[j].attempt_count = jobs[j].attempt_count
        BY <1>2, <2>1, StatementsKeepAttempts
      <3>2. jobs'[j].status \in Terminal
        BY <1>2, <2>1 DEF Completed, Buried, Row, Terminal
      <3>3. QED
        BY <1>5, <3>1, <3>2 DEF IsDueOneMore, Terminal
    <2>2. ASSUME NEW t \in tasks, t.job = j, MarkFailed(t), NEW delay \in Nat,
                 jobs'[j] = RetryScheduled(jobs[j], delay)
          PROVE  BudgetKept(j)'
      <3>1. jobs'[j] # Buried(jobs[j])
        BY <1>2, <2>2 DEF RetryScheduled, Buried, Row
      <3>2. HasRetryLeft(t) /\ t.stage = "failing"
        BY <1>1, <2>2, <3>1 DEF MarkFailed, TypeOK
      <3>3. jobs[j].attempt_count < MaxAttempts[j]
        BY <1>3, <2>2, <3>2 DEF HasRetryLeft, Owns
      <3>4. jobs'[j].attempt_count = jobs[j].attempt_count
        BY <1>2, <2>2, StatementsKeepAttempts
      <3>5. QED
        BY <1>1, <1>2, <3>3, <3>4, AllowanceGrows DEF BudgetKept
    <2>3. QED
      BY <1>7, <2>1, <2>2 DEF Settles
  <1>8. CASE Commanded(j)
    <2>1. jobs[j].status = "dead" /\ ops' = ops + 1
      BY <1>1, <1>8, CommandsAreCareful DEF Commanded
    <2>2. CASE jobs'[j] = Retried(jobs[j])
      <3>1. jobs'[j].attempt_count = jobs[j].attempt_count
        BY <1>2, <2>2, StatementsKeepAttempts
      <3>2. QED
        BY <1>1, <1>2, <2>1, <3>1, AllowanceGrows DEF BudgetKept
    <2>3. CASE jobs'[j] = Replayed(jobs[j])
      <3>1. jobs'[j].attempt_count = 0
        BY <1>2, <2>3, StatementsKeepAttempts
      <3>2. QED
        BY <1>1, <3>1, AllowanceGrows DEF BudgetKept
    <2>4. QED
      BY <1>8, <2>2, <2>3 DEF Commanded
  <1>9. CASE IsStale(jobs[j]) /\ jobs'[j] = Recovered(jobs[j])
    <2>1. IsDueOneMore(j)
      BY <1>3, <1>9 DEF IsStale, InFlight, IsDueOneMore
    <2>2. QED
      BY <1>2, <1>4, <1>9, <2>1, StatementsKeepAttempts
  <1>10. CASE IsDue(jobs[j]) /\ jobs'[j] = Requeued(jobs[j])
    BY <1>2, <1>4, <1>10, StatementsKeepAttempts DEF IsDue, IsDueOneMore
  <1>11. CASE IsCancellable(jobs[j]) /\ jobs'[j] = Cancelled(jobs[j])
    BY <1>2, <1>4, <1>11, StatementsKeepAttempts DEF IsCancellable, IsDueOneMore
  <1>12. CASE jobs[j].status = "absent" /\ jobs'[j] = Enqueued(jobs[j])
    <2>1. jobs'[j].attempt_count = 0
      BY <1>1, <1>2, <1>12, StatementsKeepAttempts DEF RowsAgree, NoRow
    <2>2. QED
      BY <1>1, <2>1, AllowanceGrows DEF BudgetKept
  <1>13. ASSUME NEW w \in Worker, Claims(w, j) PROVE BudgetKept(j)'
    <2>1. IsDueOneMore(j)
      BY <1>13 DEF Claims, SpecInv, LockedRowsStayQueued, Locked, IsDueOneMore
    <2>2. jobs'[j].attempt_count = jobs[j].attempt_count
      BY <1>2, <1>13, StatementsKeepAttempts DEF Claims
    <2>3. QED
      BY <1>4, <2>1, <2>2
  <1>14. QED
    BY <1>1, <1>6, <1>7, <1>8, <1>9, <1>10, <1>11, <1>12, <1>13, StepOfRowButTick
       DEF RowWrite, WritesUnlocked

\* A job is attempted at most max_attempts times, not counting what was lost and
\* what the operator asked for.  A job that allows no attempt gets one all the
\* same: the bound is looked at after a failure only.
THEOREM AttemptsAreBounded ==
    ASSUME \A j \in Job : MaxAttempts[j] >= 1
    PROVE  TimelySpec => []AttemptsBounded
  <1>1. Init => BudgetInv
    <2> SUFFICES ASSUME Init, NEW j \in Job PROVE BudgetKept(j)
      BY DEF BudgetInv
    <2>1. LostOf(j) = {} /\ ops = 0 /\ jobs[j].attempt_count = 0 /\ ~IsDueOneMore(j)
      BY DEF Init, LostOf, NoRow, IsDueOneMore
    <2>2. QED
      BY <2>1, FS_EmptySet, JobColumnsAssumption DEF BudgetKept
  <1>2. ASSUME SpecInv, OwnInv, BudgetInv, [TimelyNext]_vars PROVE BudgetInv'
    <2> SUFFICES ASSUME NEW j \in Job PROVE BudgetKept(j)'
      BY DEF BudgetInv
    <2>1. BudgetKept(j)
      BY <1>2 DEF BudgetInv
    <2>2. CASE Tick
      <3>1. jobs'[j] = Aged(jobs[j])
        BY <2>2 DEF Tick
      <3>2. QED
        BY <1>2, <2>1, <3>1, UntouchedKeepsBudget
    <2>3. CASE [SystemStep \/ CarefulOperator]_vars
      BY <1>2, <2>1, <2>3, UntouchedKeepsBudget, WritersKeepBudget
    <2>4. QED
      BY <1>2, <2>2, <2>3 DEF TimelyNext
  <1>3. SpecInv /\ BudgetInv => AttemptsBounded
    <2> SUFFICES ASSUME SpecInv, BudgetInv, NEW j \in Job
                 PROVE  jobs[j].attempt_count <= MaxAttempts[j] + Cardinality(LostOf(j)) + ops
      BY DEF AttemptsBounded, LostOf
    <2>1. BudgetKept(j) /\ jobs[j].attempt_count \in Nat
      BY DEF BudgetInv, SpecInv, TypeOK, Row
    <2>2. MaxAttempts[j] + Cardinality(LostOf(j)) + ops \in Nat
      <3>1. LostOf(j) \in SUBSET lost
        BY DEF LostOf
      <3>2. Cardinality(LostOf(j)) \in Nat
        BY <3>1, FS_Subset, FS_CardinalityType DEF SpecInv, HistoryInv
      <3>3. QED
        BY <3>2, JobColumnsAssumption, SettingsAssumption DEF SpecInv, TypeOK
    <2>3. QED
      BY <2>1, <2>2 DEF BudgetKept
  <1>4. QED
    BY <1>1, <1>2, <1>3, OwnAlways, PTL DEF TimelySpec
=============================================================================
