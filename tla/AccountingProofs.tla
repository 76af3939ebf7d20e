--------------------------- MODULE AccountingProofs ---------------------------
(***************************************************************************)
(* What the tables remember of attempts and deaths, for any number of      *)
(* workers, jobs, faults and commands: coroutines that write, one at a     *)
(* time and in any order, to rows they may no longer own.                  *)
(***************************************************************************)
EXTENDS CapacityProofs

\* A coroutine that was lost is counted apart from the live ones, so its claim
\* too has to be its own and in the past.
LostClaimsArePast == \A t \in lost : t.claim <= jobs[t.job].version

LostAreGone == \A s \in lost, t \in tasks : s.job = t.job => s.claim # t.claim

HistoryInv ==
    /\ IsFiniteSet(lost)
    /\ LostClaimsArePast
    /\ LostAreGone

-----------------------------------------------------------------------------
(* How coroutines come and go *)

\* The coroutines of S end without an outcome.
Loses(S) ==
    /\ S \subseteq tasks
    /\ tasks' = tasks \ S
    /\ lost' = lost \cup S
    /\ UNCHANGED <<jobs, dlq, execs>>

\* The coroutine t is now at another stage.
Moves(t, stage, seen) ==
    /\ MovesTo(t, stage, seen)
    /\ stage \in {"working", "failing"} /\ stage # t.stage
    /\ UNCHANGED <<dlq, execs, lost>>

TasksStep ==
    \/ UNCHANGED <<tasks, lost, execs>>
    \/ \E w \in Worker : ClaimCommit(w)
    \/ \E S \in SUBSET tasks : Loses(S)
    \/ \E t \in tasks :
        \/ \E n \in Nat : MarkRunning(t) /\ Moves(t, "working", n)
        \/ \E n \in Nat : WorkRaises(t) /\ Moves(t, "failing", n)
        \/ (MarkCompleted(t) \/ MarkFailed(t)) /\ tasks' = tasks \ {t} /\ UNCHANGED lost

LEMMA StepOfTasks ==
    ASSUME TypeOK, [Next]_vars
    PROVE  TasksStep
  <1>1. ASSUME NEW w \in Worker, WorkerStep(w) PROVE TasksStep
    <2>1. CASE ClaimCommit(w)
      BY <2>1 DEF TasksStep
    <2>2. CASE Exit(w) \/ Crash(w)
      <3>1. Loses(TasksOf(w)) /\ TasksOf(w) \in SUBSET tasks
        BY <2>2 DEF Exit, Crash, Leave, TasksOf, Loses
      <3>2. QED
        BY <3>1 DEF TasksStep
    <2>3. CASE UNCHANGED <<tasks, lost, execs>>
      BY <2>3 DEF TasksStep
    <2>4. QED
      BY <1>1, <2>1, <2>2, <2>3 DEF WorkerStep, PollStep, StartWorker, PollAborts,
         Shutdown, PollBegin, CountRunning, PollReturns, ClaimSelect
  <1>2. ASSUME NEW t \in tasks, TaskBreaks(t) PROVE TasksStep
    <2>1. Loses({t}) /\ {t} \in SUBSET tasks
      BY <1>2 DEF TaskBreaks, Ends, Loses
    <2>2. QED
      BY <2>1 DEF TasksStep
  <1>3. ASSUME NEW t \in tasks, TaskStep(t) PROVE TasksStep
    <2>1. t \in Task /\ jobs[t.job].attempt_count \in Nat
      BY DEF TypeOK, Task, Row
    <2>2. CASE MarkRunning(t)
      <3>1. Moves(t, "working", 0)
        BY <2>2 DEF MarkRunning, Moves
      <3>2. QED
        BY <2>2, <3>1 DEF TasksStep
    <2>3. CASE WorkRaises(t)
      <3>1. Moves(t, "failing", jobs[t.job].attempt_count)
        BY <2>3 DEF WorkRaises, Moves
      <3>2. QED
        BY <2>1, <2>3, <3>1 DEF TasksStep
    <2>4. CASE MarkCompleted(t) \/ MarkFailed(t)
      <3>1. tasks' = tasks \ {t} /\ UNCHANGED lost
        BY <2>4 DEF MarkCompleted, MarkFailed, Ends
      <3>2. QED
        BY <2>4, <3>1 DEF TasksStep
    <2>5. QED
      BY <1>3, <2>2, <2>3, <2>4 DEF TaskStep
  <1>4. CASE UNCHANGED <<tasks, lost, execs>>
    BY <1>4 DEF TasksStep
  <1>5. QED
    BY <1>1, <1>2, <1>3, <1>4 DEF Next, SystemStep, Operator, RequeueRetryable, Tick,
       Enqueue, Cancel, Retry, Replay, Resolve, SetAnyPaused, SetPaused, vars

\* The coroutine a move leaves behind was not there before.
LEMMA MovedIsNew ==
    ASSUME TypeOK, CapacityInv, HistoryInv, NEW t \in tasks, NEW stage, NEW seen \in Nat,
           Moves(t, stage, seen)
    PROVE  /\ t \notin lost
           /\ \E u \in tasks' :
                 /\ tasks' = (tasks \ {t}) \cup {u}
                 /\ u.job = t.job /\ u.claim = t.claim /\ u.worker = t.worker
                 /\ u.stage = stage /\ u.seen = seen
                 /\ u \notin tasks \cup lost
  <1> DEFINE u == [t EXCEPT !.stage = stage, !.seen = seen]
  <1>1. t \in Task /\ tasks' = (tasks \ {t}) \cup {u}
    BY DEF TypeOK, Moves, MovesTo
  <1>2. /\ u.job = t.job /\ u.claim = t.claim /\ u.worker = t.worker
        /\ u.stage = stage /\ u.seen = seen
    BY <1>1 DEF Task
  <1>3. u \notin lost /\ t \notin lost
    BY <1>2 DEF HistoryInv, LostAreGone
  <1>4. u \notin tasks
    BY <1>2 DEF CapacityInv, ClaimsIdentifyTasks, Moves
  <1>5. QED
    BY <1>1, <1>2, <1>3, <1>4

LEMMA NextKeepsHistory ==
    ASSUME TypeOK, RowsAgree, CapacityInv, HistoryInv, [Next]_vars
    PROVE  HistoryInv'
  <1> USE DEF HistoryInv
  <1>1. \A t \in lost : t.claim <= jobs'[t.job].version
    <2> SUFFICES ASSUME NEW t \in lost PROVE t.claim <= jobs'[t.job].version
      OBVIOUS
    <2>1. t.job \in Job /\ t.claim \in Nat
      BY DEF TypeOK, Task
    <2>2. jobs[t.job].version \in Nat /\ jobs'[t.job].version \in Nat
      BY <2>1, NextTypeOK DEF TypeOK, Row
    <2>3. QED
      BY <2>1, <2>2, VersionsGrow DEF LostClaimsArePast
  <1>2. \A t \in tasks : t.claim <= jobs'[t.job].version
    BY ClaimsStayPast DEF CapacityInv
  <1>3. CASE UNCHANGED <<tasks, lost>>
    BY <1>1, <1>3 DEF LostClaimsArePast, LostAreGone
  <1>4. ASSUME NEW w \in Worker, ClaimCommit(w) PROVE HistoryInv'
    <2>1. UNCHANGED lost /\ tasks' = tasks \cup Spawned(w)
      BY <1>4 DEF ClaimCommit
    <2>2. ASSUME NEW s \in lost, NEW t \in Spawned(w), s.job = t.job
          PROVE  s.claim # t.claim
      <3>1. s.claim \in Nat /\ s.job \in Job /\ jobs[s.job].version \in Nat
        BY DEF TypeOK, Task, Row
      <3>2. t.claim = jobs[t.job].version + 1
        BY DEF Spawned, Spawn
      <3>3. QED
        BY <2>2, <3>1, <3>2 DEF LostClaimsArePast
    <2>3. QED
      BY <1>1, <2>1, <2>2 DEF LostClaimsArePast, LostAreGone
  <1>5. ASSUME NEW S \in SUBSET tasks, Loses(S) PROVE HistoryInv'
    <2>1. IsFiniteSet(lost')
      BY <1>5, FS_Subset, FS_Union DEF Loses, CapacityInv
    <2>2. LostClaimsArePast'
      BY <1>1, <1>2, <1>5 DEF Loses, LostClaimsArePast
    <2>3. LostAreGone'
      <3> SUFFICES ASSUME NEW s \in lost', NEW t \in tasks', s.job = t.job
                   PROVE  s.claim # t.claim
        BY DEF LostAreGone
      <3>1. t \in tasks /\ t \notin S /\ (s \in lost \/ s \in S) /\ S \subseteq tasks
        BY <1>5 DEF Loses
      <3>2. QED
        BY <3>1 DEF LostAreGone, CapacityInv, ClaimsIdentifyTasks
    <2>4. QED
      BY <2>1, <2>2, <2>3
  <1>6. ASSUME NEW t \in tasks, NEW stage, NEW n \in Nat, Moves(t, stage, n)
        PROVE  HistoryInv'
    <2>1. UNCHANGED lost
      BY <1>6 DEF Moves
    <2>2. PICK u \in tasks' : /\ tasks' = (tasks \ {t}) \cup {u}
                              /\ u.job = t.job /\ u.claim = t.claim
      BY <1>6, MovedIsNew
    <2>3. LostAreGone'
      BY <2>1, <2>2 DEF LostAreGone
    <2>4. QED
      BY <1>1, <2>1, <2>3 DEF LostClaimsArePast
  <1>7. ASSUME NEW t \in tasks, tasks' = tasks \ {t}, UNCHANGED lost PROVE HistoryInv'
    BY <1>1, <1>7 DEF LostClaimsArePast, LostAreGone
  <1>8. QED
    BY <1>3, <1>4, <1>5, <1>6, <1>7, StepOfTasks DEF TasksStep

LEMMA InitHistory == Init => HistoryInv
  BY FS_EmptySet DEF Init, HistoryInv, LostClaimsArePast, LostAreGone

\* Every coroutine there has been has a claim of its own.
LEMMA InvariantsOfTasks == Spec => [](TypeOK /\ RowsAgree /\ CapacityInv /\ HistoryInv)
  BY InitCapacity, InitHistory, TypeCorrect, RowsAlwaysAgree, NextKeepsCapacity,
     NextKeepsHistory, PTL DEF Spec

-----------------------------------------------------------------------------
(* Attempts *)

LEMMA BegunIsFinite ==
    ASSUME TypeOK, CapacityInv, HistoryInv, NEW j \in Job
    PROVE  IsFiniteSet(Begun(j)) /\ Cardinality(Begun(j)) \in Nat
  <1>1. IsFiniteSet(tasks \cup lost) /\ Begun(j) \in SUBSET (tasks \cup lost)
    BY FS_Union DEF CapacityInv, HistoryInv, Begun
  <1>2. QED
    BY <1>1, FS_Subset, FS_CardinalityType

\* What vouches for the attempts of job j.
Vouchers(j) == Len(execs[j]) + Cardinality(Begun(j))

\* Starting job j leaves one more coroutine that has begun.
LEMMA StartAddsVoucher ==
    ASSUME TypeOK, CapacityInv, HistoryInv, NEW t \in tasks, MarkRunning(t)
    PROVE  Vouchers(t.job)' = Vouchers(t.job) + 1
  <1>1. Moves(t, "working", 0) /\ UNCHANGED <<execs, lost>> /\ t.stage = "spawned"
    BY DEF MarkRunning, Moves
  <1>2. PICK u \in tasks' :
           /\ tasks' = (tasks \ {t}) \cup {u} /\ u.job = t.job /\ u.stage = "working"
           /\ u \notin tasks \cup lost
    BY <1>1, MovedIsNew
  <1>3. Begun(t.job)' = Begun(t.job) \cup {u} /\ u \notin Begun(t.job)
    BY <1>1, <1>2 DEF Begun
  <1>4. t.job \in Job
    BY DEF TypeOK, Task
  <1>5. Cardinality(Begun(t.job)') = Cardinality(Begun(t.job)) + 1
    BY <1>3, <1>4, BegunIsFinite, FS_AddElement
  <1>6. Len(execs[t.job]) \in Nat
    BY <1>4 DEF TypeOK
  <1>7. QED
    BY <1>1, <1>4, <1>5, <1>6, BegunIsFinite DEF Vouchers

\* A coroutine that settles its row leaves a record in its place.
LEMMA SettlingKeepsVouchers ==
    ASSUME TypeOK, CapacityInv, HistoryInv, NEW t \in tasks, NEW j \in Job,
           MarkCompleted(t) \/ MarkFailed(t)
    PROVE  Vouchers(j)' >= Vouchers(j)
  <1>1. tasks' = tasks \ {t} /\ UNCHANGED lost
    BY DEF MarkCompleted, MarkFailed, Ends
  <1>2. t \in Task /\ t.job \in Job /\ Len(execs[j]) \in Nat
    BY DEF TypeOK, Task
  <1>3. CASE t.job = j
    <2>1. Len(execs'[j]) = Len(execs[j]) + 1
      BY <1>2, <1>3 DEF MarkCompleted, MarkFailed, Record, TypeOK
    <2>2. Begun(j)' = Begun(j) \ {t}
      <3>1. t \notin lost
        BY DEF HistoryInv, LostAreGone
      <3>2. QED
        BY <1>1, <3>1 DEF Begun
    <2>3. Cardinality(Begun(j)') >= Cardinality(Begun(j)) - 1
      <3>1. Cardinality(Begun(j) \ {t}) =
               IF t \in Begun(j) THEN Cardinality(Begun(j)) - 1 ELSE Cardinality(Begun(j))
        BY BegunIsFinite, FS_RemoveElement
      <3>2. QED
        BY <2>2, <3>1, BegunIsFinite
    <2>4. Cardinality(Begun(j)') \in Nat
      BY <2>2, BegunIsFinite, FS_RemoveElement, FS_CardinalityType
    <2>5. QED
      BY <1>2, <2>1, <2>3, <2>4, BegunIsFinite DEF Vouchers
  <1>4. CASE t.job # j
    <2>1. Begun(j)' = Begun(j)
      BY <1>1, <1>4 DEF Begun
    <2>2. execs'[j] = execs[j]
      BY <1>2, <1>4 DEF MarkCompleted, MarkFailed, Record, TypeOK
    <2>3. QED
      BY <1>2, <2>1, <2>2, BegunIsFinite DEF Vouchers
  <1>5. QED
    BY <1>3, <1>4

\* No step takes a voucher away.
LEMMA VouchersStay ==
    ASSUME TypeOK, CapacityInv, HistoryInv, [Next]_vars, NEW j \in Job
    PROVE  Vouchers(j)' >= Vouchers(j)
  <1>0. Len(execs[j]) \in Nat
    BY DEF TypeOK
  <1>1. ASSUME Begun(j)' = Begun(j), UNCHANGED execs PROVE Vouchers(j)' >= Vouchers(j)
    BY <1>0, <1>1, BegunIsFinite DEF Vouchers
  <1>2. CASE UNCHANGED <<tasks, lost, execs>>
    BY <1>1, <1>2 DEF Begun
  <1>3. ASSUME NEW w \in Worker, ClaimCommit(w) PROVE Vouchers(j)' >= Vouchers(j)
    <2>1. \A t \in Spawned(w) : t.stage = "spawned"
      BY DEF Spawned, Spawn
    <2>2. QED
      BY <1>1, <1>3, <2>1 DEF ClaimCommit, Begun
  <1>4. ASSUME NEW S \in SUBSET tasks, Loses(S) PROVE Vouchers(j)' >= Vouchers(j)
    <2>1. tasks' \cup lost' = tasks \cup lost
      BY <1>4 DEF Loses
    <2>2. QED
      BY <1>1, <1>4, <2>1 DEF Loses, Begun
  <1>5. ASSUME NEW t \in tasks, NEW n \in Nat, WorkRaises(t), Moves(t, "failing", n)
        PROVE  Vouchers(j)' >= Vouchers(j)
    <2>0. UNCHANGED <<lost, execs>> /\ t \notin lost
      BY <1>5, MovedIsNew DEF Moves
    <2>1. PICK u \in tasks' :
             /\ tasks' = (tasks \ {t}) \cup {u} /\ u.job = t.job /\ u.stage = "failing"
             /\ u \notin tasks \cup lost
      BY <1>5, MovedIsNew
    <2>2. CASE t.job # j
      BY <1>1, <2>0, <2>1, <2>2 DEF Begun
    <2>3. CASE t.job = j
      <3>1. t \in Begun(j) /\ Begun(j)' = (Begun(j) \ {t}) \cup {u} /\ u \notin Begun(j)
        BY <1>5, <2>0, <2>1, <2>3 DEF WorkRaises, Begun
      <3>2. /\ IsFiniteSet(Begun(j) \ {t})
            /\ Cardinality(Begun(j) \ {t}) = Cardinality(Begun(j)) - 1
        BY <3>1, BegunIsFinite, FS_RemoveElement
      <3>3. Cardinality((Begun(j) \ {t}) \cup {u}) = Cardinality(Begun(j) \ {t}) + 1
        BY <3>1, <3>2, FS_AddElement
      <3>4. QED
        BY <1>0, <2>0, <3>1, <3>2, <3>3, BegunIsFinite DEF Vouchers
    <2>4. QED
      BY <2>2, <2>3
  <1>6. ASSUME NEW t \in tasks, MarkRunning(t), Moves(t, "working", 0)
        PROVE  Vouchers(j)' >= Vouchers(j)
    <2>1. CASE t.job = j
      BY <1>0, <1>6, <2>1, StartAddsVoucher, BegunIsFinite DEF Vouchers
    <2>2. CASE t.job # j
      <3>1. PICK u \in tasks' : tasks' = (tasks \ {t}) \cup {u} /\ u.job = t.job
        BY <1>6, MovedIsNew
      <3>2. UNCHANGED <<lost, execs>>
        BY <1>6 DEF Moves
      <3>3. QED
        BY <1>1, <2>2, <3>1, <3>2 DEF Begun
    <2>3. QED
      BY <2>1, <2>2
  <1>7. ASSUME NEW t \in tasks, MarkRunning(t) PROVE Moves(t, "working", 0)
    BY <1>7 DEF MarkRunning, Moves
  <1>8. QED
    BY <1>2, <1>3, <1>4, <1>5, <1>6, <1>7, SettlingKeepsVouchers, StepOfTasks DEF TasksStep

\* One statement counts an attempt and one forgets them.
LEMMA StatementsKeepAttempts ==
    ASSUME NEW row \in Row
    PROVE  /\ row.attempt_count \in Nat
           /\ Enqueued(row).attempt_count = row.attempt_count
           /\ \A w \in Worker, age \in Age : Claimed(row, w, age).attempt_count = row.attempt_count
           /\ Started(row).attempt_count = row.attempt_count + 1
           /\ Completed(row).attempt_count = row.attempt_count
           /\ \A delay \in Nat : RetryScheduled(row, delay).attempt_count = row.attempt_count
           /\ Buried(row).attempt_count = row.attempt_count
           /\ Requeued(row).attempt_count = row.attempt_count
           /\ Recovered(row).attempt_count = row.attempt_count
           /\ Cancelled(row).attempt_count = row.attempt_count
           /\ Retried(row).attempt_count = row.attempt_count
           /\ Replayed(row).attempt_count = 0
           /\ Aged(row).attempt_count = row.attempt_count
  BY DEF Row, Enqueued, Claimed, Started, Completed, RetryScheduled, Buried, Requeued,
         Recovered, Cancelled, Retried, Replayed, Aged

\* attempt_count rises by the statement of a coroutine only.
LEMMA OnlyStartsCount ==
    ASSUME TypeOK, [Next]_vars, NEW j \in Job
    PROVE  \/ jobs'[j].attempt_count <= jobs[j].attempt_count
           \/ /\ \E t \in tasks : t.job = j /\ MarkRunning(t)
              /\ jobs'[j].attempt_count = jobs[j].attempt_count + 1
  <1>1. jobs[j] \in Row /\ \A w \in Worker : poll[w].age \in Age
    BY DEF TypeOK, Poll
  <1>2. CASE Starts(j)
    BY <1>1, <1>2, StatementsKeepAttempts DEF Starts
  <1>3. CASE ~Starts(j)
    <2>1. \/ jobs'[j].attempt_count = jobs[j].attempt_count
          \/ jobs'[j].attempt_count = 0
      BY <1>1, <1>3, StatementsKeepAttempts, StepOfRow
         DEF RowStep, RowWrite, WritesUnlocked, Settles, Commanded, Claims
    <2>2. QED
      BY <1>1, <2>1, StatementsKeepAttempts
  <1>4. QED
    BY <1>2, <1>3

LEMMA InitAttempts == Init => AttemptsAccounted
  <1> SUFFICES ASSUME Init, NEW j \in Job
               PROVE  jobs[j].attempt_count <= Len(execs[j]) + Cardinality(Begun(j))
    BY DEF AttemptsAccounted
  <1>1. Begun(j) = {} /\ jobs[j].attempt_count = 0 /\ Len(execs[j]) = 0
    BY DEF Init, Begun, NoRow
  <1>2. QED
    BY <1>1, FS_EmptySet

LEMMA NextKeepsAttempts ==
    ASSUME TypeOK, RowsAgree, CapacityInv, HistoryInv, AttemptsAccounted, [Next]_vars
    PROVE  AttemptsAccounted'
  <1> SUFFICES ASSUME NEW j \in Job PROVE jobs'[j].attempt_count <= Vouchers(j)'
    BY DEF AttemptsAccounted, Vouchers
  <1>1. jobs[j].attempt_count <= Vouchers(j) /\ jobs[j].attempt_count \in Nat
    BY DEF AttemptsAccounted, Vouchers, TypeOK, Row
  <1>2. jobs'[j].attempt_count \in Nat
    BY NextTypeOK DEF TypeOK, Row
  <1>3. Vouchers(j) \in Nat /\ Vouchers(j)' \in Nat
    <2>1. Len(execs[j]) \in Nat /\ Len(execs'[j]) \in Nat
      BY NextTypeOK DEF TypeOK
    <2>2. IsFiniteSet(tasks' \cup lost') /\ Begun(j)' \in SUBSET (tasks' \cup lost')
      <3>1. IsFiniteSet(tasks') /\ IsFiniteSet(lost')
        BY NextKeepsCapacity, NextKeepsHistory DEF CapacityInv, HistoryInv
      <3>2. QED
        BY <3>1, FS_Union DEF Begun
    <2>3. Cardinality(Begun(j)) \in Nat /\ Cardinality(Begun(j)') \in Nat
      BY <2>2, BegunIsFinite, FS_Subset, FS_CardinalityType
    <2>4. QED
      BY <2>1, <2>3 DEF Vouchers
  <1>4. CASE jobs'[j].attempt_count <= jobs[j].attempt_count
    BY <1>1, <1>2, <1>3, <1>4, VouchersStay
  <1>5. ASSUME NEW t \in tasks, t.job = j, MarkRunning(t),
               jobs'[j].attempt_count = jobs[j].attempt_count + 1
        PROVE  jobs'[j].attempt_count <= Vouchers(j)'
    BY <1>1, <1>2, <1>3, <1>5, StartAddsVoucher
  <1>6. QED
    BY <1>4, <1>5, OnlyStartsCount

\* No attempt vanishes: each one counted has left a record, or its coroutine is
\* still at work, or was lost.
THEOREM AttemptsAreAccounted == Spec => []AttemptsAccounted
  BY InitAttempts, NextKeepsAttempts, InvariantsOfTasks, PTL DEF Spec

-----------------------------------------------------------------------------
(* Deaths *)

Failures(j) == {n \in DOMAIN execs[j] : execs[j][n].status = "failed"}

\* DeathsAccounted for one job.
DeathAccounted(j) ==
    /\ jobs[j].status = "dead" => RowsOf(j, dlq) # {}
    /\ Cardinality(RowsOf(j, dlq)) <= Cardinality(Failures(j))

LEMMA LedgersAreFinite ==
    ASSUME TypeOK, NEW j \in Job
    PROVE  /\ RowsOf(j, dlq) \subseteq 1 .. Len(dlq) /\ Len(dlq) \in Nat
           /\ IsFiniteSet(RowsOf(j, dlq)) /\ Cardinality(RowsOf(j, dlq)) \in Nat
           /\ Failures(j) \subseteq 1 .. Len(execs[j]) /\ Len(execs[j]) \in Nat
           /\ IsFiniteSet(Failures(j)) /\ Cardinality(Failures(j)) \in Nat
  <1>1. RowsOf(j, dlq) \in SUBSET (1 .. Len(dlq)) /\ Len(dlq) \in Nat
    BY DEF TypeOK, RowsOf
  <1>2. Failures(j) \in SUBSET (1 .. Len(execs[j])) /\ Len(execs[j]) \in Nat
    BY DEF TypeOK, Failures
  <1>3. \A n \in Nat : IsFiniteSet(1 .. n)
    BY FS_Interval
  <1>4. IsFiniteSet(RowsOf(j, dlq)) /\ IsFiniteSet(Failures(j))
    BY <1>1, <1>2, <1>3, FS_Subset
  <1>5. QED
    BY <1>1, <1>2, <1>4, FS_CardinalityType

\* What a new record adds to the failures of job j.
LEMMA RecordAddsFailure ==
    ASSUME TypeOK, NEW i \in Job, NEW n \in Nat, NEW status \in {"completed", "failed"},
           Record(i, n, status), NEW j \in Job
    PROVE  /\ i # j => Failures(j)' = Failures(j)
           /\ status = "completed" => Failures(j)' = Failures(j)
           /\ i = j /\ status = "failed" => Failures(j)' = Failures(j) \cup {Len(execs[j]) + 1}
  <1>1. i # j => execs'[j] = execs[j]
    BY DEF Record, TypeOK
  <1>2. i = j => execs'[j] = Append(execs[j], [attempt_number |-> n, status |-> status])
    BY DEF Record, TypeOK
  <1>3. execs[j] \in Seq(Execution)
    BY DEF TypeOK
  <1>4. i # j => Failures(j)' = Failures(j)
    BY <1>1 DEF Failures
  <1>5. CASE i = j
    <2>1. /\ DOMAIN execs[j] = 1 .. Len(execs[j]) /\ Len(execs[j]) \in Nat
          /\ DOMAIN execs'[j] = 1 .. Len(execs[j]) + 1
          /\ \A k \in 1 .. Len(execs[j]) : execs'[j][k] = execs[j][k]
          /\ execs'[j][Len(execs[j]) + 1].status = status
      BY <1>2, <1>3, <1>5
    <2>2. DOMAIN execs'[j] = DOMAIN execs[j] \cup {Len(execs[j]) + 1}
      BY <2>1
    <2>3. QED
      BY <1>5, <2>1, <2>2 DEF Failures
  <1>6. QED
    BY <1>4, <1>5

\* What a new entry adds to the entries of job j.
LEMMA AppendAddsRow ==
    ASSUME TypeOK, NEW x \in Entry, NEW j \in Job
    PROVE  RowsOf(j, Append(dlq, x)) =
              IF x.job = j THEN RowsOf(j, dlq) \cup {Len(dlq) + 1} ELSE RowsOf(j, dlq)
  <1>1. /\ DOMAIN dlq = 1 .. Len(dlq) /\ Len(dlq) \in Nat
        /\ DOMAIN Append(dlq, x) = 1 .. Len(dlq) + 1
        /\ \A k \in 1 .. Len(dlq) : Append(dlq, x)[k] = dlq[k]
        /\ Append(dlq, x)[Len(dlq) + 1] = x
    BY DEF TypeOK
  <1>2. DOMAIN Append(dlq, x) = DOMAIN dlq \cup {Len(dlq) + 1}
    BY <1>1
  <1>3. QED
    BY <1>1, <1>2 DEF RowsOf

LEMMA ResolvedKeepsRows ==
    ASSUME TypeOK, NEW e \in DOMAIN dlq, Resolved(e), NEW j \in Job
    PROVE  RowsOf(j, dlq') = RowsOf(j, dlq)
  <1>1. dlq[e] \in Entry
    BY DEF TypeOK
  <1>2. [dlq[e] EXCEPT !.is_resolved = TRUE].job = dlq[e].job
    BY <1>1 DEF Entry
  <1>3. DOMAIN dlq' = DOMAIN dlq /\ \A k \in DOMAIN dlq : dlq'[k].job = dlq[k].job
    BY <1>2 DEF Resolved, TypeOK
  <1>4. QED
    BY <1>3 DEF RowsOf

\* The steps that write to the two ledgers.
LEMMA StepOfLedgers ==
    ASSUME TypeOK, [Next]_vars
    PROVE  \/ UNCHANGED <<dlq, execs>>
           \/ \E e \in DOMAIN dlq : Resolved(e) /\ UNCHANGED execs
           \/ \E t \in tasks : MarkCompleted(t) \/ MarkFailed(t)
  BY DEF Next, SystemStep, Operator, WorkerStep, PollStep, StartWorker, PollAborts, Shutdown,
     Exit, Crash, PollBegin, CountRunning, PollReturns, ClaimSelect, ClaimCommit, TaskStep,
     MarkRunning, WorkRaises, TaskBreaks, RequeueRetryable, Tick, Enqueue, Cancel, Retry,
     Replay, Resolve, SetAnyPaused, SetPaused, vars

\* Only a coroutine that leaves an entry buries a job.
LEMMA BuriedHasEntry ==
    ASSUME TypeOK, [Next]_vars, NEW j \in Job, jobs'[j].status = "dead"
    PROVE  \/ jobs[j].status = "dead"
           \/ \E t \in tasks : t.job = j /\ SendToDlq(t)
  <1>1. jobs[j] \in Row
    BY DEF TypeOK
  <1>2. CASE Settles(j)
    BY <1>1, <1>2 DEF Settles, Completed, RetryScheduled, Row
  <1>3. ~Starts(j) /\ \A w \in Worker : ~Claims(w, j)
    BY <1>1 DEF Starts, Started, Claims, Claimed, Row
  <1>4. jobs'[j] \notin {Recovered(jobs[j]), Requeued(jobs[j]), Enqueued(jobs[j]),
                        Retried(jobs[j]), Replayed(jobs[j]), Cancelled(jobs[j])}
    BY <1>1 DEF Recovered, Requeued, Enqueued, Retried, Replayed, Cancelled, Row
  <1>5. jobs'[j] \in {jobs[j], Aged(jobs[j])} => jobs[j].status = "dead"
    BY <1>1 DEF Aged, Row
  <1>6. QED
    BY <1>2, <1>3, <1>4, <1>5, StepOfRow DEF RowStep, RowWrite, WritesUnlocked, Commanded

LEMMA NextKeepsDeathAccounted ==
    ASSUME TypeOK, [Next]_vars, NEW j \in Job, DeathAccounted(j)
    PROVE  DeathAccounted(j)'
  <1>1. ASSUME NEW t \in tasks
        PROVE  /\ t.job \in Job /\ NewEntry(t) \in Entry /\ NewEntry(t).job = t.job
               /\ jobs[t.job].attempt_count \in Nat
    BY DEF TypeOK, Task, Row, NewEntry, Entry
  <1>2. RowsOf(j, dlq) # {} => RowsOf(j, dlq') # {}
    <2>1. ASSUME NEW t \in tasks, SendToDlq(t)
          PROVE  RowsOf(j, dlq) \subseteq RowsOf(j, dlq')
      BY <1>1, <2>1, AppendAddsRow DEF SendToDlq
    <2>2. ASSUME NEW t \in tasks, MarkCompleted(t) \/ MarkFailed(t)
          PROVE  UNCHANGED dlq \/ SendToDlq(t)
      BY <2>2 DEF MarkCompleted, MarkFailed
    <2>3. QED
      BY <2>1, <2>2, StepOfLedgers, ResolvedKeepsRows
  <1>3. jobs'[j].status = "dead" => RowsOf(j, dlq') # {}
    <2>1. ASSUME NEW t \in tasks, t.job = j, SendToDlq(t) PROVE RowsOf(j, dlq') # {}
      BY <1>1, <2>1, AppendAddsRow DEF SendToDlq
    <2>2. QED
      BY <1>2, <2>1, BuriedHasEntry DEF DeathAccounted
  <1>4. Cardinality(RowsOf(j, dlq')) <= Cardinality(Failures(j)')
    <2>1. CASE RowsOf(j, dlq') = RowsOf(j, dlq) /\ Failures(j)' = Failures(j)
      BY <2>1 DEF DeathAccounted
    <2>2. ASSUME NEW t \in tasks, MarkCompleted(t)
          PROVE  RowsOf(j, dlq') = RowsOf(j, dlq) /\ Failures(j)' = Failures(j)
      BY <1>1, <2>2, RecordAddsFailure DEF MarkCompleted
    <2>3. ASSUME NEW t \in tasks, MarkFailed(t)
          PROVE  Cardinality(RowsOf(j, dlq')) <= Cardinality(Failures(j)')
      <3>1. Record(t.job, 1, "failed") /\ (UNCHANGED dlq \/ SendToDlq(t))
        BY <2>3 DEF MarkFailed
      <3>2. CASE t.job # j
        BY <1>1, <2>1, <3>1, <3>2, RecordAddsFailure, AppendAddsRow DEF SendToDlq
      <3>3. CASE t.job = j
        <4>1. Cardinality(Failures(j)') = Cardinality(Failures(j)) + 1
          <5>1. Failures(j)' = Failures(j) \cup {Len(execs[j]) + 1}
            BY <3>1, <3>3, RecordAddsFailure
          <5>2. Len(execs[j]) + 1 \notin Failures(j)
            BY LedgersAreFinite
          <5>3. QED
            BY <5>1, <5>2, LedgersAreFinite, FS_AddElement
        <4>2. \/ Cardinality(RowsOf(j, dlq')) = Cardinality(RowsOf(j, dlq))
              \/ Cardinality(RowsOf(j, dlq')) = Cardinality(RowsOf(j, dlq)) + 1
          <5>1. CASE UNCHANGED dlq
            BY <5>1
          <5>2. CASE SendToDlq(t)
            <6>1. RowsOf(j, dlq') = RowsOf(j, dlq) \cup {Len(dlq) + 1}
              BY <1>1, <3>3, <5>2, AppendAddsRow DEF SendToDlq
            <6>2. Len(dlq) + 1 \notin RowsOf(j, dlq)
              BY LedgersAreFinite
            <6>3. QED
              BY <6>1, <6>2, LedgersAreFinite, FS_AddElement
          <5>3. QED
            BY <3>1, <5>1, <5>2
        <4>3. QED
          BY <4>1, <4>2, LedgersAreFinite DEF DeathAccounted
      <3>4. QED
        BY <3>2, <3>3
    <2>4. CASE UNCHANGED <<dlq, execs>>
      BY <2>1, <2>4 DEF Failures
    <2>5. ASSUME NEW e \in DOMAIN dlq, Resolved(e), UNCHANGED execs
          PROVE  Cardinality(RowsOf(j, dlq')) <= Cardinality(Failures(j)')
      BY <2>1, <2>5, ResolvedKeepsRows DEF Failures
    <2>6. QED
      BY <2>1, <2>2, <2>3, <2>4, <2>5, StepOfLedgers
  <1>5. QED
    BY <1>3, <1>4 DEF DeathAccounted

LEMMA InitDeaths == Init => DeathsAccounted
  <1> SUFFICES ASSUME Init, NEW j \in Job PROVE DeathAccounted(j)
    BY DEF DeathsAccounted, DeathAccounted, Failures
  <1>1. RowsOf(j, dlq) = {} /\ Failures(j) = {} /\ jobs[j].status # "dead"
    BY DEF Init, RowsOf, Failures, NoRow
  <1>2. QED
    BY <1>1, FS_EmptySet DEF DeathAccounted

LEMMA NextKeepsDeaths == TypeOK /\ DeathsAccounted /\ [Next]_vars => DeathsAccounted'
  BY NextKeepsDeathAccounted DEF DeathsAccounted, DeathAccounted, Failures

\* A dead job is found in the dead letter queue, and every entry there goes back
\* to a failed execution of its own, whatever was replayed, resolved or lost.
THEOREM DeathsAreAccounted == Spec => []DeathsAccounted
  BY InitDeaths, NextKeepsDeaths, TypeCorrect, PTL DEF Spec
=============================================================================
