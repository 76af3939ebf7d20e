---------------------------- MODULE CapacityProofs ----------------------------
(***************************************************************************)
(* The bound on a worker's coroutines, for any number of workers, jobs and *)
(* commands.  _active_jobs is read before a claim and raised after it, by  *)
(* one poll per worker, and coroutines lower it in between.  From it, how  *)
(* far the concurrency limit of a queue can be exceeded.                   *)
(***************************************************************************)
EXTENDS JobProcessingProofs

\* The coroutines of a worker are counted, so they have to be distinct: each has
\* a claim of its own, and a claim to come has a version no coroutine has yet.
ClaimsArePast == \A t \in tasks : t.claim <= jobs[t.job].version

ClaimsIdentifyTasks ==
    \A s, t \in tasks : s.job = t.job /\ s.claim = t.claim => s = t

CapacityInv ==
    /\ IsFiniteSet(tasks)
    /\ ClaimsArePast
    /\ ClaimsIdentifyTasks
    /\ CapacityRespected

-----------------------------------------------------------------------------
\* Every statement but the first counts the version up.
LEMMA StatementsRaiseVersion ==
    ASSUME NEW row \in Row
    PROVE  /\ \A w \in Worker, age \in Age : Claimed(row, w, age).version = row.version + 1
           /\ Started(row).version = row.version + 1
           /\ Completed(row).version = row.version + 1
           /\ \A delay \in Nat : RetryScheduled(row, delay).version = row.version + 1
           /\ Buried(row).version = row.version + 1
           /\ Requeued(row).version = row.version + 1
           /\ Recovered(row).version = row.version + 1
           /\ Cancelled(row).version = row.version + 1
           /\ Retried(row).version = row.version + 1
           /\ Replayed(row).version = row.version + 1
           /\ Aged(row).version = row.version
           /\ row.version \in Nat
  BY DEF Row, Claimed, Started, Completed, RetryScheduled, Buried, Requeued, Recovered,
         Cancelled, Retried, Replayed, Aged

\* No statement lowers the version of a row.
LEMMA VersionsGrow ==
    ASSUME TypeOK, RowsAgree, [Next]_vars, NEW j \in Job
    PROVE  jobs'[j].version >= jobs[j].version
  <1>1. jobs[j] \in Row /\ \A w \in Worker : poll[w].age \in Age
    BY DEF TypeOK, Poll
  <1>2. CASE jobs[j].status = "absent" /\ jobs'[j] = Enqueued(jobs[j])
    <2>1. jobs[j] = NoRow
      BY <1>2 DEF RowsAgree
    <2>2. jobs[j].version = 0 /\ jobs'[j].version = 1
      BY <1>2, <2>1 DEF NoRow, Enqueued
    <2>3. QED
      BY <2>2
  <1>3. CASE jobs'[j] = jobs[j] \/ jobs'[j].version \in {jobs[j].version, jobs[j].version + 1}
    BY <1>1, <1>3, StatementsRaiseVersion
  <1>4. WritesUnlocked(j) => jobs'[j].version = jobs[j].version + 1
    BY <1>1, StatementsRaiseVersion DEF WritesUnlocked, Starts, Settles, Commanded
  <1>5. \A w \in Worker : Claims(w, j) => jobs'[j].version = jobs[j].version + 1
    BY <1>1, StatementsRaiseVersion DEF Claims
  <1>6. jobs'[j] \in {Aged(jobs[j]), Recovered(jobs[j]), Requeued(jobs[j])}
          => jobs'[j].version \in {jobs[j].version, jobs[j].version + 1}
    BY <1>1, StatementsRaiseVersion
  <1>7. QED
    BY <1>2, <1>3, <1>4, <1>5, <1>6, StepOfRow DEF RowStep, RowWrite

\* ClaimsArePast of tasks that were there before.
LEMMA ClaimsStayPast ==
    ASSUME TypeOK, RowsAgree, [Next]_vars, ClaimsArePast, NEW t \in tasks
    PROVE  t.claim <= jobs'[t.job].version
  <1>1. t.job \in Job /\ t.claim \in Nat
    BY DEF TypeOK, Task
  <1>2. jobs[t.job].version \in Nat /\ jobs'[t.job].version \in Nat
    BY <1>1, NextTypeOK DEF TypeOK, Row
  <1>3. QED
    BY <1>1, <1>2, VersionsGrow DEF ClaimsArePast

\* The numbers in CapacityRespected are numbers.
LEMMA CountsAreNat ==
    ASSUME TypeOK, IsFiniteSet(tasks), NEW w \in Worker
    PROVE  /\ IsFiniteSet(TasksOf(w)) /\ Cardinality(TasksOf(w)) \in Nat
           /\ IsFiniteSet(poll[w].ids) /\ Cardinality(poll[w].ids) \in Nat
  <1>1. TasksOf(w) \in SUBSET tasks /\ poll[w].ids \in SUBSET Job
    BY DEF TasksOf, TypeOK, Poll
  <1>2. IsFiniteSet(TasksOf(w)) /\ IsFiniteSet(poll[w].ids)
    BY <1>1, JobAssumption, FS_Subset
  <1>3. QED
    BY <1>2, FS_CardinalityType

-----------------------------------------------------------------------------
(* The steps that change tasks, _active_jobs or locks *)

\* One new coroutine per claimed row.
LEMMA SpawnedCount ==
    ASSUME TypeOK, NEW w \in Worker
    PROVE  /\ IsFiniteSet(Spawned(w))
           /\ Cardinality(Spawned(w)) = Cardinality(poll[w].ids)
  <1> DEFINE f == [j \in poll[w].ids |-> Spawn(w, j)]
  <1>1. IsFiniteSet(poll[w].ids)
    <2>1. poll[w].ids \in SUBSET Job
      BY DEF TypeOK, Poll
    <2>2. QED
      BY <2>1, JobAssumption, FS_Subset
  <1>2. f \in Bijection(poll[w].ids, Spawned(w))
    <2>1. \A i, j \in poll[w].ids : f[i] = f[j] => i = j
      BY DEF Spawn
    <2>2. \A t \in Spawned(w) : \E j \in poll[w].ids : f[j] = t
      BY DEF Spawned
    <2>3. f \in [poll[w].ids -> Spawned(w)]
      BY DEF Spawned
    <2>4. QED
      BY <2>1, <2>2, <2>3 DEF Bijection, Injection, Surjection, IsInjective
  <1>3. QED
    BY <1>1, <1>2, FS_Bijection DEF ExistsBijection

LEMMA CommitKeepsCapacity ==
    ASSUME TypeOK, RowsAgree, [Next]_vars, CapacityInv, NEW w \in Worker, ClaimCommit(w)
    PROVE  CapacityInv'
  <1> USE DEF CapacityInv
  <1>1. poll[w].ids \subseteq Job
    BY DEF TypeOK, Poll
  <1>2. tasks' = tasks \cup Spawned(w) /\ IsFiniteSet(tasks')
    BY SpawnedCount, FS_Union DEF ClaimCommit
  <1>3. \A t \in Spawned(w) : /\ t.worker = w /\ t.job \in poll[w].ids
                              /\ t.claim = jobs[t.job].version + 1
                              /\ jobs[t.job].version \in Nat
    BY <1>1 DEF Spawned, Spawn, TypeOK, Row
  <1>4. \A t \in Spawned(w) : jobs'[t.job].version = t.claim
    <2> SUFFICES ASSUME NEW t \in Spawned(w) PROVE jobs'[t.job].version = t.claim
      OBVIOUS
    <2>1. t.job \in Job /\ jobs[t.job] \in Row
      BY <1>1, <1>3 DEF TypeOK
    <2>2. jobs'[t.job] = Claimed(jobs[t.job], w, poll[w].age)
      BY <1>3, <2>1 DEF ClaimCommit
    <2>3. QED
      BY <1>3, <2>1, <2>2 DEF Claimed, Row
  <1>5. \A s \in tasks, t \in Spawned(w) : s.job = t.job => s.claim < t.claim
    <2> SUFFICES ASSUME NEW s \in tasks, NEW t \in Spawned(w), s.job = t.job
                 PROVE  s.claim < t.claim
      OBVIOUS
    <2>1. s.claim \in Nat /\ s.claim <= jobs[t.job].version
      BY DEF TypeOK, Task, ClaimsArePast
    <2>2. QED
      BY <1>3, <2>1
  <1>6. ClaimsArePast'
    <2>1. \A t \in Spawned(w) : t.claim <= jobs'[t.job].version
      BY <1>3, <1>4
    <2>2. QED
      BY <1>2, <2>1, ClaimsStayPast DEF ClaimsArePast
  <1>7. ClaimsIdentifyTasks'
    <2>1. \A s, t \in Spawned(w) : s.job = t.job => s = t
      BY DEF Spawned, Spawn
    <2>2. \A t \in tasks : t.claim \in Nat
      BY DEF TypeOK, Task
    <2>3. \A t \in Spawned(w) : t.claim \in Nat
      BY <1>3
    <2>4. QED
      BY <1>2, <1>5, <2>1, <2>2, <2>3 DEF ClaimsIdentifyTasks
  <1>8. CapacityRespected'
    <2> SUFFICES ASSUME NEW v \in Worker
                 PROVE  /\ active'[v] = Cardinality(TasksOf(v)')
                        /\ active'[v] + Cardinality(poll'[v].ids) <= BatchSize
      BY DEF CapacityRespected
    <2>1. CASE v = w
      <3>1. TasksOf(w)' = TasksOf(w) \cup Spawned(w) /\ TasksOf(w) \cap Spawned(w) = {}
        <4>1. TasksOf(w) \cap Spawned(w) = {}
          <5>1. \A t \in tasks : t.claim \in Nat
            BY DEF TypeOK, Task
          <5>2. QED
            BY <1>5, <5>1 DEF TasksOf
        <4>2. QED
          BY <1>2, <1>3, <4>1 DEF TasksOf
      <3>2. Cardinality(TasksOf(w)') = Cardinality(TasksOf(w)) + Cardinality(poll[w].ids)
        <4>1. Cardinality(TasksOf(w) \cap Spawned(w)) = 0
          BY <3>1, FS_EmptySet
        <4>2. Cardinality(TasksOf(w) \cup Spawned(w)) =
                 Cardinality(TasksOf(w)) + Cardinality(Spawned(w))
                   - Cardinality(TasksOf(w) \cap Spawned(w))
          BY SpawnedCount, CountsAreNat, FS_Union
        <4>3. QED
          BY <3>1, <4>1, <4>2, SpawnedCount, CountsAreNat
      <3>3. active'[w] = active[w] + Cardinality(poll[w].ids)
        BY DEF ClaimCommit, TypeOK
      <3>4. Cardinality(poll'[w].ids) = 0
        BY FS_EmptySet DEF ClaimCommit, Onward, NoPoll, TypeOK
      <3>5. QED
        BY <2>1, <3>2, <3>3, <3>4, CountsAreNat, SettingsAssumption DEF CapacityRespected
    <2>2. CASE v # w
      <3>1. TasksOf(v)' = TasksOf(v)
        BY <1>2, <1>3, <2>2 DEF TasksOf
      <3>2. active'[v] = active[v] /\ poll'[v] = poll[v]
        BY <2>2 DEF ClaimCommit, Onward, TypeOK
      <3>3. QED
        BY <3>1, <3>2 DEF CapacityRespected
    <2>3. QED
      BY <2>1, <2>2
  <1>9. QED
    BY <1>2, <1>6, <1>7, <1>8

\* A coroutine moves on, keeping its claim.
LEMMA MoveKeepsCapacity ==
    ASSUME TypeOK, RowsAgree, [Next]_vars, CapacityInv, NEW t \in tasks,
           NEW stage, NEW seen, MovesTo(t, stage, seen), UNCHANGED <<active, poll>>
    PROVE  CapacityInv'
  <1> USE DEF CapacityInv
  <1> DEFINE u == [t EXCEPT !.stage = stage, !.seen = seen]
  <1>1. t \in Task /\ u.worker = t.worker /\ u.job = t.job /\ u.claim = t.claim
    BY DEF TypeOK, Task
  <1>2. tasks' = (tasks \ {t}) \cup {u}
    BY DEF MovesTo
  <1>3. u \notin tasks \ {t}
    BY <1>1 DEF ClaimsIdentifyTasks
  <1>4. IsFiniteSet(tasks')
    BY <1>2, FS_RemoveElement, FS_AddElement
  <1>5. ClaimsArePast'
    BY <1>1, <1>2, ClaimsStayPast DEF ClaimsArePast
  <1>6. ClaimsIdentifyTasks'
    <2> SUFFICES ASSUME NEW r \in tasks', NEW s \in tasks',
                        r.job = s.job, r.claim = s.claim
                 PROVE  r = s
      BY DEF ClaimsIdentifyTasks
    <2>1. CASE r \in tasks \ {t} /\ s \in tasks \ {t}
      BY <2>1 DEF ClaimsIdentifyTasks
    <2>2. CASE r = u /\ s = u
      BY <2>2
    <2>3. CASE r = u /\ s \in tasks \ {t}
      BY <1>1, <2>3 DEF ClaimsIdentifyTasks
    <2>4. CASE r \in tasks \ {t} /\ s = u
      BY <1>1, <2>4 DEF ClaimsIdentifyTasks
    <2>5. QED
      BY <1>2, <2>1, <2>2, <2>3, <2>4
  <1>7. ASSUME NEW v \in Worker PROVE Cardinality(TasksOf(v)') = Cardinality(TasksOf(v))
    <2>1. CASE t.worker = v
      <3>1. TasksOf(v)' = (TasksOf(v) \ {t}) \cup {u}
        BY <1>1, <1>2, <2>1 DEF TasksOf
      <3>2. t \in TasksOf(v) /\ u \notin TasksOf(v) \ {t}
        BY <1>3, <2>1 DEF TasksOf
      <3>3. /\ IsFiniteSet(TasksOf(v) \ {t})
            /\ Cardinality(TasksOf(v) \ {t}) = Cardinality(TasksOf(v)) - 1
        BY <3>2, CountsAreNat, FS_RemoveElement
      <3>4. Cardinality((TasksOf(v) \ {t}) \cup {u}) = Cardinality(TasksOf(v) \ {t}) + 1
        BY <3>2, <3>3, FS_AddElement
      <3>5. QED
        BY <3>1, <3>3, <3>4, CountsAreNat
    <2>2. CASE t.worker # v
      <3>1. TasksOf(v)' = TasksOf(v)
        BY <1>1, <1>2, <2>2 DEF TasksOf
      <3>2. QED
        BY <3>1
    <2>3. QED
      BY <2>1, <2>2
  <1>8. CapacityRespected'
    BY <1>7 DEF CapacityRespected
  <1>9. QED
    BY <1>4, <1>5, <1>6, <1>8

\* The finally clause takes a coroutine off the count, once.
LEMMA EndKeepsCapacity ==
    ASSUME TypeOK, RowsAgree, [Next]_vars, CapacityInv, NEW t \in tasks,
           Ends(t), UNCHANGED poll
    PROVE  CapacityInv'
  <1> USE DEF CapacityInv
  <1>1. tasks' = tasks \ {t} /\ IsFiniteSet(tasks')
    BY FS_RemoveElement DEF Ends
  <1>2. ClaimsArePast'
    BY <1>1, ClaimsStayPast DEF ClaimsArePast
  <1>3. ClaimsIdentifyTasks'
    BY <1>1 DEF ClaimsIdentifyTasks
  <1>4. CapacityRespected'
    <2> SUFFICES ASSUME NEW v \in Worker
                 PROVE  /\ active'[v] = Cardinality(TasksOf(v)')
                        /\ active'[v] + Cardinality(poll'[v].ids) <= BatchSize
      BY DEF CapacityRespected
    <2>1. CASE t.worker = v
      <3>1. TasksOf(v)' = TasksOf(v) \ {t} /\ t \in TasksOf(v)
        BY <1>1, <2>1 DEF TasksOf
      <3>2. Cardinality(TasksOf(v)') = Cardinality(TasksOf(v)) - 1
        BY <3>1, CountsAreNat, FS_RemoveElement
      <3>3. active'[v] = active[v] - 1
        BY <2>1 DEF Ends, TypeOK
      <3>4. QED
        BY <3>2, <3>3, CountsAreNat, SettingsAssumption DEF CapacityRespected
    <2>2. CASE t.worker # v
      <3>1. TasksOf(v)' = TasksOf(v)
        BY <1>1, <2>2 DEF TasksOf
      <3>2. active'[v] = active[v]
        BY <2>2 DEF Ends, TypeOK
      <3>3. QED
        BY <3>1, <3>2 DEF CapacityRespected
    <2>3. QED
      BY <2>1, <2>2
  <1>5. QED
    BY <1>1, <1>2, <1>3, <1>4

\* A process that ends takes its coroutines and its locks with it.
LEMMA LeaveKeepsCapacity ==
    ASSUME TypeOK, RowsAgree, [Next]_vars, CapacityInv, NEW w \in Worker, NEW st,
           Leave(w, st)
    PROVE  CapacityInv'
  <1> USE DEF CapacityInv
  <1>1. tasks' = tasks \ TasksOf(w)
    BY DEF Leave
  <1>2. IsFiniteSet(tasks')
    BY <1>1, FS_Subset
  <1>3. ClaimsArePast'
    BY <1>1, ClaimsStayPast DEF ClaimsArePast
  <1>4. ClaimsIdentifyTasks'
    BY <1>1 DEF ClaimsIdentifyTasks
  <1>5. CapacityRespected'
    <2> SUFFICES ASSUME NEW v \in Worker
                 PROVE  /\ active'[v] = Cardinality(TasksOf(v)')
                        /\ active'[v] + Cardinality(poll'[v].ids) <= BatchSize
      BY DEF CapacityRespected
    <2>1. CASE v = w
      <3>1. TasksOf(w)' = {} /\ active'[w] = 0 /\ poll'[w].ids = {}
        BY <1>1 DEF TasksOf, Leave, NoPoll, TypeOK
      <3>2. QED
        BY <2>1, <3>1, FS_EmptySet, SettingsAssumption
    <2>2. CASE v # w
      <3>1. TasksOf(v)' = TasksOf(v)
        BY <1>1, <2>2 DEF TasksOf
      <3>2. active'[v] = active[v] /\ poll'[v] = poll[v]
        BY <2>2 DEF Leave, TypeOK
      <3>3. QED
        BY <3>1, <3>2 DEF CapacityRespected
    <2>3. QED
      BY <2>1, <2>2
  <1>6. QED
    BY <1>2, <1>3, <1>4, <1>5

\* Coroutines are left alone, and a poll that takes locks takes no more than the
\* capacity it finds.
LEMMA LocksKeepCapacity ==
    ASSUME TypeOK, RowsAgree, [Next]_vars, CapacityInv, UNCHANGED <<tasks, active>>,
           \A v \in Worker :
               \/ poll'[v].ids \subseteq poll[v].ids
               \/ Cardinality(poll'[v].ids) <= Remaining(v)
    PROVE  CapacityInv'
  <1> USE DEF CapacityInv
  <1>1. ClaimsArePast'
    BY ClaimsStayPast DEF ClaimsArePast
  <1>2. CapacityRespected'
    <2> SUFFICES ASSUME NEW v \in Worker
                 PROVE  /\ active'[v] = Cardinality(TasksOf(v)')
                        /\ active'[v] + Cardinality(poll'[v].ids) <= BatchSize
      BY DEF CapacityRespected
    <2>1. active'[v] = active[v] /\ TasksOf(v)' = TasksOf(v)
      BY DEF TasksOf
    <2>2. Cardinality(poll'[v].ids) \in Nat
      BY CountsAreNat, NextTypeOK, FS_Subset, FS_CardinalityType, JobAssumption
         DEF TypeOK, Poll
    <2>3. CASE poll'[v].ids \subseteq poll[v].ids
      <3>1. Cardinality(poll'[v].ids) <= Cardinality(poll[v].ids)
        BY <2>3, CountsAreNat, FS_Subset
      <3>2. QED
        BY <2>1, <2>2, <3>1, CountsAreNat, SettingsAssumption DEF CapacityRespected
    <2>4. CASE Cardinality(poll'[v].ids) <= Remaining(v)
      BY <2>1, <2>2, <2>4, CountsAreNat, SettingsAssumption DEF CapacityRespected, Remaining
    <2>5. QED
      BY <2>3, <2>4
  <1>3. QED
    BY <1>1, <1>2 DEF ClaimsIdentifyTasks

LEMMA NextKeepsCapacity ==
    ASSUME TypeOK, RowsAgree, CapacityInv, [Next]_vars
    PROVE  CapacityInv'
  <1> DEFINE NoNewLocks == \A v \in Worker : poll'[v].ids \subseteq poll[v].ids
  <1>1. ASSUME NEW w \in Worker, WorkerStep(w) PROVE CapacityInv'
    <2>1. CASE ClaimCommit(w)
      BY <2>1, CommitKeepsCapacity
    <2>2. CASE Exit(w) \/ Crash(w)
      BY <2>2, LeaveKeepsCapacity DEF Exit, Crash
    <2>3. CASE ClaimSelect(w)
      <3>1. UNCHANGED <<tasks, active>>
        BY <2>3 DEF ClaimSelect
      <3>2. PICK q \in Queue, ids \in SUBSET Job :
               /\ IsHead(ids, q, Remaining(w))
               /\ IF ids = {}
                  THEN Onward(w, poll[w].left \ {q})
                  ELSE poll' = [poll EXCEPT ![w] = [at |-> "commit", left |-> @.left \ {q},
                                                    queue |-> NULL, ids |-> ids, age |-> 0]]
        BY <2>3 DEF ClaimSelect
      <3>3. \A v \in Worker \ {w} : poll'[v] = poll[v]
        BY <3>2 DEF Onward, TypeOK
      <3>4. poll'[w].ids = {} \/ poll'[w].ids = ids
        <4>1. CASE Onward(w, poll[w].left \ {q})
          BY <4>1 DEF Onward, NoPoll, TypeOK
        <4>2. CASE poll' = [poll EXCEPT ![w] = [at |-> "commit", left |-> @.left \ {q},
                                                queue |-> NULL, ids |-> ids, age |-> 0]]
          BY <4>2 DEF TypeOK
        <4>3. QED
          BY <3>2, <4>1, <4>2
      <3>5. Cardinality(ids) <= Remaining(w)
        BY <3>2 DEF IsHead
      <3>6. QED
        BY <3>1, <3>3, <3>4, <3>5, LocksKeepCapacity
    <2>4. CASE ~ClaimSelect(w) /\ ~ClaimCommit(w) /\ ~Exit(w) /\ ~Crash(w)
      <3>1. UNCHANGED <<tasks, active>>
        BY <1>1, <2>4 DEF WorkerStep, PollStep, StartWorker, PollAborts, Shutdown,
           PollBegin, CountRunning, PollReturns
      <3>2. NoNewLocks
        <4>1. CASE UNCHANGED poll
          BY <4>1
        <4>2. CASE poll' = [poll EXCEPT ![w] = NoPoll]
          BY <4>2 DEF NoPoll, TypeOK
        <4>3. ASSUME NEW left, Onward(w, left) PROVE NoNewLocks
          BY <4>3 DEF Onward, NoPoll, TypeOK
        <4>4. CASE CountRunning(w)
          <5>1. PICK q \in Queue :
                   \/ Onward(w, poll[w].left \ {q})
                   \/ poll' = [poll EXCEPT ![w].at = "select", ![w].queue = q,
                                           ![w].left = @ \ {q}]
            BY <4>4 DEF CountRunning
          <5>2. CASE poll' = [poll EXCEPT ![w].at = "select", ![w].queue = q,
                                          ![w].left = @ \ {q}]
            BY <5>2 DEF TypeOK, Poll
          <5>3. QED
            BY <4>3, <5>1, <5>2
        <4>5. QED
          BY <1>1, <2>4, <4>1, <4>2, <4>3, <4>4
             DEF WorkerStep, PollStep, StartWorker, PollAborts, Shutdown, PollBegin, PollReturns
      <3>3. QED
        BY <3>1, <3>2, LocksKeepCapacity
    <2>5. QED
      BY <2>1, <2>2, <2>3, <2>4
  <1>2. ASSUME NEW t \in tasks, TaskStep(t) \/ TaskBreaks(t) PROVE CapacityInv'
    <2>1. CASE MarkRunning(t) \/ WorkRaises(t)
      BY <2>1, MoveKeepsCapacity DEF MarkRunning, WorkRaises
    <2>2. CASE MarkCompleted(t) \/ MarkFailed(t) \/ TaskBreaks(t)
      BY <2>2, EndKeepsCapacity DEF MarkCompleted, MarkFailed, TaskBreaks
    <2>3. QED
      BY <1>2, <2>1, <2>2 DEF TaskStep
  <1>3. CASE Tick
    <2>1. \A w \in Worker : poll'[w].ids = poll[w].ids
      BY <1>3 DEF Tick, AgedPoll, TypeOK, Poll
    <2>2. QED
      BY <1>3, <2>1, LocksKeepCapacity DEF Tick
  <1>4. CASE UNCHANGED <<tasks, active, poll>>
    BY <1>4, LocksKeepCapacity
  <1>5. QED
    BY <1>1, <1>2, <1>3, <1>4 DEF Next, SystemStep, Operator, RequeueRetryable,
       Enqueue, Cancel, Retry, Replay, Resolve, SetAnyPaused, SetPaused, vars

LEMMA InitCapacity == Init => CapacityInv
  <1> SUFFICES ASSUME Init PROVE CapacityInv
    OBVIOUS
  <1>1. tasks = {} /\ IsFiniteSet(tasks)
    BY FS_EmptySet DEF Init
  <1>2. \A w \in Worker : TasksOf(w) = {} /\ active[w] = 0 /\ poll[w].ids = {}
    BY <1>1 DEF Init, TasksOf, NoPoll
  <1>3. CapacityRespected
    BY <1>2, FS_EmptySet, SettingsAssumption DEF CapacityRespected
  <1>4. QED
    BY <1>1, <1>3 DEF CapacityInv, ClaimsArePast, ClaimsIdentifyTasks

\* worker_claim_batch_size bounds how many jobs a worker has in hand or is about to
\* claim, at any time, and _active_jobs counts its coroutines.
THEOREM CapacityIsRespected == Spec => []CapacityRespected
  <1>1. CapacityInv => CapacityRespected
    BY DEF CapacityInv
  <1>2. QED
    BY <1>1, InitCapacity, TypeCorrect, RowsAlwaysAgree, NextKeepsCapacity, PTL DEF Spec

-----------------------------------------------------------------------------
(* How far a concurrency limit is exceeded.  CapacityRespected bounds what a *)
(* process has in hand; the bound on the running jobs of a queue also counts *)
(* what may still become a running job of it.                                *)

RunningRows(q) == {j \in Job : QueueOf[j] = q /\ jobs[j].status = "running"}

AboutToRun(q) == {t \in tasks : t.stage = "spawned" /\ QueueOf[t.job] = q}

AboutToClaim(q) == {j \in Locked : QueueOf[j] = q}

AboutToSelect(q) == {w \in Worker : poll[w].at = "select" /\ poll[w].queue = q}

Exposure(q) ==
    Cardinality(RunningRows(q)) + Cardinality(AboutToRun(q))
        + Cardinality(AboutToClaim(q)) + BatchSize * Cardinality(AboutToSelect(q))

ExposureBound(q) == Limit[q] - 1 + 2 * BatchSize * Cardinality(Processes)

\* A process that has not been started has no part in it.
ProcessesCounted ==
    /\ IsFiniteSet(Processes)
    /\ \A w \in Worker \ Processes : poll[w] = NoPoll /\ TasksOf(w) = {}

ExposureBounded == \A q \in Queue : Limit[q] > 0 => Exposure(q) <= ExposureBound(q)

LEMMA CountIsNat == \A S : IsFiniteSet(S) => Cardinality(S) \in Nat
  BY FS_CardinalityType

\* The elements of a finite set can be numbered.
LEMMA Numbering ==
    ASSUME NEW S, IsFiniteSet(S), NEW n \in Nat, Cardinality(S) <= n
    PROVE  \E f : f \in Injection(S, 1 .. n)
  <1>1. Cardinality(S) \in Nat /\ ExistsBijection(1 .. Cardinality(S), S)
    BY FS_CardinalityType
  <1>2. PICK g : g \in Bijection(1 .. Cardinality(S), S)
    BY <1>1 DEF ExistsBijection
  <1> DEFINE f == [x \in S |-> CHOOSE i \in 1 .. Cardinality(S) : g[i] = x]
  <1>3. \A x \in S : f[x] \in 1 .. Cardinality(S) /\ g[f[x]] = x
    BY <1>2 DEF Bijection, Surjection
  <1>4. f \in [S -> 1 .. n]
    BY <1>1, <1>3
  <1>5. \A x, y \in S : f[x] = f[y] => x = y
    <2> SUFFICES ASSUME NEW x \in S, NEW y \in S, f[x] = f[y] PROVE x = y
      OBVIOUS
    <2>1. g[f[x]] = x /\ g[f[y]] = y
      BY <1>3
    <2> HIDE DEF f
    <2>2. QED
      BY <2>1
  <1> HIDE DEF f
  <1>6. f \in Injection(S, 1 .. n)
    BY <1>4, <1>5 DEF Injection, IsInjective
  <1>7. QED
    BY <1>6

\* Finitely many sets of at most n elements have at most n elements for each.
LEMMA BoundedUnion ==
    ASSUME NEW W, IsFiniteSet(W), NEW H, NEW n \in Nat,
           \A w \in W : IsFiniteSet(H[w]) /\ Cardinality(H[w]) <= n
    PROVE  LET U == UNION {H[w] : w \in W}
           IN  IsFiniteSet(U) /\ Cardinality(U) <= Cardinality(W) * n
  <1> DEFINE U == UNION {H[w] : w \in W}
             owner == [x \in U |-> CHOOSE w \in W : x \in H[w]]
             number == [w \in W |-> CHOOSE f : f \in Injection(H[w], 1 .. n)]
             F == [x \in U |-> <<owner[x], number[owner[x]][x]>>]
  <1>1. \A x \in U : owner[x] \in W /\ x \in H[owner[x]]
    OBVIOUS
  <1>2. \A w \in W : number[w] \in Injection(H[w], 1 .. n)
    BY Numbering
  <1> HIDE DEF owner, number
  <1>3. \A w \in W : \A x \in H[w] : number[w][x] \in 1 .. n
    BY <1>2 DEF Injection
  <1>4. \A w \in W : \A x, y \in H[w] : number[w][x] = number[w][y] => x = y
    <2> SUFFICES ASSUME NEW w \in W PROVE \A x, y \in H[w] :
                                             number[w][x] = number[w][y] => x = y
      OBVIOUS
    <2>1. number[w] \in [H[w] -> 1 .. n] /\ IsInjective(number[w])
      BY <1>2 DEF Injection
    <2>2. QED
      BY <2>1 DEF IsInjective
  <1>5. F \in [U -> W \X (1 .. n)]
    BY <1>1, <1>3
  <1>6. ASSUME NEW x \in U, NEW y \in U, F[x] = F[y] PROVE x = y
    <2>1. owner[x] = owner[y] /\ number[owner[x]][x] = number[owner[y]][y]
      BY <1>6
    <2>2. owner[x] \in W /\ x \in H[owner[x]] /\ y \in H[owner[x]]
      BY <1>1, <2>1
    <2>3. QED
      BY <1>4, <2>1, <2>2
  <1>7. F \in Injection(U, W \X (1 .. n))
    <2>1. DOMAIN F = U
      OBVIOUS
    <2> HIDE DEF F
    <2>2. QED
      BY <1>5, <1>6, <2>1 DEF Injection, IsInjective
  <1>8. IsFiniteSet(1 .. n) /\ Cardinality(1 .. n) = n
    BY FS_Interval
  <1>9. /\ IsFiniteSet(W \X (1 .. n))
        /\ Cardinality(W \X (1 .. n)) = Cardinality(W) * n
    BY <1>8, FS_Product
  <1>10. QED
    BY <1>7, <1>9, FS_Injection

\* What a process has in hand for queue q: coroutines that will write "running",
\* locked rows that will become such coroutines.
LEMMA HandsAreBounded ==
    ASSUME TypeOK, CapacityInv, ProcessesCounted, NEW q \in Queue
    PROVE  Cardinality(AboutToRun(q)) + Cardinality(AboutToClaim(q))
              <= Cardinality(Processes) * BatchSize
  <1> DEFINE ToRun == {0} \X AboutToRun(q)
             ToClaim == {1} \X AboutToClaim(q)
             Hand(w) == ({0} \X TasksOf(w)) \cup ({1} \X poll[w].ids)
             H == [w \in Worker |-> Hand(w)]
             U == UNION {H[w] : w \in Processes}
  <1>1. \A S : \A i \in {0, 1} : IsFiniteSet(S) =>
            IsFiniteSet({i} \X S) /\ Cardinality({i} \X S) = Cardinality(S)
    <2> SUFFICES ASSUME NEW S, NEW i \in {0, 1}, IsFiniteSet(S)
                 PROVE  IsFiniteSet({i} \X S) /\ Cardinality({i} \X S) = Cardinality(S)
      OBVIOUS
    <2>1. IsFiniteSet({i}) /\ Cardinality({i}) = 1
      BY FS_Singleton
    <2>2. IsFiniteSet({i} \X S) /\ Cardinality({i} \X S) = Cardinality({i}) * Cardinality(S)
      BY <2>1, FS_Product
    <2>3. QED
      BY <2>1, <2>2, CountIsNat
  <1>2. \A S, T : IsFiniteSet(S) /\ IsFiniteSet(T) =>
            /\ IsFiniteSet(({0} \X S) \cup ({1} \X T))
            /\ Cardinality(({0} \X S) \cup ({1} \X T)) = Cardinality(S) + Cardinality(T)
    <2> SUFFICES ASSUME NEW S, NEW T, IsFiniteSet(S), IsFiniteSet(T)
                 PROVE  /\ IsFiniteSet(({0} \X S) \cup ({1} \X T))
                        /\ Cardinality(({0} \X S) \cup ({1} \X T)) =
                              Cardinality(S) + Cardinality(T)
      OBVIOUS
    <2> DEFINE A == {0} \X S
               B == {1} \X T
    <2>1. /\ IsFiniteSet(A) /\ Cardinality(A) = Cardinality(S)
          /\ IsFiniteSet(B) /\ Cardinality(B) = Cardinality(T)
      BY <1>1
    <2>2. A \cap B = {}
      OBVIOUS
    <2> HIDE DEF A, B
    <2>3. Cardinality(A \cap B) = 0
      BY <2>2, FS_EmptySet
    <2>4. /\ IsFiniteSet(A \cup B)
          /\ Cardinality(A \cup B) = Cardinality(A) + Cardinality(B) - Cardinality(A \cap B)
      BY <2>1, FS_Union
    <2>5. IsFiniteSet(A \cup B) /\ Cardinality(A \cup B) = Cardinality(S) + Cardinality(T)
      BY <2>1, <2>3, <2>4, CountIsNat
    <2>6. QED
      BY <2>5 DEF A, B
  <1>3. \A w \in Processes : IsFiniteSet(H[w]) /\ Cardinality(H[w]) <= BatchSize
    <2> SUFFICES ASSUME NEW w \in Processes
                 PROVE  IsFiniteSet(Hand(w)) /\ Cardinality(Hand(w)) <= BatchSize
      BY DEF Processes
    <2>1. w \in Worker
      BY DEF Processes
    <2>2. IsFiniteSet(TasksOf(w)) /\ IsFiniteSet(poll[w].ids)
      BY <2>1, CountsAreNat DEF CapacityInv
    <2>3. Cardinality(TasksOf(w)) + Cardinality(poll[w].ids) <= BatchSize
      BY <2>1 DEF CapacityInv, CapacityRespected
    <2>4. QED
      BY <1>2, <2>2, <2>3
  <1>4. IsFiniteSet(U) /\ Cardinality(U) <= Cardinality(Processes) * BatchSize
    <2>1. IsFiniteSet(Processes)
      BY DEF ProcessesCounted
    <2> HIDE DEF H
    <2>2. QED
      BY <1>3, <2>1, BoundedUnion, SettingsAssumption
  <1>5. IsFiniteSet(AboutToRun(q)) /\ IsFiniteSet(AboutToClaim(q))
    <2>1. AboutToRun(q) \in SUBSET tasks /\ AboutToClaim(q) \in SUBSET Job
      BY DEF AboutToRun, AboutToClaim, Locked, TypeOK, Poll
    <2>2. QED
      BY <2>1, FS_Subset, JobAssumption DEF CapacityInv
  <1>6. ToRun \cup ToClaim \subseteq U
    <2>1. ASSUME NEW t \in AboutToRun(q) PROVE <<0, t>> \in U
      <3>1. t \in tasks /\ t.worker \in Worker /\ t \in TasksOf(t.worker)
        BY DEF AboutToRun, TasksOf, TypeOK, Task
      <3>2. t.worker \in Processes
        BY <3>1 DEF ProcessesCounted
      <3>3. <<0, t>> \in H[t.worker]
        BY <3>1
      <3>4. QED
        BY <3>2, <3>3
    <2>2. ASSUME NEW j \in AboutToClaim(q) PROVE <<1, j>> \in U
      <3>1. PICK w \in Worker : j \in poll[w].ids
        BY DEF AboutToClaim, Locked
      <3>2. w \in Processes
        BY <3>1 DEF ProcessesCounted, NoPoll
      <3>3. <<1, j>> \in H[w]
        BY <3>1
      <3>4. QED
        BY <3>2, <3>3
    <2> HIDE DEF U
    <2>3. QED
      BY <2>1, <2>2
  <1>7. Cardinality(ToRun \cup ToClaim) <= Cardinality(U)
    <2> HIDE DEF U, ToRun, ToClaim
    <2>1. ToRun \cup ToClaim \in SUBSET U
      BY <1>6
    <2>2. QED
      BY <1>4, <2>1, FS_Subset
  <1>8. Cardinality(ToRun \cup ToClaim) = Cardinality(AboutToRun(q)) + Cardinality(AboutToClaim(q))
    BY <1>2, <1>5
  <1>9. /\ Cardinality(U) \in Nat /\ Cardinality(Processes) \in Nat /\ BatchSize \in Nat
        /\ Cardinality(AboutToRun(q)) \in Nat /\ Cardinality(AboutToClaim(q)) \in Nat
    BY <1>4, <1>5, CountIsNat, SettingsAssumption DEF ProcessesCounted
  <1>10. Cardinality(Processes) * BatchSize \in Nat
    BY <1>9
  <1> HIDE DEF U, ToRun, ToClaim
  <1>11. QED
    BY <1>4, <1>7, <1>8, <1>9, <1>10

-----------------------------------------------------------------------------
(* What the steps do to the four counts *)

\* Processes are only added, one at a time, and one that is not started does nothing.
LEMMA NextKeepsProcesses ==
    ASSUME TypeOK, ProcessesCounted, [Next]_vars
    PROVE  Processes \subseteq Processes' /\ ProcessesCounted'
  <1> USE DEF TypeOK
  <1> DEFINE Outside(v) == proc[v] = "new" /\ poll[v] = NoPoll /\ TasksOf(v) = {}
             Changes(v) == proc'[v] # proc[v]
             Settled(v) == /\ proc[v] # "new" => proc'[v] # "new"
                           /\ Outside(v) => proc'[v] # "new" \/ Outside(v)'
  <1>1. ASSUME NEW w \in Worker, WorkerStep(w)
        PROVE  /\ \A v \in Worker : Settled(v)
               /\ \A v \in Worker \ {w} : ~Changes(v)
    <2>1. ASSUME NEW v \in Worker, v # w
          PROVE  poll'[v] = poll[v] /\ proc'[v] = proc[v] /\ TasksOf(v)' = TasksOf(v)
      <3>1. CASE StartWorker(w) \/ Shutdown(w) \/ Exit(w) \/ Crash(w)
        BY <2>1, <3>1 DEF StartWorker, Shutdown, Exit, Crash, Leave, TasksOf
      <3>2. CASE PollBegin(w) \/ PollReturns(w) \/ PollAborts(w)
        BY <2>1, <3>2 DEF PollBegin, PollReturns, PollAborts, Onward, TasksOf
      <3>3. CASE CountRunning(w) \/ ClaimSelect(w)
        BY <2>1, <3>3 DEF CountRunning, ClaimSelect, Onward, TasksOf
      <3>4. CASE ClaimCommit(w)
        BY <2>1, <3>4 DEF ClaimCommit, Onward, TasksOf, Spawned, Spawn
      <3>5. QED
        BY <1>1, <3>1, <3>2, <3>3, <3>4 DEF WorkerStep, PollStep
    <2>2. proc'[w] # "new" \/ (proc[w] = "new" /\ ~Outside(w))
      <3>1. CASE StartWorker(w) \/ Shutdown(w) \/ Exit(w) \/ Crash(w)
        BY <3>1 DEF StartWorker, Shutdown, Exit, Crash, Leave
      <3>2. CASE ~(StartWorker(w) \/ Shutdown(w) \/ Exit(w) \/ Crash(w))
        <4>1. proc' = proc /\ (proc[w] # "new" \/ poll[w].at # "idle")
          BY <1>1, <3>2 DEF WorkerStep, PollStep, PollBegin, CountRunning, PollReturns,
             ClaimSelect, ClaimCommit, PollAborts, MayClaimFrom
        <4>2. QED
          BY <4>1 DEF NoPoll
      <3>3. QED
        BY <3>1, <3>2
    <2>3. QED
      BY <2>1, <2>2
  <1>2. ASSUME NEW t \in tasks, TaskStep(t) \/ TaskBreaks(t)
        PROVE  UNCHANGED <<poll, proc>> /\ \A v \in Worker : TasksOf(v) = {} => TasksOf(v)' = {}
    <2>1. UNCHANGED <<poll, proc>>
      BY <1>2 DEF TaskStep, MarkRunning, MarkCompleted, WorkRaises, MarkFailed, TaskBreaks
    <2>2. \A s \in tasks' : \E r \in tasks : r.worker = s.worker
      <3>1. ASSUME NEW stage, NEW seen, MovesTo(t, stage, seen)
            PROVE  \A s \in tasks' : \E r \in tasks : r.worker = s.worker
        BY <3>1 DEF MovesTo, Task
      <3>2. CASE Ends(t)
        BY <3>2 DEF Ends
      <3>3. QED
        BY <1>2, <3>1, <3>2 DEF TaskStep, MarkRunning, MarkCompleted, WorkRaises,
           MarkFailed, TaskBreaks
    <2>3. QED
      BY <2>1, <2>2 DEF TasksOf
  <1>3. ASSUME Tick PROVE \A v \in Worker : Settled(v) /\ ~Changes(v)
    <2>1. UNCHANGED <<proc, tasks>> /\ \A v \in Worker : poll'[v] = AgedPoll(poll[v])
      BY <1>3 DEF Tick
    <2>2. AgedPoll(NoPoll) = NoPoll
      BY DEF AgedPoll, NoPoll
    <2>3. QED
      BY <2>1, <2>2 DEF TasksOf
  <1>4. ASSUME UNCHANGED <<proc, poll, tasks>>
        PROVE  \A v \in Worker : Settled(v) /\ ~Changes(v)
    BY <1>4 DEF TasksOf
  <1>5. (\A v \in Worker : Settled(v))
           /\ ((\A v \in Worker : ~Changes(v))
               \/ \E w \in Worker : \A v \in Worker \ {w} : ~Changes(v))
    <2>1. CASE \E w \in Worker : WorkerStep(w)
      BY <1>1, <2>1
    <2>2. CASE \E t \in tasks : TaskStep(t) \/ TaskBreaks(t)
      BY <1>2, <2>2
    <2>3. CASE Tick
      BY <1>3, <2>3
    <2>4. CASE UNCHANGED <<proc, poll, tasks>>
      BY <1>4, <2>4
    <2>5. QED
      BY <2>1, <2>2, <2>3, <2>4 DEF Next, SystemStep, Operator, RequeueRetryable,
         Enqueue, Cancel, Retry, Replay, Resolve, SetAnyPaused, SetPaused, vars
  <1>6. IsFiniteSet(Processes')
    <2>1. CASE \A v \in Worker : ~Changes(v)
      BY <2>1 DEF Processes, ProcessesCounted
    <2>2. ASSUME NEW w \in Worker, \A v \in Worker \ {w} : ~Changes(v)
          PROVE  IsFiniteSet(Processes')
      <3>1. Processes' \in SUBSET (Processes \cup {w})
        BY <2>2 DEF Processes
      <3>2. QED
        BY <3>1, FS_AddElement, FS_Subset DEF ProcessesCounted
    <2>3. QED
      BY <1>5, <2>1, <2>2
  <1>7. QED
    BY <1>5, <1>6 DEF Processes, ProcessesCounted

\* A row becomes a running one only through MarkRunning.
LEMMA OnlyTasksRun ==
    ASSUME TypeOK, [Next]_vars, NEW q \in Queue, NEW j \in RunningRows(q)'
    PROVE  j \in RunningRows(q) \/ \E t \in tasks : t.job = j /\ MarkRunning(t)
  <1>1. j \in Job /\ QueueOf[j] = q /\ jobs'[j].status = "running" /\ jobs[j] \in Row
    BY DEF RunningRows, TypeOK
  <1>2. RowStep(j)
    BY <1>1, StepOfRow
  <1>3. QED
    BY <1>1, <1>2 DEF RowStep, RowWrite, WritesUnlocked, Starts, Settles, Commanded, Claims,
       Row, RunningRows, Aged, Recovered, Requeued, Enqueued, Claimed, Completed, Buried,
       RetryScheduled, Retried, Replayed, Cancelled

\* The sets that are counted are finite, and the numbers in Exposure are numbers.
LEMMA ExposureIsFinite ==
    ASSUME TypeOK, CapacityInv, ProcessesCounted, NEW q \in Queue
    PROVE  /\ IsFiniteSet(RunningRows(q)) /\ IsFiniteSet(AboutToRun(q))
           /\ IsFiniteSet(AboutToClaim(q)) /\ IsFiniteSet(AboutToSelect(q))
           /\ AboutToSelect(q) \subseteq Processes
           /\ Limit[q] \in Nat /\ BatchSize \in Nat
  <1>1. RunningRows(q) \in SUBSET Job /\ AboutToClaim(q) \in SUBSET Job
    BY DEF RunningRows, AboutToClaim, Locked, TypeOK, Poll
  <1>2. AboutToRun(q) \in SUBSET tasks
    BY DEF AboutToRun
  <1>3. AboutToSelect(q) \in SUBSET Processes
    BY DEF AboutToSelect, ProcessesCounted, NoPoll
  <1>4. QED
    BY <1>1, <1>2, <1>3, FS_Subset, JobAssumption, QueueAssumption, SettingsAssumption
       DEF CapacityInv, ProcessesCounted

LEMMA TimesIsNat == \A m, n \in Nat : m * n \in Nat
  OBVIOUS

LEMMA TimesGrows == \A b, m, n \in Nat : m <= n => b * m <= b * n
  <1> SUFFICES ASSUME NEW b \in Nat, NEW m \in Nat, NEW n \in Nat, m <= n PROVE b * m <= b * n
    OBVIOUS
  <1>1. n - m \in Nat /\ n = m + (n - m)
    OBVIOUS
  <1>2. b * n = b * m + b * (n - m)
    BY <1>1
  <1>3. b * (n - m) \in Nat /\ b * m \in Nat
    BY <1>1
  <1>4. QED
    BY <1>2, <1>3

LEMMA ExposureCounts ==
    ASSUME TypeOK, CapacityInv, ProcessesCounted, NEW q \in Queue
    PROVE  /\ Cardinality(RunningRows(q)) \in Nat /\ Cardinality(AboutToRun(q)) \in Nat
           /\ Cardinality(AboutToClaim(q)) \in Nat /\ Cardinality(AboutToSelect(q)) \in Nat
           /\ BatchSize * Cardinality(AboutToSelect(q)) \in Nat
           /\ Cardinality(Processes) \in Nat /\ BatchSize \in Nat
           /\ 2 * BatchSize * Cardinality(Processes) \in Nat
           /\ Limit[q] \in Nat
  <1>1. /\ Cardinality(RunningRows(q)) \in Nat /\ Cardinality(AboutToRun(q)) \in Nat
        /\ Cardinality(AboutToClaim(q)) \in Nat /\ Cardinality(AboutToSelect(q)) \in Nat
        /\ Cardinality(Processes) \in Nat /\ BatchSize \in Nat /\ Limit[q] \in Nat
    BY ExposureIsFinite, CountIsNat DEF ProcessesCounted
  <1>2. 2 * BatchSize \in Nat
    BY <1>1
  <1>3. QED
    BY <1>1, <1>2, TimesIsNat

\* A step that adds to none of the counts.
LEMMA QuietSteps ==
    ASSUME TypeOK, CapacityInv, ProcessesCounted, ProcessesCounted', NEW q \in Queue,
           Processes \subseteq Processes', Exposure(q) <= ExposureBound(q),
           RunningRows(q)' \subseteq RunningRows(q), AboutToRun(q)' \subseteq AboutToRun(q),
           AboutToClaim(q)' \subseteq AboutToClaim(q),
           AboutToSelect(q)' \subseteq AboutToSelect(q)
    PROVE  Exposure(q)' <= ExposureBound(q)'
  <1>1. \A S, T : IsFiniteSet(S) /\ T \subseteq S =>
            /\ Cardinality(T) \in Nat /\ Cardinality(S) \in Nat
            /\ Cardinality(T) <= Cardinality(S)
    BY FS_Subset, CountIsNat
  <1>2. Cardinality(RunningRows(q)') <= Cardinality(RunningRows(q))
    BY <1>1, ExposureIsFinite
  <1>3. Cardinality(AboutToRun(q)') <= Cardinality(AboutToRun(q))
    BY <1>1, ExposureIsFinite
  <1>4. Cardinality(AboutToClaim(q)') <= Cardinality(AboutToClaim(q))
    BY <1>1, ExposureIsFinite
  <1>5. BatchSize * Cardinality(AboutToSelect(q)') <= BatchSize * Cardinality(AboutToSelect(q))
    BY <1>1, ExposureIsFinite, TimesGrows
  <1>6. 2 * BatchSize * Cardinality(Processes) <= 2 * BatchSize * Cardinality(Processes')
    <2>1. Cardinality(Processes) <= Cardinality(Processes')
      BY <1>1 DEF ProcessesCounted
    <2>2. Cardinality(Processes) \in Nat /\ Cardinality(Processes') \in Nat /\ 2 * BatchSize \in Nat
      BY <1>1, SettingsAssumption DEF ProcessesCounted
    <2>3. QED
      BY <2>1, <2>2, TimesGrows
  <1>7. /\ Cardinality(RunningRows(q)') \in Nat /\ Cardinality(AboutToRun(q)') \in Nat
        /\ Cardinality(AboutToClaim(q)') \in Nat
        /\ BatchSize * Cardinality(AboutToSelect(q)') \in Nat
        /\ 2 * BatchSize * Cardinality(Processes') \in Nat
    <2>1. /\ Cardinality(RunningRows(q)') \in Nat /\ Cardinality(AboutToRun(q)') \in Nat
          /\ Cardinality(AboutToClaim(q)') \in Nat /\ Cardinality(AboutToSelect(q)') \in Nat
      BY <1>1, ExposureIsFinite
    <2>2. Cardinality(Processes') \in Nat /\ 2 * BatchSize \in Nat
      BY <1>1, SettingsAssumption DEF ProcessesCounted
    <2>3. QED
      BY <2>1, <2>2, SettingsAssumption, TimesIsNat
  <1>8. QED
    BY <1>2, <1>3, <1>4, <1>5, <1>6, <1>7, ExposureCounts DEF Exposure, ExposureBound

\* A coroutine of queue q moves from the ones about to run to the running rows.
LEMMA RunKeepsExposure ==
    ASSUME TypeOK, CapacityInv, ProcessesCounted, ProcessesCounted', [Next]_vars,
           NEW q \in Queue, Exposure(q) <= ExposureBound(q), NEW t \in tasks, MarkRunning(t),
           Processes \subseteq Processes'
    PROVE  Exposure(q)' <= ExposureBound(q)'
  <1> DEFINE u == [t EXCEPT !.stage = "working", !.seen = 0]
  <1>1. tasks' = (tasks \ {t}) \cup {u} /\ u.stage = "working" /\ t.stage = "spawned"
          /\ UNCHANGED <<poll, proc>> /\ t \in Task
    BY DEF MarkRunning, MovesTo, TypeOK, Task
  <1>2. AboutToRun(q)' = AboutToRun(q) \ {t}
    BY <1>1 DEF AboutToRun
  <1>3. AboutToClaim(q)' = AboutToClaim(q) /\ AboutToSelect(q)' = AboutToSelect(q)
          /\ Processes' = Processes
    BY <1>1 DEF AboutToClaim, Locked, AboutToSelect, Processes
  <1>4. RunningRows(q)' \subseteq RunningRows(q) \cup {t.job}
    <2>1. \A j \in Job \ {t.job} : jobs'[j] = jobs[j]
      BY DEF MarkRunning, TypeOK
    <2>2. QED
      BY <2>1 DEF RunningRows
  <1>5. CASE QueueOf[t.job] = q
    <2>1. t \in AboutToRun(q)
      BY <1>1, <1>5 DEF AboutToRun
    <2>2. Cardinality(AboutToRun(q)') = Cardinality(AboutToRun(q)) - 1
      BY <1>2, <2>1, ExposureIsFinite, FS_RemoveElement
    <2>3. /\ IsFiniteSet(RunningRows(q) \cup {t.job})
          /\ Cardinality(RunningRows(q) \cup {t.job}) <= Cardinality(RunningRows(q)) + 1
      <3>1. IsFiniteSet(RunningRows(q)) /\ Cardinality(RunningRows(q)) \in Nat
        BY ExposureIsFinite, ExposureCounts
      <3>2. QED
        BY <3>1, FS_AddElement
    <2>4. /\ Cardinality(RunningRows(q)') <= Cardinality(RunningRows(q) \cup {t.job})
          /\ Cardinality(RunningRows(q)') \in Nat
          /\ Cardinality(RunningRows(q) \cup {t.job}) \in Nat
      BY <1>4, <2>3, FS_Subset, CountIsNat
    <2>5. /\ Cardinality(RunningRows(q)) \in Nat /\ Cardinality(AboutToRun(q)) \in Nat
          /\ Cardinality(AboutToClaim(q)) \in Nat /\ Limit[q] \in Nat
          /\ BatchSize * Cardinality(AboutToSelect(q)) \in Nat
          /\ 2 * BatchSize * Cardinality(Processes) \in Nat
      BY ExposureCounts
    <2>6. QED
      BY <1>3, <2>2, <2>3, <2>4, <2>5 DEF Exposure, ExposureBound
  <1>6. CASE QueueOf[t.job] # q
    <2>1. RunningRows(q)' \subseteq RunningRows(q)
      BY <1>4, <1>6 DEF RunningRows
    <2>2. QED
      BY <1>2, <1>3, <2>1, QuietSteps
  <1>7. QED
    BY <1>5, <1>6

\* Rows a poll has locked become coroutines about to run, one each.
LEMMA CommitKeepsExposure ==
    ASSUME TypeOK, LockedRowsStayQueued, CapacityInv, ProcessesCounted, ProcessesCounted',
           [Next]_vars, NEW q \in Queue, Exposure(q) <= ExposureBound(q),
           NEW w \in Worker, ClaimCommit(w)
    PROVE  Exposure(q)' <= ExposureBound(q)'
  <1>0. /\ Cardinality(RunningRows(q)) \in Nat /\ Cardinality(AboutToRun(q)) \in Nat
        /\ Cardinality(AboutToClaim(q)) \in Nat
        /\ BatchSize * Cardinality(AboutToSelect(q)) \in Nat
        /\ Cardinality(Processes) \in Nat /\ BatchSize \in Nat
        /\ 2 * BatchSize * Cardinality(Processes) \in Nat
        /\ Limit[q] \in Nat
    BY ExposureCounts
  <1> USE DEF TypeOK
  <1> DEFINE D == {j \in poll[w].ids : QueueOf[j] = q}
             New == {Spawn(w, j) : j \in D}
  <1>1. poll[w].ids \in SUBSET Job /\ UNCHANGED proc
    BY DEF Poll, ClaimCommit
  <1>2. Processes' = Processes
    BY <1>1 DEF Processes
  <1>3. RunningRows(q)' \subseteq RunningRows(q)
    <2>1. \A j \in Job : jobs'[j] = jobs[j] \/ jobs'[j] = Claimed(jobs[j], w, poll[w].age)
      BY DEF ClaimCommit
    <2>2. \A j \in Job : Claimed(jobs[j], w, poll[w].age).status = "claimed"
      BY DEF Claimed, Row
    <2>3. QED
      BY <2>1, <2>2 DEF RunningRows
  <1>4. AboutToRun(q)' \subseteq AboutToRun(q) \cup New
    BY <1>1 DEF AboutToRun, ClaimCommit, Spawned, Spawn
  <1>5. \A v \in Worker \ {w} : poll'[v] = poll[v]
    BY DEF ClaimCommit, Onward
  <1>6. poll'[w].ids = {} /\ poll'[w].at # "select"
    BY DEF ClaimCommit, Onward, NoPoll
  <1>7. AboutToClaim(q)' \subseteq AboutToClaim(q) \ D
    BY <1>5, <1>6 DEF AboutToClaim, Locked, LockedRowsStayQueued
  <1>8. AboutToSelect(q)' \subseteq AboutToSelect(q)
    BY <1>5, <1>6 DEF AboutToSelect
  <1>9. /\ IsFiniteSet(New) /\ Cardinality(New) <= Cardinality(D)
        /\ IsFiniteSet(D) /\ Cardinality(D) \in Nat
    <2>1. D \in SUBSET Job /\ IsFiniteSet(D)
      BY <1>1, FS_Subset, JobAssumption
    <2> DEFINE f == [j \in D |-> Spawn(w, j)]
    <2>2. f \in Surjection(D, New)
      BY DEF Surjection
    <2>3. QED
      BY <2>1, <2>2, FS_Surjection, CountIsNat
  <1>10. D \subseteq AboutToClaim(q)
    BY <1>1 DEF AboutToClaim, Locked
  <1> HIDE DEF D, New
  <1>11. /\ Cardinality(AboutToRun(q)') <= Cardinality(AboutToRun(q)) + Cardinality(D)
         /\ Cardinality(AboutToRun(q)') \in Nat
    <2>1. /\ IsFiniteSet(AboutToRun(q) \cup New)
          /\ Cardinality(AboutToRun(q) \cup New) =
                Cardinality(AboutToRun(q)) + Cardinality(New) - Cardinality(AboutToRun(q) \cap New)
          /\ IsFiniteSet(AboutToRun(q) \cap New)
      BY <1>9, ExposureIsFinite, FS_Union, FS_Intersection
    <2>2. /\ Cardinality(AboutToRun(q)') <= Cardinality(AboutToRun(q) \cup New)
          /\ IsFiniteSet(AboutToRun(q)')
      BY <1>4, <2>1, FS_Subset
    <2>3. /\ Cardinality(AboutToRun(q)) \in Nat /\ Cardinality(New) \in Nat
          /\ Cardinality(AboutToRun(q) \cap New) \in Nat
          /\ Cardinality(AboutToRun(q)') \in Nat
      <3> HIDE DEF TypeOK
      <3>1. QED
        BY <1>9, <2>1, <2>2, ExposureIsFinite, CountIsNat
    <2>4. Cardinality(New) <= Cardinality(D) /\ Cardinality(D) \in Nat
      BY <1>9
    <2> HIDE DEF TypeOK
    <2>5. QED
      BY <2>1, <2>2, <2>3, <2>4
  <1>12. /\ Cardinality(AboutToClaim(q)') <= Cardinality(AboutToClaim(q)) - Cardinality(D)
         /\ Cardinality(AboutToClaim(q)') \in Nat
    <2>1. AboutToClaim(q) \cap D = D
      BY <1>10
    <2>2. /\ IsFiniteSet(AboutToClaim(q) \ D)
          /\ Cardinality(AboutToClaim(q) \ D) = Cardinality(AboutToClaim(q)) - Cardinality(D)
      BY <2>1, ExposureIsFinite, FS_Difference
    <2> HIDE DEF TypeOK
    <2>3. QED
      BY <1>7, <2>2, FS_Subset, CountIsNat
  <1>13. /\ Cardinality(RunningRows(q)') <= Cardinality(RunningRows(q))
         /\ Cardinality(RunningRows(q)') \in Nat
    BY <1>3, ExposureIsFinite, FS_Subset, CountIsNat
  <1>14. /\ BatchSize * Cardinality(AboutToSelect(q)') <= BatchSize * Cardinality(AboutToSelect(q))
         /\ BatchSize * Cardinality(AboutToSelect(q)') \in Nat
    BY <1>8, ExposureIsFinite, FS_Subset, CountIsNat, TimesIsNat, TimesGrows
  <1>15. ExposureBound(q)' = ExposureBound(q) /\ ExposureBound(q) \in Int
    BY <1>0, <1>2 DEF ExposureBound
  <1> HIDE DEF TypeOK
  <1>16. Exposure(q)' <= Exposure(q) /\ Exposure(q)' \in Nat /\ Exposure(q) \in Nat
    BY <1>0, <1>9, <1>11, <1>12, <1>13, <1>14 DEF Exposure
  <1>17. QED
    BY <1>15, <1>16

\* A count that finds the queue below its limit trusts it with a batch of its own,
\* and so may every other process.
LEMMA CountKeepsExposure ==
    ASSUME TypeOK, CapacityInv, ProcessesCounted, ProcessesCounted',
           [Next]_vars, NEW q \in Queue, Limit[q] > 0, Exposure(q) <= ExposureBound(q),
           NEW w \in Worker, CountRunning(w), Processes \subseteq Processes'
    PROVE  Exposure(q)' <= ExposureBound(q)'
  <1>0. /\ Cardinality(RunningRows(q)) \in Nat /\ Cardinality(AboutToRun(q)) \in Nat
        /\ Cardinality(AboutToClaim(q)) \in Nat
        /\ BatchSize * Cardinality(AboutToSelect(q)) \in Nat
        /\ Cardinality(Processes) \in Nat /\ BatchSize \in Nat
        /\ 2 * BatchSize * Cardinality(Processes) \in Nat
        /\ Limit[q] \in Nat
    BY ExposureCounts
  <1> USE DEF TypeOK
  <1>1. UNCHANGED <<jobs, tasks, proc>> /\ \A v \in Worker \ {w} : poll'[v] = poll[v]
    BY DEF CountRunning, Onward
  <1>2. PICK p \in Queue :
           /\ IF RunningCount(p) >= Limit[p]
              THEN Onward(w, poll[w].left \ {p})
              ELSE poll' = [poll EXCEPT ![w].at = "select", ![w].queue = p,
                                        ![w].left = @ \ {p}]
    BY DEF CountRunning
  <1>3. /\ RunningRows(q)' = RunningRows(q) /\ AboutToRun(q)' = AboutToRun(q)
        /\ Processes' = Processes
    BY <1>1 DEF RunningRows, AboutToRun, Processes
  <1>4. /\ poll'[w].ids \subseteq poll[w].ids
        /\ poll'[w].at = "select" /\ poll'[w].queue = q
              => p = q /\ ~(RunningCount(p) >= Limit[p])
    <2>1. CASE Onward(w, poll[w].left \ {p})
      BY <2>1 DEF Onward, NoPoll
    <2>2. CASE /\ ~(RunningCount(p) >= Limit[p])
               /\ poll' = [poll EXCEPT ![w].at = "select", ![w].queue = p,
                                       ![w].left = @ \ {p}]
      BY <2>2 DEF Poll
    <2>3. QED
      BY <1>2, <2>1, <2>2
  <1>5. AboutToClaim(q)' \subseteq AboutToClaim(q)
    BY <1>1, <1>4 DEF AboutToClaim, Locked
  <1>6. CASE RunningCount(p) >= Limit[p] \/ p # q
    <2>1. AboutToSelect(q)' \subseteq AboutToSelect(q)
      BY <1>1, <1>4, <1>6 DEF AboutToSelect
    <2>2. QED
      BY <1>3, <1>5, <2>1, QuietSteps
  <1>7. CASE ~(RunningCount(q) >= Limit[q])
    <2>1. Cardinality(RunningRows(q)) <= Limit[q] - 1
      <3>1. RunningCount(q) = Cardinality(RunningRows(q))
        BY DEF RunningCount, RunningRows
      <3>2. QED
        BY <1>7, <1>0, <3>1
    <2>2. Cardinality(AboutToRun(q)) + Cardinality(AboutToClaim(q))
             <= Cardinality(Processes) * BatchSize
      BY HandsAreBounded
    <2>3. /\ Cardinality(AboutToClaim(q)') <= Cardinality(AboutToClaim(q))
          /\ Cardinality(AboutToClaim(q)') \in Nat
      BY <1>5, ExposureIsFinite, FS_Subset, CountIsNat
    <2>4. AboutToSelect(q)' \subseteq Processes
      BY <1>3 DEF AboutToSelect, ProcessesCounted, NoPoll
    <2>5. /\ BatchSize * Cardinality(AboutToSelect(q)') <= BatchSize * Cardinality(Processes)
          /\ BatchSize * Cardinality(AboutToSelect(q)') \in Nat
      BY <2>4, ExposureIsFinite, FS_Subset, CountIsNat, TimesIsNat, TimesGrows DEF ProcessesCounted
    <2>6. 2 * BatchSize * Cardinality(Processes) =
             Cardinality(Processes) * BatchSize + BatchSize * Cardinality(Processes)
      <3>1. \A b, m \in Nat : 2 * b * m = m * b + b * m
        OBVIOUS
      <3>2. QED
        BY <1>0, <3>1
    <2>7. /\ Cardinality(Processes) * BatchSize \in Nat
          /\ BatchSize * Cardinality(Processes) \in Nat
      BY <1>0, TimesIsNat
    <2>8. QED
      <3>1. ExposureBound(q)' = Limit[q] - 1
               + (Cardinality(Processes) * BatchSize + BatchSize * Cardinality(Processes))
        BY <1>3, <2>6 DEF ExposureBound
      <3>2. Exposure(q)' = Cardinality(RunningRows(q)) + Cardinality(AboutToRun(q))
               + Cardinality(AboutToClaim(q)') + BatchSize * Cardinality(AboutToSelect(q)')
        BY <1>3 DEF Exposure
      <3> HIDE DEF TypeOK
      <3>3. QED
        BY <1>0, <2>1, <2>2, <2>3, <2>5, <2>7, <3>1, <3>2
  <1>8. QED
    BY <1>6, <1>7

\* A poll that was about to select selects no more than a batch.
LEMMA SelectKeepsExposure ==
    ASSUME TypeOK, CapacityInv, ProcessesCounted, ProcessesCounted',
           [Next]_vars, NEW q \in Queue, Limit[q] > 0, Exposure(q) <= ExposureBound(q),
           NEW w \in Worker, ClaimSelect(w), Processes \subseteq Processes'
    PROVE  Exposure(q)' <= ExposureBound(q)'
  <1>0. /\ Cardinality(RunningRows(q)) \in Nat /\ Cardinality(AboutToRun(q)) \in Nat
        /\ Cardinality(AboutToClaim(q)) \in Nat
        /\ Cardinality(AboutToSelect(q)) \in Nat /\ BatchSize \in Nat
        /\ BatchSize * Cardinality(AboutToSelect(q)) \in Nat
        /\ 2 * BatchSize * Cardinality(Processes) \in Nat
        /\ Limit[q] \in Nat
    BY ExposureCounts
  <1>1. UNCHANGED <<jobs, tasks, proc>>
    BY DEF ClaimSelect
  <1>2. PICK p \in Queue, ids \in SUBSET Job :
           /\ MayClaimFrom(w, p)
           /\ IsHead(ids, p, Remaining(w))
           /\ IF ids = {}
              THEN Onward(w, poll[w].left \ {p})
              ELSE poll' = [poll EXCEPT ![w] = [at |-> "commit", left |-> @.left \ {p},
                                                queue |-> NULL, ids |-> ids, age |-> 0]]
    BY DEF ClaimSelect
  <1>3. /\ RunningRows(q)' = RunningRows(q) /\ AboutToRun(q)' = AboutToRun(q)
        /\ Processes' = Processes
    BY <1>1 DEF RunningRows, AboutToRun, Processes
  <1>4. /\ \A v \in Worker \ {w} : poll'[v] = poll[v]
        /\ poll'[w].at # "select" /\ poll'[w].ids \subseteq ids
    <2>1. CASE Onward(w, poll[w].left \ {p})
      BY <2>1 DEF Onward, NoPoll, TypeOK
    <2>2. CASE poll' = [poll EXCEPT ![w] = [at |-> "commit", left |-> @.left \ {p},
                                            queue |-> NULL, ids |-> ids, age |-> 0]]
      BY <2>2 DEF TypeOK
    <2>3. QED
      BY <1>2, <2>1, <2>2
  <1>5. AboutToSelect(q)' \subseteq AboutToSelect(q) \ {w}
    BY <1>4 DEF AboutToSelect
  <1>6. \A j \in ids : QueueOf[j] = p
    BY <1>2 DEF IsHead, Claimable
  <1>7. CASE p # q
    <2>1. AboutToClaim(q)' \subseteq AboutToClaim(q)
      BY <1>4, <1>6, <1>7 DEF AboutToClaim, Locked
    <2>2. QED
      BY <1>3, <1>5, <2>1, QuietSteps
  <1>8. CASE p = q
    <2>1. w \in AboutToSelect(q)
      BY <1>2, <1>8 DEF MayClaimFrom, AboutToSelect
    <2>2. /\ IsFiniteSet(ids) /\ Cardinality(ids) \in Nat
          /\ Cardinality(ids) <= BatchSize
      <3>1. IsFiniteSet(ids) /\ Cardinality(ids) \in Nat
        BY <1>2, JobAssumption, FS_Subset, CountIsNat
      <3>2. active[w] = Cardinality(TasksOf(w)) /\ Cardinality(TasksOf(w)) \in Nat
        BY CountsAreNat DEF CapacityInv, CapacityRespected
      <3>3. Cardinality(ids) <= BatchSize - active[w]
        BY <1>2 DEF IsHead, Remaining
      <3>4. QED
        BY <1>0, <3>1, <3>2, <3>3
    <2>3. AboutToClaim(q)' \subseteq AboutToClaim(q) \cup ids
      BY <1>4 DEF AboutToClaim, Locked
    <2>4. /\ Cardinality(AboutToClaim(q)') <= Cardinality(AboutToClaim(q)) + BatchSize
          /\ Cardinality(AboutToClaim(q)') \in Nat
      <3>1. /\ IsFiniteSet(AboutToClaim(q) \cup ids)
            /\ Cardinality(AboutToClaim(q) \cup ids) =
                  Cardinality(AboutToClaim(q)) + Cardinality(ids)
                     - Cardinality(AboutToClaim(q) \cap ids)
            /\ IsFiniteSet(AboutToClaim(q) \cap ids)
        BY <2>2, ExposureIsFinite, FS_Union, FS_Intersection
      <3>2. /\ Cardinality(AboutToClaim(q)') <= Cardinality(AboutToClaim(q) \cup ids)
            /\ IsFiniteSet(AboutToClaim(q)')
        BY <2>3, <3>1, FS_Subset
      <3>3. Cardinality(AboutToClaim(q) \cap ids) \in Nat /\ Cardinality(AboutToClaim(q)') \in Nat
        BY <3>1, <3>2, CountIsNat
      <3>4. QED
        BY <1>0, <2>2, <3>1, <3>2, <3>3
    <2>5. /\ Cardinality(AboutToSelect(q)') <= Cardinality(AboutToSelect(q)) - 1
          /\ Cardinality(AboutToSelect(q)') \in Nat
      <3>1. /\ IsFiniteSet(AboutToSelect(q) \ {w})
            /\ Cardinality(AboutToSelect(q) \ {w}) = Cardinality(AboutToSelect(q)) - 1
        BY <2>1, ExposureIsFinite, FS_RemoveElement
      <3>2. QED
        BY <1>5, <3>1, FS_Subset, CountIsNat
    <2>6. /\ BatchSize * Cardinality(AboutToSelect(q)') + BatchSize
                <= BatchSize * Cardinality(AboutToSelect(q))
          /\ BatchSize * Cardinality(AboutToSelect(q)') \in Nat
      <3>1. \A b, m, n \in Nat : m <= n - 1 => b * m + b <= b * n
        <4> SUFFICES ASSUME NEW b \in Nat, NEW m \in Nat, NEW n \in Nat, m <= n - 1
                     PROVE  b * m + b <= b * n
          OBVIOUS
        <4>1. b * (m + 1) <= b * n
          BY TimesGrows
        <4>2. b * (m + 1) = b * m + b
          OBVIOUS
        <4>3. QED
          BY <4>1, <4>2
      <3>2. QED
        BY <1>0, <2>5, <3>1, TimesIsNat
    <2>7. ExposureBound(q)' = ExposureBound(q) /\ ExposureBound(q) \in Int
      BY <1>0, <1>3 DEF ExposureBound
    <2>8. Exposure(q)' <= Exposure(q) /\ Exposure(q)' \in Nat /\ Exposure(q) \in Nat
      BY <1>0, <1>3, <2>4, <2>6 DEF Exposure
    <2>9. QED
      BY <2>7, <2>8
  <1>9. QED
    BY <1>7, <1>8

\* The four steps that move something towards "running" one by one; no other does.
LEMMA NextKeepsExposure ==
    ASSUME TypeOK, RowsAgree, LockedRowsStayQueued, CapacityInv, ProcessesCounted,
           ExposureBounded, [Next]_vars
    PROVE  ExposureBounded'
  <1>1. Processes \subseteq Processes' /\ ProcessesCounted'
    BY NextKeepsProcesses
  <1> SUFFICES ASSUME NEW q \in Queue, Limit[q] > 0 PROVE Exposure(q)' <= ExposureBound(q)'
    BY DEF ExposureBounded
  <1>2. Exposure(q) <= ExposureBound(q)
    BY DEF ExposureBounded
  <1>3. CASE \E t \in tasks : MarkRunning(t)
    BY <1>1, <1>2, <1>3, RunKeepsExposure
  <1>4. CASE \E w \in Worker : ClaimCommit(w)
    BY <1>1, <1>2, <1>4, CommitKeepsExposure
  <1>5. CASE \E w \in Worker : CountRunning(w)
    BY <1>1, <1>2, <1>5, CountKeepsExposure
  <1>6. CASE \E w \in Worker : ClaimSelect(w)
    BY <1>1, <1>2, <1>6, SelectKeepsExposure
  <1>7. CASE /\ ~\E t \in tasks : MarkRunning(t)
             /\ \A w \in Worker : ~ClaimCommit(w) /\ ~CountRunning(w) /\ ~ClaimSelect(w)
    <2>1. RunningRows(q)' \subseteq RunningRows(q)
      BY <1>7, OnlyTasksRun
    <2>2. AboutToRun(q)' \subseteq AboutToRun(q)
      <3>1. ASSUME NEW w \in Worker, WorkerStep(w) PROVE tasks' \subseteq tasks
        BY <1>7, <3>1 DEF WorkerStep, PollStep, StartWorker, PollBegin, PollReturns,
           PollAborts, Shutdown, Exit, Crash, Leave
      <3>2. ASSUME NEW t \in tasks, TaskStep(t) \/ TaskBreaks(t)
            PROVE  \A s \in tasks' : s \in tasks \/ s.stage # "spawned"
        <4>1. CASE WorkRaises(t)
          BY <4>1 DEF WorkRaises, MovesTo, TypeOK, Task
        <4>2. CASE MarkCompleted(t) \/ MarkFailed(t) \/ TaskBreaks(t)
          BY <4>2 DEF MarkCompleted, MarkFailed, TaskBreaks, Ends
        <4>3. QED
          BY <1>7, <3>2, <4>1, <4>2 DEF TaskStep
      <3>3. \A s \in tasks' : s \in tasks \/ s.stage # "spawned"
        BY <3>1, <3>2 DEF Next, SystemStep, Operator, RequeueRetryable, Tick, Enqueue,
           Cancel, Retry, Replay, Resolve, SetAnyPaused, SetPaused, vars
      <3>4. QED
        BY <3>3 DEF AboutToRun
    <2>3. \A w \in Worker :
             /\ poll'[w].ids \subseteq poll[w].ids
             /\ poll'[w].at = "select" => poll[w].at = "select" /\ poll'[w].queue = poll[w].queue
      <3>1. ASSUME NEW w \in Worker, WorkerStep(w)
            PROVE  \A v \in Worker : \/ poll'[v] = poll[v]
                                     \/ poll'[v].ids = {} /\ poll'[v].at # "select"
        <4>1. UNCHANGED poll \/ poll' = [poll EXCEPT ![w] = NoPoll] \/ \E left : Onward(w, left)
          BY <1>7, <3>1 DEF WorkerStep, PollStep, StartWorker, PollBegin, PollReturns,
             PollAborts, Shutdown, Exit, Crash, Leave
        <4>2. CASE poll' = [poll EXCEPT ![w] = NoPoll]
          BY <4>2 DEF NoPoll, TypeOK
        <4>3. ASSUME NEW left, Onward(w, left)
              PROVE  \A v \in Worker : \/ poll'[v] = poll[v]
                                       \/ poll'[v].ids = {} /\ poll'[v].at # "select"
          BY <4>3 DEF Onward, NoPoll, TypeOK
        <4>4. QED
          BY <4>1, <4>2, <4>3
      <3>2. CASE Tick
        BY <3>2 DEF Tick, AgedPoll, TypeOK, Poll
      <3>3. CASE UNCHANGED poll
        BY <3>3
      <3>4. QED
        BY <3>1, <3>2, <3>3 DEF Next, SystemStep, TaskStep, MarkRunning, MarkCompleted,
           WorkRaises, MarkFailed, TaskBreaks, Operator, RequeueRetryable, Enqueue,
           Cancel, Retry, Replay, Resolve, SetAnyPaused, SetPaused, vars
    <2>4. /\ AboutToClaim(q)' \subseteq AboutToClaim(q)
          /\ AboutToSelect(q)' \subseteq AboutToSelect(q)
      BY <2>3 DEF AboutToClaim, Locked, AboutToSelect
    <2>5. QED
      BY <1>1, <1>2, <2>1, <2>2, <2>4, QuietSteps
  <1>8. QED
    BY <1>3, <1>4, <1>5, <1>6, <1>7

LEMMA InitExposure == Init => ProcessesCounted /\ ExposureBounded
  <1> SUFFICES ASSUME Init PROVE ProcessesCounted /\ ExposureBounded
    OBVIOUS
  <1>1. Processes = {} /\ ProcessesCounted
    BY FS_EmptySet DEF Init, Processes, ProcessesCounted, TasksOf
  <1>2. ASSUME NEW q \in Queue, Limit[q] > 0 PROVE Exposure(q) <= ExposureBound(q)
    <2>1. /\ RunningRows(q) = {} /\ AboutToRun(q) = {}
          /\ AboutToClaim(q) = {} /\ AboutToSelect(q) = {}
      BY DEF Init, RunningRows, AboutToRun, AboutToClaim, Locked, AboutToSelect, NoRow, NoPoll
    <2>2. Exposure(q) = 0
      BY <2>1, FS_EmptySet, SettingsAssumption DEF Exposure
    <2>3. ExposureBound(q) = Limit[q] - 1
      BY <1>1, FS_EmptySet, SettingsAssumption, QueueAssumption DEF ExposureBound
    <2>4. QED
      BY <1>2, <2>2, <2>3, QueueAssumption
  <1>3. QED
    BY <1>1, <1>2 DEF ExposureBounded

\* The jobs running are among what is counted.
LEMMA ExposureBoundsOverrun ==
    TypeOK /\ CapacityInv /\ ProcessesCounted /\ ExposureBounded => LimitOverrunBounded
  <1> SUFFICES ASSUME TypeOK, CapacityInv, ProcessesCounted, ExposureBounded,
                      NEW q \in Queue, Limit[q] > 0
               PROVE  RunningCount(q) <= ExposureBound(q)
    BY DEF LimitOverrunBounded, ExposureBound
  <1>1. Exposure(q) <= ExposureBound(q)
    BY DEF ExposureBounded
  <1>2. RunningCount(q) = Cardinality(RunningRows(q))
    BY DEF RunningCount, RunningRows
  <1>3. ExposureBound(q) \in Int
    BY ExposureCounts DEF ExposureBound
  <1>4. RunningCount(q) <= Exposure(q) /\ RunningCount(q) \in Nat /\ Exposure(q) \in Nat
    BY <1>2, ExposureCounts DEF Exposure
  <1>5. QED
    BY <1>1, <1>3, <1>4

\* The concurrency limit of a queue is exceeded by less than two batches for each
\* worker process that was ever started.
THEOREM OverrunIsBounded == Spec => []LimitOverrunBounded
  BY ExposureBoundsOverrun, InitCapacity, InitExposure, InitRowsAgree, InitLockedRows,
     TypeCorrect, RowsAlwaysAgree, LockedRowsAreSafe, NextKeepsCapacity,
     NextKeepsProcesses, NextKeepsExposure, PTL DEF Spec
=============================================================================
