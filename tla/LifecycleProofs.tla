---------------------------- MODULE LifecycleProofs ----------------------------
(***************************************************************************)
(* TimelyProcessing implements JobLifecycle: every step of the tables and  *)
(* the coroutines is a step of the life cycle, or none.                    *)
(***************************************************************************)
EXTENDS TimelyProofs

IsLive(j) == \E t \in tasks : t.job = j

\* What a step does to one job as the life cycle sees it.
Becomes(j, st, h) == jobs'[j].status = st /\ Holder(j)' = h

Stays(j) == jobs'[j].status = jobs[j].status /\ Holder(j)' = Holder(j)

SameAttempts == \A j \in Job : jobs'[j].attempt_count = jobs[j].attempt_count

LifecycleStep == Lifecycle!Next \/ UNCHANGED Lifecycle!vars

-----------------------------------------------------------------------------
(* The mapping *)

LEMMA HolderIs ==
    ASSUME NEW j \in Job
    PROVE  /\ jobs[j].status \notin InFlight => Holder(j) = "none"
           /\ jobs[j].status \in InFlight /\ IsLive(j) => Holder(j) = "live"
           /\ jobs[j].status \in InFlight /\ ~IsLive(j) => Holder(j) = "gone"
           /\ jobs'[j].status \notin InFlight => Holder(j)' = "none"
           /\ jobs'[j].status \in InFlight /\ IsLive(j)' => Holder(j)' = "live"
           /\ jobs'[j].status \in InFlight /\ ~IsLive(j)' => Holder(j)' = "gone"
  BY DEF Holder, IsLive

LEMMA SameRowStays ==
    ASSUME NEW j \in Job, jobs'[j].status = jobs[j].status, IsLive(j)' <=> IsLive(j)
    PROVE  Stays(j)
  BY HolderIs DEF Stays

\* Pointwise facts about the jobs of S and the others make a Move of S.
LEMMA PointwiseMove ==
    ASSUME NEW S \in SUBSET Job, S # {}, NEW st, NEW h,
           \A j \in S : Becomes(j, st, h),
           \A j \in Job \ S : Stays(j)
    PROVE  Lifecycle!Move(S, st, h)
  BY DEF Lifecycle!Move, Becomes, Stays

LEMMA SameAttemptsUnchanged ==
    ASSUME SameAttempts
    PROVE  UNCHANGED [j \in Job |-> jobs[j].attempt_count]
  BY DEF SameAttempts

LEMMA Stutter ==
    ASSUME \A j \in Job : Stays(j), SameAttempts
    PROVE  UNCHANGED Lifecycle!vars
  BY DEF Lifecycle!vars, Stays, SameAttempts

LEMMA StepOfSet ==
    ASSUME NEW S \in SUBSET Job,
           Lifecycle!Claim(S) \/ Lifecycle!Requeue(S) \/ Lifecycle!Lose(S) \/ Lifecycle!Release(S)
    PROVE  LifecycleStep
  BY DEF LifecycleStep, Lifecycle!Next

\* Only the job of one coroutine or one command changes.
LEMMA OthersStay ==
    ASSUME NEW i \in Job, \A j \in Job \ {i} : jobs'[j] = jobs[j],
           \A j \in Job \ {i} : IsLive(j)' <=> IsLive(j)
    PROVE  \A j \in Job \ {i} : Stays(j)
  BY SameRowStays

-----------------------------------------------------------------------------
(* The claim *)

LEMMA ClaimImplements ==
    ASSUME SpecInv, OwnInv, NEW w \in Worker, ClaimCommit(w)
    PROVE  LifecycleStep
  <1>0. PICK S \in SUBSET Job : S = poll[w].ids
    BY DEF SpecInv, TypeOK, Poll
  <1>1. S = poll[w].ids /\ poll[w].age \in Age /\ \A j \in Job : jobs[j] \in Row
    BY <1>0 DEF SpecInv, TypeOK, Poll
  <1>2. \A j \in S : jobs'[j] = Claimed(jobs[j], w, poll[w].age)
    BY <1>1 DEF ClaimCommit
  <1>3. \A j \in Job \ S : jobs'[j] = jobs[j]
    BY <1>1 DEF ClaimCommit
  <1>4. SameAttempts
    BY <1>1, <1>2, <1>3, StatementsKeepAttempts DEF SameAttempts
  <1>5. \A j \in Job \ S : Stays(j)
    <2>1. \A j \in Job \ S : IsLive(j)' <=> IsLive(j)
      BY <1>1 DEF ClaimCommit, Spawned, Spawn, IsLive
    <2>2. QED
      BY <1>3, <2>1, SameRowStays
  <1>6. \A j \in S : Becomes(j, "claimed", "live")
    <2> SUFFICES ASSUME NEW j \in S PROVE Becomes(j, "claimed", "live")
      OBVIOUS
    <2>1. j \in Job /\ jobs[j] \in Row /\ jobs'[j] = Claimed(jobs[j], w, poll[w].age)
      BY <1>1, <1>2
    <2>2. jobs'[j].status = "claimed"
      BY <2>1 DEF Claimed, Row
    <2>3. IsLive(j)'
      <3>1. Spawn(w, j) \in tasks' /\ Spawn(w, j).job = j
        BY <1>1 DEF ClaimCommit, Spawned, Spawn
      <3>2. QED
        BY <3>1 DEF IsLive
    <2>4. QED
      BY <2>1, <2>2, <2>3, HolderIs DEF Becomes, InFlight
  <1>7. CASE S = {}
    BY <1>4, <1>5, <1>7, Stutter DEF LifecycleStep
  <1>8. CASE S # {}
    <2>1. \A j \in S : jobs[j].status = "queued"
      BY <1>1 DEF SpecInv, LockedRowsStayQueued, Locked
    <2>2. Lifecycle!Move(S, "claimed", "live")
      BY <1>1, <1>5, <1>6, <1>8, PointwiseMove
    <2>3. Lifecycle!Claim(S)
      BY <1>1, <1>4, <2>1, <2>2, SameAttemptsUnchanged DEF Lifecycle!Claim
    <2>4. QED
      BY <2>3, StepOfSet
  <1>9. QED
    BY <1>7, <1>8

-----------------------------------------------------------------------------
(* The coroutines *)

\* A live coroutine holds its job, and no other does.
LEMMA HeldByTask ==
    ASSUME SpecInv, OwnInv, NEW t \in tasks
    PROVE  /\ t.job \in Job /\ jobs[t.job] \in Row /\ Owns(t, jobs[t.job])
           /\ jobs[t.job].attempt_count \in Nat
           /\ jobs[t.job].status \in InFlight /\ Holder(t.job) = "live"
           /\ \A s \in tasks : s.job = t.job => s = t
  <1>1. /\ t.job \in Job /\ jobs[t.job] \in Row /\ Owns(t, jobs[t.job])
        /\ jobs[t.job].status \in InFlight
    BY OwnedRows DEF OwnInv
  <1>2. jobs[t.job].attempt_count \in Nat /\ IsLive(t.job)
    BY <1>1 DEF Row, IsLive
  <1>3. \A s \in tasks : s.job = t.job => s = t
    BY OwnersAreSingle DEF SpecInv, OwnInv
  <1>4. QED
    BY <1>1, <1>2, <1>3, HolderIs

\* A coroutine moves on: every job keeps its coroutine.
LEMMA MoveKeepsLive ==
    ASSUME SpecInv, NEW t \in tasks, NEW stage, NEW seen \in Nat, Moves(t, stage, seen),
           NEW j \in Job
    PROVE  IsLive(j)' <=> IsLive(j)
  <1>1. PICK u \in tasks' : tasks' = (tasks \ {t}) \cup {u} /\ u.job = t.job
    BY MovedIsNew DEF SpecInv
  <1>2. QED
    BY <1>1 DEF IsLive

\* A coroutine ends: its job is the only one to lose its coroutine.
LEMMA EndKeepsLive ==
    ASSUME SpecInv, OwnInv, NEW t \in tasks, tasks' = tasks \ {t}
    PROVE  /\ ~IsLive(t.job)'
           /\ \A j \in Job \ {t.job} : IsLive(j)' <=> IsLive(j)
  BY HeldByTask DEF IsLive

LEMMA BeginImplements ==
    ASSUME SpecInv, OwnInv, NEW t \in tasks, MarkRunning(t)
    PROVE  LifecycleStep
  <1>1. /\ t.job \in Job /\ jobs[t.job] \in Row /\ Owns(t, jobs[t.job])
        /\ Holder(t.job) = "live"
    BY HeldByTask
  <1>2. jobs' = [jobs EXCEPT ![t.job] = Started(@)] /\ jobs \in [Job -> Row]
    BY DEF MarkRunning, SpecInv, TypeOK
  <1>3. \A j \in Job : IsLive(j)' <=> IsLive(j)
    BY MoveKeepsLive DEF MarkRunning, Moves
  <1>4. \A j \in Job \ {t.job} : Stays(j)
    BY <1>1, <1>2, <1>3, OthersStay
  <1>5. Becomes(t.job, "running", "live")
    <2>1. jobs'[t.job].status = "running" /\ IsLive(t.job)'
      BY <1>1, <1>2, <1>3 DEF Started, Row, IsLive
    <2>2. QED
      BY <1>1, <2>1, HolderIs DEF Becomes, InFlight
  <1>6. Lifecycle!Move({t.job}, "running", "live")
    BY <1>1, <1>4, <1>5, PointwiseMove
  <1>7. [j \in Job |-> jobs[j].attempt_count]' =
           [[j \in Job |-> jobs[j].attempt_count] EXCEPT ![t.job] = @ + 1]
    BY <1>1, <1>2, StatementsKeepAttempts
  <1>8. jobs[t.job].status = "claimed"
    BY <1>1 DEF MarkRunning, Owns
  <1>9. Lifecycle!Begin(t.job)
    BY <1>1, <1>6, <1>7, <1>8 DEF Lifecycle!Begin, Lifecycle!IsHeld
  <1>10. QED
    BY <1>1, <1>9 DEF LifecycleStep, Lifecycle!Next

LEMMA RaiseImplements ==
    ASSUME SpecInv, OwnInv, NEW t \in tasks, WorkRaises(t)
    PROVE  LifecycleStep
  <1>1. jobs[t.job].attempt_count \in Nat
    BY HeldByTask
  <1>2. \A j \in Job : IsLive(j)' <=> IsLive(j)
    BY <1>1, MoveKeepsLive DEF WorkRaises, Moves
  <1>3. UNCHANGED jobs
    BY DEF WorkRaises
  <1>4. QED
    BY <1>2, <1>3, SameRowStays, Stutter DEF SameAttempts, LifecycleStep

\* The row is settled and the coroutine ends.
LEMMA SettleMoves ==
    ASSUME SpecInv, OwnInv, NEW t \in tasks, tasks' = tasks \ {t}, NEW row \in Row,
           jobs' = [jobs EXCEPT ![t.job] = row], row.status \notin InFlight,
           row.attempt_count = jobs[t.job].attempt_count
    PROVE  Lifecycle!Move({t.job}, row.status, "none") /\ SameAttempts
  <1>1. t.job \in Job /\ jobs \in [Job -> Row]
    BY HeldByTask DEF SpecInv, TypeOK
  <1>2. \A j \in Job \ {t.job} : Stays(j)
    BY <1>1, EndKeepsLive, OthersStay
  <1>3. Becomes(t.job, row.status, "none")
    BY <1>1, HolderIs DEF Becomes
  <1>4. QED
    BY <1>1, <1>2, <1>3, PointwiseMove DEF SameAttempts

LEMMA SettleImplements ==
    ASSUME SpecInv, OwnInv, NEW t \in tasks, MarkCompleted(t) \/ MarkFailed(t)
    PROVE  LifecycleStep
  <1>1. /\ t.job \in Job /\ jobs[t.job] \in Row /\ Owns(t, jobs[t.job])
        /\ Holder(t.job) = "live"
    BY HeldByTask
  <1>2. tasks' = tasks \ {t} /\ jobs[t.job].status = "running"
    BY <1>1 DEF MarkCompleted, MarkFailed, Ends, Owns
  <1>3. Lifecycle!IsHeld(t.job)
    BY <1>1, <1>2 DEF Lifecycle!IsHeld
  <1>4. CASE MarkCompleted(t)
    <2>1. /\ Completed(jobs[t.job]) \in Row /\ Completed(jobs[t.job]).status = "completed"
          /\ Completed(jobs[t.job]).attempt_count = jobs[t.job].attempt_count
      BY <1>1, StatementsKeepRows, StatementsKeepAttempts DEF Completed, Row
    <2>2. jobs' = [jobs EXCEPT ![t.job] = Completed(jobs[t.job])]
      BY <1>4 DEF MarkCompleted
    <2>3. Lifecycle!Move({t.job}, "completed", "none") /\ SameAttempts
      BY <1>2, <2>1, <2>2, SettleMoves DEF InFlight
    <2>4. Lifecycle!Complete(t.job)
      BY <1>1, <1>2, <1>3, <2>3, SameAttemptsUnchanged DEF Lifecycle!Complete
    <2>5. QED
      BY <1>1, <2>4 DEF LifecycleStep, Lifecycle!Next
  <1>5. CASE MarkFailed(t)
    <2>1. HasRetryLeft(t) <=> Lifecycle!HasAttemptLeft(t.job)
      BY <1>1, <1>5 DEF MarkFailed, Owns, HasRetryLeft, Lifecycle!HasAttemptLeft
    <2>2. CASE HasRetryLeft(t)
      <3> DEFINE delay == Backoff[QueueOf[t.job]][t.seen]
      <3>1. delay \in Nat
        BY <2>2, RetryDelayIsNat DEF SpecInv
      <3>2. /\ RetryScheduled(jobs[t.job], delay) \in Row
            /\ RetryScheduled(jobs[t.job], delay).status = "retry_scheduled"
            /\ RetryScheduled(jobs[t.job], delay).attempt_count = jobs[t.job].attempt_count
        BY <1>1, <3>1, StatementsKeepRows, StatementsKeepAttempts DEF RetryScheduled, Row
      <3>3. jobs' = [jobs EXCEPT ![t.job] = RetryScheduled(jobs[t.job], delay)]
        BY <1>5, <2>2 DEF MarkFailed
      <3>4. Lifecycle!Move({t.job}, "retry_scheduled", "none") /\ SameAttempts
        <4> HIDE DEF delay
        <4>1. QED
          BY <1>2, <3>2, <3>3, SettleMoves DEF InFlight
      <3>5. Lifecycle!Fail(t.job)
        BY <1>1, <1>2, <1>3, <2>1, <2>2, <3>4, SameAttemptsUnchanged DEF Lifecycle!Fail
      <3>6. QED
        BY <1>1, <3>5 DEF LifecycleStep, Lifecycle!Next
    <2>3. CASE ~HasRetryLeft(t)
      <3>1. /\ Buried(jobs[t.job]) \in Row /\ Buried(jobs[t.job]).status = "dead"
            /\ Buried(jobs[t.job]).attempt_count = jobs[t.job].attempt_count
        BY <1>1, StatementsKeepRows, StatementsKeepAttempts DEF Buried, Row
      <3>2. jobs' = [jobs EXCEPT ![t.job] = Buried(jobs[t.job])]
        BY <1>5, <2>3 DEF MarkFailed
      <3>3. Lifecycle!Move({t.job}, "dead", "none") /\ SameAttempts
        BY <1>2, <3>1, <3>2, SettleMoves DEF InFlight
      <3>4. Lifecycle!Fail(t.job)
        BY <1>1, <1>2, <1>3, <2>1, <2>3, <3>3, SameAttemptsUnchanged DEF Lifecycle!Fail
      <3>5. QED
        BY <1>1, <3>4 DEF LifecycleStep, Lifecycle!Next
    <2>4. QED
      BY <2>2, <2>3
  <1>6. QED
    BY <1>4, <1>5

\* Coroutines end without an outcome: what they held is left behind.
LEMMA LoseImplements ==
    ASSUME SpecInv, OwnInv, NEW T \in SUBSET tasks, Loses(T)
    PROVE  LifecycleStep
  <1> DEFINE S == {t.job : t \in T}
  <1>1. tasks' = tasks \ T /\ UNCHANGED jobs /\ T \subseteq tasks
    BY DEF Loses
  <1>2. S \in SUBSET Job
    BY <1>1, HeldByTask
  <1>3. \A j \in Job \ S : Stays(j)
    <2>1. \A j \in Job \ S : IsLive(j)' <=> IsLive(j)
      BY <1>1 DEF IsLive
    <2>2. QED
      BY <1>1, <2>1, SameRowStays
  <1>4. \A j \in S : jobs[j].status \in InFlight /\ Holder(j) = "live" /\ Holder(j)' = "gone"
    <2> SUFFICES ASSUME NEW t \in T
                 PROVE  /\ jobs[t.job].status \in InFlight /\ Holder(t.job) = "live"
                        /\ Holder(t.job)' = "gone"
      OBVIOUS
    <2>1. /\ t \in tasks /\ t.job \in Job /\ jobs[t.job].status \in InFlight
          /\ Holder(t.job) = "live" /\ \A s \in tasks : s.job = t.job => s = t
      BY <1>1, HeldByTask
    <2>2. ~IsLive(t.job)' /\ jobs'[t.job].status \in InFlight
      BY <1>1, <2>1 DEF IsLive
    <2>3. QED
      BY <2>1, <2>2, HolderIs
  <1>5. SameAttempts
    BY <1>1 DEF SameAttempts
  <1>6. CASE S = {}
    BY <1>3, <1>5, <1>6, Stutter DEF LifecycleStep
  <1>7. CASE S # {}
    <2>1. \A j \in S : Lifecycle!IsHeld(j)
      BY <1>2, <1>4 DEF Lifecycle!IsHeld, InFlight
    <2>2. [j \in Job |-> Holder(j)]' =
             [j \in Job |-> IF j \in S THEN "gone" ELSE [i \in Job |-> Holder(i)][j]]
      BY <1>3, <1>4 DEF Stays
    <2>3. UNCHANGED [j \in Job |-> jobs[j].status]
      BY <1>1
    <2>4. Lifecycle!Lose(S)
      BY <1>5, <1>7, <2>1, <2>2, <2>3, SameAttemptsUnchanged DEF Lifecycle!Lose
    <2>5. QED
      BY <1>2, <2>4, StepOfSet
  <1>8. QED
    BY <1>6, <1>7

-----------------------------------------------------------------------------
(* Statements on rows nobody holds *)

\* Rows that go back to the queue, several in one statement.
LEMMA QueueingMoves ==
    ASSUME NEW S \in SUBSET Job, S # {}, UNCHANGED tasks,
           \A j \in S : jobs'[j].status = "queued",
           \A j \in Job \ S : jobs'[j] = jobs[j]
    PROVE  Lifecycle!Move(S, "queued", "none")
  <1>1. \A j \in Job : IsLive(j)' <=> IsLive(j)
    BY DEF IsLive
  <1>2. \A j \in Job \ S : Stays(j)
    BY <1>1, SameRowStays
  <1>3. \A j \in S : Becomes(j, "queued", "none")
    BY HolderIs DEF Becomes, InFlight
  <1>4. QED
    BY <1>2, <1>3, PointwiseMove

\* Nothing happens to the jobs.
LEMMA IdleImplements ==
    ASSUME UNCHANGED <<jobs, tasks>>
    PROVE  LifecycleStep
  <1>1. \A j \in Job : IsLive(j)' <=> IsLive(j)
    BY DEF IsLive
  <1>2. QED
    BY <1>1, SameRowStays, Stutter DEF SameAttempts, LifecycleStep

\* Recovery takes back what its holder is gone from, and nothing else.
LEMMA RecoverImplements ==
    ASSUME SpecInv, OwnInv, NEW w \in Worker, StartWorker(w)
    PROVE  LifecycleStep
  <1>0. PICK S \in SUBSET Job : \A j \in Job : j \in S <=> IsStale(jobs[j])
    <2>1. {j \in Job : IsStale(jobs[j])} \in SUBSET Job
      OBVIOUS
    <2>2. QED
      BY <2>1
  <1>1. /\ \A j \in S : jobs'[j] = Recovered(jobs[j])
        /\ \A j \in Job \ S : jobs'[j] = jobs[j]
        /\ UNCHANGED tasks
    BY <1>0 DEF StartWorker, RecoverStaleClaims
  <1>2. \A j \in Job : jobs[j] \in Row
    BY DEF SpecInv, TypeOK
  <1>3. \A j \in S : jobs'[j].status = "queued"
    BY <1>1, <1>2 DEF Recovered, Row
  <1>4. SameAttempts
    BY <1>1, <1>2, StatementsKeepAttempts DEF SameAttempts
  <1>5. \A j \in S : Holder(j) = "gone"
    BY <1>0, HolderIs DEF OwnInv, ClaimsAreFresh, IsStale, IsLive
  <1>6. CASE S = {}
    <2>1. \A j \in Job : jobs'[j] = jobs[j] /\ (IsLive(j)' <=> IsLive(j))
      BY <1>1, <1>6 DEF IsLive
    <2>2. QED
      BY <1>4, <2>1, SameRowStays, Stutter DEF LifecycleStep
  <1>7. CASE S # {}
    <2>1. Lifecycle!Move(S, "queued", "none")
      BY <1>1, <1>3, <1>7, QueueingMoves
    <2>2. Lifecycle!Release(S)
      BY <1>4, <1>5, <2>1, SameAttemptsUnchanged DEF Lifecycle!Release
    <2>3. QED
      BY <2>2, StepOfSet
  <1>8. QED
    BY <1>6, <1>7

LEMMA RequeueImplements ==
    ASSUME SpecInv, OwnInv, RequeueRetryable
    PROVE  LifecycleStep
  <1>0. PICK S \in SUBSET Job : \A j \in Job : j \in S <=> IsDue(jobs[j])
    <2>1. {j \in Job : IsDue(jobs[j])} \in SUBSET Job
      OBVIOUS
    <2>2. QED
      BY <2>1
  <1>1. /\ \A j \in S : jobs'[j] = Requeued(jobs[j])
        /\ \A j \in Job \ S : jobs'[j] = jobs[j]
        /\ UNCHANGED tasks /\ S # {}
    BY <1>0 DEF RequeueRetryable
  <1>2. \A j \in Job : jobs[j] \in Row
    BY DEF SpecInv, TypeOK
  <1>3. \A j \in S : jobs'[j].status = "queued"
    BY <1>1, <1>2 DEF Requeued, Row
  <1>4. SameAttempts
    BY <1>1, <1>2, StatementsKeepAttempts DEF SameAttempts
  <1>5. Lifecycle!Move(S, "queued", "none")
    BY <1>1, <1>3, QueueingMoves
  <1>6. Lifecycle!Requeue(S)
    BY <1>0, <1>4, <1>5, SameAttemptsUnchanged DEF Lifecycle!Requeue, IsDue
  <1>7. QED
    BY <1>6, StepOfSet

LEMMA TickImplements ==
    ASSUME SpecInv, Tick
    PROVE  LifecycleStep
  <1>1. \A j \in Job : jobs'[j] = Aged(jobs[j]) /\ jobs[j] \in Row
    BY DEF Tick, SpecInv, TypeOK
  <1>2. \A j \in Job : jobs'[j].status = jobs[j].status /\ (IsLive(j)' <=> IsLive(j))
    BY <1>1 DEF Tick, Aged, Row, IsLive
  <1>3. SameAttempts
    BY <1>1, StatementsKeepAttempts DEF SameAttempts
  <1>4. QED
    BY <1>2, <1>3, SameRowStays, Stutter DEF LifecycleStep

\* One row that nobody holds gets a new status, by the API.
LEMMA ApiMoves ==
    ASSUME SpecInv, NEW j \in Job, UNCHANGED tasks, NEW row \in Row,
           jobs' = [jobs EXCEPT ![j] = row], row.status \notin InFlight
    PROVE  Lifecycle!Move({j}, row.status, "none")
  <1>1. jobs \in [Job -> Row] /\ \A i \in Job : IsLive(i)' <=> IsLive(i)
    BY DEF SpecInv, TypeOK, IsLive
  <1>2. \A i \in Job \ {j} : Stays(i)
    BY <1>1, OthersStay
  <1>3. Becomes(j, row.status, "none")
    BY <1>1, HolderIs DEF Becomes
  <1>4. QED
    BY <1>2, <1>3, PointwiseMove

LEMMA SubmitImplements ==
    ASSUME SpecInv, NEW j \in Job, Enqueue(j)
    PROVE  LifecycleStep
  <1>1. jobs \in [Job -> Row] /\ jobs[j] \in Row /\ jobs[j].status = "absent"
    BY DEF SpecInv, TypeOK, Enqueue
  <1>2. jobs' = [jobs EXCEPT ![j] = Enqueued(jobs[j])] /\ UNCHANGED tasks
    BY DEF Enqueue
  <1>3. Enqueued(jobs[j]) \in Row /\ Enqueued(jobs[j]).status = "queued"
    BY <1>1, StatementsKeepRows DEF Enqueued, Row
  <1>4. Lifecycle!Move({j}, "queued", "none")
    BY <1>2, <1>3, ApiMoves DEF InFlight
  <1>5. SameAttempts
    BY <1>1, <1>2, StatementsKeepAttempts DEF SameAttempts
  <1>6. Lifecycle!Submit(j)
    BY <1>1, <1>4, <1>5, SameAttemptsUnchanged DEF Lifecycle!Submit
  <1>7. QED
    BY <1>6 DEF LifecycleStep, Lifecycle!Next

LEMMA CancelImplements ==
    ASSUME SpecInv, NEW j \in Job, Cancel(j)
    PROVE  LifecycleStep
  <1>1. /\ jobs \in [Job -> Row] /\ jobs[j] \in Row
        /\ jobs[j].status \in {"queued", "retry_scheduled"}
    BY DEF SpecInv, TypeOK, Cancel, IsCancellable
  <1>2. jobs' = [jobs EXCEPT ![j] = Cancelled(jobs[j])] /\ UNCHANGED tasks
    BY DEF Cancel
  <1>3. Cancelled(jobs[j]) \in Row /\ Cancelled(jobs[j]).status = "cancelled"
    BY <1>1, StatementsKeepRows DEF Cancelled, Row
  <1>4. Lifecycle!Move({j}, "cancelled", "none")
    BY <1>2, <1>3, ApiMoves DEF InFlight
  <1>5. SameAttempts
    BY <1>1, <1>2, StatementsKeepAttempts DEF SameAttempts
  <1>6. Lifecycle!Cancel(j)
    BY <1>1, <1>4, <1>5, SameAttemptsUnchanged DEF Lifecycle!Cancel
  <1>7. QED
    BY <1>6 DEF LifecycleStep, Lifecycle!Next

LEMMA ReviveImplements ==
    ASSUME SpecInv, NEW j \in Job, jobs[j].status = "dead", UNCHANGED tasks,
           \/ jobs' = [jobs EXCEPT ![j] = Retried(@)]
           \/ jobs' = [jobs EXCEPT ![j] = Replayed(@)]
    PROVE  LifecycleStep
  <1>1. jobs \in [Job -> Row] /\ jobs[j] \in Row
    BY DEF SpecInv, TypeOK
  <1>2. /\ Retried(jobs[j]) \in Row /\ Retried(jobs[j]).status = "queued"
        /\ Replayed(jobs[j]) \in Row /\ Replayed(jobs[j]).status = "queued"
    BY <1>1, StatementsKeepRows DEF Retried, Replayed, Row
  <1>3. Lifecycle!Move({j}, "queued", "none")
    <2>1. CASE jobs' = [jobs EXCEPT ![j] = Retried(jobs[j])]
      BY <1>2, <2>1, ApiMoves DEF InFlight
    <2>2. CASE jobs' = [jobs EXCEPT ![j] = Replayed(jobs[j])]
      BY <1>2, <2>2, ApiMoves DEF InFlight
    <2>3. QED
      BY <2>1, <2>2
  <1>4. \/ UNCHANGED [i \in Job |-> jobs[i].attempt_count]
        \/ [i \in Job |-> jobs[i].attempt_count]' =
              [[i \in Job |-> jobs[i].attempt_count] EXCEPT ![j] = 0]
    <2>1. CASE jobs' = [jobs EXCEPT ![j] = Retried(jobs[j])]
      BY <1>1, <2>1, StatementsKeepAttempts
    <2>2. CASE jobs' = [jobs EXCEPT ![j] = Replayed(jobs[j])]
      BY <1>1, <2>2, StatementsKeepAttempts
    <2>3. QED
      BY <2>1, <2>2
  <1>5. Lifecycle!Revive(j)
    BY <1>3, <1>4 DEF Lifecycle!Revive
  <1>6. QED
    BY <1>5 DEF LifecycleStep, Lifecycle!Next

-----------------------------------------------------------------------------
LEMMA SystemImplements ==
    ASSUME SpecInv, OwnInv, SystemStep
    PROVE  LifecycleStep
  <1>1. ASSUME NEW w \in Worker, WorkerStep(w) PROVE LifecycleStep
    <2>1. CASE StartWorker(w)
      BY <2>1, RecoverImplements
    <2>2. CASE ClaimCommit(w)
      BY <2>2, ClaimImplements
    <2>3. CASE Exit(w) \/ Crash(w)
      <3>1. Loses(TasksOf(w)) /\ TasksOf(w) \in SUBSET tasks
        BY <2>3 DEF Exit, Crash, Leave, TasksOf, Loses
      <3>2. QED
        BY <3>1, LoseImplements
    <2>4. CASE UNCHANGED <<jobs, tasks>>
      BY <2>4, IdleImplements
    <2>5. QED
      BY <1>1, <2>1, <2>2, <2>3, <2>4 DEF WorkerStep, PollStep, PollAborts, Shutdown,
         PollBegin, CountRunning, PollReturns, ClaimSelect
  <1>2. ASSUME NEW t \in tasks, TaskStep(t) PROVE LifecycleStep
    BY <1>2, BeginImplements, RaiseImplements, SettleImplements DEF TaskStep
  <1>3. ASSUME NEW t \in tasks, TaskBreaks(t) PROVE LifecycleStep
    <2>1. Loses({t}) /\ {t} \in SUBSET tasks
      BY <1>3 DEF TaskBreaks, Ends, Loses
    <2>2. QED
      BY <2>1, LoseImplements
  <1>4. QED
    BY <1>1, <1>2, <1>3, RequeueImplements, SubmitImplements, CancelImplements DEF SystemStep

LEMMA OperatorImplements ==
    ASSUME SpecInv, CarefulOperator
    PROVE  LifecycleStep
  <1>1. ASSUME NEW j \in Job, jobs[j].status = "dead", Retry(j) PROVE LifecycleStep
    BY <1>1, ReviveImplements DEF Retry
  <1>2. ASSUME NEW e \in DOMAIN dlq, jobs[dlq[e].job].status = "dead", Replay(e)
        PROVE  LifecycleStep
    <2>1. dlq[e] \in Entry
      BY DEF SpecInv, TypeOK
    <2>2. dlq[e].job \in Job
      BY <2>1 DEF Entry
    <2>3. QED
      BY <1>2, <2>2, ReviveImplements DEF Replay
  <1>3. CASE UNCHANGED <<jobs, tasks>>
    BY <1>3, IdleImplements
  <1>4. QED
    BY <1>1, <1>2, <1>3 DEF CarefulOperator, Resolve, SetAnyPaused, SetPaused

\* Under the conditions of TimelySpec the code keeps the promise of JobLifecycle:
\* one holder at a time, no outcome but the holder's, nothing back in the queue
\* while its holder lives, retries until the attempts are used up.
THEOREM LifecycleIsImplemented == TimelySpec => ImplementsLifecycle
  <1>1. Init => Lifecycle!Init
    BY HolderIs DEF Init, NoRow, InFlight, Lifecycle!Init
  <1>2. SpecInv /\ OwnInv /\ [TimelyNext]_vars => [Lifecycle!Next]_(Lifecycle!vars)
    <2> SUFFICES ASSUME SpecInv, OwnInv, [TimelyNext]_vars PROVE LifecycleStep
      BY DEF LifecycleStep
    <2>1. CASE UNCHANGED vars
      BY <2>1, IdleImplements DEF vars
    <2>2. QED
      BY <2>1, SystemImplements, TickImplements, OperatorImplements DEF TimelyNext
  <1>3. QED
    BY <1>1, <1>2, OwnAlways, PTL DEF TimelySpec, ImplementsLifecycle, Lifecycle!Spec
=============================================================================
