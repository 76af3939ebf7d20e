------------------------- MODULE CronSchedulerProofs -------------------------
(***************************************************************************)
(* Theorems about CronScheduler, for any cron rows, times of theirs, jobs, *)
(* workers and bounds.                                                     *)
(***************************************************************************)
EXTENDS CronScheduler, AccountingProofs

\* A row whose POST is under way is not in the table.
PostedAreNew == \A c \in Cron : posting[c] # NULL => crons[c].next_run_at = NULL

\* What a tick has selected is due at the time it has read, until it writes, and
\* every row that is due at that time has been selected or came too late.
DueIsAsRead ==
    sched.at = "cron" =>
        /\ sched.read <= now
        /\ \A c \in Cron :
              /\ c \in sched.due => /\ crons[c].next_run_at # NULL
                                    /\ crons[c].next_run_at <= sched.read
              /\ crons[c].next_run_at # NULL /\ crons[c].next_run_at <= sched.read
                    => c \in sched.due \cup overdue

\* Runs lie in the past, also that of the tick in progress, and before the next
\* time; they are of rows that exist, and their jobs have been enqueued.
FiredArePast ==
    \A c \in Cron : \A i \in DOMAIN fired[c] :
        /\ fired[c][i].at <= now
        /\ sched.at = "cron" => fired[c][i].at <= sched.read
        /\ crons[c].next_run_at # NULL
        /\ fired[c][i].at < crons[c].next_run_at
        /\ jobs[fired[c][i].job].status # "absent"

CronInv ==
    /\ PostedAreNew
    /\ DueIsAsRead
    /\ FiredArePast
    /\ SlotsFireOnce
    /\ SlotsAreAnswered
    /\ DueRowsFireTogether

-----------------------------------------------------------------------------
(* The operators of the model *)

LEMMA MinIsLeast ==
    ASSUME NEW S \in SUBSET Nat, S # {}
    PROVE  Min(S) \in S /\ \A s \in S : Min(S) <= s
  <1>1. PICK m \in S : \A s \in S : ~(<<s, m>> \in OpToRel(<, Nat))
    BY NatLessThanWellFounded, WFMin
  <1>2. \A s \in S : m <= s
    <2> SUFFICES ASSUME NEW s \in S PROVE m <= s
      OBVIOUS
    <2>1. ~(s < m)
      BY <1>1 DEF OpToRel
    <2>2. QED
      BY <2>1
  <1>3. QED
    BY <1>2 DEF Min

\* The next time of a row is the first after the time given.
LEMMA NextSlotIsFirst ==
    ASSUME NEW c \in Cron, NEW t \in Time
    PROVE  /\ NextSlot(c, t) \in Slots[c] /\ NextSlot(c, t) \in Nat
           /\ NextSlot(c, t) > t
           /\ \A s \in Slots[c] : s > t => NextSlot(c, t) <= s
  <1>1. /\ {s \in Slots[c] : s > t} \in SUBSET Nat
        /\ {s \in Slots[c] : s > t} # {}
    BY SlotsAssumption
  <1>2. QED
    BY <1>1, MinIsLeast DEF NextSlot

\* A history after one more firing, r.
LEMMA AppendedFiring ==
    ASSUME NEW runs \in Seq(Firing), NEW r \in Firing
    PROVE  /\ Append(runs, r) \in Seq(Firing) /\ Append(runs, r) # << >>
           /\ Len(runs) \in Nat /\ DOMAIN runs = 1 .. Len(runs)
           /\ DOMAIN Append(runs, r) = 1 .. Len(runs) + 1
           /\ Append(runs, r)[Len(runs) + 1] = r
           /\ \A i \in DOMAIN runs : Append(runs, r)[i] = runs[i]
  OBVIOUS

LEMMA SchedAtIsSched ==
    ASSUME NEW pc \in {"down", "idle", "cron", "requeue"}
    PROVE  SchedAt(pc) \in Sched
  BY SchedulerBoundsAssumption DEF SchedAt, Sched, Time

\* A run of row c in a tick that enqueues jobs f.
Run(f, c) == [job |-> f[c], at |-> sched.read, slot |-> crons[c].next_run_at]

\* What FireCrons does, with the jobs f it enqueues.
Fires(f) ==
    /\ sched.at = "cron"
    /\ f \in Injection(sched.due, Absent)
    /\ jobs' = [j \in Job |-> IF j \in Range(f) THEN Enqueued(jobs[j]) ELSE jobs[j]]
    /\ crons' = [c \in Cron |-> IF c \in sched.due THEN Advanced(c) ELSE crons[c]]
    /\ fired' = [c \in Cron |-> IF c \notin sched.due THEN fired[c]
                                 ELSE Append(fired[c], Run(f, c))]
    /\ overdue' = overdue \ sched.due
    /\ sched' = AfterFiring
    /\ UNCHANGED <<dlq, execs, paused, proc, active, poll, tasks, lost, ops, faults,
                   posting, now, stops>>

LEMMA FireCronsFires == FireCrons => \E f : Fires(f)
  BY DEF FireCrons, Fire, NewJobs, Fires, Run

\* A run is made of an absent job, at the time read, for a slot up to that time.
LEMMA RunIsFiring ==
    ASSUME CronTypeOK, DueIsAsRead, NEW f, Fires(f), NEW c \in sched.due
    PROVE  /\ c \in Cron /\ f[c] \in Absent
           /\ Run(f, c) \in Firing
           /\ Run(f, c).job = f[c] /\ Run(f, c).at = sched.read
           /\ Run(f, c).slot = crons[c].next_run_at
           /\ crons[c].next_run_at \in Nat /\ crons[c].next_run_at <= sched.read
           /\ fired'[c] = Append(fired[c], Run(f, c)) /\ fired[c] \in Seq(Firing)
           /\ crons'[c].next_run_at = NextSlot(c, sched.read)
  <1>1. c \in Cron /\ sched.read \in Time /\ crons[c] \in CronRow
    BY DEF CronTypeOK, Sched
  <1>2. f[c] \in Absent /\ f[c] \in Job
    BY DEF Fires, Injection, Absent
  <1>3. crons[c].next_run_at \in Nat /\ crons[c].next_run_at <= sched.read
    BY <1>1 DEF DueIsAsRead, Fires, CronRow
  <1>4. fired'[c] = Append(fired[c], Run(f, c)) /\ crons'[c] = Advanced(c)
    BY <1>1 DEF Fires
  <1>5. Run(f, c) \in Firing
    BY <1>1, <1>2, <1>3 DEF Run, Firing
  <1>6. fired[c] \in Seq(Firing) /\ crons'[c].next_run_at = NextSlot(c, sched.read)
    BY <1>1, <1>4 DEF CronTypeOK, Advanced
  <1>7. QED
    BY <1>1, <1>2, <1>3, <1>4, <1>5, <1>6 DEF Run

-----------------------------------------------------------------------------
(* Type correctness *)

LEMMA InitCronTypeOK == CronInit => CronTypeOK
  BY SchedAtIsSched, SchedulerBoundsAssumption
     DEF CronInit, CronTypeOK, NoCron, CronRow, Time

\* The steps that leave the scheduled_jobs table and the runs alone.
LEMMA QuietCronTypeOK ==
    ASSUME CronTypeOK,
           \/ UNCHANGED schedVars
           \/ ReadDueCrons \/ FireFails \/ RequeueRetries
           \/ SchedulerStart \/ SchedulerDown \/ TickFails \/ TimePasses
    PROVE  CronTypeOK'
  <1>1. CASE UNCHANGED schedVars
    BY <1>1 DEF schedVars, CronTypeOK
  <1>2. CASE ReadDueCrons
    BY <1>2 DEF ReadDueCrons, CronTypeOK, Sched
  <1>3. CASE FireFails \/ RequeueRetries \/ SchedulerStart
    BY <1>3, SchedAtIsSched DEF FireFails, RequeueRetries, SchedulerStart, CronTypeOK
  <1>4. CASE SchedulerDown \/ TickFails
    BY <1>4, SchedAtIsSched, SchedulerBoundsAssumption
       DEF SchedulerDown, TickFails, SchedulerFault, CronTypeOK
  <1>5. CASE TimePasses
    BY <1>5, SchedulerBoundsAssumption DEF TimePasses, CronTypeOK, Time
  <1>6. QED
    BY <1>1, <1>2, <1>3, <1>4, <1>5

LEMMA PostsCronTypeOK ==
    ASSUME CronTypeOK, NEW c \in Cron, PostCron(c) \/ PostFails(c)
    PROVE  CronTypeOK'
  <1>1. now \in Time
    BY DEF CronTypeOK
  <1>2. NextSlot(c, now) \in Nat
    BY <1>1, NextSlotIsFirst
  <1>3. QED
    BY <1>2 DEF PostCron, PostFails, CronTypeOK

LEMMA CommitCronTypeOK ==
    ASSUME CronTypeOK, NEW c \in Cron, CommitCron(c)
    PROVE  /\ CronTypeOK'
           /\ posting[c] \in Nat
           /\ crons'[c].next_run_at = posting[c]
           /\ \A d \in Cron \ {c} : crons'[d] = crons[d]
  <1>1. now \in Time /\ crons[c] \in CronRow /\ posting[c] \in Nat
    BY DEF CronTypeOK, CommitCron
  <1>2. crons' = [crons EXCEPT ![c] = [crons[c] EXCEPT !.next_run_at = posting[c]]]
    BY DEF CommitCron, CronTypeOK
  <1>3. [crons[c] EXCEPT !.next_run_at = posting[c]] \in CronRow
    BY <1>1 DEF CronRow
  <1>4. crons' \in [Cron -> CronRow]
    BY <1>2, <1>3 DEF CronTypeOK
  <1>5. crons'[c].next_run_at = posting[c]
    BY <1>1, <1>2 DEF CronTypeOK, CronRow
  <1>6. posting' \in [Cron -> Nat \cup {NULL}] /\ overdue' \subseteq Cron
    BY DEF CommitCron, CronTypeOK
  <1>7. QED
    BY <1>1, <1>2, <1>4, <1>5, <1>6 DEF CommitCron, CronTypeOK

LEMMA FiresCronTypeOK ==
    ASSUME CronTypeOK, DueIsAsRead, NEW f, Fires(f)
    PROVE  CronTypeOK'
  <1>1. sched.read \in Time /\ sched.due \subseteq Cron
    BY DEF CronTypeOK, Sched
  <1>2. \A c \in sched.due : Advanced(c) \in CronRow
    BY <1>1, NextSlotIsFirst DEF Advanced, CronRow
  <1>3. crons' \in [Cron -> CronRow]
    BY <1>2 DEF Fires, CronTypeOK
  <1>4. \A c \in sched.due : Append(fired[c], Run(f, c)) \in Seq(Firing)
    BY RunIsFiring, AppendedFiring
  <1>5. fired' \in [Cron -> Seq(Firing)]
    BY <1>4 DEF Fires, CronTypeOK
  <1>6. QED
    BY <1>3, <1>5, SchedAtIsSched DEF Fires, AfterFiring, CronTypeOK

\* The steps of CronNext, by what they do to the scheduled_jobs table.
LEMMA StepOfCrons ==
    ASSUME [CronNext]_allVars
    PROVE  \/ \E c \in Cron : PostCron(c) \/ PostFails(c)
           \/ \E c \in Cron : CommitCron(c)
           \/ \E f : Fires(f)
           \/ /\ UNCHANGED <<crons, posting, overdue, fired>>
              /\ \/ UNCHANGED schedVars
                 \/ ReadDueCrons \/ FireFails \/ RequeueRetries
                 \/ SchedulerStart \/ SchedulerDown \/ TickFails \/ TimePasses
  BY FireCronsFires DEF CronNext, SchedulerStep, ReadDueCrons, FireFails, RequeueRetries,
     SchedulerStart, SchedulerDown, TickFails, TimePasses, schedVars, allVars

LEMMA NextCronTypeOK ==
    ASSUME CronTypeOK, DueIsAsRead, [CronNext]_allVars
    PROVE  CronTypeOK'
  BY StepOfCrons, PostsCronTypeOK, CommitCronTypeOK, FiresCronTypeOK, QuietCronTypeOK

-----------------------------------------------------------------------------
(* The jobs table under the scheduler *)

LEMMA FiresTypeOK ==
    ASSUME TypeOK, NEW f, Fires(f)
    PROVE  TypeOK'
  <1>1. jobs' \in [Job -> Row]
    BY StatementsKeepRows DEF Fires, TypeOK
  <1>2. QED
    BY <1>1 DEF Fires, TypeOK

\* Every other step is one of job processing, or none of its business.
LEMMA StepOfProcessing ==
    ASSUME [CronNext]_allVars
    PROVE  [Next]_vars \/ \E f : Fires(f)
  <1>1. FireCrons => \E f : Fires(f)
    BY FireCronsFires
  <1>2. RequeueRetries => [Next]_vars
    BY DEF RequeueRetries, Next, SystemStep
  <1>3. ProcessingStep => [Next]_vars
    BY DEF ProcessingStep, Next, SystemStep
  <1>4. TimePasses => [Next]_vars
    BY DEF TimePasses, Next
  <1>5. SchedulerStart \/ SchedulerDown \/ TickFails \/ ReadDueCrons \/ FireFails
          \/ (\E c \in Cron : PostCron(c) \/ CommitCron(c) \/ PostFails(c))
          \/ UNCHANGED allVars => UNCHANGED vars
    BY DEF SchedulerStart, SchedulerDown, TickFails, ReadDueCrons, FireFails, PostCron,
           CommitCron, PostFails, allVars
  <1>6. QED
    BY <1>1, <1>2, <1>3, <1>4, <1>5 DEF CronNext, SchedulerStep

LEMMA NextJobsTypeOK == TypeOK /\ [CronNext]_allVars => TypeOK'
  BY StepOfProcessing, NextTypeOK, FiresTypeOK

\* A job that has a row keeps having one.
LEMMA JobsStay ==
    ASSUME TypeOK, [CronNext]_allVars, NEW j \in Job, jobs[j].status # "absent"
    PROVE  jobs'[j].status # "absent"
  <1>1. jobs[j] \in Row
    BY DEF TypeOK
  <1>2. ASSUME NEW f, Fires(f) PROVE jobs'[j].status # "absent"
    BY <1>1, <1>2 DEF Fires, Enqueued, Row
  <1>3. CASE [Next]_vars
    <2>1. CASE WritesUnlocked(j)
      BY <1>1, <2>1
         DEF WritesUnlocked, Starts, Settles, Commanded, Started, Completed, Buried, Retried,
                        Replayed, RetryScheduled, Cancelled, Row
    <2>2. CASE ~WritesUnlocked(j)
      BY <1>1, <1>3, <2>2, StepOfRow
         DEF RowStep, RowWrite, Claims, Aged, Recovered, Requeued, Enqueued, Claimed, Row
    <2>3. QED
      BY <2>1, <2>2
  <1>4. QED
    BY <1>2, <1>3, StepOfProcessing

-----------------------------------------------------------------------------
(* Steps that fire nothing *)

LEMMA FiringTypes ==
    ASSUME CronTypeOK, NEW c \in Cron
    PROVE  /\ fired[c] # << >> => 1 \in DOMAIN fired[c]
           /\ \A i \in DOMAIN fired[c] :
                 /\ i \in Nat /\ 1 <= i /\ fired[c] # << >>
                 /\ fired[c][i].job \in Job /\ fired[c][i].slot \in Nat
                 /\ fired[c][i].at \in Nat
           /\ crons[c].next_run_at \in Nat \cup {NULL}
           /\ now \in Nat /\ now \in Time /\ sched.read \in Nat /\ sched.read \in Time
           /\ NULL \notin Nat
  <1>1. fired[c] \in Seq(Firing) /\ crons[c] \in CronRow /\ sched.read \in Time
        /\ now \in Time /\ \A t \in Time : t \in Nat
    BY SchedulerBoundsAssumption DEF CronTypeOK, Sched, Time
  <1>2. \A i \in DOMAIN fired[c] : fired[c][i] \in Firing /\ i \in Nat /\ 1 <= i
                                  /\ fired[c] # << >>
    BY <1>1
  <1>3. fired[c] # << >> => 1 \in DOMAIN fired[c]
    BY <1>1
  <1>4. QED
    BY <1>1, <1>2, <1>3, CronAssumption DEF Firing, CronRow

LEMMA QuietKeepsCronInv ==
    ASSUME TypeOK, CronTypeOK, CronInv, [CronNext]_allVars,
           UNCHANGED <<crons, posting, overdue, fired>>,
           \/ UNCHANGED schedVars
           \/ ReadDueCrons \/ FireFails \/ RequeueRetries
           \/ SchedulerStart \/ SchedulerDown \/ TickFails \/ TimePasses
    PROVE  CronInv'
  <1> USE DEF CronInv
  <1>1. now' \in {now, now + 1} /\ now \in Nat
    BY SchedulerBoundsAssumption
       DEF ReadDueCrons, FireFails, RequeueRetries, SchedulerStart, SchedulerDown,
           TickFails, TimePasses, schedVars, CronTypeOK, Time
  <1>2. DueIsAsRead'
    <2>1. CASE ReadDueCrons
      BY <1>1, <2>1 DEF ReadDueCrons, DueIsAsRead, IsDueCron
    <2>2. CASE FireFails \/ RequeueRetries \/ SchedulerStart \/ SchedulerDown \/ TickFails
      BY <2>2 DEF FireFails, RequeueRetries, SchedulerStart, SchedulerDown, TickFails,
                  SchedAt, DueIsAsRead
    <2>3. CASE UNCHANGED sched
      <3>1. sched.read \in Nat
        BY SchedulerBoundsAssumption DEF CronTypeOK, Sched, Time
      <3>2. QED
        BY <1>1, <2>3, <3>1 DEF DueIsAsRead
    <2>4. QED
      BY <2>1, <2>2, <2>3 DEF TimePasses, schedVars
  <1>3. FiredArePast'
    <2> SUFFICES ASSUME NEW c \in Cron, NEW i \in DOMAIN fired[c]
                 PROVE  /\ fired[c][i].at <= now'
                        /\ sched'.at = "cron" => fired[c][i].at <= sched'.read
                        /\ crons[c].next_run_at # NULL
                        /\ fired[c][i].at < crons[c].next_run_at
                        /\ jobs'[fired[c][i].job].status # "absent"
      BY DEF FiredArePast
    <2>1. /\ fired[c][i].at \in Nat /\ fired[c][i].job \in Job
          /\ fired[c][i].at <= now /\ crons[c].next_run_at # NULL
          /\ fired[c][i].at < crons[c].next_run_at
          /\ jobs[fired[c][i].job].status # "absent"
          /\ sched.at = "cron" => fired[c][i].at <= sched.read
      BY FiringTypes DEF FiredArePast
    <2>2. sched'.at = "cron" => sched'.read = now \/ sched' = sched
      BY DEF ReadDueCrons, FireFails, RequeueRetries, SchedulerStart, SchedulerDown,
           TickFails, TimePasses, schedVars, SchedAt
    <2>3. QED
      BY <1>1, <2>1, <2>2, JobsStay
  <1>4. PostedAreNew'
    BY DEF PostedAreNew
  <1>5. QED
    BY <1>2, <1>3, <1>4 DEF SlotsFireOnce, SlotsAreAnswered, DueRowsFireTogether

LEMMA PostsKeepCronInv ==
    ASSUME CronTypeOK, CronInv, NEW c \in Cron, PostCron(c) \/ PostFails(c)
    PROVE  CronInv'
  <1>1. UNCHANGED <<jobs, crons, sched, now, overdue, fired>>
    BY DEF PostCron, PostFails, vars
  <1>2. PostedAreNew'
    <2> SUFFICES ASSUME NEW d \in Cron, posting'[d] # NULL
                 PROVE  crons[d].next_run_at = NULL
      BY <1>1 DEF PostedAreNew
    <2>1. CASE d = c /\ PostCron(c)
      BY <2>1 DEF PostCron, NoCron
    <2>2. CASE posting[d] # NULL
      BY <2>2 DEF CronInv, PostedAreNew
    <2>3. QED
      BY <2>1, <2>2 DEF PostCron, PostFails, CronTypeOK
  <1>3. QED
    BY <1>1, <1>2 DEF CronInv, DueIsAsRead, FiredArePast, SlotsFireOnce, SlotsAreAnswered,
       DueRowsFireTogether

LEMMA CommitKeepsCronInv ==
    ASSUME TypeOK, CronTypeOK, CronInv, NEW c \in Cron, CommitCron(c)
    PROVE  CronInv'
  <1> USE DEF CronInv
  <1>1. /\ crons[c].next_run_at = NULL /\ posting[c] \in Nat
        /\ crons'[c].next_run_at = posting[c]
        /\ \A d \in Cron \ {c} : crons'[d] = crons[d]
        /\ now \in Nat /\ sched.read \in Nat
    BY CommitCronTypeOK, FiringTypes DEF PostedAreNew, CommitCron
  <1>2. UNCHANGED <<jobs, sched, now, fired>> /\ NULL \notin Nat
    BY CronAssumption DEF CommitCron, vars
  <1>3. /\ overdue \subseteq overdue' /\ overdue' \subseteq overdue \cup {c}
        /\ posting[c] <= now => c \in overdue'
    BY DEF CommitCron
  <1>4. PostedAreNew'
    <2>1. \A d \in Cron : posting'[d] # NULL => d # c /\ posting[d] # NULL
      BY DEF CommitCron, CronTypeOK
    <2>2. QED
      BY <1>1, <2>1 DEF PostedAreNew
  <1>5. DueIsAsRead'
    <2> SUFFICES ASSUME sched.at = "cron", NEW d \in Cron
                 PROVE  /\ d \in sched.due => /\ crons'[d].next_run_at # NULL
                                              /\ crons'[d].next_run_at <= sched.read
                        /\ crons'[d].next_run_at # NULL
                           /\ crons'[d].next_run_at <= sched.read
                              => d \in sched.due \cup overdue'
      BY <1>2 DEF DueIsAsRead
    <2>1. sched.read <= now
      BY DEF DueIsAsRead
    <2>2. CASE d = c
      <3>1. c \notin sched.due
        BY <1>1 DEF DueIsAsRead
      <3>2. QED
        BY <1>1, <1>3, <2>1, <2>2, <3>1
    <2>3. CASE d # c
      BY <1>1, <1>3, <2>3 DEF DueIsAsRead
    <2>4. QED
      BY <2>2, <2>3
  <1>6. fired[c] = << >>
    BY <1>1, FiringTypes DEF FiredArePast
  <1>7. FiredArePast'
    BY <1>1, <1>2, <1>6 DEF FiredArePast
  <1>8. SlotsFireOnce'
    BY <1>2 DEF SlotsFireOnce
  <1>9. SlotsAreAnswered'
    BY <1>1, <1>2, <1>6 DEF SlotsAreAnswered
  <1>10. DueRowsFireTogether'
    <2> SUFFICES ASSUME NEW b \in Cron, NEW d \in Cron, NEW i \in DOMAIN fired[b],
                        crons'[d].next_run_at # NULL, d \notin overdue'
                 PROVE  fired[b][i].at < crons'[d].next_run_at
      BY <1>2 DEF DueRowsFireTogether
    <2>1. fired[b][i].at \in Nat /\ fired[b][i].at <= now
      BY FiringTypes DEF FiredArePast
    <2>2. QED
      BY <1>1, <1>3, <2>1 DEF DueRowsFireTogether
  <1>11. QED
    BY <1>4, <1>5, <1>7, <1>8, <1>9, <1>10

-----------------------------------------------------------------------------
(* The step that fires *)

IsOld(c, i) == i \in DOMAIN fired[c] /\ fired'[c][i] = fired[c][i]

IsRun(f, c, i) ==
    c \in sched.due /\ i = Len(fired[c]) + 1 /\ fired'[c][i] = Run(f, c)

\* Each due row has one more run, behind those it had.
LEMMA FiresAppends ==
    ASSUME CronTypeOK, DueIsAsRead, NEW f, Fires(f), NEW c \in Cron
    PROVE  /\ \A i \in DOMAIN fired'[c] : IsOld(c, i) \/ IsRun(f, c, i)
           /\ \A i \in DOMAIN fired[c] : i \in DOMAIN fired'[c] /\ IsOld(c, i)
           /\ \A i \in DOMAIN fired[c] : i \in Nat /\ i < Len(fired[c]) + 1
           /\ c \in sched.due => /\ Len(fired[c]) + 1 \in DOMAIN fired'[c]
                                 /\ IsRun(f, c, Len(fired[c]) + 1)
  <1>1. fired[c] \in Seq(Firing)
    BY DEF CronTypeOK
  <1>2. \A i \in DOMAIN fired[c] : i \in Nat /\ i < Len(fired[c]) + 1
    BY <1>1
  <1>3. CASE c \in sched.due
    <2>1. fired'[c] = Append(fired[c], Run(f, c)) /\ Run(f, c) \in Firing
      BY <1>3, RunIsFiring
    <2>2. /\ Len(fired[c]) \in Nat /\ DOMAIN fired[c] = 1 .. Len(fired[c])
          /\ DOMAIN fired'[c] = 1 .. Len(fired[c]) + 1
          /\ fired'[c][Len(fired[c]) + 1] = Run(f, c)
          /\ \A i \in DOMAIN fired[c] : fired'[c][i] = fired[c][i]
      BY <1>1, <2>1, AppendedFiring
    <2>3. QED
      BY <1>2, <1>3, <2>2 DEF IsOld, IsRun
  <1>4. CASE c \notin sched.due
    <2>1. fired'[c] = fired[c]
      BY <1>4 DEF Fires
    <2>2. QED
      BY <1>2, <1>4, <2>1 DEF IsOld
  <1>5. QED
    BY <1>3, <1>4

\* Where the next times stand afterwards: beyond the time read, except those of rows
\* that came too late.
LEMMA FiresAdvances ==
    ASSUME CronTypeOK, DueIsAsRead, NEW f, Fires(f), NEW c \in Cron,
           crons'[c].next_run_at # NULL
    PROVE  /\ crons[c].next_run_at \in Nat /\ crons'[c].next_run_at \in Nat
           /\ c \in sched.due \/ c \notin overdue => crons'[c].next_run_at > sched.read
           /\ crons'[c].next_run_at >= crons[c].next_run_at
           /\ c \notin sched.due => crons'[c] = crons[c]
           /\ \A s \in Slots[c] : s < crons'[c].next_run_at /\ crons[c].next_run_at <= s
                 => c \in sched.due /\ s <= sched.read
  <1>1. sched.read \in Time /\ sched.read \in Nat /\ NULL \notin Nat
        /\ crons[c].next_run_at \in Nat \cup {NULL}
    BY FiringTypes
  <1>2. CASE c \in sched.due
    <2>1. /\ crons[c].next_run_at \in Nat /\ crons[c].next_run_at <= sched.read
          /\ crons'[c].next_run_at = NextSlot(c, sched.read)
      BY <1>2, RunIsFiring
    <2>2. /\ crons'[c].next_run_at \in Nat /\ crons'[c].next_run_at > sched.read
          /\ \A s \in Slots[c] : s > sched.read => crons'[c].next_run_at <= s
      BY <1>1, <2>1, NextSlotIsFirst
    <2>3. \A s \in Slots[c] : s \in Nat
      BY SlotsAssumption
    <2>4. QED
      BY <1>1, <1>2, <2>1, <2>2, <2>3
  <1>3. CASE c \notin sched.due
    <2>1. crons'[c] = crons[c]
      BY <1>3 DEF Fires
    <2>2. /\ crons[c].next_run_at \in Nat
          /\ c \notin overdue => crons[c].next_run_at > sched.read
      BY <1>1, <1>3, <2>1 DEF DueIsAsRead, Fires
    <2>3. \A s \in Slots[c] : s \in Nat
      BY SlotsAssumption
    <2>4. QED
      BY <1>3, <2>1, <2>2, <2>3
  <1>4. QED
    BY <1>2, <1>3

LEMMA FiresKeepsSlotsFireOnce ==
    ASSUME TypeOK, CronTypeOK, CronInv, NEW f, Fires(f)
    PROVE  SlotsFireOnce'
  <1> USE DEF CronInv
  <1>1. ASSUME NEW c \in Cron, NEW i \in DOMAIN fired'[c]
        PROVE  fired'[c][i].slot <= fired'[c][i].at
    <2>1. CASE IsOld(c, i)
      BY <2>1 DEF IsOld, SlotsFireOnce
    <2>2. CASE IsRun(f, c, i)
      BY <2>2, RunIsFiring DEF IsRun
    <2>3. QED
      BY <2>1, <2>2, FiresAppends
  <1>2. ASSUME NEW c \in Cron, NEW i \in DOMAIN fired'[c], NEW n \in DOMAIN fired'[c], n > i
        PROVE  fired'[c][i].at < fired'[c][n].slot
    <2>1. CASE IsOld(c, i) /\ IsOld(c, n)
      BY <1>2, <2>1 DEF IsOld, SlotsFireOnce
    <2>2. CASE IsOld(c, i) /\ IsRun(f, c, n)
      <3>1. /\ fired'[c][n].slot = crons[c].next_run_at /\ crons[c].next_run_at \in Nat
            /\ NULL \notin Nat
        BY <2>2, RunIsFiring, CronAssumption DEF IsRun
      <3>2. QED
        BY <2>2, <3>1 DEF IsOld, FiredArePast
    <2>3. CASE IsRun(f, c, i) /\ IsOld(c, n)
      BY <1>2, <2>3, FiresAppends, FiringTypes DEF IsOld, IsRun
    <2>4. CASE IsRun(f, c, i) /\ IsRun(f, c, n)
      BY <1>2, <2>4, FiringTypes, AppendedFiring DEF IsRun, CronTypeOK
    <2>5. QED
      BY <2>1, <2>2, <2>3, <2>4, FiresAppends
  <1>3. ASSUME NEW c \in Cron, NEW i \in DOMAIN fired'[c],
               NEW d \in Cron, NEW n \in DOMAIN fired'[d],
               fired'[d][n].job = fired'[c][i].job
        PROVE  d = c /\ n = i
    <2>1. ASSUME NEW a \in Cron, NEW k, IsOld(a, k), NEW b \in Cron, NEW m, IsRun(f, b, m)
          PROVE  fired'[a][k].job # fired'[b][m].job
      <3>1. jobs[fired'[a][k].job].status # "absent"
        BY <2>1 DEF IsOld, FiredArePast
      <3>2. fired'[b][m].job \in Absent
        BY <2>1, RunIsFiring DEF IsRun
      <3>3. QED
        BY <3>1, <3>2 DEF Absent
    <2>2. CASE IsOld(c, i) /\ IsOld(d, n)
      BY <1>3, <2>2 DEF IsOld, SlotsFireOnce
    <2>3. CASE IsRun(f, c, i) /\ IsRun(f, d, n)
      <3>1. f[c] = f[d] /\ c \in sched.due /\ d \in sched.due
        BY <1>3, <2>3, RunIsFiring DEF IsRun
      <3>2. c = d
        BY <3>1 DEF Fires, Injection, IsInjective
      <3>3. QED
        BY <2>3, <3>2 DEF IsRun
    <2>4. QED
      BY <1>3, <2>1, <2>2, <2>3, FiresAppends
  <1>4. QED
    BY <1>1, <1>2, <1>3 DEF SlotsFireOnce

LEMMA FiresKeepsSlotsAnswered ==
    ASSUME TypeOK, CronTypeOK, CronInv, NEW f, Fires(f)
    PROVE  SlotsAreAnswered'
  <1> USE DEF CronInv
  <1> SUFFICES ASSUME NEW c \in Cron, fired'[c] # << >>, NEW s \in Slots[c],
                      fired'[c][1].slot <= s, s < crons'[c].next_run_at
               PROVE  \E i \in DOMAIN fired'[c] :
                         fired'[c][i].slot <= s /\ s <= fired'[c][i].at
    BY DEF SlotsAreAnswered
  <1>1. s \in Nat /\ NULL \notin Nat /\ fired[c] \in Seq(Firing)
    BY SlotsAssumption, CronAssumption DEF CronTypeOK
  <1>2. CASE c \in sched.due
    <2>1. /\ Len(fired[c]) + 1 \in DOMAIN fired'[c] /\ IsRun(f, c, Len(fired[c]) + 1)
          /\ crons[c].next_run_at \in Nat
      BY <1>2, FiresAppends, RunIsFiring
    <2>2. /\ crons'[c].next_run_at # NULL
          /\ fired'[c][Len(fired[c]) + 1].slot = crons[c].next_run_at
          /\ fired'[c][Len(fired[c]) + 1].at = sched.read
      BY <1>1, <1>2, <2>1, RunIsFiring, NextSlotIsFirst, FiringTypes DEF IsRun
    <2>3. CASE crons[c].next_run_at <= s
      BY <2>1, <2>2, <2>3, FiresAdvances
    <2>4. CASE s < crons[c].next_run_at
      <3>1. fired[c] # << >>
        <4>1. SUFFICES ASSUME fired[c] = << >> PROVE FALSE
          OBVIOUS
        <4>2. fired'[c][1].slot = crons[c].next_run_at
          BY <2>2, <4>1
        <4>3. QED
          BY <1>1, <2>1, <2>4, <4>2
      <3>2. fired'[c][1] = fired[c][1]
        BY <3>1, FiringTypes, FiresAppends DEF IsOld
      <3>3. PICK i \in DOMAIN fired[c] : fired[c][i].slot <= s /\ s <= fired[c][i].at
        BY <2>4, <3>1, <3>2 DEF SlotsAreAnswered
      <3>4. QED
        BY <3>3, FiresAppends DEF IsOld
    <2>5. QED
      BY <1>1, <2>1, <2>3, <2>4
  <1>3. CASE c \notin sched.due
    BY <1>3 DEF Fires, SlotsAreAnswered
  <1>4. QED
    BY <1>2, <1>3

LEMMA FiresKeepsCronInv ==
    ASSUME TypeOK, CronTypeOK, CronInv, [CronNext]_allVars, NEW f, Fires(f)
    PROVE  CronInv'
  <1> USE DEF CronInv
  <1>1. DueIsAsRead'
    BY DEF Fires, AfterFiring, SchedAt, DueIsAsRead
  <1>2. UNCHANGED now /\ sched.read <= now /\ sched'.at # "cron" /\ sched.at = "cron"
    BY DEF Fires, AfterFiring, SchedAt, DueIsAsRead
  <1>3. PostedAreNew'
    <2> SUFFICES ASSUME NEW c \in Cron, posting[c] # NULL
                 PROVE  crons'[c].next_run_at = NULL
      BY DEF PostedAreNew, Fires
    <2>1. crons[c].next_run_at = NULL
      BY DEF PostedAreNew
    <2>2. c \notin sched.due
      BY <1>2, <2>1 DEF DueIsAsRead
    <2>3. QED
      BY <2>1, <2>2 DEF Fires
  <1>4. FiredArePast'
    <2> SUFFICES ASSUME NEW c \in Cron, NEW i \in DOMAIN fired'[c]
                 PROVE  /\ fired'[c][i].at <= now'
                        /\ crons'[c].next_run_at # NULL
                        /\ fired'[c][i].at < crons'[c].next_run_at
                        /\ jobs'[fired'[c][i].job].status # "absent"
      BY <1>2 DEF FiredArePast
    <2>1. CASE IsOld(c, i)
      <3>1. /\ fired[c][i].at <= now /\ crons[c].next_run_at # NULL
            /\ fired[c][i].at < crons[c].next_run_at
            /\ jobs'[fired[c][i].job].status # "absent"
        BY <2>1, JobsStay, FiringTypes DEF IsOld, FiredArePast
      <3>2. crons'[c].next_run_at # NULL
        <4>1. CASE c \in sched.due
          BY <4>1, RunIsFiring, NextSlotIsFirst, FiringTypes
        <4>2. CASE c \notin sched.due
          BY <3>1, <4>2 DEF Fires
        <4>3. QED
          BY <4>1, <4>2
      <3>3. fired[c][i].at < crons'[c].next_run_at
        <4>1. /\ crons[c].next_run_at \in Nat /\ crons'[c].next_run_at \in Nat
              /\ crons'[c].next_run_at >= crons[c].next_run_at
          BY <3>2, FiresAdvances
        <4>2. fired[c][i].at \in Nat
          BY <2>1, FiringTypes DEF IsOld
        <4>3. QED
          BY <3>1, <4>1, <4>2
      <3>4. QED
        BY <1>2, <2>1, <3>1, <3>2, <3>3 DEF IsOld
    <2>2. CASE IsRun(f, c, i)
      <3>1. fired'[c][i].at = sched.read /\ fired'[c][i].job = f[c] /\ f[c] \in Absent
        BY <2>2, RunIsFiring DEF IsRun
      <3>2. crons'[c].next_run_at # NULL /\ sched.read < crons'[c].next_run_at
        BY <2>2, RunIsFiring, NextSlotIsFirst, FiringTypes DEF IsRun
      <3>3. jobs'[f[c]].status = "queued"
        <4>1. f[c] \in Job /\ f[c] \in Range(f) /\ jobs[f[c]] \in Row
          BY <2>2, <3>1 DEF IsRun, Fires, Injection, Range, Absent, TypeOK
        <4>2. jobs'[f[c]] = Enqueued(jobs[f[c]])
          BY <4>1 DEF Fires
        <4>3. QED
          BY <4>1, <4>2 DEF Enqueued, Row
      <3>4. QED
        BY <1>2, <3>1, <3>2, <3>3
    <2>3. QED
      BY <2>1, <2>2, FiresAppends
  <1>5. DueRowsFireTogether'
    <2> SUFFICES ASSUME NEW c \in Cron, NEW d \in Cron, NEW i \in DOMAIN fired'[c],
                        crons'[d].next_run_at # NULL, d \notin overdue'
                 PROVE  fired'[c][i].at < crons'[d].next_run_at
      BY DEF DueRowsFireTogether
    <2>1. d \in sched.due \/ d \notin overdue
      BY DEF Fires
    <2>2. crons'[d].next_run_at \in Nat /\ crons'[d].next_run_at > sched.read
      BY <2>1, FiresAdvances
    <2>3. CASE IsOld(c, i)
      <3>1. fired[c][i].at \in Nat /\ fired[c][i].at <= sched.read
        BY <1>2, <2>3, FiringTypes DEF IsOld, FiredArePast
      <3>2. QED
        BY <2>2, <2>3, <3>1, FiringTypes DEF IsOld
    <2>4. CASE IsRun(f, c, i)
      BY <2>2, <2>4, RunIsFiring, FiringTypes DEF IsRun
    <2>5. QED
      BY <2>3, <2>4, FiresAppends
  <1>6. QED
    BY <1>1, <1>3, <1>4, <1>5, FiresKeepsSlotsFireOnce, FiresKeepsSlotsAnswered

LEMMA NextCronInv ==
    ASSUME TypeOK, CronTypeOK, CronInv, [CronNext]_allVars
    PROVE  CronInv'
  BY StepOfCrons, QuietKeepsCronInv, PostsKeepCronInv, CommitKeepsCronInv, FiresKeepsCronInv

-----------------------------------------------------------------------------
LEMMA CronInvHolds == CronSpec => [](TypeOK /\ CronTypeOK /\ CronInv)
  <1>1. CronInit => TypeOK /\ CronTypeOK /\ CronInv
    <2> SUFFICES ASSUME CronInit PROVE TypeOK /\ CronTypeOK /\ CronInv
      OBVIOUS
    <2>1. TypeOK /\ CronTypeOK
      BY InitTypeOK, InitCronTypeOK DEF CronInit
    <2>2. sched.at = "down" /\ \A c \in Cron : fired[c] = << >> /\ posting[c] = NULL
      BY DEF CronInit, SchedAt
    <2>3. QED
      BY <2>1, <2>2 DEF CronInv, PostedAreNew, DueIsAsRead, FiredArePast, SlotsFireOnce,
                        SlotsAreAnswered, DueRowsFireTogether
  <1>2. ASSUME TypeOK, CronTypeOK, CronInv, [CronNext]_allVars
        PROVE  TypeOK' /\ CronTypeOK' /\ CronInv'
    BY <1>2, NextJobsTypeOK, NextCronTypeOK, NextCronInv DEF CronInv
  <1>3. QED
    BY <1>1, <1>2, PTL DEF CronSpec

\* The scheduler's variables keep their types, and so do those of the job processing
\* that it is composed with: the jobs it enqueues are proper rows.
THEOREM CronTypeCorrect == CronSpec => [](TypeOK /\ CronTypeOK)
  BY CronInvHolds, PTL

\* However often the scheduler crashes between reading and writing, and whatever
\* rows are committed meanwhile, however late, no slot leads to two jobs.
THEOREM SlotsAlwaysFireOnce == CronSpec => []SlotsFireOnce
  <1>1. CronInv => SlotsFireOnce
    BY DEF CronInv
  <1>2. QED
    BY <1>1, CronInvHolds, PTL

\* ... and none is passed over.
THEOREM SlotsAreAlwaysAnswered == CronSpec => []SlotsAreAnswered
  <1>1. CronInv => SlotsAreAnswered
    BY DEF CronInv
  <1>2. QED
    BY <1>1, CronInvHolds, PTL

\* A tick fires every row that is due at the time it has read, but for those whose
\* POST was committed too late for it.
THEOREM DueRowsAlwaysFireTogether == CronSpec => []DueRowsFireTogether
  <1>1. CronInv => DueRowsFireTogether
    BY DEF CronInv
  <1>2. QED
    BY <1>1, CronInvHolds, PTL

-----------------------------------------------------------------------------
(* Job processing under the scheduler *)

\* The safety of JobProcessing, and what its induction needs.
ProcessingInv ==
    /\ TypeOK
    /\ RowsAgree
    /\ LockedRowsStayQueued
    /\ InFlightHasTask
    /\ CapacityInv
    /\ ProcessesCounted
    /\ ExposureBounded
    /\ HistoryInv
    /\ AttemptsAccounted
    /\ DeathsAccounted

\* Firing gives rows to jobs that had none, and touches no other row.
LEMMA FiresRows ==
    ASSUME TypeOK, RowsAgree, NEW f, Fires(f), NEW j \in Job
    PROVE  \/ jobs'[j] = jobs[j]
           \/ /\ jobs[j].status = "absent" /\ jobs[j].version = 0
              /\ jobs'[j].status = "queued" /\ jobs'[j].version = 1
              /\ jobs'[j].claimed_by = NULL
              /\ jobs'[j].attempt_count = jobs[j].attempt_count
  <1>1. CASE j \in Range(f)
    <2>1. jobs[j].status = "absent"
      BY <1>1 DEF Fires, Injection, Absent, Range
    <2>2. jobs[j] = NoRow /\ jobs'[j] = Enqueued(jobs[j])
      BY <1>1, <2>1 DEF RowsAgree, Fires
    <2>3. QED
      BY <2>1, <2>2 DEF NoRow, Enqueued
  <1>2. CASE j \notin Range(f)
    BY <1>2 DEF Fires
  <1>3. QED
    BY <1>1, <1>2

LEMMA FiresKeepsProcessing ==
    ASSUME ProcessingInv, NEW f, Fires(f)
    PROVE  ProcessingInv'
  <1> USE DEF ProcessingInv
  <1>1. UNCHANGED <<dlq, execs, proc, active, poll, tasks, lost>>
    BY DEF Fires
  <1>2. TypeOK' /\ \A j \in Job : jobs[j] \in Row /\ jobs'[j] \in Row
    BY FiresTypeOK DEF TypeOK
  <1>3. RowsAgree'
    BY FiresRows DEF RowsAgree
  <1>4. LockedRowsStayQueued'
    <2>1. Locked \subseteq Job /\ Locked' = Locked
      BY <1>1 DEF Locked, TypeOK, Poll
    <2>2. QED
      BY <1>1, <2>1, FiresRows DEF LockedRowsStayQueued
  <1>5. InFlightHasTask'
    BY <1>1, FiresRows DEF InFlightHasTask
  <1>6. \A t \in tasks \cup lost :
           /\ t.job \in Job /\ t.claim \in Nat
           /\ t.claim <= jobs[t.job].version => t.claim <= jobs'[t.job].version
    <2>1. \A t \in tasks \cup lost : t.job \in Job /\ t.claim \in Nat
      BY DEF TypeOK, Task
    <2>2. QED
      BY <1>2, <2>1, FiresRows
  <1>7. CapacityInv'
    BY <1>1, <1>6 DEF CapacityInv, ClaimsArePast, ClaimsIdentifyTasks, CapacityRespected,
                      TasksOf
  <1>8. HistoryInv'
    BY <1>1, <1>6 DEF HistoryInv, LostClaimsArePast, LostAreGone
  <1>9. AttemptsAccounted'
    <2>1. \A j \in Job : jobs'[j].attempt_count = jobs[j].attempt_count
      BY FiresRows
    <2>2. QED
      BY <1>1, <2>1 DEF AttemptsAccounted, Begun
  <1>10. DeathsAccounted'
    <2>1. \A j \in Job : jobs'[j].status = "dead" => jobs[j].status = "dead"
      BY FiresRows
    <2>2. QED
      BY <1>1, <2>1 DEF DeathsAccounted, RowsOf
  <1>11. Processes' = Processes /\ ProcessesCounted'
    BY <1>1 DEF Processes, ProcessesCounted, TasksOf
  <1>12. ExposureBounded'
    <2> SUFFICES ASSUME NEW q \in Queue, Limit[q] > 0
                 PROVE  Exposure(q)' <= ExposureBound(q)'
      BY DEF ExposureBounded
    <2>1. RunningRows(q)' \subseteq RunningRows(q)
      BY FiresRows DEF RunningRows
    <2>2. /\ AboutToRun(q)' = AboutToRun(q) /\ AboutToClaim(q)' = AboutToClaim(q)
          /\ AboutToSelect(q)' = AboutToSelect(q)
      BY <1>1 DEF AboutToRun, AboutToClaim, Locked, AboutToSelect
    <2>3. Exposure(q) <= ExposureBound(q)
      BY DEF ExposureBounded
    <2>4. QED
      BY <1>11, <2>1, <2>2, <2>3, QuietSteps
  <1>13. QED
    BY <1>2, <1>3, <1>4, <1>5, <1>7, <1>8, <1>9, <1>10, <1>11, <1>12

LEMMA ProcessingInvHolds == CronSpec => []ProcessingInv
  <1>1. CronInit => ProcessingInv
    BY InitTypeOK, InitRowsAgree, InitLockedRows, InitInFlight, InitCapacity, InitExposure,
       InitHistory, InitAttempts, InitDeaths DEF CronInit, ProcessingInv
  <1>2. ProcessingInv /\ [Next]_vars => ProcessingInv'
    BY NextTypeOK, NextKeepsRowsAgree, NextLockedRowsStayQueued, NextKeepsInFlight,
       NextKeepsCapacity, NextKeepsProcesses, NextKeepsExposure, NextKeepsHistory,
       NextKeepsAttempts, NextKeepsDeaths
       DEF ProcessingInv
  <1>3. ProcessingInv /\ [CronNext]_allVars => ProcessingInv'
    BY <1>2, StepOfProcessing, FiresKeepsProcessing
  <1>4. QED
    BY <1>1, <1>3, PTL DEF CronSpec

\* What is proved of the rows, the locks, the coroutines and the records of job
\* processing holds beside a scheduler that writes many rows at once, while locks
\* are held and coroutines are at work.
THEOREM ProcessingStaysSafe ==
    CronSpec => [](/\ RowsAgree /\ LockedRowsStayQueued /\ InFlightHasTask
                   /\ CapacityRespected /\ LimitOverrunBounded
                   /\ AttemptsAccounted /\ DeathsAccounted)
  <1>1. ProcessingInv => /\ RowsAgree /\ LockedRowsStayQueued /\ InFlightHasTask
                         /\ CapacityRespected /\ LimitOverrunBounded
                         /\ AttemptsAccounted /\ DeathsAccounted
    BY ExposureBoundsOverrun DEF ProcessingInv, CapacityInv
  <1>2. QED
    BY <1>1, ProcessingInvHolds, PTL

\* No job is claimed twice without having been requeued in between, whatever else
\* the scheduler enqueues in the same moment.
THEOREM ClaimsStayExclusive == CronSpec => ClaimsComeFromQueue
  <1>1. ASSUME ProcessingInv, [CronNext]_allVars
        PROVE  [\A j \in Job :
                  jobs'[j].status = "claimed" /\ jobs'[j].version # jobs[j].version
                    => jobs[j].status = "queued"]_vars
    <2> SUFFICES ASSUME NEW j \in Job, jobs'[j].status = "claimed",
                        jobs'[j].version # jobs[j].version
                 PROVE  jobs[j].status = "queued"
      OBVIOUS
    <2>1. ASSUME NEW f, Fires(f) PROVE FALSE
      BY <1>1, <2>1, FiresRows DEF ProcessingInv
    <2>2. QED
      BY <1>1, <2>1, StepOfProcessing, OnlyQueuedAreClaimed DEF ProcessingInv
  <1>2. QED
    BY <1>1, ProcessingInvHolds, PTL DEF CronSpec, ClaimsComeFromQueue
=============================================================================
