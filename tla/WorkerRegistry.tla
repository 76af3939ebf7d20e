--------------------------- MODULE WorkerRegistry ---------------------------
(***************************************************************************)
(* The workers table and its event log: worker processes that register,    *)
(* send heartbeats and deregister, and starting workers that look for lost *)
(* ones.                                                                   *)
(*                                                                         *)
(* detect_lost_workers reads the table in one statement and updates what   *)
(* it found in a later one, by id: two actions here.  A heartbeat takes    *)
(* its time when its round begins and is in the table when it is           *)
(* committed: two actions as well.  Every other transaction is one step,   *)
(* taken at the commit.                                                    *)
(*                                                                         *)
(* Time is discrete; last_heartbeat_at is kept as the time since.  Nothing *)
(* bounds how long a step takes.  A worker whose steps took longer than    *)
(* Lag or Interval allows is recorded in the history variable late.        *)
(***************************************************************************)
EXTENDS Naturals

CONSTANTS
    Worker,         \* identities of worker processes; one per process start
    Interval,       \* worker_heartbeat_interval_sec, in clock ticks
    Timeout,        \* worker_heartbeat_timeout_sec, in clock ticks
    Lag,            \* the longest a heartbeat of a prompt worker takes
    MaxFaults       \* bound: crashes, stop signals and database errors

ASSUME IntervalAssumption == Interval \in Nat \ {0}
ASSUME TimeoutAssumption == Timeout \in Nat
ASSUME LagAssumption == Lag \in Nat
ASSUME FaultsAssumption == MaxFaults \in Nat

VARIABLES
    workers,    \* the workers table
    events,     \* the worker_events table: the types of each worker's events
    proc,       \* where the process of each worker is
    stop,       \* processes whose _shutdown is set
    found,      \* what a detector has selected and not updated yet
    spent,      \* ticks a live process has been where it is
    missed,     \* history: beats in a row that failed
    late,       \* history: workers that once were behind what is allowed
    faults      \* faults so far

vars == <<workers, events, proc, stop, found, spent, missed, late, faults>>

-----------------------------------------------------------------------------
\* Silences beyond the timeout are all alike to the detector.
Silence == 0 .. Timeout + 1

Longer(s) == IF s <= Timeout THEN s + 1 ELSE s

\* "absent" is a worker without a row.
Row == [status : {"absent", "online", "offline", "lost"}, silence : Silence]

\* "recovered" is declared as an event type too; nothing emits it.  How often an
\* event was recorded, and in which order, is left out: occurred_at is the time
\* at which the transaction began, which is not the order of their effects.
Event == {"started", "stopped", "lost"}

\* "registered" is about to look for lost workers, "detecting" has selected them.
\* Then the heartbeat loop is in a round, "beating", or between two, "waiting".
Starting == {"registered", "detecting"}
Running == {"beating", "waiting"}
Live == Starting \cup Running
ProcState == {"new", "stopped", "crashed"} \cup Live

TypeOK ==
    /\ workers \in [Worker -> Row]
    /\ events \in [Worker -> SUBSET Event]
    /\ proc \in [Worker -> ProcState]
    /\ stop \subseteq Worker
    /\ found \in [Worker -> SUBSET Worker]
    /\ spent \in [Worker -> 0 .. Interval + Lag + 1]
    /\ missed \in [Worker -> Nat]
    /\ late \subseteq Worker
    /\ faults \in 0 .. MaxFaults

Init ==
    /\ workers = [w \in Worker |-> [status |-> "absent", silence |-> 0]]
    /\ events = [w \in Worker |-> {}]
    /\ proc = [w \in Worker |-> "new"]
    /\ stop = {}
    /\ found = [w \in Worker |-> {}]
    /\ spent = [w \in Worker |-> 0]
    /\ missed = [w \in Worker |-> 0]
    /\ late = {}
    /\ faults = 0

\* The process is in state s from now on.
Enters(w, s) ==
    /\ proc' = [proc EXCEPT ![w] = s]
    /\ spent' = [spent EXCEPT ![w] = 0]

\* The process ends in state s, and what was in its memory with it.
Leave(w, s) ==
    /\ Enters(w, s)
    /\ found' = [found EXCEPT ![w] = {}]
    /\ missed' = [missed EXCEPT ![w] = 0]

Fault == faults < MaxFaults /\ faults' = faults + 1

\* Mutant: the update is by id, the events are for those still online.
Mark_Rechecked(S, st, e) ==
    /\ workers' = [w \in Worker |-> IF w \in S THEN [workers[w] EXCEPT !.status = st]
                                    ELSE workers[w]]
    /\ events' = [w \in Worker |-> IF w \in S /\ workers[w].status = "online"
                                   THEN events[w] \cup {e} ELSE events[w]]

\* The status of the workers of S becomes st, and each of them gets the event e.
\* The update is by id: the status a row has by then does not matter.
Mark(S, st, e) ==
    /\ workers' = [w \in Worker |-> IF w \in S THEN [workers[w] EXCEPT !.status = st]
                                    ELSE workers[w]]
    /\ events' = [w \in Worker |-> IF w \in S THEN events[w] \cup {e} ELSE events[w]]

-----------------------------------------------------------------------------
(* Starting *)

\* The row has the time at which it was made, before its INSERT and commit.  Older
\* than Lag + 1 it gets by the ticks that follow.
Register(w) ==
    /\ proc[w] = "new"
    /\ \E age \in {a \in Silence : a <= Lag + 1} :
        /\ workers' = [workers EXCEPT ![w] = [status |-> "online", silence |-> age]]
        /\ late' = IF age > Lag THEN late \cup {w} ELSE late
    /\ events' = [events EXCEPT ![w] = @ \cup {"started"}]
    /\ Enters(w, "registered")
    /\ UNCHANGED <<stop, found, missed, faults>>

\* Mutant: a worker is lost as soon as it has been silent for the timeout.
IsSilent_AtTimeout(v) == workers[v].status = "online" /\ workers[v].silence >= Timeout

IsSilent(v) == workers[v].status = "online" /\ workers[v].silence > Timeout

\* The SELECT of detect_lost_workers, at the start-up of w and never again.
DetectSelect(w) ==
    /\ proc[w] = "registered"
    /\ found' = [found EXCEPT ![w] = {v \in Worker : IsSilent(v)}]
    /\ proc' = [proc EXCEPT ![w] = "detecting"]
    /\ UNCHANGED <<workers, events, stop, spent, missed, late, faults>>

\* Both loops start, the heartbeat loop with a round, unless the worker is to stop:
\* then there is nothing left but to deregister.
StartLoops(w) ==
    IF w \in stop THEN proc' = [proc EXCEPT ![w] = "waiting"] /\ UNCHANGED spent
    ELSE Enters(w, "beating")

\* Mutant: a worker that has been told to stop skips the update.
DetectCommit_UnlessStopping(w) ==
    /\ proc[w] = "detecting"
    /\ Mark(IF w \in stop THEN {} ELSE found[w], "lost", "lost")
    /\ found' = [found EXCEPT ![w] = {}]
    /\ StartLoops(w)
    /\ UNCHANGED <<stop, missed, late, faults>>

\* Its UPDATE and its events, the recovery of claims and the commit.
DetectCommit(w) ==
    /\ proc[w] = "detecting"
    /\ Mark(found[w], "lost", "lost")
    /\ found' = [found EXCEPT ![w] = {}]
    /\ StartLoops(w)
    /\ UNCHANGED <<stop, missed, late, faults>>

-----------------------------------------------------------------------------
(* The heartbeat loop *)

\* The interval since the last round is over, and the next one begins.
BeatBegin(w) ==
    /\ proc[w] = "waiting"
    /\ w \notin stop
    /\ spent[w] >= Interval
    /\ Enters(w, "beating")
    /\ UNCHANGED <<workers, events, stop, found, missed, late, faults>>

\* A beat is no older than its round; how long a round lasts beyond Lag is not
\* counted.
IsAgeOfBeat(w, age) ==
    /\ age <= workers[w].silence
    /\ spent[w] <= Lag => age <= spent[w]

\* Mutant: a heartbeat brings its worker back online.
Beat_Revives(w) ==
    /\ proc[w] = "beating"
    /\ \E age \in Silence :
        /\ IsAgeOfBeat(w, age)
        /\ workers' = [workers EXCEPT ![w] = [status |-> "online", silence |-> age]]
    /\ Enters(w, "waiting")
    /\ missed' = [missed EXCEPT ![w] = 0]
    /\ UNCHANGED <<events, stop, found, late, faults>>

\* The beat writes the time of the heartbeat, and not the status.  A stop signal
\* does not interrupt it.
Beat(w) ==
    /\ proc[w] = "beating"
    /\ \E age \in Silence :
        /\ IsAgeOfBeat(w, age)
        /\ workers' = [workers EXCEPT ![w].silence = age]
    /\ Enters(w, "waiting")
    /\ missed' = [missed EXCEPT ![w] = 0]
    /\ UNCHANGED <<events, stop, found, late, faults>>

\* The silence of a worker whose last m beats failed, at its longest: an age of Lag
\* when the last good one was committed, and m + 1 rounds after it, each of them
\* after a wait of Interval.
LongestSilence(m) == Lag + (m + 1) * (Interval + Lag)

\* heartbeat_error is logged, and the loop waits for the next interval.
BeatFails(w) ==
    /\ proc[w] = "beating"
    /\ Fault
    /\ missed' = [missed EXCEPT ![w] = @ + 1]
    /\ late' = IF LongestSilence(missed'[w]) > Timeout THEN late \cup {w} ELSE late
    /\ Enters(w, "waiting")
    /\ UNCHANGED <<workers, events, stop, found>>

-----------------------------------------------------------------------------
(* Stopping *)

\* SIGTERM or SIGINT.  The handlers are installed before the worker registers,
\* and the start-up goes on.
Shutdown(w) ==
    /\ proc[w] \in Live
    /\ w \notin stop
    /\ Fault
    /\ stop' = stop \cup {w}
    /\ UNCHANGED <<workers, events, proc, found, spent, missed, late>>

\* Mutant: the status of the process instead of WorkerStatus.OFFLINE.
Deregister_WrongStatus(w) ==
    /\ proc[w] = "waiting"
    /\ w \in stop
    /\ Mark({w}, "stopped", "stopped")
    /\ Leave(w, "stopped")
    /\ UNCHANGED <<stop, late, faults>>

\* Mutant: the stop is recorded only for a worker that is online.
Deregister_IfOnline(w) ==
    /\ proc[w] = "waiting"
    /\ w \in stop
    /\ Mark(IF workers[w].status = "lost" THEN {} ELSE {w}, "offline", "stopped")
    /\ Leave(w, "stopped")
    /\ UNCHANGED <<stop, late, faults>>

\* Both loops have returned.
Deregister(w) ==
    /\ proc[w] = "waiting"
    /\ w \in stop
    /\ Mark({w}, "offline", "stopped")
    /\ Leave(w, "stopped")
    /\ UNCHANGED <<stop, late, faults>>

\* deregister_error is logged: the process ends and its row stays as it is.
DeregisterFails(w) ==
    /\ proc[w] = "waiting"
    /\ w \in stop
    /\ Fault
    /\ Leave(w, "stopped")
    /\ UNCHANGED <<workers, events, stop, late>>

\* The process dies, or its start-up recovery raises, which nothing catches: in
\* both cases without deregistering, and without committing what it was about to.
Crash(w) ==
    /\ proc[w] \in Live
    /\ Fault
    /\ Leave(w, "crashed")
    /\ UNCHANGED <<workers, events, stop, late>>

-----------------------------------------------------------------------------
\* What is allowed: Lag for a round of the heartbeat, and Interval for the wait
\* between two, for the start-up, and to the deregistration from the end of a round
\* or, for a worker told to stop before its first, from its registration.
Allowed(w) == IF proc[w] = "beating" THEN Lag ELSE Interval

Tick ==
    /\ workers' = [w \in Worker |-> IF workers[w].status = "absent" THEN workers[w]
                                    ELSE [workers[w] EXCEPT !.silence = Longer(@)]]
    /\ spent' = [w \in Worker |-> IF proc[w] \in Live /\ spent[w] <= Allowed(w)
                                  THEN spent[w] + 1 ELSE spent[w]]
    /\ late' = late \cup {w \in Worker : proc[w] \in Live /\ spent[w] >= Allowed(w)}
    /\ UNCHANGED <<events, proc, stop, found, missed, faults>>

StartUp(w) == DetectSelect(w) \/ DetectCommit(w)

Next ==
    \/ \E w \in Worker :
        \/ Register(w) \/ StartUp(w)
        \/ BeatBegin(w) \/ Beat(w) \/ BeatFails(w)
        \/ Shutdown(w) \/ Deregister(w) \/ DeregisterFails(w) \/ Crash(w)
    \/ Tick

\* The event loop runs what is ready, and time passes.  Nobody has to start.
Fairness ==
    /\ \A w \in Worker : /\ WF_vars(StartUp(w)) /\ WF_vars(BeatBegin(w))
                         /\ WF_vars(Beat(w)) /\ WF_vars(Deregister(w))
    /\ WF_vars(Tick)

Spec == Init /\ [][Next]_vars /\ Fairness

-----------------------------------------------------------------------------
Status(w) == workers[w].status

HasDeregistered(w) == "stopped" \in events[w]

\* A worker that keeps its times, that is, whose start-up and rounds take no longer
\* than allowed and which never misses more beats in a row than the timeout has
\* room for, is not reported lost while it lives, nor is its row turned from
\* OFFLINE to LOST once it has deregistered, however the two steps of any number
\* of detectors fall between its beats and its stop.
PromptWorkersAreNotLost ==
    \A w \in Worker :
        Status(w) = "lost" /\ w \notin late
            => proc[w] \notin Live /\ ~HasDeregistered(w)

\* The event log accounts for the status, also of a worker that stops between the
\* two steps of a detector, or that two detectors report: a worker is ONLINE
\* exactly as long as its start is all there is in its log, LOST only with a report,
\* OFFLINE only with a stop.  Which of the two came last the log cannot tell.
EventsAccountForStatus ==
    \A w \in Worker :
        /\ Status(w) = "absent" <=> events[w] = {}
        /\ Status(w) = "online" <=> events[w] = {"started"}
        /\ Status(w) # "absent" => "started" \in events[w]
        /\ Status(w) = "lost" => "lost" \in events[w]
        /\ Status(w) = "offline" => "stopped" \in events[w]

\* LOST is not undone by a worker that turns out to be alive: it works and beats
\* on under LOST until it deregisters.  A worker that left ONLINE never returns.
LostWorkersStayLost ==
    [][\A w \in Worker :
        /\ Status(w) = "lost" => Status(w)' = "lost" \/ proc'[w] = "stopped"
        /\ Status(w) \in {"offline", "lost"} => Status(w)' # "online"]_vars

\* A worker that dies without deregistering is reported by the first worker that
\* starts after the timeout and gets through its start-up.
SilentWorkersAreReported ==
    \A w \in Worker : \A v \in Worker \ {w} :
        IsSilent(v) /\ proc[v] \notin Live /\ proc[w] = "registered"
            ~> Status(v) # "online" \/ proc[w] = "crashed"

\* A worker told to stop gets to be OFFLINE, also when it has been reported LOST,
\* unless a fault hits it on the way.  It stays OFFLINE if it has kept its times;
\* one that was late may have been selected by a detector, whose update comes
\* after the stop and makes it LOST.
StoppedWorkersGoOffline ==
    \A w \in Worker :
        w \in stop /\ proc[w] \in Live /\ faults = MaxFaults
            ~> Status(w) = "offline" /\ [](Status(w) = "offline" \/ w \in late)
=============================================================================
