------------------------- MODULE WorkerRegistryProofs -------------------------
(***************************************************************************)
(* Theorems about WorkerRegistry, for any number of workers and detectors  *)
(* and any interval, timeout and lag.                                      *)
(***************************************************************************)
EXTENDS WorkerRegistry, TLAPS

\* A worker has a log exactly if it has registered.
LogsBeginAtRegistration == \A w \in Worker : events[w] = {} <=> proc[w] = "new"

\* Only registered workers are found silent.
FoundAreRegistered == \A w \in Worker : \A v \in found[w] : proc[v] # "new"

LogInv ==
    /\ LogsBeginAtRegistration
    /\ FoundAreRegistered
    /\ EventsAccountForStatus

\* Deregistering is the last thing a process does.
StoppedHaveLeft ==
    \A w \in Worker :
        HasDeregistered(w) => proc[w] = "stopped" /\ Status(w) \in {"offline", "lost"}

\* What m missed beats add to a silence.
Room(m) == m * (Interval + Lag)

\* How silent a worker may be that has been where it is for n ticks and has missed m
\* beats: a beat ends with an age of at most Lag, a round is preceded by a wait.
SilenceDue(w, m, n) ==
    Lag + Room(m) + n + (IF proc[w] = "beating" THEN Interval ELSE 0)

\* The silence of a live worker is accounted for by where it is, by how long it
\* has been there, and by the beats it has missed.
SilenceIsAccounted ==
    \A w \in Worker \ late :
        proc[w] \in Live =>
            /\ spent[w] <= Allowed(w)
            /\ workers[w].silence <= SilenceDue(w, missed[w], spent[w])

\* What makes a worker late.
MissedIsTolerated == \A w \in Worker \ late : LongestSilence(missed[w]) <= Timeout

\* A prompt worker is selected by a detector only after it has died.
FoundHaveDied ==
    \A v \in Worker : \A w \in found[v] \ late :
        proc[w] \in {"stopped", "crashed"} /\ ~HasDeregistered(w)

PromptInv ==
    /\ StoppedHaveLeft
    /\ SilenceIsAccounted
    /\ MissedIsTolerated
    /\ FoundHaveDied
    /\ PromptWorkersAreNotLost
-----------------------------------------------------------------------------
(* The operators of the model *)

LEMMA LongerIsSilence ==
    ASSUME NEW s \in Silence
    PROVE  Longer(s) \in Silence /\ Longer(s) <= s + 1 /\ s \in Nat /\ Longer(s) \in Nat
  BY TimeoutAssumption DEF Silence, Longer

\* An update by id: the workers of S, and no others, get the status and the event.
LEMMA MarkKeepsTypes ==
    ASSUME TypeOK, NEW S \in SUBSET Worker, NEW st \in {"offline", "lost"},
           NEW e \in Event, Mark(S, st, e)
    PROVE  workers' \in [Worker -> Row] /\ events' \in [Worker -> SUBSET Event]
  <1>1. \A w \in Worker : [workers[w] EXCEPT !.status = st] \in Row
    BY DEF TypeOK, Row
  <1>2. \A w \in Worker : events[w] \cup {e} \in SUBSET Event
    BY DEF TypeOK
  <1>3. QED
    BY <1>1, <1>2 DEF TypeOK, Mark

LEMMA SpentBounds ==
    /\ 0 .. Interval + Lag + 1 \subseteq Nat
    /\ 0 \in 0 .. Interval + Lag + 1
    /\ \A n \in 0 .. Interval + Lag + 1, w \in Worker :
          n <= Allowed(w) => n + 1 \in 0 .. Interval + Lag + 1
  BY IntervalAssumption, LagAssumption DEF Allowed

LEMMA EntersKeepsTypes ==
    ASSUME TypeOK, NEW w \in Worker, NEW s \in ProcState, Enters(w, s)
    PROVE  /\ proc' \in [Worker -> ProcState]
           /\ spent' \in [Worker -> 0 .. Interval + Lag + 1]
  BY SpentBounds DEF TypeOK, Enters

LEMMA LeaveKeepsTypes ==
    ASSUME TypeOK, NEW w \in Worker, NEW s \in {"stopped", "crashed"}, Leave(w, s)
    PROVE  /\ proc' \in [Worker -> ProcState] /\ found' \in [Worker -> SUBSET Worker]
           /\ spent' \in [Worker -> 0 .. Interval + Lag + 1]
           /\ missed' \in [Worker -> Nat]
  <1>1. s \in ProcState
    BY DEF ProcState
  <1>2. QED
    BY <1>1, EntersKeepsTypes DEF TypeOK, Leave

-----------------------------------------------------------------------------
(* Type correctness *)

LEMMA InitTypeOK == Init => TypeOK
  BY SpentBounds, TimeoutAssumption, FaultsAssumption
     DEF Init, TypeOK, Row, Silence, ProcState

LEMMA NextTypeOK == TypeOK /\ [Next]_vars => TypeOK'
  <1> SUFFICES ASSUME TypeOK, [Next]_vars PROVE TypeOK'
    OBVIOUS
  <1> USE FaultsAssumption
  <1>0. {"registered", "detecting", "beating", "waiting"} \subseteq ProcState
    BY DEF ProcState, Live, Starting, Running
  <1>1. ASSUME NEW w \in Worker, Register(w) PROVE TypeOK'
    <2>1. \A age \in Silence : [status |-> "online", silence |-> age] \in Row
      BY DEF Row
    <2>2. PICK age \in Silence :
             workers' = [workers EXCEPT ![w] = [status |-> "online", silence |-> age]]
      BY <1>1 DEF Register
    <2>3. workers' \in [Worker -> Row] /\ late' \subseteq Worker
      BY <1>1, <2>1, <2>2 DEF TypeOK, Register
    <2>4. events' \in [Worker -> SUBSET Event]
      BY <1>1 DEF TypeOK, Register, Event
    <2>5. QED
      BY <1>0, <1>1, <2>3, <2>4, EntersKeepsTypes DEF TypeOK, Register
  <1>2. ASSUME NEW w \in Worker, DetectSelect(w) PROVE TypeOK'
    BY <1>0, <1>2 DEF TypeOK, DetectSelect
  <1>3. ASSUME NEW w \in Worker, DetectCommit(w) PROVE TypeOK'
    <2>1. workers' \in [Worker -> Row] /\ events' \in [Worker -> SUBSET Event]
      BY <1>3, MarkKeepsTypes DEF TypeOK, DetectCommit, Event
    <2>2. /\ proc' \in [Worker -> ProcState]
          /\ spent' \in [Worker -> 0 .. Interval + Lag + 1]
      <3>1. CASE w \in stop
        BY <1>0, <1>3, <3>1 DEF TypeOK, DetectCommit, StartLoops
      <3>2. CASE w \notin stop
        BY <1>0, <1>3, <3>2, EntersKeepsTypes DEF DetectCommit, StartLoops
      <3>3. QED
        BY <3>1, <3>2
    <2>3. QED
      BY <1>3, <2>1, <2>2 DEF TypeOK, DetectCommit
  <1>4. ASSUME NEW w \in Worker, BeatBegin(w) PROVE TypeOK'
    BY <1>0, <1>4, EntersKeepsTypes DEF TypeOK, BeatBegin
  <1>5. ASSUME NEW w \in Worker, Beat(w) PROVE TypeOK'
    <2>1. \A age \in Silence : [workers[w] EXCEPT !.silence = age] \in Row
      BY DEF TypeOK, Row
    <2>2. PICK age \in Silence :
             workers' = [workers EXCEPT ![w] = [workers[w] EXCEPT !.silence = age]]
      BY <1>5 DEF TypeOK, Beat
    <2>3. workers' \in [Worker -> Row]
      BY <2>1, <2>2 DEF TypeOK
    <2>4. QED
      BY <1>0, <1>5, <2>3, EntersKeepsTypes DEF TypeOK, Beat
  <1>6. ASSUME NEW w \in Worker, BeatFails(w) PROVE TypeOK'
    BY <1>0, <1>6, EntersKeepsTypes DEF TypeOK, BeatFails, Fault
  <1>7. ASSUME NEW w \in Worker, Shutdown(w) PROVE TypeOK'
    BY <1>7 DEF TypeOK, Shutdown, Fault
  <1>8. ASSUME NEW w \in Worker, Deregister(w) PROVE TypeOK'
    <2>1. workers' \in [Worker -> Row] /\ events' \in [Worker -> SUBSET Event]
      BY <1>8, MarkKeepsTypes DEF Deregister, Event
    <2>2. QED
      BY <1>8, <2>1, LeaveKeepsTypes DEF TypeOK, Deregister
  <1>9. ASSUME NEW w \in Worker, DeregisterFails(w) PROVE TypeOK'
    BY <1>9, LeaveKeepsTypes DEF TypeOK, DeregisterFails, Fault
  <1>10. ASSUME NEW w \in Worker, Crash(w) PROVE TypeOK'
    BY <1>10, LeaveKeepsTypes DEF TypeOK, Crash, Fault
  <1>11. CASE Tick
    <2>1. \A w \in Worker : [workers[w] EXCEPT !.silence = Longer(@)] \in Row
      BY LongerIsSilence DEF TypeOK, Row
    <2>2. workers' \in [Worker -> Row]
      BY <1>11, <2>1 DEF TypeOK, Tick
    <2>3. spent' \in [Worker -> 0 .. Interval + Lag + 1]
      BY <1>11, SpentBounds DEF TypeOK, Tick
    <2>4. QED
      BY <1>11, <2>2, <2>3 DEF TypeOK, Tick
  <1>12. CASE UNCHANGED vars
    BY <1>12 DEF TypeOK, vars
  <1>13. QED
    BY <1>1, <1>2, <1>3, <1>4, <1>5, <1>6, <1>7, <1>8, <1>9, <1>10, <1>11, <1>12
       DEF Next, StartUp

\* The two tables and the processes' memory keep their types.
THEOREM RegistryTypeCorrect == Spec => []TypeOK
  BY InitTypeOK, NextTypeOK, PTL DEF Spec

-----------------------------------------------------------------------------
(* The event log *)

\* EventsAccountForStatus for one worker.
Accounts(log, st) ==
    /\ st = "absent" <=> log = {}
    /\ st = "online" <=> log = {"started"}
    /\ st # "absent" => "started" \in log
    /\ st = "lost" => "lost" \in log
    /\ st = "offline" => "stopped" \in log

LEMMA AccountsByWorker ==
    EventsAccountForStatus <=> \A w \in Worker : Accounts(events[w], Status(w))
  BY DEF EventsAccountForStatus, Accounts

\* A log that has begun accounts for the status when both are marked.
LEMMA MarkKeepsLogs ==
    ASSUME TypeOK, EventsAccountForStatus, NEW S \in SUBSET Worker,
           \A v \in S : events[v] # {}, NEW st, NEW e,
           (st = "lost" /\ e = "lost") \/ (st = "offline" /\ e = "stopped"), Mark(S, st, e)
    PROVE  /\ EventsAccountForStatus'
           /\ \A w \in Worker : events'[w] = {} <=> events[w] = {}
  <1>1. ASSUME NEW w \in Worker
        PROVE  /\ Accounts(events'[w], workers'[w].status)
               /\ events'[w] = {} <=> events[w] = {}
    <2>1. Accounts(events[w], workers[w].status) /\ workers[w] \in Row
      BY AccountsByWorker DEF Status, TypeOK
    <2>2. CASE w \in S
      <3>1. workers'[w].status = st /\ events'[w] = events[w] \cup {e}
        BY <2>1, <2>2 DEF Mark, Row
      <3>2. "started" \in events[w]
        BY <2>1, <2>2 DEF Accounts
      <3>3. e \in events'[w] /\ "started" \in events'[w]
        BY <3>1, <3>2
      <3>4. QED
        BY <3>1, <3>2, <3>3 DEF Accounts
    <2>3. CASE w \notin S
      BY <2>1, <2>3 DEF Mark
    <2>4. QED
      BY <2>2, <2>3
  <1>2. EventsAccountForStatus'
    BY <1>1 DEF EventsAccountForStatus, Accounts, Status
  <1>3. QED
    BY <1>1, <1>2

LEMMA NextKeepsLogs ==
    ASSUME TypeOK, LogInv, [Next]_vars
    PROVE  LogInv'
  <1> USE DEF LogInv, LogsBeginAtRegistration, FoundAreRegistered
  <1>1. ASSUME NEW w \in Worker, Register(w) PROVE LogInv'
    <2>1. events[w] = {} /\ events'[w] = {"started"}
      BY <1>1 DEF Register, TypeOK
    <2>2. workers'[w].status = "online"
      BY <1>1 DEF Register, TypeOK
    <2>3. \A v \in Worker \ {w} : workers'[v] = workers[v] /\ events'[v] = events[v]
                                  /\ proc'[v] = proc[v]
      BY <1>1 DEF Register, Enters, TypeOK
    <2>4. proc'[w] = "registered" /\ UNCHANGED found
      BY <1>1 DEF Register, Enters, TypeOK
    <2>5. Accounts(events'[w], workers'[w].status)
      BY <2>1, <2>2 DEF Accounts
    <2>6. EventsAccountForStatus'
      BY <2>3, <2>5, AccountsByWorker DEF EventsAccountForStatus, Accounts, Status
    <2>7. LogsBeginAtRegistration'
      BY <2>1, <2>3, <2>4
    <2>8. FoundAreRegistered'
      BY <2>3, <2>4 DEF TypeOK
    <2>9. QED
      BY <2>6, <2>7, <2>8
  <1>2. ASSUME NEW w \in Worker, DetectSelect(w) PROVE LogInv'
    <2>1. UNCHANGED <<workers, events>> /\ proc' = [proc EXCEPT ![w] = "detecting"]
          /\ proc[w] = "registered"
          /\ found' = [found EXCEPT ![w] = {v \in Worker : IsSilent(v)}]
      BY <1>2 DEF DetectSelect
    <2>2. \A v \in Worker : proc'[v] = "new" <=> proc[v] = "new"
      BY <2>1 DEF TypeOK
    <2>3. \A v \in Worker : IsSilent(v) => proc[v] # "new"
      BY DEF IsSilent, EventsAccountForStatus, Status
    <2>4. FoundAreRegistered'
      BY <2>1, <2>2, <2>3 DEF TypeOK
    <2>5. QED
      BY <2>1, <2>2, <2>4 DEF EventsAccountForStatus, Status
  <1>3. ASSUME NEW w \in Worker, DetectCommit(w) PROVE LogInv'
    <2>1. found[w] \in SUBSET Worker /\ \A v \in found[w] : events[v] # {}
      BY DEF TypeOK
    <2>2. EventsAccountForStatus' /\ \A v \in Worker : events'[v] = {} <=> events[v] = {}
      BY <1>3, <2>1, MarkKeepsLogs, Zenon DEF DetectCommit
    <2>3. \A v \in Worker : /\ proc'[v] = "new" <=> proc[v] = "new"
                            /\ found'[v] \subseteq found[v]
      BY <1>3 DEF DetectCommit, StartLoops, Enters, TypeOK
    <2>4. QED
      BY <2>2, <2>3 DEF TypeOK
  <1>4. ASSUME NEW w \in Worker, Beat(w) PROVE LogInv'
    <2>1. \A v \in Worker : workers'[v].status = workers[v].status
      BY <1>4 DEF Beat, TypeOK, Row
    <2>2. UNCHANGED <<events, found>>
          /\ \A v \in Worker : proc'[v] = "new" <=> proc[v] = "new"
      BY <1>4 DEF Beat, Enters, TypeOK
    <2>3. QED
      BY <2>1, <2>2 DEF EventsAccountForStatus, Status, TypeOK
  <1>5. ASSUME NEW w \in Worker, BeatBegin(w) \/ BeatFails(w) PROVE LogInv'
    <2>1. UNCHANGED <<workers, events, found>>
          /\ \A v \in Worker : proc'[v] = "new" <=> proc[v] = "new"
      BY <1>5 DEF BeatBegin, BeatFails, Enters, TypeOK
    <2>2. QED
      BY <2>1 DEF EventsAccountForStatus, Status, TypeOK
  <1>6. ASSUME NEW w \in Worker, NEW s \in {"stopped", "crashed"}, Leave(w, s), proc[w] # "new"
        PROVE  /\ \A v \in Worker : proc'[v] = "new" <=> proc[v] = "new"
               /\ FoundAreRegistered'
    <2>1. \A v \in Worker : /\ proc'[v] = "new" <=> proc[v] = "new"
                            /\ found'[v] \subseteq found[v]
      BY <1>6 DEF Leave, Enters, TypeOK
    <2>2. \A v \in Worker : found[v] \subseteq Worker
      BY DEF TypeOK
    <2>3. QED
      BY <2>1, <2>2
  <1>7. ASSUME NEW w \in Worker, Deregister(w) PROVE LogInv'
    <2>1. proc[w] # "new" /\ Leave(w, "stopped")
      BY <1>7 DEF Deregister
    <2>2. EventsAccountForStatus' /\ \A v \in Worker : events'[v] = {} <=> events[v] = {}
      <3>1. {w} \in SUBSET Worker /\ \A v \in {w} : events[v] # {}
        BY <2>1
      <3>2. Mark({w}, "offline", "stopped")
        BY <1>7 DEF Deregister
      <3>3. QED
        BY <3>1, <3>2, MarkKeepsLogs, Zenon
    <2>3. QED
      BY <1>6, <2>1, <2>2
  <1>8. ASSUME NEW w \in Worker, DeregisterFails(w) \/ Crash(w) PROVE LogInv'
    <2>1. UNCHANGED <<workers, events>>
      BY <1>8 DEF DeregisterFails, Crash
    <2>2. proc[w] # "new" /\ \E s \in {"stopped", "crashed"} : Leave(w, s)
      BY <1>8 DEF DeregisterFails, Crash, Live, Starting, Running
    <2>3. QED
      BY <1>6, <2>1, <2>2 DEF EventsAccountForStatus, Status
  <1>9. CASE Tick
    <2>1. \A v \in Worker : workers'[v].status = workers[v].status
      BY <1>9 DEF Tick, TypeOK, Row
    <2>2. UNCHANGED <<events, proc, found>>
      BY <1>9 DEF Tick
    <2>3. QED
      BY <2>1, <2>2 DEF EventsAccountForStatus, Status
  <1>10. CASE UNCHANGED <<workers, events, proc, found>>
    BY <1>10 DEF EventsAccountForStatus, Status
  <1>11. QED
    BY <1>1, <1>2, <1>3, <1>4, <1>5, <1>7, <1>8, <1>9, <1>10
       DEF Next, StartUp, Shutdown, vars

LEMMA LogsAreKept == Spec => []LogInv
  <1>1. Init => LogInv
    BY DEF Init, LogInv, LogsBeginAtRegistration, FoundAreRegistered,
           EventsAccountForStatus, Status
  <1>2. QED
    BY <1>1, RegistryTypeCorrect, NextKeepsLogs, PTL DEF Spec

\* Every status has its event in the log, and ONLINE is a log with nothing but the
\* start in it, whichever detectors and stop signals overlap.
THEOREM EventsAlwaysAccountForStatus == Spec => []EventsAccountForStatus
  <1>1. LogInv => EventsAccountForStatus
    BY DEF LogInv
  <1>2. QED
    BY <1>1, LogsAreKept, PTL

-----------------------------------------------------------------------------
(* What a step can do to the status of a worker *)

StatusStep(w) ==
    \/ workers'[w].status \in {workers[w].status, "lost"}
    \/ workers'[w].status = "offline" /\ proc'[w] = "stopped"
    \/ workers[w].status = "absent" /\ workers'[w].status = "online"

LEMMA StepOfStatus ==
    ASSUME TypeOK, LogInv, [Next]_vars, NEW w \in Worker
    PROVE  StatusStep(w)
  <1> USE DEF StatusStep
  <1>1. workers[w] \in Row
    BY DEF TypeOK
  <1>2. ASSUME NEW v \in Worker, Register(v) PROVE StatusStep(w)
    <2>1. workers[v].status = "absent"
      BY <1>2 DEF Register, LogInv, LogsBeginAtRegistration,
         EventsAccountForStatus, Status
    <2>2. QED
      BY <1>2, <2>1 DEF Register, TypeOK
  <1>3. ASSUME NEW v \in Worker, DetectCommit(v) PROVE StatusStep(w)
    BY <1>1, <1>3 DEF DetectCommit, Mark, Row
  <1>4. ASSUME NEW v \in Worker, Deregister(v) PROVE StatusStep(w)
    <2>1. CASE v = w
      <3>1. workers'[w].status = "offline" /\ proc'[w] = "stopped"
        BY <1>1, <1>4, <2>1 DEF Deregister, Mark, Leave, Enters, Row, TypeOK
      <3>2. QED
        BY <3>1
    <2>2. CASE v # w
      BY <1>4, <2>2 DEF Deregister, Mark
    <2>3. QED
      BY <2>1, <2>2
  <1>5. ASSUME NEW v \in Worker, Beat(v) PROVE StatusStep(w)
    BY <1>1, <1>5 DEF Beat, TypeOK, Row
  <1>6. CASE Tick
    BY <1>1, <1>6 DEF Tick, Row
  <1>7. CASE UNCHANGED workers
    BY <1>7
  <1>8. QED
    BY <1>2, <1>3, <1>4, <1>5, <1>6, <1>7
       DEF Next, StartUp, DetectSelect, BeatBegin, BeatFails, Shutdown, DeregisterFails,
           Crash, vars

\* LOST is left by deregistering only, and a worker that has left ONLINE does not
\* come back: neither a beat nor a second registration revives it.
THEOREM LostStayLost == Spec => LostWorkersStayLost
  <1>1. ASSUME TypeOK, LogInv, [Next]_vars
        PROVE  [\A w \in Worker :
                  /\ Status(w) = "lost" => Status(w)' = "lost" \/ proc'[w] = "stopped"
                  /\ Status(w) \in {"offline", "lost"} => Status(w)' # "online"]_vars
    BY <1>1, StepOfStatus DEF StatusStep, Status
  <1>2. QED
    BY <1>1, RegistryTypeCorrect, LogsAreKept, PTL DEF Spec, LostWorkersStayLost

-----------------------------------------------------------------------------
(* Prompt workers *)

LEMMA RoomForOneMore ==
    ASSUME NEW m \in Nat
    PROVE  /\ Room(m) \in Nat /\ Room(0) = 0
           /\ Room(m + 1) = Room(m) + Interval + Lag
           /\ LongestSilence(m) = Lag + Room(m) + Interval + Lag
  <1>1. /\ Interval + Lag \in Nat /\ Interval \in Nat /\ Lag \in Nat
    BY IntervalAssumption, LagAssumption
  <1>2. \A k \in Nat : m * k \in Nat /\ 0 * k = 0 /\ (m + 1) * k = m * k + k
    BY Z3
  <1>3. Room(m) \in Nat /\ Room(0) = 0 /\ Room(m + 1) = Room(m) + (Interval + Lag)
    BY <1>1, <1>2 DEF Room
  <1>4. LongestSilence(m) = Lag + Room(m + 1)
    BY DEF LongestSilence, Room
  <1>5. QED
    BY <1>1, <1>3, <1>4

\* A process that has ended stays as it is, and lateness is not forgotten.
LEMMA StepOfProcess ==
    ASSUME TypeOK, [Next]_vars, NEW w \in Worker
    PROVE  /\ proc[w] \in {"stopped", "crashed"} => proc'[w] = proc[w]
           /\ late \subseteq late'
  <1>1. ASSUME NEW v \in Worker, Register(v)
        PROVE  proc'[w] = proc[w] \/ proc[w] = "new"
    BY <1>1 DEF Register, Enters, TypeOK
  <1>2. ASSUME NEW v \in Worker, DetectSelect(v) \/ DetectCommit(v)
        PROVE  proc'[w] = proc[w] \/ proc[w] \in Live
    BY <1>2 DEF DetectSelect, DetectCommit, StartLoops, Enters, TypeOK, Live, Starting
  <1>3. ASSUME NEW v \in Worker, BeatBegin(v) \/ Beat(v) \/ BeatFails(v)
        PROVE  proc'[w] = proc[w] \/ proc[w] \in Live
    BY <1>3 DEF BeatBegin, Beat, BeatFails, Enters, TypeOK, Live, Running
  <1>4. ASSUME NEW v \in Worker, Deregister(v) \/ DeregisterFails(v) \/ Crash(v)
        PROVE  proc'[w] = proc[w] \/ proc[w] \in Live
    BY <1>4 DEF Deregister, DeregisterFails, Crash, Leave, Enters, TypeOK, Live, Running
  <1>5. \/ UNCHANGED proc
        \/ \E v \in Worker : Register(v)
        \/ \E v \in Worker : DetectSelect(v) \/ DetectCommit(v)
        \/ \E v \in Worker : BeatBegin(v) \/ Beat(v) \/ BeatFails(v)
        \/ \E v \in Worker : Deregister(v) \/ DeregisterFails(v) \/ Crash(v)
    BY DEF Next, StartUp, Shutdown, Tick, vars
  <1>6. late \subseteq late'
    BY DEF Next, StartUp, Register, DetectSelect, DetectCommit, BeatBegin, Beat,
       BeatFails, Shutdown, Deregister, DeregisterFails, Crash, Tick, vars
  <1>7. QED
    BY <1>1, <1>2, <1>3, <1>4, <1>5, <1>6 DEF Live, Starting, Running

\* Only deregistering writes "stopped" into a log.
LEMMA StepOfLog ==
    ASSUME TypeOK, [Next]_vars, NEW w \in Worker, HasDeregistered(w)'
    PROVE  \/ HasDeregistered(w)
           \/ /\ proc[w] = "waiting" /\ proc'[w] = "stopped"
              /\ workers'[w].status = "offline"
  <1>1. workers[w] \in Row
    BY DEF TypeOK
  <1>2. ASSUME NEW v \in Worker, Register(v) PROVE HasDeregistered(w)
    BY <1>2 DEF Register, TypeOK, HasDeregistered
  <1>3. ASSUME NEW v \in Worker, DetectCommit(v) PROVE HasDeregistered(w)
    BY <1>3 DEF DetectCommit, Mark, HasDeregistered
  <1>4. ASSUME NEW v \in Worker, Deregister(v)
        PROVE  \/ HasDeregistered(w)
               \/ /\ proc[w] = "waiting" /\ proc'[w] = "stopped"
                  /\ workers'[w].status = "offline"
    <2>1. CASE v = w
      BY <1>1, <1>4, <2>1 DEF Deregister, Mark, Leave, Enters, Row, TypeOK
    <2>2. CASE v # w
      BY <1>4, <2>2 DEF Deregister, Mark, HasDeregistered
    <2>3. QED
      BY <2>1, <2>2
  <1>5. CASE UNCHANGED events
    BY <1>5 DEF HasDeregistered
  <1>6. QED
    BY <1>2, <1>3, <1>4, <1>5
       DEF Next, StartUp, DetectSelect, BeatBegin, Beat, BeatFails, Shutdown,
           DeregisterFails, Crash, Tick, vars

LEMMA NextStoppedHaveLeft ==
    ASSUME TypeOK, LogInv, StoppedHaveLeft, [Next]_vars
    PROVE  StoppedHaveLeft'
  <1> SUFFICES ASSUME NEW w \in Worker, HasDeregistered(w)'
               PROVE  proc'[w] = "stopped" /\ workers'[w].status \in {"offline", "lost"}
    BY DEF StoppedHaveLeft, Status
  <1>1. CASE HasDeregistered(w)
    <2>1. proc[w] = "stopped" /\ workers[w].status \in {"offline", "lost"}
      BY <1>1 DEF StoppedHaveLeft, Status
    <2>2. QED
      BY <2>1, StepOfProcess, StepOfStatus DEF StatusStep
  <1>2. QED
    BY <1>1, StepOfLog

\* What can change how silent a live worker is, or how silent it may be.
LEMMA StepOfSilence ==
    ASSUME TypeOK, [Next]_vars, NEW w \in Worker, proc'[w] \in Live
    PROVE  \/ Register(w) \/ StartUp(w) \/ BeatBegin(w) \/ Beat(w) \/ BeatFails(w)
           \/ Tick
           \/ UNCHANGED <<proc[w], spent[w], missed[w], workers[w].silence>>
  <1>1. workers[w] \in Row
    BY DEF TypeOK
  <1>2. ASSUME NEW v \in Worker \ {w},
               Register(v) \/ BeatBegin(v) \/ Beat(v) \/ BeatFails(v)
        PROVE  UNCHANGED <<proc[w], spent[w], missed[w], workers[w].silence>>
    BY <1>2 DEF Register, BeatBegin, Beat, BeatFails, Enters, TypeOK
  <1>3. ASSUME NEW v \in Worker \ {w}, StartUp(v)
        PROVE  UNCHANGED <<proc[w], spent[w], missed[w], workers[w].silence>>
    BY <1>1, <1>3
       DEF StartUp, DetectSelect, DetectCommit, StartLoops, Enters, Mark, Row, TypeOK
  <1>4. ASSUME NEW v \in Worker, Shutdown(v)
        PROVE  UNCHANGED <<proc[w], spent[w], missed[w], workers[w].silence>>
    BY <1>4 DEF Shutdown
  <1>5. ASSUME NEW v \in Worker, Deregister(v) \/ DeregisterFails(v) \/ Crash(v)
        PROVE  UNCHANGED <<proc[w], spent[w], missed[w], workers[w].silence>>
    <2>1. v # w
      BY <1>5 DEF Deregister, DeregisterFails, Crash, Leave, Enters, TypeOK, Live,
         Starting, Running
    <2>2. UNCHANGED <<proc[w], spent[w], missed[w]>>
      BY <1>5, <2>1 DEF Deregister, DeregisterFails, Crash, Leave, Enters, TypeOK
    <2>3. UNCHANGED workers[w].silence
      BY <1>5, <2>1 DEF Deregister, DeregisterFails, Crash, Mark
    <2>4. QED
      BY <2>2, <2>3
  <1>6. CASE UNCHANGED vars
    BY <1>6 DEF vars
  <1>7. QED
    BY <1>2, <1>3, <1>4, <1>5, <1>6 DEF Next

LEMMA NextSilenceIsAccounted ==
    ASSUME TypeOK, TypeOK', SilenceIsAccounted, [Next]_vars
    PROVE  SilenceIsAccounted'
  <1> SUFFICES ASSUME NEW w \in Worker, w \notin late', proc'[w] \in Live
               PROVE  /\ spent'[w] <= Allowed(w)'
                      /\ workers'[w].silence <= SilenceDue(w, missed[w], spent[w])'
    BY DEF SilenceIsAccounted
  <1> USE DEF SilenceDue, Allowed
  <1>1. /\ workers[w] \in Row /\ workers'[w] \in Row
        /\ workers[w].silence \in Nat /\ workers'[w].silence \in Nat
        /\ spent[w] \in Nat /\ spent'[w] \in Nat /\ missed[w] \in Nat
        /\ missed'[w] \in Nat /\ Interval \in Nat /\ Lag \in Nat
    BY LongerIsSilence, SpentBounds, IntervalAssumption, LagAssumption DEF TypeOK, Row
  <1>2. Room(missed[w]) \in Nat /\ Room(missed'[w]) \in Nat
    BY <1>1, RoomForOneMore
  <1>3. w \notin late
    BY StepOfProcess
  <1>4. ASSUME proc[w] \in Live
        PROVE  /\ spent[w] <= Allowed(w)
               /\ workers[w].silence <= SilenceDue(w, missed[w], spent[w])
    BY <1>3, <1>4 DEF SilenceIsAccounted
  <1>5. CASE Register(w)
    <2>1. workers'[w].silence <= Lag
      BY <1>1, <1>5 DEF Register, TypeOK
    <2>2. proc'[w] = "registered" /\ spent'[w] = 0
      BY <1>5 DEF Register, Enters, TypeOK
    <2>3. QED
      BY <1>1, <1>2, <2>1, <2>2
  <1>6. CASE DetectSelect(w)
    <2>1. /\ proc[w] = "registered" /\ proc'[w] = "detecting"
          /\ UNCHANGED <<workers, spent, missed>>
      BY <1>6 DEF DetectSelect, TypeOK
    <2>2. QED
      BY <1>1, <1>2, <1>4, <2>1 DEF Live, Starting
  <1>7. CASE DetectCommit(w)
    <2>1. /\ proc[w] = "detecting" /\ UNCHANGED missed
          /\ workers'[w].silence = workers[w].silence
      BY <1>1, <1>7 DEF DetectCommit, Mark, Row
    <2>2. \/ proc'[w] = "waiting" /\ spent'[w] = spent[w]
          \/ proc'[w] = "beating" /\ spent'[w] = 0
      BY <1>7 DEF DetectCommit, StartLoops, Enters, TypeOK
    <2>3. QED
      BY <1>1, <1>2, <1>4, <2>1, <2>2 DEF Live, Starting
  <1>8. CASE BeatBegin(w)
    <2>1. /\ proc[w] = "waiting" /\ proc'[w] = "beating" /\ spent'[w] = 0
          /\ UNCHANGED <<workers, missed>>
      BY <1>8 DEF BeatBegin, Enters, TypeOK
    <2>2. QED
      BY <1>1, <1>2, <1>4, <2>1 DEF Live, Running
  <1>9. CASE Beat(w)
    <2>1. proc[w] = "beating" /\ proc'[w] = "waiting" /\ spent'[w] = 0
      BY <1>9 DEF Beat, Enters, TypeOK
    <2>2. spent[w] <= Lag
      BY <1>4, <2>1 DEF Live, Running
    <2>3. PICK age \in Silence :
             IsAgeOfBeat(w, age) /\ workers' = [workers EXCEPT ![w].silence = age]
      BY <1>9 DEF Beat
    <2>4. workers'[w].silence = age /\ age <= spent[w] /\ age \in Nat
      BY <1>1, <2>2, <2>3, LongerIsSilence DEF IsAgeOfBeat, TypeOK, Row
    <2>5. QED
      BY <1>1, <1>2, <2>1, <2>2, <2>4
  <1>10. CASE BeatFails(w)
    <2>1. /\ proc[w] = "beating" /\ proc'[w] = "waiting" /\ spent'[w] = 0
          /\ missed'[w] = missed[w] + 1 /\ UNCHANGED workers
      BY <1>10 DEF BeatFails, Enters, TypeOK
    <2>2. Room(missed'[w]) = Room(missed[w]) + Interval + Lag
      BY <1>1, <2>1, RoomForOneMore
    <2>3. spent[w] <= Lag /\ workers[w].silence <= Lag + Room(missed[w]) + spent[w] + Interval
      BY <1>4, <2>1 DEF Live, Running
    <2>4. QED
      BY <1>1, <1>2, <2>1, <2>2, <2>3
  <1>11. CASE Tick
    <2>1. UNCHANGED <<proc, missed>>
      BY <1>11 DEF Tick
    <2>2. ~(spent[w] >= Allowed(w))
      BY <1>11, <2>1 DEF Tick
    <2>3. spent'[w] = spent[w] + 1
      BY <1>1, <1>11, <2>1, <2>2 DEF Tick
    <2>4. workers'[w].silence <= workers[w].silence + 1
      <3>1. workers'[w].silence \in {workers[w].silence, Longer(workers[w].silence)}
        BY <1>1, <1>11 DEF Tick, Row
      <3>2. QED
        BY <1>1, <3>1, LongerIsSilence DEF Row
    <2>5. QED
      BY <1>1, <1>2, <1>4, <2>1, <2>2, <2>3, <2>4
  <1>12. CASE UNCHANGED <<proc[w], spent[w], missed[w], workers[w].silence>>
    BY <1>1, <1>2, <1>4, <1>12
  <1>13. QED
    BY <1>5, <1>6, <1>7, <1>8, <1>9, <1>10, <1>11, <1>12, StepOfSilence DEF StartUp

LEMMA NextMissedIsTolerated ==
    ASSUME LongestSilence(0) <= Timeout, TypeOK, TypeOK', MissedIsTolerated, [Next]_vars
    PROVE  MissedIsTolerated'
  <1> SUFFICES ASSUME NEW w \in Worker, w \notin late'
               PROVE  LongestSilence(missed'[w]) <= Timeout
    BY DEF MissedIsTolerated, LongestSilence
  <1>1. LongestSilence(missed[w]) <= Timeout
    BY StepOfProcess DEF MissedIsTolerated
  <1>2. ASSUME NEW v \in Worker, BeatFails(v)
        PROVE  LongestSilence(missed'[w]) <= Timeout
    <2>1. CASE v = w
      <3>1. ~(LongestSilence(missed'[w]) > Timeout)
        BY <1>2, <2>1 DEF BeatFails
      <3>2. LongestSilence(missed'[w]) \in Nat
        <4>1. missed'[w] \in Nat
          BY DEF TypeOK
        <4>2. QED
          BY <4>1, RoomForOneMore, IntervalAssumption, LagAssumption
      <3>3. QED
        BY <3>1, <3>2, TimeoutAssumption
    <2>2. CASE v # w
      BY <1>1, <1>2, <2>2 DEF BeatFails, TypeOK
    <2>3. QED
      BY <2>1, <2>2
  <1>3. ASSUME NEW v \in Worker,
               Beat(v) \/ Deregister(v) \/ DeregisterFails(v) \/ Crash(v)
        PROVE  LongestSilence(missed'[w]) <= Timeout
    <2>1. missed'[w] \in {0, missed[w]}
      BY <1>3 DEF Beat, Deregister, DeregisterFails, Crash, Leave, TypeOK
    <2>2. QED
      BY <1>1, <2>1
  <1>4. CASE UNCHANGED missed
    BY <1>1, <1>4
  <1>5. QED
    BY <1>2, <1>3, <1>4 DEF Next, StartUp, Register, DetectSelect, DetectCommit,
       BeatBegin, Shutdown, Tick, vars

\* The heart of the matter: whoever a detector finds silent is late or has died.
LEMMA SilentHaveDied ==
    ASSUME TypeOK, LogInv, PromptInv, NEW w \in Worker, IsSilent(w), w \notin late
    PROVE  proc[w] \in {"stopped", "crashed"} /\ ~HasDeregistered(w)
  <1>1. workers[w].status = "online" /\ workers[w].silence > Timeout
    BY DEF IsSilent
  <1>2. ~HasDeregistered(w)
    BY <1>1 DEF PromptInv, StoppedHaveLeft, Status
  <1>3. proc[w] # "new"
    BY <1>1 DEF LogInv, LogsBeginAtRegistration, EventsAccountForStatus, Status
  <1>4. proc[w] \notin Live
    <2> SUFFICES ASSUME proc[w] \in Live PROVE FALSE
      OBVIOUS
    <2>1. /\ workers[w].silence \in Nat /\ spent[w] \in Nat /\ missed[w] \in Nat
          /\ Interval \in Nat /\ Lag \in Nat
      BY LongerIsSilence, SpentBounds, IntervalAssumption, LagAssumption
         DEF TypeOK, Row
    <2>2. /\ spent[w] <= Allowed(w)
          /\ workers[w].silence <= SilenceDue(w, missed[w], spent[w])
      BY DEF PromptInv, SilenceIsAccounted
    <2>3. LongestSilence(missed[w]) <= Timeout
      BY DEF PromptInv, MissedIsTolerated
    <2>4. /\ Room(missed[w]) \in Nat
          /\ LongestSilence(missed[w]) = Lag + Room(missed[w]) + Interval + Lag
      BY <2>1, RoomForOneMore
    <2>5. workers[w].silence <= LongestSilence(missed[w])
      BY <2>1, <2>2, <2>4 DEF Allowed, SilenceDue
    <2>6. QED
      BY <1>1, <2>1, <2>3, <2>4, <2>5, TimeoutAssumption
  <1>5. QED
    BY <1>2, <1>3, <1>4 DEF TypeOK, ProcState

LEMMA NextFoundHaveDied ==
    ASSUME TypeOK, LogInv, PromptInv, [Next]_vars
    PROVE  FoundHaveDied'
  <1> SUFFICES ASSUME NEW v \in Worker, NEW w \in found'[v], w \notin late'
               PROVE  proc'[w] \in {"stopped", "crashed"} /\ ~HasDeregistered(w)'
    BY DEF FoundHaveDied
  <1>1. w \in Worker
    BY NextTypeOK DEF TypeOK
  <1>2. w \in found[v] \/ IsSilent(w)
    <2>1. ASSUME NEW u \in Worker, DetectSelect(u)
          PROVE  w \in found[v] \/ IsSilent(w)
      BY <2>1 DEF DetectSelect, TypeOK
    <2>2. ASSUME NEW u \in Worker,
                 DetectCommit(u) \/ Deregister(u) \/ DeregisterFails(u) \/ Crash(u)
          PROVE  w \in found[v]
      BY <2>2 DEF DetectCommit, Deregister, DeregisterFails, Crash, Leave, TypeOK
    <2>3. CASE UNCHANGED found
      BY <2>3
    <2>4. QED
      BY <2>1, <2>2, <2>3
         DEF Next, StartUp, Register, BeatBegin, Beat, BeatFails, Shutdown, Tick, vars
  <1>3. w \notin late
    BY <1>1, StepOfProcess
  <1>4. proc[w] \in {"stopped", "crashed"} /\ ~HasDeregistered(w)
    BY <1>1, <1>2, <1>3, SilentHaveDied DEF PromptInv, FoundHaveDied
  <1>5. proc'[w] = proc[w]
    BY <1>1, <1>4, StepOfProcess
  <1>6. ~HasDeregistered(w)'
    BY <1>1, <1>4, StepOfLog
  <1>7. QED
    BY <1>4, <1>5, <1>6

LEMMA NextPromptAreNotLost ==
    ASSUME TypeOK, LogInv, PromptInv, [Next]_vars
    PROVE  PromptWorkersAreNotLost'
  <1> SUFFICES ASSUME NEW w \in Worker, workers'[w].status = "lost", w \notin late'
               PROVE  proc'[w] \notin Live /\ ~HasDeregistered(w)'
    BY DEF PromptWorkersAreNotLost, Status
  <1>1. w \notin late /\ workers[w] \in Row
    BY StepOfProcess DEF TypeOK
  <1>2. workers[w].status = "lost" \/ \E v \in Worker : w \in found[v]
    <2>1. ASSUME NEW v \in Worker, Register(v) PROVE workers[w].status = "lost"
      BY <2>1 DEF Register, TypeOK
    <2>2. ASSUME NEW v \in Worker, DetectCommit(v)
          PROVE  workers[w].status = "lost" \/ w \in found[v]
      BY <2>2 DEF DetectCommit, Mark
    <2>3. ASSUME NEW v \in Worker, Beat(v) PROVE workers[w].status = "lost"
      BY <1>1, <2>3 DEF Beat, TypeOK, Row
    <2>4. ASSUME NEW v \in Worker, Deregister(v) PROVE workers[w].status = "lost"
      BY <1>1, <2>4 DEF Deregister, Mark, Row
    <2>5. CASE Tick
      BY <1>1, <2>5 DEF Tick, Row
    <2>6. CASE UNCHANGED workers
      BY <2>6
    <2>7. QED
      BY <2>1, <2>2, <2>3, <2>4, <2>5, <2>6
         DEF Next, StartUp, DetectSelect, BeatBegin, BeatFails, Shutdown, DeregisterFails,
             Crash, vars
  <1>3. proc[w] \in {"stopped", "crashed"} /\ ~HasDeregistered(w)
    <2>1. CASE workers[w].status = "lost"
      <3>1. proc[w] \notin Live /\ ~HasDeregistered(w)
        BY <1>1, <2>1 DEF PromptInv, PromptWorkersAreNotLost, Status
      <3>2. proc[w] # "new"
        BY <2>1 DEF LogInv, LogsBeginAtRegistration, EventsAccountForStatus, Status
      <3>3. QED
        BY <3>1, <3>2 DEF TypeOK, ProcState
    <2>2. CASE \E v \in Worker : w \in found[v]
      BY <1>1, <2>2 DEF PromptInv, FoundHaveDied
    <2>3. QED
      BY <1>2, <2>1, <2>2
  <1>4. proc'[w] = proc[w]
    BY <1>3, StepOfProcess
  <1>5. ~HasDeregistered(w)'
    BY <1>3, StepOfLog
  <1>6. QED
    BY <1>3, <1>4, <1>5 DEF Live, Starting, Running

\* If the timeout has room for a worker that misses no beat, then no live worker that
\* keeps its times, and misses no more beats than the timeout has room for, is
\* reported lost, nor is an OFFLINE row of one turned LOST, wherever the steps of
\* the detectors fall.
THEOREM PromptAreNeverLost ==
    ASSUME LongestSilence(0) <= Timeout
    PROVE  Spec => []PromptWorkersAreNotLost
  <1>1. Init => PromptInv
    <2> SUFFICES ASSUME Init PROVE PromptInv
      OBVIOUS
    <2>1. \A w \in Worker : events[w] = {} /\ proc[w] = "new" /\ found[w] = {}
                            /\ Status(w) = "absent" /\ missed[w] = 0
      BY DEF Init, Status
    <2>2. MissedIsTolerated
      BY <2>1 DEF MissedIsTolerated
    <2>3. QED
      BY <2>1, <2>2 DEF PromptInv, StoppedHaveLeft, SilenceIsAccounted, FoundHaveDied,
         PromptWorkersAreNotLost, HasDeregistered, Live, Starting, Running
  <1>2. ASSUME TypeOK, LogInv, PromptInv, [Next]_vars PROVE PromptInv'
    BY <1>2, NextTypeOK, NextStoppedHaveLeft, NextSilenceIsAccounted,
       NextMissedIsTolerated, NextFoundHaveDied, NextPromptAreNotLost DEF PromptInv
  <1>3. PromptInv => PromptWorkersAreNotLost
    BY DEF PromptInv
  <1>4. QED
    BY <1>1, <1>2, <1>3, RegistryTypeCorrect, LogsAreKept, PTL DEF Spec
=============================================================================
