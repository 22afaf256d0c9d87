------------------------ MODULE JobLifecycleProofs ------------------------
(***************************************************************************)
(* Invariant is inductive for JobLifecycle, for every set of callers, every *)
(* number of executions and every number of faults; the safety properties  *)
(* of JobLifecycle and its refinement of JobRecord follow from it.         *)
(***************************************************************************)
EXTENDS JobLifecycle, TLAPS

\* Everything a call on the job service may do in one step.
CallStep(c) == BeginCall(c) \/ Continue(c) \/ CallFault(c)

\* Everything else: the starting call, the worker and the environment.
ProcessStep ==
  \/ StartStrategyRun \/ RunWorker \/ TimePasses
  \/ \E e \in Executions : CandidateExits(e)
  \/ \E p \in 0 .. NumExecutions : SignalArrives(p)

-----------------------------------------------------------------------------
(* The helpers keep the types *)

\* A compare-and-set of the state leaves a row.
LEMMA MoveStateType ==
  ASSUME TypeOK, NEW expected, NEW new \in STATES, MoveState(expected, new)
  PROVE  job' \in Row
BY DEF TypeOK, MoveState, Row

LEMMA WriteTerminalType ==
  ASSUME TypeOK, NEW new \in TERMINAL_STATES, WriteTerminal(new)
  PROVE  job' \in Row
BY MoveStateType DEF WriteTerminal, STATES

\* A signal is recorded for a process of the job.
LEMMA SignalType ==
  ASSUME TypeOK, NEW p \in 0 .. NumExecutions, Signal(p)
  PROVE  signalled' \subseteq 0 .. NumExecutions
BY DEF TypeOK, Signal

\* Beginning, continuing and leaving a call keep the callers' records.
LEMMA BeginType ==
  ASSUME TypeOK, NEW c \in Callers, NEW op \in Ops, NEW at \in CallAt, Begin(c, op, at)
  PROVE  call' \in [Callers -> Call]
BY DEF TypeOK, Begin, Snapshot, Call, Row

LEMMA GoToType ==
  ASSUME TypeOK, NEW c \in Callers, NEW at \in CallAt, GoTo(c, at)
  PROVE  call' \in [Callers -> Call]
BY DEF TypeOK, GoTo, Call

LEMMA ReturnType ==
  ASSUME TypeOK, NEW c \in Callers, Return(c)
  PROVE  call' \in [Callers -> Call]
BY NumExecutionsAssumption DEF TypeOK, Return, NoCall, Call, Ops, CallAt

-----------------------------------------------------------------------------
(* Who writes what *)

\* The starter, the worker and the environment leave the calls alone.
LEMMA ProcessStepLeavesCalls == ProcessStep => UNCHANGED call
BY DEF ProcessStep, StartStrategyRun, RunWorker, TimePasses, CandidateExits, SignalArrives,
       CreateJobRecord, SpawnWorker, SpawnFails, RecordLaunchFailure, RecordWorkerPid,
       StarterFault, CheckFails, WriteRunning, RecordLimits, LaunchCandidate,
       RecordCandidate, PollCandidate, StopCandidate, WriteStopped, ReapCandidate, Finish,
       WorkerException, WorkerKilled

\* A call leaves the processes alone, and of the row it writes the state and,
\* deleting it, the result.
LEMMA CallStepLeavesProcesses ==
  ASSUME TypeOK, NEW c \in Callers, CallStep(c)
  PROVE  /\ UNCHANGED <<starter, worker, execution, candidate, clock>>
         /\ job'.started = job.started
         /\ job'.child_pid = job.child_pid
         /\ job'.worker_pid = job.worker_pid
<1>1. UNCHANGED <<starter, worker, execution, candidate, clock>>
  BY DEF CallStep, BeginCall, Continue, SeeDeadWorker, PersistOrphan,
         CleanupDetachedCandidate, WatchdogDecision, WatchdogCleanup, WatchdogOrphan,
         KillChild, KillWorker, WatchdogTimeOut, CancelBegin, RequestCancel, RereadJob,
         ConfirmCancel, ReplyCancel, CleanBegin, DeleteJob, CallFault
<1>2. \/ UNCHANGED job
      \/ \E expected, new : MoveState(expected, new)
      \/ DeleteJob(c)
  BY DEF CallStep, BeginCall, Continue, SeeDeadWorker, PersistOrphan,
         CleanupDetachedCandidate, WatchdogDecision, WatchdogCleanup, WatchdogOrphan,
         KillChild, KillWorker, WatchdogTimeOut, CancelBegin, RequestCancel, RereadJob,
         ConfirmCancel, ReplyCancel, CleanBegin, DeleteJob, CallFault
<1>3. job'.started = job.started /\ job'.child_pid = job.child_pid
      /\ job'.worker_pid = job.worker_pid
  BY <1>2 DEF TypeOK, Row, MoveState, DeleteJob
<1>4. QED
  BY <1>1, <1>3

-----------------------------------------------------------------------------
(* Types *)

\* A step of the starter, the worker or the environment keeps the types.
LEMMA ProcessStepType ==
  ASSUME TypeOK, ProcessStep
  PROVE  TypeOK'
<1> USE NumExecutionsAssumption, MaxFaultsAssumption
    DEF TypeOK, StarterAt, WorkerAt, CandidateAt, WorkerExits, Executions
<1>1. CASE StartStrategyRun
  <2>1. job' \in Row
    BY <1>1, MoveStateType
    DEF StartStrategyRun, CreateJobRecord, SpawnWorker, SpawnFails, RecordLaunchFailure,
        RecordWorkerPid, StarterFault, Row, STATES, ACTIVE_STATES, TERMINAL_STATES
  <2>2. QED
    BY <1>1, <2>1
    DEF StartStrategyRun, CreateJobRecord, SpawnWorker, SpawnFails, RecordLaunchFailure,
        RecordWorkerPid, StarterFault
<1>2. CASE RunWorker
  <2>1. job' \in Row
    <3>1. CASE CheckFails \/ WriteStopped \/ ReapCandidate \/ WorkerException
      BY <3>1, WriteTerminalType, MoveStateType
      DEF CheckFails, WriteStopped, ReapCandidate, WorkerException, STATES, TERMINAL_STATES
    <3>2. CASE WriteRunning
      BY <3>2 DEF WriteRunning, Row, STATES, ACTIVE_STATES
    <3>3. CASE RecordCandidate
      BY <3>3 DEF RecordCandidate, Row
    <3>4. CASE Finish
      BY <3>4, WriteTerminalType DEF Finish, Row, STATES, TERMINAL_STATES
    <3>5. CASE UNCHANGED job
      BY <3>5
    <3>6. QED
      BY <1>2, <3>1, <3>2, <3>3, <3>4, <3>5
      DEF RunWorker, RecordLimits, LaunchCandidate, PollCandidate, StopCandidate, WorkerKilled
  <2>2. UNCHANGED <<starter, call>> /\ clock' \in 0 .. 2 /\ faults' \in 0 .. MaxFaults
    BY <1>2
    DEF RunWorker, CheckFails, WriteRunning, RecordLimits, LaunchCandidate, RecordCandidate,
        PollCandidate, StopCandidate, WriteStopped, ReapCandidate, Finish, WorkerException,
        WorkerKilled
  <2>3. worker' \in WorkerAt /\ signalled' \subseteq 0 .. NumExecutions
    BY <1>2
    DEF RunWorker, CheckFails, WriteRunning, RecordLimits, LaunchCandidate, RecordCandidate,
        PollCandidate, StopCandidate, WriteStopped, ReapCandidate, Finish, WorkerException,
        WorkerKilled
  <2>4. execution' \in Executions /\ candidate' \in [Executions -> CandidateAt]
    BY <1>2
    DEF RunWorker, CheckFails, WriteRunning, RecordLimits, LaunchCandidate, RecordCandidate,
        PollCandidate, StopCandidate, WriteStopped, ReapCandidate, Finish, WorkerException,
        WorkerKilled
  <2>5. QED
    BY <2>1, <2>2, <2>3, <2>4
<1>3. CASE TimePasses
  BY <1>3 DEF TimePasses
<1>4. ASSUME NEW e \in Executions, CandidateExits(e)
      PROVE  TypeOK'
  BY <1>4 DEF CandidateExits
<1>5. ASSUME NEW p \in 0 .. NumExecutions, SignalArrives(p)
      PROVE  TypeOK'
  BY <1>5 DEF SignalArrives
<1>6. QED
  BY <1>1, <1>2, <1>3, <1>4, <1>5 DEF ProcessStep

\* So does a step of a call.
LEMMA CallStepType ==
  ASSUME TypeOK, NEW c \in Callers, CallStep(c)
  PROVE  TypeOK'
<1>1. job' \in Row
  <2>1. CASE DeleteJob(c)
    BY <2>1 DEF TypeOK, DeleteJob, Row, STATES
  <2>2. ASSUME NEW expected, NEW new \in STATES, MoveState(expected, new)
        PROVE  job' \in Row
    BY <2>2, MoveStateType
  <2>3. CASE UNCHANGED job
    BY <2>3 DEF TypeOK
  <2>4. UNCHANGED job \/ DeleteJob(c)
          \/ \E expected : \E new \in STATES : MoveState(expected, new)
    BY DEF CallStep, BeginCall, Continue, SeeDeadWorker, PersistOrphan,
        CleanupDetachedCandidate, WatchdogDecision, WatchdogCleanup, WatchdogOrphan,
        KillChild, KillWorker, WatchdogTimeOut, CancelBegin, RequestCancel, RereadJob,
        ConfirmCancel, ReplyCancel, CleanBegin, DeleteJob, CallFault, STATES,
        TERMINAL_STATES, ACTIVE_STATES
  <2>5. QED
    BY <2>1, <2>2, <2>3, <2>4
<1>2. signalled' \subseteq 0 .. NumExecutions
  <2>1. call[c].child_pid \in 0 .. NumExecutions
    BY DEF TypeOK, Call
  <2>2. QED
    BY <2>1, SignalType, NumExecutionsAssumption
    DEF TypeOK, CallStep, BeginCall, Continue, SeeDeadWorker, PersistOrphan,
        CleanupDetachedCandidate, WatchdogDecision, WatchdogCleanup, WatchdogOrphan,
        KillChild, KillWorker, WatchdogTimeOut, CancelBegin, RequestCancel, RereadJob,
        ConfirmCancel, ReplyCancel, CleanBegin, DeleteJob, CallFault
<1>3. call' \in [Callers -> Call]
  <2>1. ASSUME NEW op \in {"status", "recover"}, SeeDeadWorker(c, op)
        PROVE  call' \in [Callers -> Call]
    BY <2>1, BeginType DEF SeeDeadWorker, Ops, CallAt
  <2>2. ASSUME NEW op \in {"status", "recover"}, PersistOrphan(c, op)
        PROVE  call' \in [Callers -> Call]
    BY <2>2, ReturnType DEF PersistOrphan, TypeOK, Call, Row, CallAt
  <2>3. CASE WatchdogDecision(c) \/ CancelBegin(c) \/ CleanBegin(c)
    BY <2>3, BeginType DEF WatchdogDecision, CancelBegin, CleanBegin, Ops, CallAt
  <2>4. CASE CleanupDetachedCandidate(c) \/ WatchdogOrphan(c) \/ WatchdogTimeOut(c)
             \/ ReplyCancel(c) \/ DeleteJob(c) \/ CallFault(c)
    BY <2>4, ReturnType
    DEF CleanupDetachedCandidate, WatchdogOrphan, WatchdogTimeOut, ReplyCancel, DeleteJob,
        CallFault
  <2>5. CASE WatchdogCleanup(c) \/ KillChild(c) \/ KillWorker(c) \/ ConfirmCancel(c)
    BY <2>5, GoToType DEF WatchdogCleanup, KillChild, KillWorker, ConfirmCancel, CallAt
  <2>6. CASE RequestCancel(c)
    BY <2>6, GoToType DEF RequestCancel, TypeOK, Call, CallAt
  <2>7. CASE RereadJob(c)
    BY <2>7 DEF RereadJob, Snapshot, TypeOK, Call, Ops, CallAt, Row
  <2>8. QED
    BY <2>1, <2>2, <2>3, <2>4, <2>5, <2>6, <2>7 DEF CallStep, BeginCall, Continue
<1>4. faults' \in 0 .. MaxFaults
  <2>1. UNCHANGED faults \/ (faults < MaxFaults /\ faults' = faults + 1)
    BY DEF CallStep, BeginCall, Continue, SeeDeadWorker, PersistOrphan,
      CleanupDetachedCandidate, WatchdogDecision, WatchdogCleanup, WatchdogOrphan,
      KillChild, KillWorker, WatchdogTimeOut, CancelBegin, RequestCancel, RereadJob,
      ConfirmCancel, ReplyCancel, CleanBegin, DeleteJob, CallFault
  <2>2. QED
    BY <2>1, MaxFaultsAssumption DEF TypeOK
<1>5. QED
  BY <1>1, <1>2, <1>3, <1>4, CallStepLeavesProcesses DEF TypeOK

LEMMA TypeInvariance ==
  ASSUME TypeOK, [Next]_vars
  PROVE  TypeOK'
<1>1. CASE UNCHANGED vars
  BY <1>1 DEF vars, TypeOK
<1>2. QED
  BY <1>1, ProcessStepType, CallStepType DEF Next, ProcessStep, CallStep

-----------------------------------------------------------------------------
(* Every part of Invariant is kept by every step *)

\* The order of a start: only the DELETE needs more, that the row it deletes exists.
LEMMA StartOrderKept ==
  ASSUME TypeOK, StartOrder, SignalsToTheLiving, CancelProgress, [Next]_vars
  PROVE  StartOrder'
<1> USE DEF TypeOK, Row, Executions, StartOrder, MoveState, WriteTerminal, WorkerExits, Active, Terminal, WorkerAlive, Alive, ACTIVE_STATES, TERMINAL_STATES, Begin, Snapshot, Standing, GoTo, Return, NoCall
<1>1. CASE CreateJobRecord
  BY <1>1 DEF CreateJobRecord
<1>2. CASE SpawnWorker
  BY <1>2 DEF SpawnWorker
<1>3. CASE SpawnFails
  BY <1>3 DEF SpawnFails
<1>4. CASE RecordLaunchFailure
  BY <1>4 DEF RecordLaunchFailure
<1>5. CASE RecordWorkerPid
  BY <1>5 DEF RecordWorkerPid
<1>6. CASE StarterFault
  BY <1>6 DEF StarterFault
<1>7. CASE CheckFails
  BY <1>7 DEF CheckFails
<1>8. CASE WriteRunning
  BY <1>8 DEF WriteRunning
<1>9. CASE RecordLimits
  BY <1>9 DEF RecordLimits
<1>10. CASE LaunchCandidate
  BY <1>10 DEF LaunchCandidate
<1>11. CASE RecordCandidate
  BY <1>11 DEF RecordCandidate
<1>12. CASE PollCandidate
  BY <1>12 DEF PollCandidate
<1>13. CASE StopCandidate
  BY <1>13 DEF StopCandidate
<1>14. CASE WriteStopped
  BY <1>14 DEF WriteStopped
<1>15. CASE ReapCandidate
  BY <1>15 DEF ReapCandidate
<1>16. CASE Finish
  BY <1>16 DEF Finish
<1>17. CASE WorkerException
  BY <1>17 DEF WorkerException
<1>18. CASE WorkerKilled
  BY <1>18 DEF WorkerKilled
<1>19. ASSUME NEW e \in Executions, CandidateExits(e)
      PROVE  StartOrder'
  BY <1>19 DEF CandidateExits
<1>20. ASSUME NEW p \in 0 .. NumExecutions, SignalArrives(p)
      PROVE  StartOrder'
  BY <1>20 DEF SignalsToTheLiving, SignalArrives
<1>21. CASE TimePasses
  BY <1>21 DEF TimePasses
<1>22. ASSUME NEW c \in Callers, NEW op \in {"status", "recover"},
             SeeDeadWorker(c, op) \/ PersistOrphan(c, op)
      PROVE  StartOrder'
  BY <1>22 DEF SeeDeadWorker, PersistOrphan
<1>23. ASSUME NEW c \in Callers, CleanupDetachedCandidate(c)
      PROVE  StartOrder'
  BY <1>23 DEF CleanupDetachedCandidate
<1>24. ASSUME NEW c \in Callers, WatchdogDecision(c)
      PROVE  StartOrder'
  BY <1>24 DEF WatchdogDecision
<1>25. ASSUME NEW c \in Callers, WatchdogCleanup(c)
      PROVE  StartOrder'
  BY <1>25 DEF WatchdogCleanup
<1>26. ASSUME NEW c \in Callers, WatchdogOrphan(c)
      PROVE  StartOrder'
  BY <1>26 DEF WatchdogOrphan
<1>27. ASSUME NEW c \in Callers, KillChild(c)
      PROVE  StartOrder'
  BY <1>27 DEF KillChild
<1>28. ASSUME NEW c \in Callers, KillWorker(c)
      PROVE  StartOrder'
  BY <1>28 DEF KillWorker
<1>29. ASSUME NEW c \in Callers, WatchdogTimeOut(c)
      PROVE  StartOrder'
  BY <1>29 DEF WatchdogTimeOut
<1>30. ASSUME NEW c \in Callers, CancelBegin(c)
      PROVE  StartOrder'
  BY <1>30 DEF CancelBegin
<1>31. ASSUME NEW c \in Callers, RequestCancel(c)
      PROVE  StartOrder'
  BY <1>31 DEF RequestCancel
<1>32. ASSUME NEW c \in Callers, RereadJob(c)
      PROVE  StartOrder'
  BY <1>32 DEF RereadJob
<1>33. ASSUME NEW c \in Callers, ConfirmCancel(c)
      PROVE  StartOrder'
  BY <1>33 DEF ConfirmCancel
<1>34. ASSUME NEW c \in Callers, ReplyCancel(c)
      PROVE  StartOrder'
  BY <1>34 DEF ReplyCancel
<1>35. ASSUME NEW c \in Callers, CleanBegin(c)
      PROVE  StartOrder'
  BY <1>35 DEF CleanBegin
<1>36. ASSUME NEW c \in Callers, DeleteJob(c)
      PROVE  StartOrder'
  BY <1>36 DEF CancelProgress, DeleteJob
<1>37. ASSUME NEW c \in Callers, CallFault(c)
      PROVE  StartOrder'
  BY <1>37 DEF CallFault
<1>38. CASE UNCHANGED vars
  BY <1>38 DEF vars
<1>39. QED
  BY <1>1, <1>2, <1>3, <1>4, <1>5, <1>6, <1>7, <1>8, <1>9, <1>10, <1>11, 
     <1>12, <1>13, <1>14, <1>15, <1>16, <1>17, <1>18, <1>19, <1>20, <1>21, 
     <1>22, <1>23, <1>24, <1>25, <1>26, <1>27, <1>28, <1>29, <1>30, <1>31, 
     <1>32, <1>33, <1>34, <1>35, <1>36, <1>37, <1>38
  DEF Next, StartStrategyRun, RunWorker, BeginCall, Continue

\* The order of the candidates is the worker's alone.
LEMMA CandidateOrderKept ==
  ASSUME TypeOK, StartOrder, CandidateOrder, SignalsToTheLiving, [Next]_vars
  PROVE  CandidateOrder'
<1> USE NumExecutionsAssumption DEF TypeOK, Row, Executions, StartOrder, CandidateOrder, MoveState, WriteTerminal, WorkerExits, Active, Terminal, WorkerAlive, Alive, ACTIVE_STATES, TERMINAL_STATES
<1>1. CASE CreateJobRecord
  BY <1>1 DEF CreateJobRecord
<1>2. CASE SpawnWorker
  BY <1>2 DEF SpawnWorker
<1>3. CASE SpawnFails
  BY <1>3 DEF SpawnFails
<1>4. CASE RecordLaunchFailure
  BY <1>4 DEF RecordLaunchFailure
<1>5. CASE RecordWorkerPid
  BY <1>5 DEF RecordWorkerPid
<1>6. CASE StarterFault
  BY <1>6 DEF StarterFault
<1>7. CASE CheckFails
  BY <1>7 DEF CheckFails
<1>8. CASE WriteRunning
  BY <1>8 DEF WriteRunning
<1>9. CASE RecordLimits
  BY <1>9 DEF RecordLimits
<1>10. CASE LaunchCandidate
  BY <1>10 DEF LaunchCandidate
<1>11. CASE RecordCandidate
  BY <1>11 DEF RecordCandidate
<1>12. CASE PollCandidate
  BY <1>12 DEF PollCandidate
<1>13. CASE StopCandidate
  BY <1>13 DEF StopCandidate
<1>14. CASE WriteStopped
  BY <1>14 DEF WriteStopped
<1>15. CASE ReapCandidate
  BY <1>15 DEF ReapCandidate
<1>16. CASE Finish
  BY <1>16 DEF Finish
<1>17. CASE WorkerException
  BY <1>17 DEF WorkerException
<1>18. CASE WorkerKilled
  BY <1>18 DEF WorkerKilled
<1>19. ASSUME NEW e \in Executions, CandidateExits(e)
      PROVE  CandidateOrder'
  BY <1>19 DEF CandidateExits
<1>20. ASSUME NEW p \in 0 .. NumExecutions, SignalArrives(p)
      PROVE  CandidateOrder'
  BY <1>20 DEF SignalsToTheLiving, SignalArrives
<1>21. CASE TimePasses
  BY <1>21 DEF TimePasses
<1>22. ASSUME NEW c \in Callers, CallStep(c)
      PROVE  CandidateOrder'
  BY <1>22, CallStepLeavesProcesses
<1>23. CASE UNCHANGED vars
  BY <1>23 DEF vars
<1>24. QED
  BY <1>1, <1>2, <1>3, <1>4, <1>5, <1>6, <1>7, <1>8, <1>9, <1>10, <1>11, 
     <1>12, <1>13, <1>14, <1>15, <1>16, <1>17, <1>18, <1>19, <1>20, <1>21, 
     <1>22, <1>23
  DEF Next, StartStrategyRun, RunWorker, CallStep

\* A process that ends takes its pending signal with it.
LEMMA SignalsToTheLivingKept ==
  ASSUME TypeOK, StartOrder, SignalsToTheLiving, [Next]_vars
  PROVE  SignalsToTheLiving'
<1> USE DEF TypeOK, Row, Executions, StartOrder, SignalsToTheLiving, MoveState, WriteTerminal, WorkerExits, Active, Terminal, WorkerAlive, Alive, ACTIVE_STATES, TERMINAL_STATES, Signal
<1>1. CASE CreateJobRecord
  BY <1>1 DEF CreateJobRecord
<1>2. CASE SpawnWorker
  BY <1>2 DEF SpawnWorker
<1>3. CASE SpawnFails
  BY <1>3 DEF SpawnFails
<1>4. CASE RecordLaunchFailure
  BY <1>4 DEF RecordLaunchFailure
<1>5. CASE RecordWorkerPid
  BY <1>5 DEF RecordWorkerPid
<1>6. CASE StarterFault
  BY <1>6 DEF StarterFault
<1>7. CASE CheckFails
  BY <1>7 DEF CheckFails
<1>8. CASE WriteRunning
  BY <1>8 DEF WriteRunning
<1>9. CASE RecordLimits
  BY <1>9 DEF RecordLimits
<1>10. CASE LaunchCandidate
  BY <1>10 DEF LaunchCandidate
<1>11. CASE RecordCandidate
  BY <1>11 DEF RecordCandidate
<1>12. CASE PollCandidate
  BY <1>12 DEF PollCandidate
<1>13. CASE StopCandidate
  BY <1>13 DEF StopCandidate
<1>14. CASE WriteStopped
  BY <1>14 DEF WriteStopped
<1>15. CASE ReapCandidate
  BY <1>15 DEF ReapCandidate
<1>16. CASE Finish
  BY <1>16 DEF Finish
<1>17. CASE WorkerException
  BY <1>17 DEF WorkerException
<1>18. CASE WorkerKilled
  BY <1>18 DEF WorkerKilled
<1>19. ASSUME NEW e \in Executions, CandidateExits(e)
      PROVE  SignalsToTheLiving'
  BY <1>19 DEF CandidateExits
<1>20. ASSUME NEW p \in 0 .. NumExecutions, SignalArrives(p)
      PROVE  SignalsToTheLiving'
  BY <1>20, NumExecutionsAssumption DEF SignalArrives
<1>21. CASE TimePasses
  BY <1>21 DEF TimePasses
<1>22. ASSUME NEW c \in Callers, NEW op \in {"status", "recover"},
             SeeDeadWorker(c, op) \/ PersistOrphan(c, op)
      PROVE  SignalsToTheLiving'
  BY <1>22 DEF SeeDeadWorker, PersistOrphan
<1>23. ASSUME NEW c \in Callers, CleanupDetachedCandidate(c)
      PROVE  SignalsToTheLiving'
  BY <1>23 DEF CleanupDetachedCandidate
<1>24. ASSUME NEW c \in Callers, WatchdogDecision(c)
      PROVE  SignalsToTheLiving'
  BY <1>24 DEF WatchdogDecision
<1>25. ASSUME NEW c \in Callers, WatchdogCleanup(c)
      PROVE  SignalsToTheLiving'
  BY <1>25 DEF WatchdogCleanup
<1>26. ASSUME NEW c \in Callers, WatchdogOrphan(c)
      PROVE  SignalsToTheLiving'
  BY <1>26 DEF WatchdogOrphan
<1>27. ASSUME NEW c \in Callers, KillChild(c)
      PROVE  SignalsToTheLiving'
  BY <1>27 DEF KillChild
<1>28. ASSUME NEW c \in Callers, KillWorker(c)
      PROVE  SignalsToTheLiving'
  BY <1>28 DEF KillWorker
<1>29. ASSUME NEW c \in Callers, WatchdogTimeOut(c)
      PROVE  SignalsToTheLiving'
  BY <1>29 DEF WatchdogTimeOut
<1>30. ASSUME NEW c \in Callers, CancelBegin(c)
      PROVE  SignalsToTheLiving'
  BY <1>30 DEF CancelBegin
<1>31. ASSUME NEW c \in Callers, RequestCancel(c)
      PROVE  SignalsToTheLiving'
  BY <1>31 DEF RequestCancel
<1>32. ASSUME NEW c \in Callers, RereadJob(c)
      PROVE  SignalsToTheLiving'
  BY <1>32 DEF RereadJob
<1>33. ASSUME NEW c \in Callers, ConfirmCancel(c)
      PROVE  SignalsToTheLiving'
  BY <1>33 DEF ConfirmCancel
<1>34. ASSUME NEW c \in Callers, ReplyCancel(c)
      PROVE  SignalsToTheLiving'
  BY <1>34 DEF ReplyCancel
<1>35. ASSUME NEW c \in Callers, CleanBegin(c)
      PROVE  SignalsToTheLiving'
  BY <1>35 DEF CleanBegin
<1>36. ASSUME NEW c \in Callers, DeleteJob(c)
      PROVE  SignalsToTheLiving'
  BY <1>36 DEF DeleteJob
<1>37. ASSUME NEW c \in Callers, CallFault(c)
      PROVE  SignalsToTheLiving'
  BY <1>37 DEF CallFault
<1>38. CASE UNCHANGED vars
  BY <1>38 DEF vars
<1>39. QED
  BY <1>1, <1>2, <1>3, <1>4, <1>5, <1>6, <1>7, <1>8, <1>9, <1>10, <1>11, 
     <1>12, <1>13, <1>14, <1>15, <1>16, <1>17, <1>18, <1>19, <1>20, <1>21, 
     <1>22, <1>23, <1>24, <1>25, <1>26, <1>27, <1>28, <1>29, <1>30, <1>31, 
     <1>32, <1>33, <1>34, <1>35, <1>36, <1>37, <1>38
  DEF Next, StartStrategyRun, RunWorker, BeginCall, Continue

\* A result is written once, with SUCCEEDED, by a worker at its end.
LEMMA ResultOrderKept ==
  ASSUME TypeOK, StartOrder, CandidateOrder, SignalsToTheLiving, ResultOrder, [Next]_vars
  PROVE  ResultOrder'
<1> USE DEF TypeOK, Row, Executions, StartOrder, CandidateOrder, ResultOrder, MoveState, WriteTerminal, WorkerExits, Active, Terminal, WorkerAlive, Alive, ACTIVE_STATES, TERMINAL_STATES
<1>1. CASE CreateJobRecord
  BY <1>1 DEF CreateJobRecord
<1>2. CASE SpawnWorker
  BY <1>2 DEF SpawnWorker
<1>3. CASE SpawnFails
  BY <1>3 DEF SpawnFails
<1>4. CASE RecordLaunchFailure
  BY <1>4 DEF RecordLaunchFailure
<1>5. CASE RecordWorkerPid
  BY <1>5 DEF RecordWorkerPid
<1>6. CASE StarterFault
  BY <1>6 DEF StarterFault
<1>7. CASE CheckFails
  BY <1>7 DEF CheckFails
<1>8. CASE WriteRunning
  BY <1>8 DEF WriteRunning
<1>9. CASE RecordLimits
  BY <1>9 DEF RecordLimits
<1>10. CASE LaunchCandidate
  BY <1>10 DEF LaunchCandidate
<1>11. CASE RecordCandidate
  BY <1>11 DEF RecordCandidate
<1>12. CASE PollCandidate
  BY <1>12 DEF PollCandidate
<1>13. CASE StopCandidate
  BY <1>13 DEF StopCandidate
<1>14. CASE WriteStopped
  BY <1>14 DEF WriteStopped
<1>15. CASE ReapCandidate
  BY <1>15 DEF ReapCandidate
<1>16. CASE Finish
  BY <1>16 DEF Finish
<1>17. CASE WorkerException
  BY <1>17 DEF WorkerException
<1>18. CASE WorkerKilled
  BY <1>18 DEF WorkerKilled
<1>19. ASSUME NEW e \in Executions, CandidateExits(e)
      PROVE  ResultOrder'
  BY <1>19 DEF CandidateExits
<1>20. ASSUME NEW p \in 0 .. NumExecutions, SignalArrives(p)
      PROVE  ResultOrder'
  BY <1>20 DEF SignalsToTheLiving, SignalArrives
<1>21. CASE TimePasses
  BY <1>21 DEF TimePasses
<1>22. ASSUME NEW c \in Callers, NEW op \in {"status", "recover"},
             SeeDeadWorker(c, op) \/ PersistOrphan(c, op)
      PROVE  ResultOrder'
  BY <1>22 DEF SeeDeadWorker, PersistOrphan
<1>23. ASSUME NEW c \in Callers, CleanupDetachedCandidate(c)
      PROVE  ResultOrder'
  BY <1>23 DEF CleanupDetachedCandidate
<1>24. ASSUME NEW c \in Callers, WatchdogDecision(c)
      PROVE  ResultOrder'
  BY <1>24 DEF WatchdogDecision
<1>25. ASSUME NEW c \in Callers, WatchdogCleanup(c)
      PROVE  ResultOrder'
  BY <1>25 DEF WatchdogCleanup
<1>26. ASSUME NEW c \in Callers, WatchdogOrphan(c)
      PROVE  ResultOrder'
  BY <1>26 DEF WatchdogOrphan
<1>27. ASSUME NEW c \in Callers, KillChild(c)
      PROVE  ResultOrder'
  BY <1>27 DEF KillChild
<1>28. ASSUME NEW c \in Callers, KillWorker(c)
      PROVE  ResultOrder'
  BY <1>28 DEF KillWorker
<1>29. ASSUME NEW c \in Callers, WatchdogTimeOut(c)
      PROVE  ResultOrder'
  BY <1>29 DEF WatchdogTimeOut
<1>30. ASSUME NEW c \in Callers, CancelBegin(c)
      PROVE  ResultOrder'
  BY <1>30 DEF CancelBegin
<1>31. ASSUME NEW c \in Callers, RequestCancel(c)
      PROVE  ResultOrder'
  BY <1>31 DEF RequestCancel
<1>32. ASSUME NEW c \in Callers, RereadJob(c)
      PROVE  ResultOrder'
  BY <1>32 DEF RereadJob
<1>33. ASSUME NEW c \in Callers, ConfirmCancel(c)
      PROVE  ResultOrder'
  BY <1>33 DEF ConfirmCancel
<1>34. ASSUME NEW c \in Callers, ReplyCancel(c)
      PROVE  ResultOrder'
  BY <1>34 DEF ReplyCancel
<1>35. ASSUME NEW c \in Callers, CleanBegin(c)
      PROVE  ResultOrder'
  BY <1>35 DEF CleanBegin
<1>36. ASSUME NEW c \in Callers, DeleteJob(c)
      PROVE  ResultOrder'
  BY <1>36 DEF DeleteJob
<1>37. ASSUME NEW c \in Callers, CallFault(c)
      PROVE  ResultOrder'
  BY <1>37 DEF CallFault
<1>38. CASE UNCHANGED vars
  BY <1>38 DEF vars
<1>39. QED
  BY <1>1, <1>2, <1>3, <1>4, <1>5, <1>6, <1>7, <1>8, <1>9, <1>10, <1>11, 
     <1>12, <1>13, <1>14, <1>15, <1>16, <1>17, <1>18, <1>19, <1>20, <1>21, 
     <1>22, <1>23, <1>24, <1>25, <1>26, <1>27, <1>28, <1>29, <1>30, <1>31, 
     <1>32, <1>33, <1>34, <1>35, <1>36, <1>37, <1>38
  DEF Next, StartStrategyRun, RunWorker, BeginCall, Continue

\* A worker seen dead stays dead, so a verdict on it does not age.
LEMMA OrphanVerdictKept ==
  ASSUME TypeOK, StartOrder, SignalsToTheLiving, OrphanVerdict, [Next]_vars
  PROVE  OrphanVerdict'
<1> USE DEF TypeOK, Row, Executions, Call, StartOrder, SignalsToTheLiving, OrphanVerdict, MoveState, WriteTerminal, WorkerExits, Active, Terminal, WorkerAlive, Alive, ACTIVE_STATES, TERMINAL_STATES, Begin, Snapshot, Standing, GoTo, Return, NoCall
<1>1. CASE CreateJobRecord
  BY <1>1 DEF CreateJobRecord
<1>2. CASE SpawnWorker
  BY <1>2 DEF SpawnWorker
<1>3. CASE SpawnFails
  BY <1>3 DEF SpawnFails
<1>4. CASE RecordLaunchFailure
  BY <1>4 DEF RecordLaunchFailure
<1>5. CASE RecordWorkerPid
  BY <1>5 DEF RecordWorkerPid
<1>6. CASE StarterFault
  BY <1>6 DEF StarterFault
<1>7. CASE CheckFails
  BY <1>7 DEF CheckFails
<1>8. CASE WriteRunning
  BY <1>8 DEF WriteRunning
<1>9. CASE RecordLimits
  BY <1>9 DEF RecordLimits
<1>10. CASE LaunchCandidate
  BY <1>10 DEF LaunchCandidate
<1>11. CASE RecordCandidate
  BY <1>11 DEF RecordCandidate
<1>12. CASE PollCandidate
  BY <1>12 DEF PollCandidate
<1>13. CASE StopCandidate
  BY <1>13 DEF StopCandidate
<1>14. CASE WriteStopped
  BY <1>14 DEF WriteStopped
<1>15. CASE ReapCandidate
  BY <1>15 DEF ReapCandidate
<1>16. CASE Finish
  BY <1>16 DEF Finish
<1>17. CASE WorkerException
  BY <1>17 DEF WorkerException
<1>18. CASE WorkerKilled
  BY <1>18 DEF WorkerKilled
<1>19. ASSUME NEW e \in Executions, CandidateExits(e)
      PROVE  OrphanVerdict'
  BY <1>19 DEF CandidateExits
<1>20. ASSUME NEW p \in 0 .. NumExecutions, SignalArrives(p)
      PROVE  OrphanVerdict'
  BY <1>20 DEF SignalArrives
<1>21. CASE TimePasses
  BY <1>21 DEF TimePasses
<1>22. ASSUME NEW c \in Callers, NEW op \in {"status", "recover"},
             SeeDeadWorker(c, op) \/ PersistOrphan(c, op)
      PROVE  OrphanVerdict'
  BY <1>22 DEF SeeDeadWorker, PersistOrphan
<1>23. ASSUME NEW c \in Callers, CleanupDetachedCandidate(c)
      PROVE  OrphanVerdict'
  BY <1>23 DEF CleanupDetachedCandidate
<1>24. ASSUME NEW c \in Callers, WatchdogDecision(c)
      PROVE  OrphanVerdict'
  BY <1>24 DEF WatchdogDecision
<1>25. ASSUME NEW c \in Callers, WatchdogCleanup(c)
      PROVE  OrphanVerdict'
  BY <1>25 DEF WatchdogCleanup
<1>26. ASSUME NEW c \in Callers, WatchdogOrphan(c)
      PROVE  OrphanVerdict'
  BY <1>26 DEF WatchdogOrphan
<1>27. ASSUME NEW c \in Callers, KillChild(c)
      PROVE  OrphanVerdict'
  BY <1>27 DEF KillChild
<1>28. ASSUME NEW c \in Callers, KillWorker(c)
      PROVE  OrphanVerdict'
  BY <1>28 DEF KillWorker
<1>29. ASSUME NEW c \in Callers, WatchdogTimeOut(c)
      PROVE  OrphanVerdict'
  BY <1>29 DEF WatchdogTimeOut
<1>30. ASSUME NEW c \in Callers, CancelBegin(c)
      PROVE  OrphanVerdict'
  BY <1>30 DEF CancelBegin
<1>31. ASSUME NEW c \in Callers, RequestCancel(c)
      PROVE  OrphanVerdict'
  BY <1>31 DEF RequestCancel
<1>32. ASSUME NEW c \in Callers, RereadJob(c)
      PROVE  OrphanVerdict'
  BY <1>32 DEF RereadJob
<1>33. ASSUME NEW c \in Callers, ConfirmCancel(c)
      PROVE  OrphanVerdict'
  BY <1>33 DEF ConfirmCancel
<1>34. ASSUME NEW c \in Callers, ReplyCancel(c)
      PROVE  OrphanVerdict'
  BY <1>34 DEF ReplyCancel
<1>35. ASSUME NEW c \in Callers, CleanBegin(c)
      PROVE  OrphanVerdict'
  BY <1>35 DEF CleanBegin
<1>36. ASSUME NEW c \in Callers, DeleteJob(c)
      PROVE  OrphanVerdict'
  BY <1>36 DEF DeleteJob
<1>37. ASSUME NEW c \in Callers, CallFault(c)
      PROVE  OrphanVerdict'
  BY <1>37 DEF CallFault
<1>38. CASE UNCHANGED vars
  BY <1>38 DEF vars
<1>39. QED
  BY <1>1, <1>2, <1>3, <1>4, <1>5, <1>6, <1>7, <1>8, <1>9, <1>10, <1>11, 
     <1>12, <1>13, <1>14, <1>15, <1>16, <1>17, <1>18, <1>19, <1>20, <1>21, 
     <1>22, <1>23, <1>24, <1>25, <1>26, <1>27, <1>28, <1>29, <1>30, <1>31, 
     <1>32, <1>33, <1>34, <1>35, <1>36, <1>37, <1>38
  DEF Next, StartStrategyRun, RunWorker, BeginCall, Continue

\* The lock admits one holder: only Begin takes it, and only when it is free.
LEMMA OneLockHolderKept ==
  ASSUME TypeOK, OneLockHolder, [Next]_vars
  PROVE  OneLockHolder'
<1> USE DEF TypeOK, Call, OneLockHolder, JobLockFree, LOCKING_OPS, Begin, Snapshot, Standing, GoTo, Return, NoCall
<1>1. CASE UNCHANGED call
  BY <1>1
<1>2. ASSUME NEW c \in Callers, NEW op \in {"status", "recover"},
             SeeDeadWorker(c, op) \/ PersistOrphan(c, op)
      PROVE  OneLockHolder'
  BY <1>2 DEF SeeDeadWorker, PersistOrphan
<1>3. ASSUME NEW c \in Callers, CleanupDetachedCandidate(c)
      PROVE  OneLockHolder'
  BY <1>3 DEF CleanupDetachedCandidate
<1>4. ASSUME NEW c \in Callers, WatchdogDecision(c)
      PROVE  OneLockHolder'
  BY <1>4 DEF WatchdogDecision
<1>5. ASSUME NEW c \in Callers, WatchdogCleanup(c)
      PROVE  OneLockHolder'
  BY <1>5 DEF WatchdogCleanup
<1>6. ASSUME NEW c \in Callers, WatchdogOrphan(c)
      PROVE  OneLockHolder'
  BY <1>6 DEF WatchdogOrphan
<1>7. ASSUME NEW c \in Callers, KillChild(c)
      PROVE  OneLockHolder'
  BY <1>7 DEF KillChild
<1>8. ASSUME NEW c \in Callers, KillWorker(c)
      PROVE  OneLockHolder'
  BY <1>8 DEF KillWorker
<1>9. ASSUME NEW c \in Callers, WatchdogTimeOut(c)
      PROVE  OneLockHolder'
  BY <1>9 DEF WatchdogTimeOut
<1>10. ASSUME NEW c \in Callers, CancelBegin(c)
      PROVE  OneLockHolder'
  BY <1>10 DEF CancelBegin
<1>11. ASSUME NEW c \in Callers, RequestCancel(c)
      PROVE  OneLockHolder'
  BY <1>11 DEF RequestCancel
<1>12. ASSUME NEW c \in Callers, RereadJob(c)
      PROVE  OneLockHolder'
  BY <1>12 DEF RereadJob
<1>13. ASSUME NEW c \in Callers, ConfirmCancel(c)
      PROVE  OneLockHolder'
  BY <1>13 DEF ConfirmCancel
<1>14. ASSUME NEW c \in Callers, ReplyCancel(c)
      PROVE  OneLockHolder'
  BY <1>14 DEF ReplyCancel
<1>15. ASSUME NEW c \in Callers, CleanBegin(c)
      PROVE  OneLockHolder'
  BY <1>15 DEF CleanBegin
<1>16. ASSUME NEW c \in Callers, DeleteJob(c)
      PROVE  OneLockHolder'
  BY <1>16 DEF DeleteJob
<1>17. ASSUME NEW c \in Callers, CallFault(c)
      PROVE  OneLockHolder'
  BY <1>17 DEF CallFault
<1>18. QED
  BY <1>1, <1>2, <1>3, <1>4, <1>5, <1>6, <1>7, <1>8, <1>9, <1>10, <1>11, 
     <1>12, <1>13, <1>14, <1>15, <1>16, <1>17, ProcessStepLeavesCalls
  DEF Next, ProcessStep, BeginCall, Continue, vars

\* What the holder of the lock relies on.
LEMMA CancelProgressKept ==
  ASSUME TypeOK, StartOrder, OneLockHolder, CancelProgress, [Next]_vars
  PROVE  CancelProgress'
<1> USE DEF TypeOK, Row, Executions, Call, StartOrder, OneLockHolder, JobLockFree, LOCKING_OPS, CancelProgress, MoveState, WriteTerminal, WorkerExits, Active, Terminal, WorkerAlive, Alive, ACTIVE_STATES, TERMINAL_STATES, Begin, Snapshot, Standing, GoTo, Return, NoCall
<1>1. CASE CreateJobRecord
  BY <1>1 DEF CreateJobRecord
<1>2. CASE SpawnWorker
  BY <1>2 DEF SpawnWorker
<1>3. CASE SpawnFails
  BY <1>3 DEF SpawnFails
<1>4. CASE RecordLaunchFailure
  BY <1>4 DEF RecordLaunchFailure
<1>5. CASE RecordWorkerPid
  BY <1>5 DEF RecordWorkerPid
<1>6. CASE StarterFault
  BY <1>6 DEF StarterFault
<1>7. CASE CheckFails
  BY <1>7 DEF CheckFails
<1>8. CASE WriteRunning
  BY <1>8 DEF WriteRunning
<1>9. CASE RecordLimits
  BY <1>9 DEF RecordLimits
<1>10. CASE LaunchCandidate
  BY <1>10 DEF LaunchCandidate
<1>11. CASE RecordCandidate
  BY <1>11 DEF RecordCandidate
<1>12. CASE PollCandidate
  BY <1>12 DEF PollCandidate
<1>13. CASE StopCandidate
  BY <1>13 DEF StopCandidate
<1>14. CASE WriteStopped
  BY <1>14 DEF WriteStopped
<1>15. CASE ReapCandidate
  BY <1>15 DEF ReapCandidate
<1>16. CASE Finish
  <2>1. call' = call
    BY <1>16 DEF Finish
  <2>2. CASE job.state \in {"QUEUED", "RUNNING"}
    <3>1. job'.state \in {"SUCCEEDED", "FAILED"}
      BY <1>16, <2>2 DEF Finish
    <3>2. \A c \in Callers : ~call[c].accepted /\ call[c].op # "clean"
      BY <2>2
    <3>3. QED
      BY <2>1, <3>1, <3>2
  <2>3. CASE job.state \notin {"QUEUED", "RUNNING"}
    BY <1>16, <2>1, <2>3 DEF Finish
  <2>4. QED
    BY <2>2, <2>3
<1>17. CASE WorkerException
  BY <1>17 DEF WorkerException
<1>18. CASE WorkerKilled
  BY <1>18 DEF WorkerKilled
<1>19. ASSUME NEW e \in Executions, CandidateExits(e)
      PROVE  CancelProgress'
  BY <1>19 DEF CandidateExits
<1>20. ASSUME NEW p \in 0 .. NumExecutions, SignalArrives(p)
      PROVE  CancelProgress'
  BY <1>20 DEF SignalArrives
<1>21. CASE TimePasses
  BY <1>21 DEF TimePasses
<1>22. ASSUME NEW c \in Callers, NEW op \in {"status", "recover"},
             SeeDeadWorker(c, op) \/ PersistOrphan(c, op)
      PROVE  CancelProgress'
  BY <1>22 DEF SeeDeadWorker, PersistOrphan
<1>23. ASSUME NEW c \in Callers, CleanupDetachedCandidate(c)
      PROVE  CancelProgress'
  BY <1>23 DEF CleanupDetachedCandidate
<1>24. ASSUME NEW c \in Callers, WatchdogDecision(c)
      PROVE  CancelProgress'
  BY <1>24 DEF WatchdogDecision
<1>25. ASSUME NEW c \in Callers, WatchdogCleanup(c)
      PROVE  CancelProgress'
  BY <1>25 DEF WatchdogCleanup
<1>26. ASSUME NEW c \in Callers, WatchdogOrphan(c)
      PROVE  CancelProgress'
  BY <1>26 DEF WatchdogOrphan
<1>27. ASSUME NEW c \in Callers, KillChild(c)
      PROVE  CancelProgress'
  BY <1>27 DEF KillChild
<1>28. ASSUME NEW c \in Callers, KillWorker(c)
      PROVE  CancelProgress'
  BY <1>28 DEF KillWorker
<1>29. ASSUME NEW c \in Callers, WatchdogTimeOut(c)
      PROVE  CancelProgress'
  BY <1>29 DEF WatchdogTimeOut
<1>30. ASSUME NEW c \in Callers, CancelBegin(c)
      PROVE  CancelProgress'
  BY <1>30 DEF CancelBegin
<1>31. ASSUME NEW c \in Callers, RequestCancel(c)
      PROVE  CancelProgress'
  <2>1. CASE job.state \in ACTIVE_STATES
    <3>1. job'.state = "CANCEL_REQUESTED"
      BY <1>31, <2>1 DEF RequestCancel
    <3>2. /\ call' = [call EXCEPT ![c].at = "reread", ![c].accepted = TRUE]
          /\ call[c].op = "cancel"
      BY <1>31, <2>1 DEF RequestCancel
    <3>3. \A d \in Callers : d # c => call'[d] = call[d] /\ call[d].op \notin LOCKING_OPS
      BY <1>31, <3>2 DEF RequestCancel
    <3>4. /\ call'[c].op = "cancel" /\ call'[c].at = "reread" /\ call'[c].accepted
      BY <3>2
    <3>5. QED
      BY <3>1, <3>3, <3>4
  <2>2. CASE job.state \notin ACTIVE_STATES
    <3>1. UNCHANGED job /\ call' = [call EXCEPT ![c].at = "reply"] /\ call[c].op = "cancel"
      BY <1>31, <2>2 DEF RequestCancel
    <3>2. job.state \in TERMINAL_STATES
      BY <2>2, <3>1 DEF STATES
    <3>3. QED
      BY <3>1, <3>2
  <2>3. QED
    BY <2>1, <2>2
<1>32. ASSUME NEW c \in Callers, RereadJob(c)
      PROVE  CancelProgress'
  BY <1>32 DEF RereadJob
<1>33. ASSUME NEW c \in Callers, ConfirmCancel(c)
      PROVE  CancelProgress'
  BY <1>33 DEF ConfirmCancel
<1>34. ASSUME NEW c \in Callers, ReplyCancel(c)
      PROVE  CancelProgress'
  BY <1>34 DEF ReplyCancel
<1>35. ASSUME NEW c \in Callers, CleanBegin(c)
      PROVE  CancelProgress'
  BY <1>35 DEF CleanBegin
<1>36. ASSUME NEW c \in Callers, DeleteJob(c)
      PROVE  CancelProgress'
  BY <1>36 DEF DeleteJob
<1>37. ASSUME NEW c \in Callers, CallFault(c)
      PROVE  CancelProgress'
  BY <1>37 DEF CallFault
<1>38. CASE UNCHANGED vars
  BY <1>38 DEF vars
<1>39. QED
  BY <1>1, <1>2, <1>3, <1>4, <1>5, <1>6, <1>7, <1>8, <1>9, <1>10, <1>11, 
     <1>12, <1>13, <1>14, <1>15, <1>16, <1>17, <1>18, <1>19, <1>20, <1>21, 
     <1>22, <1>23, <1>24, <1>25, <1>26, <1>27, <1>28, <1>29, <1>30, <1>31, 
     <1>32, <1>33, <1>34, <1>35, <1>36, <1>37, <1>38
  DEF Next, StartStrategyRun, RunWorker, BeginCall, Continue

-----------------------------------------------------------------------------
(* Invariant is inductive *)

LEMMA InitInvariant == Init => Invariant
BY NumExecutionsAssumption, MaxFaultsAssumption
DEF Init, Invariant, TypeOK, Row, Call, NoCall, STATES, TERMINAL_STATES, ACTIVE_STATES,
    StarterAt, WorkerAt, CandidateAt, Ops, CallAt, LOCKING_OPS, Executions, StartOrder,
    CandidateOrder, SignalsToTheLiving, ResultOrder, OrphanVerdict, OneLockHolder,
    CancelProgress, Standing, Terminal

LEMMA NextInvariant == Invariant /\ [Next]_vars => Invariant'
BY TypeInvariance, StartOrderKept, CandidateOrderKept, SignalsToTheLivingKept,
   ResultOrderKept, OrphanVerdictKept, OneLockHolderKept, CancelProgressKept
DEF Invariant

\* The inductive invariant holds in every reachable state.
THEOREM InvariantHolds == Spec => []Invariant
BY InitInvariant, NextInvariant, PTL DEF Spec

-----------------------------------------------------------------------------
(* The theorems *)

\* Every variable keeps its type.
THEOREM TypeCorrect == Spec => []TypeOK
<1>1. Invariant => TypeOK
  BY DEF Invariant
<1>2. QED
  BY <1>1, InvariantHolds, PTL

\* A SUCCEEDED job has its result, and every execution of it ended well.
THEOREM SuccessCorrect == Spec => []SuccessIsComplete
<1>1. Invariant => SuccessIsComplete
  BY DEF Invariant, ResultOrder, SuccessIsComplete
<1>2. QED
  BY <1>1, InvariantHolds, PTL

\* No ORPHANED job has a live worker.
THEOREM OrphanCorrect == Spec => []OrphanHasNoWorker
<1>1. Invariant => OrphanHasNoWorker
  BY DEF Invariant, OrphanVerdict, OrphanHasNoWorker
<1>2. QED
  BY <1>1, InvariantHolds, PTL

\* A cancel that answers has ended the job, and never with SUCCEEDED once its
\* request was accepted.
THEOREM CancelCorrect == Spec => []CancelEndsTheJob
<1>1. Invariant => CancelEndsTheJob
  BY DEF Invariant, CancelProgress, CancelEndsTheJob, Terminal, TERMINAL_STATES
<1>2. QED
  BY <1>1, InvariantHolds, PTL

\* The pids cancel and the watchdog read cover the running candidate of a live
\* worker, but for the gap between Popen and the child_pid write.
THEOREM RecordedCorrect == Spec => []RunningCandidateIsRecorded
<1>1. Invariant => RunningCandidateIsRecorded
  <2>1. SUFFICES ASSUME Invariant, WorkerAlive, NEW e \in Executions, candidate[e] = "running"
                 PROVE  e = execution /\ (worker = "record" \/ job.child_pid = e)
    BY DEF RunningCandidateIsRecorded
  <2>2. ~(e < execution) /\ ~(e > execution)
    BY <2>1 DEF Invariant, CandidateOrder
  <2>3. e = execution
    BY <2>1, <2>2, NumExecutionsAssumption DEF Invariant, TypeOK, Executions
  <2>4. worker \in {"record", "poll", "stopForCancel", "stopForDeadline"}
    BY <2>1, <2>3
    DEF Invariant, TypeOK, WorkerAt, WorkerAlive, StartOrder, CandidateOrder
  <2>5. QED
    BY <2>1, <2>3, <2>4 DEF Invariant, CandidateOrder
<1>2. QED
  BY <1>1, InvariantHolds, PTL

\* The arbitration rule, as far as the worker is concerned.
THEOREM WorkerHonoursCancelCorrect == Spec => WorkerHonoursCancel
<1>1. Invariant /\ [Next]_vars =>
        [job.state = "CANCEL_REQUESTED" /\ RunWorker
           => job.state' \in {"CANCEL_REQUESTED", "CANCELLED"}]_vars
  BY DEF RunWorker, CheckFails, WriteRunning, RecordLimits, LaunchCandidate, RecordCandidate,
         PollCandidate, StopCandidate, WriteStopped, ReapCandidate, Finish, WorkerException,
         WorkerKilled, MoveState, WriteTerminal, Invariant, TypeOK, Row
<1>2. QED
  BY <1>1, InvariantHolds, PTL DEF Spec, WorkerHonoursCancel

\* A step of a job is a step of JobRecord or leaves its row's state and result.
LEMMA RecordStep ==
  ASSUME Invariant, [Next]_vars
  PROVE  [Record!Next]_(Record!vars)
<1> DEFINE Step == [Record!Next]_(Record!vars)
<1> USE DEF Record!Next, Record!vars, Record!Create, Record!Run, Record!RequestCancel,
            Record!Cancelled, Record!Succeed, Record!GiveUp, Record!Purge,
            Record!ACTIVE_STATES, Record!TERMINAL_STATES, ACTIVE_STATES, TERMINAL_STATES,
            Invariant, TypeOK, Row, Active, Terminal, MoveState, WriteTerminal
<1>1. CASE CreateJobRecord
  BY <1>1 DEF StartOrder, CreateJobRecord
<1>2. CASE SpawnWorker
  BY <1>2 DEF SpawnWorker
<1>3. CASE SpawnFails
  BY <1>3 DEF SpawnFails
<1>4. CASE RecordLaunchFailure
  BY <1>4 DEF RecordLaunchFailure
<1>5. CASE RecordWorkerPid
  BY <1>5 DEF RecordWorkerPid
<1>6. CASE StarterFault
  BY <1>6 DEF StarterFault
<1>7. CASE CheckFails
  BY <1>7 DEF CheckFails
<1>8. CASE WriteRunning
  BY <1>8 DEF WriteRunning
<1>9. CASE RecordLimits
  BY <1>9 DEF RecordLimits
<1>10. CASE LaunchCandidate
  BY <1>10 DEF LaunchCandidate
<1>11. CASE RecordCandidate
  BY <1>11 DEF RecordCandidate
<1>12. CASE PollCandidate
  BY <1>12 DEF PollCandidate
<1>13. CASE StopCandidate
  BY <1>13 DEF StopCandidate
<1>14. CASE WriteStopped
  BY <1>14 DEF WriteStopped
<1>15. CASE ReapCandidate
  BY <1>15 DEF ReapCandidate
<1>16. CASE Finish
  BY <1>16 DEF ResultOrder, StartOrder, Finish
<1>17. CASE WorkerException
  BY <1>17 DEF WorkerException
<1>18. CASE WorkerKilled
  BY <1>18 DEF WorkerKilled
<1>19. ASSUME NEW e \in Executions, CandidateExits(e)
      PROVE  Step
  BY <1>19 DEF CandidateExits
<1>20. ASSUME NEW p \in 0 .. NumExecutions, SignalArrives(p)
      PROVE  Step
  BY <1>20 DEF SignalArrives
<1>21. CASE TimePasses
  BY <1>21 DEF TimePasses
<1>22. ASSUME NEW c \in Callers, NEW op \in {"status", "recover"},
             SeeDeadWorker(c, op) \/ PersistOrphan(c, op)
      PROVE  Step
  BY <1>22 DEF SeeDeadWorker, PersistOrphan
<1>23. ASSUME NEW c \in Callers, CleanupDetachedCandidate(c)
      PROVE  Step
  BY <1>23 DEF CleanupDetachedCandidate
<1>24. ASSUME NEW c \in Callers, WatchdogDecision(c)
      PROVE  Step
  BY <1>24 DEF WatchdogDecision
<1>25. ASSUME NEW c \in Callers, WatchdogCleanup(c)
      PROVE  Step
  BY <1>25 DEF WatchdogCleanup
<1>26. ASSUME NEW c \in Callers, WatchdogOrphan(c)
      PROVE  Step
  BY <1>26 DEF WatchdogOrphan
<1>27. ASSUME NEW c \in Callers, KillChild(c)
      PROVE  Step
  BY <1>27 DEF KillChild
<1>28. ASSUME NEW c \in Callers, KillWorker(c)
      PROVE  Step
  BY <1>28 DEF KillWorker
<1>29. ASSUME NEW c \in Callers, WatchdogTimeOut(c)
      PROVE  Step
  BY <1>29 DEF WatchdogTimeOut
<1>30. ASSUME NEW c \in Callers, CancelBegin(c)
      PROVE  Step
  BY <1>30 DEF CancelBegin
<1>31. ASSUME NEW c \in Callers, RequestCancel(c)
      PROVE  Step
  BY <1>31 DEF RequestCancel
<1>32. ASSUME NEW c \in Callers, RereadJob(c)
      PROVE  Step
  BY <1>32 DEF RereadJob
<1>33. ASSUME NEW c \in Callers, ConfirmCancel(c)
      PROVE  Step
  BY <1>33 DEF ConfirmCancel
<1>34. ASSUME NEW c \in Callers, ReplyCancel(c)
      PROVE  Step
  BY <1>34 DEF ReplyCancel
<1>35. ASSUME NEW c \in Callers, CleanBegin(c)
      PROVE  Step
  BY <1>35 DEF CleanBegin
<1>36. ASSUME NEW c \in Callers, DeleteJob(c)
      PROVE  Step
  BY <1>36 DEF CancelProgress, Standing, DeleteJob
<1>37. ASSUME NEW c \in Callers, CallFault(c)
      PROVE  Step
  BY <1>37 DEF CallFault
<1>38. CASE UNCHANGED vars
  BY <1>38 DEF vars
<1>39. QED
  BY <1>1, <1>2, <1>3, <1>4, <1>5, <1>6, <1>7, <1>8, <1>9, <1>10, <1>11, 
     <1>12, <1>13, <1>14, <1>15, <1>16, <1>17, <1>18, <1>19, <1>20, <1>21, 
     <1>22, <1>23, <1>24, <1>25, <1>26, <1>27, <1>28, <1>29, <1>30, <1>31, 
     <1>32, <1>33, <1>34, <1>35, <1>36, <1>37, <1>38
  DEF Next, StartStrategyRun, RunWorker, BeginCall, Continue

\* The processes and calls of a job together implement the abstract record.
THEOREM RecordCorrect == Spec => ImplementsJobRecord
<1>1. Init => Record!Init
  BY DEF Init, Record!Init
<1>2. QED
  BY <1>1, RecordStep, InvariantHolds, PTL DEF Spec, ImplementsJobRecord, Record!Spec
=============================================================================
