---------------------------- MODULE JobLifecycle ----------------------------
(***************************************************************************)
(* One job of backtrader-mcp from the call that creates its row to its     *)
(* deletion: the server call that starts it, the detached worker process,  *)
(* the candidate processes the worker runs one after another, and any      *)
(* number of calls (status, recovery, watchdog, cancel, retention) that    *)
(* read and write the same SQLite row at the same time.                    *)
(*                                                                         *)
(* A step is one SQLite transaction, one signal, one process creation or   *)
(* one read that a later step depends on.  A call that holds the job's     *)
(* file lock has an "op" in LOCKING_OPS, so the lock needs no variable.    *)
(***************************************************************************)
EXTENDS Naturals, FiniteSets

CONSTANTS Callers,        \* the threads and processes that may call the job service
          NumExecutions,  \* candidates a run executes: run modes x parameter variants
          MaxFaults       \* bound on crashes and unexpected exceptions, of any process

ASSUME NumExecutionsAssumption == NumExecutions \in Nat \ {0}
ASSUME MaxFaultsAssumption == MaxFaults \in Nat

VARIABLES
  job,        \* the row: state, started_at, result, and the two recorded pids
  starter,    \* where start_strategy_run stands
  worker,     \* where the worker process stands
  execution,  \* the execution the worker is at
  candidate,  \* the process of each execution
  signalled,  \* processes with a SIGTERM sent and not delivered (0 is the worker)
  call,       \* per caller: its operation, where it stands, what it read
  clock,      \* 0, 1 = the run's deadline has passed, 2 = the watchdog's too
  faults      \* faults so far

vars == <<job, starter, worker, execution, candidate, signalled, call, clock, faults>>

-----------------------------------------------------------------------------
Executions == 1 .. NumExecutions

TERMINAL_STATES == {"CANCELLED", "SUCCEEDED", "FAILED", "TIMED_OUT", "ORPHANED"}
ACTIVE_STATES   == {"QUEUED", "RUNNING", "CANCEL_REQUESTED"}
STATES          == TERMINAL_STATES \cup ACTIVE_STATES \cup {"ABSENT", "PURGED"}

\* child_pid 0 is None; the worker has one pid, so only its presence matters.
Row == [state : STATES, started : BOOLEAN, result : BOOLEAN,
        worker_pid : BOOLEAN, child_pid : 0 .. NumExecutions]

StarterAt   == {"new", "spawn", "launchFailed", "recordPid", "done"}
WorkerAt    == {"unborn", "boot", "limits", "launch", "record", "poll",
                "stopForCancel", "stopForDeadline", "writeCancelled", "writeTimedOut",
                "finish", "dead"}
CandidateAt == {"none", "running", "ok", "badResult", "failed"}
Ops         == {"none", "status", "recover", "watchdog", "cancel", "clean"}
LOCKING_OPS == {"status", "watchdog", "cancel", "clean"}
CallAt      == {"idle", "orphan", "cleanup", "killChild", "killWorker",
                "timeOut", "request", "reread", "confirm", "reply", "delete"}

Call == [op : Ops, at : CallAt, child_pid : 0 .. NumExecutions,
         worker_pid : BOOLEAN, accepted : BOOLEAN]
NoCall == [op |-> "none", at |-> "idle", child_pid |-> 0,
           worker_pid |-> FALSE, accepted |-> FALSE]

TypeOK ==
  /\ job \in Row
  /\ starter \in StarterAt
  /\ worker \in WorkerAt
  /\ execution \in Executions
  /\ candidate \in [Executions -> CandidateAt]
  /\ signalled \subseteq 0 .. NumExecutions
  /\ call \in [Callers -> Call]
  /\ clock \in 0 .. 2
  /\ faults \in 0 .. MaxFaults

Init ==
  /\ job = [state |-> "ABSENT", started |-> FALSE, result |-> FALSE,
            worker_pid |-> FALSE, child_pid |-> 0]
  /\ starter = "new"
  /\ worker = "unborn"
  /\ execution = 1
  /\ candidate = [e \in Executions |-> "none"]
  /\ signalled = {}
  /\ call = [c \in Callers |-> NoCall]
  /\ clock = 0
  /\ faults = 0

-----------------------------------------------------------------------------
Active      == job.state \in ACTIVE_STATES
Terminal    == job.state \in TERMINAL_STATES
WorkerAlive == worker \notin {"unborn", "dead"}
JobLockFree == \A c \in Callers : call[c].op \notin LOCKING_OPS

\* A compare-and-set of the row's state: applied while the state is one of
\* "expected", a Conflict (and no change) otherwise.
MoveState(expected, new) ==
  job' = IF job.state \in expected THEN [job EXCEPT !.state = new] ELSE job

\* Mutation: the worker's write checks only that the job is active.
WriteTerminalIfActive(new) == MoveState(ACTIVE_STATES, new)

\* The worker's own writes never replace a terminal state or CANCEL_REQUESTED.
WriteTerminal(new) == MoveState({"QUEUED", "RUNNING"}, new)

WorkerExits == worker' = "dead" /\ signalled' = signalled \ {0}

Alive(p) == IF p = 0 THEN WorkerAlive ELSE candidate[p] = "running"

\* SIGTERM to a recorded pid; nothing happens to a process that is gone.
Signal(p) == signalled' = IF Alive(p) THEN signalled \cup {p} ELSE signalled

-----------------------------------------------------------------------------
(* start_strategy_run, from the job row on *)

CreateJobRecord ==
  /\ starter = "new"
  /\ job' = [job EXCEPT !.state = "QUEUED"]
  /\ starter' = "spawn"
  /\ UNCHANGED <<worker, execution, candidate, signalled, call, clock, faults>>

SpawnWorker ==
  /\ starter = "spawn"
  /\ worker' = "boot"
  /\ starter' = "recordPid"
  /\ UNCHANGED <<job, execution, candidate, signalled, call, clock, faults>>

SpawnFails ==
  /\ starter = "spawn"
  /\ faults < MaxFaults
  /\ faults' = faults + 1
  /\ starter' = "launchFailed"
  /\ UNCHANGED <<job, worker, execution, candidate, signalled, call, clock>>

\* Mutation: FAILED is written without an expected state.
RecordLaunchFailureBlindly ==
  /\ starter = "launchFailed"
  /\ job' = [job EXCEPT !.state = "FAILED"]
  /\ starter' = "done"
  /\ UNCHANGED <<worker, execution, candidate, signalled, call, clock, faults>>

RecordLaunchFailure ==
  /\ starter = "launchFailed"
  /\ MoveState(ACTIVE_STATES, "FAILED")
  /\ starter' = "done"
  /\ UNCHANGED <<worker, execution, candidate, signalled, call, clock, faults>>

\* Mutation: the server leaves the pid to the worker's RUNNING write.
RecordWorkerPidNever ==
  /\ starter = "recordPid"
  /\ starter' = "done"
  /\ UNCHANGED <<job, worker, execution, candidate, signalled, call, clock, faults>>

RecordWorkerPid ==
  /\ starter = "recordPid"
  /\ job' = IF Active THEN [job EXCEPT !.worker_pid = TRUE] ELSE job
  /\ starter' = "done"
  /\ UNCHANGED <<worker, execution, candidate, signalled, call, clock, faults>>

\* The server dies, or a statement after the row's creation raises.
StarterFault ==
  /\ starter \in {"spawn", "launchFailed", "recordPid"}
  /\ faults < MaxFaults
  /\ faults' = faults + 1
  /\ starter' = "done"
  /\ UNCHANGED <<job, worker, execution, candidate, signalled, call, clock>>

StartStrategyRun == \/ CreateJobRecord \/ SpawnWorker \/ SpawnFails
                    \/ RecordLaunchFailure \/ RecordWorkerPid \/ StarterFault

-----------------------------------------------------------------------------
(* The worker process *)

\* A dataset, draft or mode check fails before the RUNNING write.
CheckFails ==
  /\ worker = "boot"
  /\ WriteTerminal("FAILED")
  /\ WorkerExits
  /\ UNCHANGED <<starter, execution, candidate, call, clock, faults>>

\* The RUNNING write restarts the wall clock: started_at replaces created_at.
WriteRunning ==
  /\ worker = "boot"
  /\ IF job.state = "QUEUED"
     THEN /\ job' = [job EXCEPT !.state = "RUNNING", !.started = TRUE, !.worker_pid = TRUE]
          /\ worker' = "limits"
          /\ clock' = 0
          /\ UNCHANGED signalled
     ELSE /\ WorkerExits
          /\ UNCHANGED <<job, clock>>
  /\ UNCHANGED <<starter, execution, candidate, call, faults>>

\* The resource_limits_status write: a Conflict ends the worker through main.
RecordLimits ==
  /\ worker = "limits"
  /\ IF Active THEN worker' = "launch" /\ UNCHANGED signalled ELSE WorkerExits
  /\ UNCHANGED <<job, starter, execution, candidate, call, clock, faults>>

LaunchCandidate ==
  /\ worker = "launch"
  /\ candidate' = [candidate EXCEPT ![execution] = "running"]
  /\ worker' = "record"
  /\ UNCHANGED <<job, starter, execution, signalled, call, clock, faults>>

\* Mutation: a Conflict is swallowed and the worker polls an unrecorded child.
RecordCandidateAnyway ==
  /\ worker = "record"
  /\ job' = IF Active THEN [job EXCEPT !.child_pid = execution] ELSE job
  /\ worker' = "poll"
  /\ UNCHANGED <<starter, execution, candidate, signalled, call, clock, faults>>

\* The child_pid write: a Conflict leaves _execute_mode by exception, past the
\* terminate_popen that was meant for it.
RecordCandidate ==
  /\ worker = "record"
  /\ IF Active
     THEN /\ job' = [job EXCEPT !.child_pid = execution]
          /\ worker' = "poll"
          /\ UNCHANGED signalled
     ELSE WorkerExits /\ UNCHANGED job
  /\ UNCHANGED <<starter, execution, candidate, call, clock, faults>>

\* One turn of the poll loop that decides something.  A purged row raises
\* NotFound out of the loop.
PollCandidate ==
  /\ worker = "poll"
  /\ candidate[execution] = "running"
  /\ \/ job.state = "CANCEL_REQUESTED" /\ worker' = "stopForCancel" /\ UNCHANGED signalled
     \/ /\ job.state \notin {"CANCEL_REQUESTED", "PURGED"}
        /\ clock > 0
        /\ worker' = "stopForDeadline"
        /\ UNCHANGED signalled
     \/ job.state = "PURGED" /\ WorkerExits
  /\ UNCHANGED <<job, starter, execution, candidate, call, clock, faults>>

\* terminate_popen: SIGTERM, then SIGKILL, so the candidate is gone after it.
StopCandidate ==
  /\ worker \in {"stopForCancel", "stopForDeadline"}
  /\ worker' = IF worker = "stopForCancel" THEN "writeCancelled" ELSE "writeTimedOut"
  /\ candidate' = [candidate EXCEPT ![execution] = IF @ = "running" THEN "failed" ELSE @]
  /\ signalled' = signalled \ {execution}
  /\ UNCHANGED <<job, starter, execution, call, clock, faults>>

WriteStopped ==
  /\ \/ worker = "writeCancelled" /\ MoveState({"CANCEL_REQUESTED"}, "CANCELLED")
     \/ worker = "writeTimedOut" /\ WriteTerminal("TIMED_OUT")
  /\ WorkerExits
  /\ UNCHANGED <<starter, execution, candidate, call, clock, faults>>

\* Mutation: the result file of a candidate that exited 0 is not validated.
ReapCandidateUnvalidated ==
  /\ worker = "poll"
  /\ \/ /\ candidate[execution] = "failed"
        /\ WriteTerminal("FAILED")
        /\ WorkerExits
        /\ UNCHANGED execution
     \/ /\ candidate[execution] \in {"ok", "badResult"}
        /\ IF execution < NumExecutions
           THEN execution' = execution + 1 /\ worker' = "launch"
           ELSE worker' = "finish" /\ UNCHANGED execution
        /\ UNCHANGED <<job, signalled>>
  /\ UNCHANGED <<starter, candidate, call, clock, faults>>

\* Mutation: the loop over the executions goes one too far.
ReapCandidateOneMore ==
  /\ worker = "poll"
  /\ candidate[execution] = "ok"
  /\ execution' = execution + 1
  /\ worker' = "launch"
  /\ UNCHANGED <<job, starter, candidate, signalled, call, clock, faults>>

\* The candidate is gone: a nonzero exit or an invalid result file fails the
\* job, a valid result leads to the next execution or to the final result.
ReapCandidate ==
  /\ worker = "poll"
  /\ \/ /\ candidate[execution] \in {"failed", "badResult"}
        /\ WriteTerminal("FAILED")
        /\ WorkerExits
        /\ UNCHANGED execution
     \/ /\ candidate[execution] = "ok"
        /\ IF execution < NumExecutions
           THEN execution' = execution + 1 /\ worker' = "launch"
           ELSE worker' = "finish" /\ UNCHANGED execution
        /\ UNCHANGED <<job, signalled>>
  /\ UNCHANGED <<starter, candidate, call, clock, faults>>

\* Mutation: SUCCEEDED is written over a visible cancel request.
FinishOverCancel ==
  /\ worker = "finish"
  /\ job' = IF Active THEN [job EXCEPT !.state = "SUCCEEDED", !.result = TRUE] ELSE job
  /\ WorkerExits
  /\ UNCHANGED <<starter, execution, candidate, call, clock, faults>>

\* The normalised result is written with SUCCEEDED, or its construction fails.
Finish ==
  /\ worker = "finish"
  /\ \/ job' = IF job.state \in {"QUEUED", "RUNNING"}
               THEN [job EXCEPT !.state = "SUCCEEDED", !.result = TRUE] ELSE job
     \/ WriteTerminal("FAILED")
  /\ WorkerExits
  /\ UNCHANGED <<starter, execution, candidate, call, clock, faults>>

\* An exception reaches main (a launch error, a locked database): FAILED.
WorkerException ==
  /\ WorkerAlive
  /\ faults < MaxFaults
  /\ faults' = faults + 1
  /\ WriteTerminal("FAILED")
  /\ WorkerExits
  /\ UNCHANGED <<starter, execution, candidate, call, clock>>

\* The worker is killed from outside; its candidate has a session of its own.
WorkerKilled ==
  /\ WorkerAlive
  /\ faults < MaxFaults
  /\ faults' = faults + 1
  /\ WorkerExits
  /\ UNCHANGED <<job, starter, execution, candidate, call, clock>>

RunWorker == \/ CheckFails \/ WriteRunning \/ RecordLimits \/ LaunchCandidate
             \/ RecordCandidate \/ PollCandidate \/ StopCandidate \/ WriteStopped
             \/ ReapCandidate \/ Finish \/ WorkerException \/ WorkerKilled

-----------------------------------------------------------------------------
(* The environment: candidates end, signals arrive, time passes *)

CandidateExits(e) ==
  /\ candidate[e] = "running"
  /\ \E outcome \in {"ok", "badResult", "failed"} :
       candidate' = [candidate EXCEPT ![e] = outcome]
  /\ signalled' = signalled \ {e}
  /\ UNCHANGED <<job, starter, worker, execution, call, clock, faults>>

SignalArrives(p) ==
  /\ p \in signalled
  /\ signalled' = signalled \ {p}
  /\ IF p = 0
     THEN worker' = "dead" /\ UNCHANGED candidate
     ELSE candidate' = [candidate EXCEPT ![p] = "failed"] /\ UNCHANGED worker
  /\ UNCHANGED <<job, starter, execution, call, clock, faults>>

\* The wall clock of an active job; created_at anchors it while QUEUED.
TimePasses ==
  /\ Active
  /\ clock < 2
  /\ clock' = clock + 1
  /\ UNCHANGED <<job, starter, worker, execution, candidate, signalled, call, faults>>

-----------------------------------------------------------------------------
(* Calls on the job service *)

\* A call's own copy of the pids it read from the row.
Snapshot(op, at, accepted) ==
  [op |-> op, at |-> at, child_pid |-> job.child_pid, worker_pid |-> job.worker_pid,
   accepted |-> accepted]

Begin(c, op, at) ==
  /\ call[c] = NoCall
  /\ op \in LOCKING_OPS => JobLockFree
  /\ call' = [call EXCEPT ![c] = Snapshot(op, at, FALSE)]

Standing(c, op, at) == call[c].op = op /\ call[c].at = at
GoTo(c, at)         == call' = [call EXCEPT ![c].at = at]
Return(c)           == call' = [call EXCEPT ![c] = NoCall]

\* Mutation: an active job with a recorded pid is orphaned without a probe.
SeeDeadWorkerUnprobed(c, op) ==
  /\ op \in {"status", "recover"}
  /\ Active /\ job.worker_pid
  /\ Begin(c, op, "orphan")
  /\ UNCHANGED <<job, starter, worker, execution, candidate, signalled, clock, faults>>

\* get_run_status and recover_jobs: the recorded worker is gone.
SeeDeadWorker(c, op) ==
  /\ op \in {"status", "recover"}
  /\ Active /\ job.worker_pid /\ ~WorkerAlive
  /\ Begin(c, op, "orphan")
  /\ UNCHANGED <<job, starter, worker, execution, candidate, signalled, clock, faults>>

\* ... they persist ORPHANED first and clean the candidate up afterwards.
PersistOrphan(c, op) ==
  /\ op \in {"status", "recover"}
  /\ Standing(c, op, "orphan")
  /\ MoveState(ACTIVE_STATES, "ORPHANED")
  /\ IF Active
     THEN call' = [call EXCEPT ![c].at = "cleanup", ![c].child_pid = job.child_pid]
     ELSE Return(c)
  /\ UNCHANGED <<starter, worker, execution, candidate, signalled, clock, faults>>

CleanupDetachedCandidate(c) ==
  /\ call[c].op \in {"status", "recover"} /\ call[c].at = "cleanup"
  /\ IF call[c].child_pid # 0 THEN Signal(call[c].child_pid) ELSE UNCHANGED signalled
  /\ Return(c)
  /\ UNCHANGED <<job, starter, worker, execution, candidate, clock, faults>>

\* Mutation: only a stale heartbeat ends a live worker, the wall clock does not.
WatchdogDecisionByHeartbeat(c) ==
  /\ Active /\ job.worker_pid
  /\ \/ ~WorkerAlive /\ Begin(c, "watchdog", "cleanup")
     \/ WorkerAlive /\ job.started /\ Begin(c, "watchdog", "killChild")
  /\ UNCHANGED <<job, starter, worker, execution, candidate, signalled, clock, faults>>

\* watchdog_tick: the decision is taken under the job's lock.  A heartbeat may
\* be found stale whenever the run has started; a job without worker_pid is
\* left alone.
WatchdogDecision(c) ==
  /\ Active /\ job.worker_pid
  /\ \/ ~WorkerAlive /\ Begin(c, "watchdog", "cleanup")
     \/ WorkerAlive /\ (clock = 2 \/ job.started) /\ Begin(c, "watchdog", "killChild")
  /\ UNCHANGED <<job, starter, worker, execution, candidate, signalled, clock, faults>>

WatchdogCleanup(c) ==
  /\ Standing(c, "watchdog", "cleanup")
  /\ IF call[c].child_pid # 0 THEN Signal(call[c].child_pid) ELSE UNCHANGED signalled
  /\ GoTo(c, "orphan")
  /\ UNCHANGED <<job, starter, worker, execution, candidate, clock, faults>>

WatchdogOrphan(c) ==
  /\ Standing(c, "watchdog", "orphan")
  /\ MoveState(ACTIVE_STATES, "ORPHANED")
  /\ Return(c)
  /\ UNCHANGED <<starter, worker, execution, candidate, signalled, clock, faults>>

\* The watchdog and cancel end the candidate, then the worker.
KillChild(c) ==
  /\ call[c].op \in {"watchdog", "cancel"} /\ call[c].at = "killChild"
  /\ IF call[c].child_pid # 0 THEN Signal(call[c].child_pid) ELSE UNCHANGED signalled
  /\ GoTo(c, "killWorker")
  /\ UNCHANGED <<job, starter, worker, execution, candidate, clock, faults>>

KillWorker(c) ==
  /\ call[c].op \in {"watchdog", "cancel"} /\ call[c].at = "killWorker"
  /\ IF call[c].worker_pid THEN Signal(0) ELSE UNCHANGED signalled
  /\ GoTo(c, IF call[c].op = "cancel" THEN "confirm" ELSE "timeOut")
  /\ UNCHANGED <<job, starter, worker, execution, candidate, clock, faults>>

WatchdogTimeOut(c) ==
  /\ Standing(c, "watchdog", "timeOut")
  /\ MoveState(ACTIVE_STATES, "TIMED_OUT")
  /\ Return(c)
  /\ UNCHANGED <<starter, worker, execution, candidate, signalled, clock, faults>>

\* cancel_strategy_run
CancelBegin(c) ==
  /\ job.state \notin {"ABSENT", "PURGED"}
  /\ Begin(c, "cancel", IF Terminal THEN "reply" ELSE "request")
  /\ UNCHANGED <<job, starter, worker, execution, candidate, signalled, clock, faults>>

RequestCancel(c) ==
  /\ Standing(c, "cancel", "request")
  /\ MoveState(ACTIVE_STATES, "CANCEL_REQUESTED")
  /\ IF Active
     THEN call' = [call EXCEPT ![c].at = "reread", ![c].accepted = TRUE]
     ELSE GoTo(c, "reply")
  /\ UNCHANGED <<starter, worker, execution, candidate, signalled, clock, faults>>

RereadJob(c) ==
  /\ Standing(c, "cancel", "reread")
  /\ call' = [call EXCEPT ![c] = Snapshot("cancel", "killChild", call[c].accepted)]
  /\ UNCHANGED <<job, starter, worker, execution, candidate, signalled, clock, faults>>

ConfirmCancel(c) ==
  /\ Standing(c, "cancel", "confirm")
  /\ MoveState({"CANCEL_REQUESTED"}, "CANCELLED")
  /\ GoTo(c, "reply")
  /\ UNCHANGED <<starter, worker, execution, candidate, signalled, clock, faults>>

ReplyCancel(c) ==
  /\ Standing(c, "cancel", "reply")
  /\ Return(c)
  /\ UNCHANGED <<job, starter, worker, execution, candidate, signalled, clock, faults>>

\* clean_jobs: the state is read before the lock is taken and not read again.
CleanBegin(c) ==
  /\ Terminal
  /\ Begin(c, "clean", "delete")
  /\ UNCHANGED <<job, starter, worker, execution, candidate, signalled, clock, faults>>

DeleteJob(c) ==
  /\ Standing(c, "clean", "delete")
  /\ job' = [job EXCEPT !.state = "PURGED", !.result = FALSE]
  /\ Return(c)
  /\ UNCHANGED <<starter, worker, execution, candidate, signalled, clock, faults>>

\* The calling process dies or raises: its lock is released with it.
CallFault(c) ==
  /\ call[c] # NoCall
  /\ faults < MaxFaults
  /\ faults' = faults + 1
  /\ Return(c)
  /\ UNCHANGED <<job, starter, worker, execution, candidate, signalled, clock>>

\* The steps of a call under way.
Continue(c) ==
  \/ \E op \in {"status", "recover"} : PersistOrphan(c, op)
  \/ CleanupDetachedCandidate(c)
  \/ WatchdogCleanup(c) \/ WatchdogOrphan(c) \/ WatchdogTimeOut(c)
  \/ KillChild(c) \/ KillWorker(c)
  \/ RequestCancel(c) \/ RereadJob(c) \/ ConfirmCancel(c) \/ ReplyCancel(c)
  \/ DeleteJob(c)

BeginCall(c) ==
  \/ \E op \in {"status", "recover"} : SeeDeadWorker(c, op)
  \/ WatchdogDecision(c) \/ CancelBegin(c) \/ CleanBegin(c)

Next ==
  \/ StartStrategyRun
  \/ RunWorker
  \/ \E e \in Executions : CandidateExits(e)
  \/ \E p \in 0 .. NumExecutions : SignalArrives(p)
  \/ TimePasses
  \/ \E c \in Callers : BeginCall(c) \/ Continue(c) \/ CallFault(c)

Spec == Init /\ [][Next]_vars

\* Fairness.  The server's threads run on, a sent signal arrives, time passes,
\* and a watchdog tick gets the job's lock in the end (flock queues its
\* waiters).  Nothing is assumed of the worker and of the candidates: they may
\* hang.
Fairness ==
  /\ WF_vars(StartStrategyRun)
  /\ WF_vars(TimePasses)
  /\ \A p \in 0 .. NumExecutions : WF_vars(SignalArrives(p))
  /\ \A c \in Callers : WF_vars(Continue(c))
  /\ SF_vars(\E c \in Callers : WatchdogDecision(c))

FairSpec == Spec /\ Fairness

-----------------------------------------------------------------------------
(* The inductive invariant, part by part: Invariant implies every invariant *)
(* below and JobLifecycleProofs shows that every step keeps it.              *)

\* The row and the two processes that create it agree on how far a start came.
StartOrder ==
  /\ starter = "new" <=> job.state = "ABSENT"
  /\ starter \in {"new", "spawn", "launchFailed"} => worker = "unborn"
  /\ starter = "recordPid" => worker # "unborn"
  /\ job.worker_pid => worker # "unborn"
  /\ job.state \in {"ABSENT", "QUEUED"} => ~job.started
  /\ job.state \in {"RUNNING", "SUCCEEDED"} => job.started
  /\ ~job.started => worker \in {"unborn", "boot", "dead"}

\* The candidates before the current execution are done, those after it not begun.
CandidateOrder ==
  /\ worker \in {"unborn", "boot"} => ~job.started
  /\ ~job.started => execution = 1 /\ \A e \in Executions : candidate[e] = "none"
  /\ \A e \in Executions : e < execution => candidate[e] = "ok"
  /\ \A e \in Executions : e > execution => candidate[e] = "none"
  /\ worker \in {"limits", "launch"} => candidate[execution] = "none"
  /\ worker \in {"poll", "stopForCancel", "stopForDeadline"} => job.child_pid = execution
  /\ worker \in {"writeCancelled", "writeTimedOut"} => candidate[execution] # "running"
  /\ worker = "finish" => \A e \in Executions : candidate[e] = "ok"

\* Signals are under way only to live processes.
SignalsToTheLiving == \A p \in signalled : Alive(p)

ResultOrder ==
  /\ job.result <=> job.state = "SUCCEEDED"
  /\ job.result => worker = "dead" /\ \A e \in Executions : candidate[e] = "ok"

\* A call about to persist ORPHANED has seen a worker that is gone for good.
OrphanVerdict ==
  /\ job.state = "ORPHANED" => worker = "dead"
  /\ \A c \in Callers :
       \/ call[c].at = "orphan"
       \/ call[c].op = "watchdog" /\ call[c].at = "cleanup"
       => worker = "dead"

\* The file lock of the job admits one call at a time.
OneLockHolder ==
  \A c, d \in Callers :
    call[c].op \in LOCKING_OPS /\ call[d].op \in LOCKING_OPS => c = d

\* What a call that holds the lock may rely on from one of its steps to the next.
CancelProgress ==
  \A c \in Callers :
    /\ call[c].op = "clean" => Terminal
    /\ call[c].op = "cancel" => job.state \notin {"ABSENT", "PURGED"}
    /\ Standing(c, "cancel", "reply") => Terminal
    /\ call[c].accepted =>
         job.state \in (TERMINAL_STATES \ {"SUCCEEDED"}) \cup {"CANCEL_REQUESTED"}
    /\ call[c].op = "cancel" /\ call[c].at \in {"reread", "killChild", "killWorker", "confirm"}
         => call[c].accepted
    /\ call[c].accepted => call[c].op = "cancel"

Invariant ==
  /\ TypeOK /\ StartOrder /\ CandidateOrder /\ SignalsToTheLiving /\ ResultOrder
  /\ OrphanVerdict /\ OneLockHolder /\ CancelProgress

-----------------------------------------------------------------------------
(* Properties *)

\* The row that the server, the worker and the watchdog write concurrently keeps
\* the promise of JobRecord: a terminal state is never overwritten, CANCELLED
\* comes only from a visible request, SUCCEEDED only from RUNNING and with a
\* result (jobs.py and worker.py compare-and-set writes).
Record == INSTANCE JobRecord WITH state <- job.state, result <- job.result
ImplementsJobRecord == Record!Spec

\* A job SUCCEEDED only after every execution of its profile exited 0 with a
\* valid result, whatever was cancelled, timed out or killed meanwhile.
SuccessIsComplete ==
  job.state = "SUCCEEDED" => job.result /\ \A e \in Executions : candidate[e] = "ok"

\* ORPHANED is true of the process: no such job has a worker that still runs,
\* although the verdict is taken from an earlier read of the row.
OrphanHasNoWorker == job.state = "ORPHANED" => worker = "dead"

\* A cancel that returns has ended the job, and one that was not told "already
\* terminal" never finds that it succeeded.
CancelEndsTheJob ==
  \A c \in Callers : Standing(c, "cancel", "reply") =>
     Terminal /\ (call[c].accepted => job.state # "SUCCEEDED")

\* While a worker lives, the candidate that runs is the one whose pid cancel and
\* the watchdog read from the row, except between its Popen and its recording.
RunningCandidateIsRecorded ==
  WorkerAlive => \A e \in Executions : candidate[e] = "running" =>
     e = execution /\ (worker = "record" \/ job.child_pid = e)

\* Once CANCEL_REQUESTED is visible no step of the worker ends the job otherwise
\* than CANCELLED (the arbitration rule of _write_terminal).
WorkerHonoursCancel ==
  [][job.state = "CANCEL_REQUESTED" /\ RunWorker
       => job.state' \in {"CANCEL_REQUESTED", "CANCELLED"}]_vars

\* No candidate outlives its job: when the job has ended, its worker is gone and
\* no call or signal is under way, no candidate process runs.
NoDetachedCandidate ==
  Terminal /\ ~WorkerAlive /\ signalled = {} /\ (\A c \in Callers : call[c] = NoCall)
    => \A e \in Executions : candidate[e] # "running"

\* The watchdog ends every job whose worker pid is on record, even when worker
\* and candidate hang.
WatchedJobEnds == Active /\ job.worker_pid ~> ~Active

\* Every job ends, its worker's pid on record or not.
EveryJobEnds == Active ~> ~Active

\* ... and so it does when no process dies and no statement raises, although worker
\* and candidate may hang: the start records the pid the watchdog goes by.
EveryJobEndsBarringFaults == Active ~> ~Active \/ faults > 0
=============================================================================
