-------------------------- MODULE RunAuthorization --------------------------
(***************************************************************************)
(* How a prepared run becomes one worker process: run plans, the local     *)
(* approval, the one-time token nonce, idempotency keys, the two advisory  *)
(* locks of start_strategy_run and the cap on active jobs                  *)
(* (jobs.py 153-509, state.py 282-370, security.py 96-157, locks.py).      *)
(*                                                                         *)
(* Starters are calls of start_strategy_run, in threads of one server or   *)
(* in several server processes over one state root; each statement that    *)
(* reads or writes the database, and each flock, is one step.  What the    *)
(* job does once it is launched is module JobLifecycle; here a job is      *)
(* active, then ended.  The draft is a content version that may be edited  *)
(* at any time; it stands for all the inputs a plan freezes.               *)
(***************************************************************************)
EXTENDS Naturals, FiniteSets

CONSTANTS
  Plans,              \* run_plan ids
  Approvals,          \* ids of approvals with subject_type "run"
  Jobs,               \* job ids (uuid4: never reused)
  Keys,               \* idempotency keys of scope "start_strategy_run"
  Starters,           \* concurrent callers of start_strategy_run
  None,               \* JSON null, an absent row, a free lock
  MaxConcurrentJobs,  \* settings.max_concurrent_jobs
  MaxEdits,           \* bound: edits of the draft
  MaxFaults           \* bound: calls that die or raise half-way

ASSUME IdsAssumption ==
  /\ IsFiniteSet(Jobs)
  /\ None \notin Plans \cup Approvals \cup Jobs \cup Starters
  /\ "job-concurrency" \notin Plans
ASSUME BoundsAssumption ==
  MaxConcurrentJobs \in Nat /\ MaxEdits \in Nat /\ MaxFaults \in Nat

VARIABLES
  plan,      \* the run_plan rows: status, the frozen inputs, the job named by the row
  approving, \* plans whose approve command passed its checks and has not inserted yet
  approval,  \* the approvals rows
  burned,    \* plans whose token nonce is used
  expired,   \* plans whose token's exp has passed
  idem,      \* the idempotency rows: key -> request and response
  job,       \* the job rows, whether their worker process was created, and whether it
             \* has executed inputs other than those its plan froze
  draft,     \* version of the inputs on disk
  holder,    \* the flocks
  pc,        \* the next statement of each starter
  req,       \* the arguments of each starter's call
  newJob,    \* the job id a starter has drawn
  faults

vars == <<plan, approving, approval, burned, expired, idem, job, draft,
          holder, pc, req, newJob, faults>>
recordVars == <<plan, approving, approval, burned, expired, idem, job, draft>>
callVars == <<holder, pc, req, newJob>>

Locks == Plans \cup {"job-concurrency"}
Steps == {"idle", "lockPlan", "checkPlan", "lockJobs", "recheckKey", "checkInputs",
          "checkCapacity", "consumeApproval", "putJob", "markStarted",
          "consumeNonce", "putResponse", "launch"}

NoPlan == [status |-> "absent", frozen |-> 0, job |-> None]
NoApproval == [status |-> "absent", plan |-> None]
NoJob == [state |-> "absent", plan |-> None, approval |-> None,
          launched |-> "no", strayed |-> FALSE]
NoRequest == [plan |-> None, approval |-> None, key |-> None]

Versions == 0..MaxEdits      \* of the inputs
Requests == [plan : Plans, approval : Approvals, key : Keys]
Answers == [request : Requests, job : Jobs]
JobRow == [state : {"absent", "active", "ended"},
           plan : Plans \cup {None}, approval : Approvals \cup {None},
           launched : {"no", "yes"}, strayed : BOOLEAN]

TypeOK ==
  /\ plan \in [Plans -> [status : {"absent", "prepared", "started"},
                         frozen : Versions, job : Jobs \cup {None}]]
  /\ approving \in SUBSET Plans
  /\ approval \in [Approvals -> [status : {"absent", "fresh", "used", "expired"},
                                 plan : Plans \cup {None}]]
  /\ burned \in SUBSET Plans
  /\ expired \in SUBSET Plans
  /\ idem \in [Keys -> Answers \cup {None}]
  /\ job \in [Jobs -> JobRow]
  /\ draft \in Versions
  /\ holder \in [Locks -> Starters \cup {None}]
  /\ pc \in [Starters -> Steps]
  /\ req \in [Starters -> Requests \cup {NoRequest}]
  /\ newJob \in [Starters -> Jobs \cup {None}]
  /\ faults \in 0..MaxFaults

Init ==
  /\ plan = [p \in Plans |-> NoPlan]
  /\ approving = {}
  /\ approval = [a \in Approvals |-> NoApproval]
  /\ burned = {}
  /\ expired = {}
  /\ idem = [k \in Keys |-> None]
  /\ job = [j \in Jobs |-> NoJob]
  /\ draft = 0
  /\ holder = [l \in Locks |-> None]
  /\ pc = [s \in Starters |-> "idle"]
  /\ req = [s \in Starters |-> NoRequest]
  /\ newJob = [s \in Starters |-> None]
  /\ faults = 0

ActiveJobs == {j \in Jobs : job[j].state = "active"}

-----------------------------------------------------------------------------
(* prepare_strategy_run and the approve command.                           *)

\* The plan freezes the inputs as they are and its token is issued.
PreparePlan(p) ==
  /\ plan[p].status = "absent"
  /\ plan' = [plan EXCEPT ![p] = [NoPlan EXCEPT !.status = "prepared", !.frozen = draft]]
  /\ UNCHANGED <<approving, approval, burned, expired, idem, job, draft, callVars, faults>>

\* approve_run_plan checks the token (not its nonce) and the plan's status ...
CheckApproval(p) ==
  /\ plan[p].status = "prepared"
  /\ p \notin expired
  /\ approving' = approving \cup {p}
  /\ UNCHANGED <<plan, approval, burned, expired, idem, job, draft, callVars, faults>>

\* ... and inserts the approval; the plan may have been started in between.
CreateApproval(p, a) ==
  /\ p \in approving
  /\ approval[a].status = "absent"
  /\ approving' = approving \ {p}
  /\ approval' = [approval EXCEPT ![a] = [status |-> "fresh", plan |-> p]]
  /\ UNCHANGED <<plan, burned, expired, idem, job, draft, callVars, faults>>

ExpireApproval(a) ==
  /\ approval[a].status = "fresh"
  /\ approval' = [approval EXCEPT ![a].status = "expired"]
  /\ UNCHANGED <<plan, approving, burned, expired, idem, job, draft, callVars, faults>>

ExpireToken(p) ==
  /\ plan[p].status # "absent"
  /\ expired' = expired \cup {p}
  /\ UNCHANGED <<plan, approving, approval, burned, idem, job, draft, callVars, faults>>

-----------------------------------------------------------------------------
(* start_strategy_run, statement by statement.                             *)

Goto(s, step) == pc' = [pc EXCEPT ![s] = step]

\* The call returns or raises: the with blocks release what it holds.
Return(s) ==
  /\ holder' = [l \in Locks |-> IF holder[l] = s THEN None ELSE holder[l]]
  /\ Goto(s, "idle")
  /\ req' = [req EXCEPT ![s] = NoRequest]
  /\ newJob' = [newJob EXCEPT ![s] = None]

\* Go on when the check holds, raise Conflict or Forbidden otherwise.
Check(s, holds, next) ==
  IF holds THEN Goto(s, next) /\ UNCHANGED <<holder, req, newJob>> ELSE Return(s)

\* idempotent_get outside the locks.  An answer from the record, or the conflict
\* of a key used for another request, changes nothing and is not a step.
BeginStart(s, p, a, k) ==
  /\ pc[s] = "idle"
  /\ plan[p].status # "absent"
  /\ approval[a].status # "absent"
  /\ idem[k] = None
  /\ Goto(s, "lockPlan")
  /\ req' = [req EXCEPT ![s] = [plan |-> p, approval |-> a, key |-> k]]
  /\ UNCHANGED <<recordVars, holder, newJob, faults>>

Acquire(s, lock, next) ==
  /\ holder[lock] = None
  /\ holder' = [holder EXCEPT ![lock] = s]
  /\ Goto(s, next)
  /\ UNCHANGED <<recordVars, req, newJob, faults>>

AcquirePlanLock(s) == pc[s] = "lockPlan" /\ Acquire(s, req[s].plan, "checkPlan")

\* Mutation: verify consumes the nonce here.
CheckPlanConsuming(s) ==
  /\ pc[s] = "checkPlan"
  /\ Check(s, plan[req[s].plan].status = "prepared" /\ req[s].plan \notin expired, "lockJobs")
  /\ burned' = burned \cup {req[s].plan}
  /\ UNCHANGED <<plan, approving, approval, expired, idem, job, draft, faults>>

\* Mutation: the plan's status is looked at before the lock only.
CheckPlanToken(s) ==
  /\ pc[s] = "checkPlan"
  /\ Check(s, req[s].plan \notin expired, "lockJobs")
  /\ UNCHANGED <<recordVars, faults>>

CheckPlan(s) ==
  /\ pc[s] = "checkPlan"
  /\ Check(s, plan[req[s].plan].status = "prepared" /\ req[s].plan \notin expired, "lockJobs")
  /\ UNCHANGED <<recordVars, faults>>

AcquireJobLock(s) == pc[s] = "lockJobs" /\ Acquire(s, "job-concurrency", "recheckKey")

\* Mutation: the key is looked up before the locks only.
RecheckKeySkipped(s) ==
  /\ pc[s] = "recheckKey"
  /\ Check(s, TRUE, "checkInputs")
  /\ UNCHANGED <<recordVars, faults>>

\* Mutation: the early return keeps the locks.
RecheckKeyKeepingLock(s) ==
  /\ pc[s] = "recheckKey"
  /\ IF idem[req[s].key] = None
       THEN Goto(s, "checkInputs") /\ UNCHANGED <<holder, req, newJob>>
       ELSE /\ Goto(s, "idle")
            /\ req' = [req EXCEPT ![s] = NoRequest]
            /\ UNCHANGED <<holder, newJob>>
  /\ UNCHANGED <<recordVars, faults>>

RecheckKey(s) ==
  /\ pc[s] = "recheckKey"
  /\ Check(s, idem[req[s].key] = None, "checkInputs")
  /\ UNCHANGED <<recordVars, faults>>

CheckInputs(s) ==
  /\ pc[s] = "checkInputs"
  /\ Check(s, draft = plan[req[s].plan].frozen, "checkCapacity")
  /\ UNCHANGED <<recordVars, faults>>

\* Mutation: "> max" for ">= max".
CheckCapacityAtMost(s) ==
  /\ pc[s] = "checkCapacity"
  /\ Check(s, Cardinality(ActiveJobs) <= MaxConcurrentJobs, "consumeApproval")
  /\ UNCHANGED <<recordVars, faults>>

CheckCapacity(s) ==
  /\ pc[s] = "checkCapacity"
  /\ Check(s, Cardinality(ActiveJobs) < MaxConcurrentJobs, "consumeApproval")
  /\ UNCHANGED <<recordVars, faults>>

\* Mutation: used_at is not looked at.
ConsumeApprovalAgain(s) ==
  LET a == req[s].approval
      usable == approval[a].plan = req[s].plan /\ approval[a].status # "expired"
  IN /\ pc[s] = "consumeApproval"
     /\ Check(s, usable, "putJob")
     /\ approval' = IF usable THEN [approval EXCEPT ![a].status = "used"] ELSE approval
     /\ UNCHANGED <<plan, approving, burned, expired, idem, job, draft, faults>>

\* One transaction: fresh, bound to this plan, and marked used.
ConsumeApproval(s) ==
  LET a == req[s].approval
      usable == approval[a] = [status |-> "fresh", plan |-> req[s].plan]
  IN /\ pc[s] = "consumeApproval"
     /\ Check(s, usable, "putJob")
     /\ approval' = IF usable THEN [approval EXCEPT ![a].status = "used"] ELSE approval
     /\ UNCHANGED <<plan, approving, burned, expired, idem, job, draft, faults>>

\* _create_job_record: the QUEUED row ...
PutJob(s, j) ==
  /\ pc[s] = "putJob"
  /\ job[j].state = "absent"
  /\ job' = [job EXCEPT ![j] = [NoJob EXCEPT !.state = "active", !.plan = req[s].plan,
                                            !.approval = req[s].approval]]
  /\ newJob' = [newJob EXCEPT ![s] = j]
  /\ Goto(s, "markStarted")
  /\ UNCHANGED <<plan, approving, approval, burned, expired, idem, draft, holder, req, faults>>

\* Mutation: the plan's job_id and approval_id are swapped.
MarkStartedSwapped(s) ==
  /\ pc[s] = "markStarted"
  /\ plan' = [plan EXCEPT ![req[s].plan] =
                 [status |-> "started", frozen |-> @.frozen, job |-> req[s].approval]]
  /\ Goto(s, "consumeNonce")
  /\ UNCHANGED <<approving, approval, burned, expired, idem, job, draft,
                 holder, req, newJob, faults>>

\* ... and, in a transaction of its own, the plan's status and job.
MarkStarted(s) ==
  /\ pc[s] = "markStarted"
  /\ plan' = [plan EXCEPT ![req[s].plan] =
                 [status |-> "started", frozen |-> @.frozen, job |-> newJob[s]]]
  /\ Goto(s, "consumeNonce")
  /\ UNCHANGED <<approving, approval, burned, expired, idem, job, draft,
                 holder, req, newJob, faults>>

\* signer.consume: refuses a nonce that is already used.
ConsumeNonce(s) ==
  /\ pc[s] = "consumeNonce"
  /\ Check(s, req[s].plan \notin burned, "putResponse")
  /\ burned' = burned \cup {req[s].plan}
  /\ UNCHANGED <<plan, approving, approval, expired, idem, job, draft, faults>>

\* idempotent_put: a row another request put first is a Conflict.  The with
\* blocks end here and release both locks.
PutResponse(s) ==
  LET k == req[s].key IN
  /\ pc[s] = "putResponse"
  /\ IF idem[k] = None
       THEN /\ idem' = [idem EXCEPT ![k] = [request |-> req[s], job |-> newJob[s]]]
            /\ holder' = [l \in Locks |-> IF holder[l] = s THEN None ELSE holder[l]]
            /\ Goto(s, "launch")
            /\ UNCHANGED <<req, newJob>>
       ELSE Return(s) /\ UNCHANGED idem
  /\ UNCHANGED <<plan, approving, approval, burned, expired, job, draft, faults>>

\* Popen of the worker, outside the locks.
Launch(s) ==
  /\ pc[s] = "launch"
  /\ job' = [job EXCEPT ![newJob[s]].launched = "yes"]
  /\ Return(s)
  /\ UNCHANGED <<plan, approving, approval, burned, expired, idem, draft, faults>>

\* Popen raises: the row is set to FAILED, whatever active state it is in.
LaunchFails(s) ==
  /\ pc[s] = "launch"
  /\ job' = [job EXCEPT ![newJob[s]].state = "ended"]
  /\ Return(s)
  /\ UNCHANGED <<plan, approving, approval, burned, expired, idem, draft, faults>>

\* The server dies, or a statement raises: the kernel or the finally clauses
\* release the locks, and what was written stays.
StartFault(s) ==
  /\ pc[s] # "idle"
  /\ faults < MaxFaults
  /\ faults' = faults + 1
  /\ Return(s)
  /\ UNCHANGED recordVars

StartStep(s) ==
  \/ CheckPlan(s) \/ RecheckKey(s) \/ CheckInputs(s) \/ CheckCapacity(s)
  \/ ConsumeApproval(s) \/ MarkStarted(s) \/ ConsumeNonce(s) \/ PutResponse(s)
  \/ Launch(s) \/ LaunchFails(s)
  \/ \E j \in Jobs : PutJob(s, j)

-----------------------------------------------------------------------------
(* What goes on around the starts.                                         *)

\* The job reaches a terminal state: its worker's, a cancel's, the watchdog's.
EndJob(j) ==
  /\ job[j].state = "active"
  /\ job' = [job EXCEPT ![j].state = "ended"]
  /\ UNCHANGED <<plan, approving, approval, burned, expired, idem, draft, callVars, faults>>

\* The worker compares the draft's files with the draft row as it is now, and
\* runs a candidate in the draft's own directory.
RunCandidate(j) ==
  /\ job[j].launched = "yes"
  /\ job[j].state = "active"
  /\ job' = [job EXCEPT ![j].strayed = @ \/ draft # plan[job[j].plan].frozen]
  /\ UNCHANGED <<plan, approving, approval, burned, expired, idem, draft, callVars, faults>>

\* update_draft_file: under the draft's own lock only.
EditDraft ==
  /\ draft < MaxEdits
  /\ draft' = draft + 1
  /\ UNCHANGED <<plan, approving, approval, burned, expired, idem, job, callVars, faults>>

Next ==
  \/ \E p \in Plans : PreparePlan(p) \/ CheckApproval(p) \/ ExpireToken(p)
  \/ \E p \in Plans, a \in Approvals : CreateApproval(p, a)
  \/ \E a \in Approvals : ExpireApproval(a)
  \/ \E s \in Starters, p \in Plans, a \in Approvals, k \in Keys : BeginStart(s, p, a, k)
  \/ \E s \in Starters : AcquirePlanLock(s) \/ AcquireJobLock(s) \/ StartStep(s) \/ StartFault(s)
  \/ \E j \in Jobs : EndJob(j) \/ RunCandidate(j)
  \/ EditDraft

Spec == Init /\ [][Next]_vars

\* The scheduler runs every thread, and flock serves its waiters in order: a
\* starter that keeps finding the lock free gets it.
FairSpec ==
  /\ Spec
  /\ \A s \in Starters : /\ WF_vars(StartStep(s))
                         /\ SF_vars(AcquirePlanLock(s))
                         /\ SF_vars(AcquireJobLock(s))

-----------------------------------------------------------------------------
(* Properties.                                                             *)

\* A worker process is created only for the job its plan names: one plan never
\* launches two workers, however many callers, keys, approvals and failed starts
\* it sees (jobs.py 434-439, 407-416).
PlanNamesItsLaunch ==
  \A j \in Jobs : job[j].launched = "yes" =>
    /\ plan[job[j].plan].status = "started"
    /\ plan[job[j].plan].job = j

\* An approval pays for one job row of the plan it was given for, even when the
\* start that used it died before the plan was marked (state.py 347-370).
OneJobPerApproval ==
  \A j \in Jobs : job[j].state # "absent" =>
    /\ approval[job[j].approval] = [status |-> "used", plan |-> job[j].plan]
    /\ \A i \in Jobs : job[i].approval = job[j].approval => i = j

\* The count is taken before the row is put and other plans start at the same
\* time; the global lock keeps the cap exact (jobs.py 314-327, 446).
WithinCapacity == Cardinality(ActiveJobs) <= MaxConcurrentJobs

\* "failed attempts never burn the capability" (security.py 140-141): a nonce is
\* used only once its plan is started by a job row paid for with an approval.
NonceBurnsLast ==
  \A p \in burned :
    /\ plan[p].status = "started"
    /\ plan[p].job # None
    /\ job[plan[p].job].plan = p

\* "A failure here never bricks the run plan" (jobs.py 474-476): a plan that can no
\* longer be started has a worker, a job that ended, or a call on its way to create
\* the worker.
NoBrickedPlan ==
  \A p \in Plans : plan[p].status = "started" =>
    \/ job[plan[p].job].launched = "yes"
    \/ job[plan[p].job].state = "ended"
    \/ \E s \in Starters : newJob[s] = plan[p].job

\* As long as no call died half-way that is so, although inputs, keys and approvals
\* change hands between any two statements: every refusal comes before the mark.
StartedPlanIsLaunched == faults = 0 => NoBrickedPlan

\* What a job executes is what its plan froze and a human approved
\* (docs/concepts/runs.en.md 5-8).
RunsFrozenInputs ==
  \A j \in Jobs : ~job[j].strayed

\* Every call of start_strategy_run returns: the order run-plan lock, then
\* job-concurrency lock, admits no cycle (jobs.py 434, 446).
EveryStartReturns == \A s \in Starters : pc[s] # "idle" ~> pc[s] = "idle"
-----------------------------------------------------------------------------
(* The inductive invariant.                                                *)

\* Statements under the run-plan lock, and those under the job lock too.
UnderPlanLock == Steps \ {"idle", "lockPlan", "launch"}
UnderJobLock == UnderPlanLock \ {"checkPlan", "lockJobs"}
\* Statements before the plan is marked, with and without a job row, and after.
BeforeMark == {"lockJobs", "recheckKey", "checkInputs", "checkCapacity",
               "consumeApproval", "putJob", "markStarted"}
AfterMark == {"consumeNonce", "putResponse", "launch"}

\* A call in progress holds the locks its statement is under.
LocksHeld ==
  \A s \in Starters :
    /\ pc[s] \in UnderPlanLock => holder[req[s].plan] = s
    /\ pc[s] \in UnderJobLock => holder["job-concurrency"] = s

\* A call in progress has its arguments, and a job exactly once it has put the row.
CallsAreWhole ==
  \A s \in Starters :
    /\ pc[s] # "idle" => req[s] \in Requests
    /\ pc[s] \in {"markStarted"} \cup AfterMark <=> newJob[s] \in Jobs

\* The row a call has put is its own, no other call's, and not launched yet.
NewJobIsMine ==
  \A s \in Starters : newJob[s] \in Jobs =>
    /\ \A t \in Starters : newJob[t] = newJob[s] => t = s
    /\ job[newJob[s]].state # "absent"
    /\ job[newJob[s]].plan = req[s].plan
    /\ job[newJob[s]].launched = "no"

\* The plan is still startable until the call marks it, and then names its job.
PlanFollowsCall ==
  \A s \in Starters :
    /\ pc[s] \in BeforeMark => plan[req[s].plan].status = "prepared"
    /\ pc[s] \in AfterMark => /\ plan[req[s].plan].status = "started"
                              /\ plan[req[s].plan].job = newJob[s]

\* The approval a call has consumed is used, for its plan, and by no row yet.
ApprovalIsPaid ==
  \A s \in Starters : pc[s] = "putJob" =>
    /\ approval[req[s].approval] = [status |-> "used", plan |-> req[s].plan]
    /\ \A j \in Jobs : job[j].approval # req[s].approval

\* A started plan names a row of its own.
StartedPlanHasJob ==
  \A p \in Plans : plan[p].status = "started" =>
    /\ plan[p].job \in Jobs
    /\ job[plan[p].job].state # "absent"
    /\ job[plan[p].job].plan = p

\* A row belongs to a plan; an absent row has no approval and no worker.
JobRows ==
  \A j \in Jobs :
    /\ job[j].state # "absent" => job[j].plan \in Plans /\ job[j].approval \in Approvals
    /\ job[j].state = "absent" => job[j].approval = None /\ job[j].launched = "no"

\* Between the count and the row there is room for one more.
RoomForOne ==
  \A s \in Starters :
    pc[s] \in {"consumeApproval", "putJob"} => Cardinality(ActiveJobs) < MaxConcurrentJobs

Invariant ==
  /\ TypeOK /\ LocksHeld /\ CallsAreWhole /\ NewJobIsMine /\ PlanFollowsCall
  /\ ApprovalIsPaid /\ StartedPlanHasJob /\ JobRows /\ RoomForOne
  /\ PlanNamesItsLaunch /\ OneJobPerApproval /\ WithinCapacity /\ NonceBurnsLast
=============================================================================
