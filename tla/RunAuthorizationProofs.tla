----------------------- MODULE RunAuthorizationProofs -----------------------
(***************************************************************************)
(* Invariant is inductive for RunAuthorization, for every set of plans,    *)
(* approvals, jobs, keys and callers, every cap and every number of        *)
(* faults; the safety properties of RunAuthorization follow from it.       *)
(***************************************************************************)
EXTENDS RunAuthorization, FiniteSetTheorems, TLAPS

-----------------------------------------------------------------------------
(* Leaving a call and checking keep the types.                             *)

CallTypes ==
  /\ holder \in [Locks -> Starters \cup {None}]
  /\ pc \in [Starters -> Steps]
  /\ req \in [Starters -> Requests \cup {NoRequest}]
  /\ newJob \in [Starters -> Jobs \cup {None}]

LEMMA ReturnType ==
  ASSUME TypeOK, NEW s \in Starters, Return(s)
  PROVE  CallTypes'
BY DEF TypeOK, CallTypes, Return, Goto, Steps

\* Changing one field of a row gives a row.
LEMMA JobRowFields ==
  ASSUME NEW r \in JobRow, NEW b \in BOOLEAN
  PROVE  /\ [r EXCEPT !.state = "ended"] \in JobRow
         /\ [r EXCEPT !.launched = "yes"] \in JobRow
         /\ [r EXCEPT !.strayed = b] \in JobRow
BY DEF JobRow

LEMMA CheckType ==
  ASSUME TypeOK, NEW s \in Starters, NEW holds \in BOOLEAN, NEW next \in Steps,
         Check(s, holds, next)
  PROVE  CallTypes'
BY ReturnType DEF TypeOK, CallTypes, Check, Goto

-----------------------------------------------------------------------------
(* One lemma for each part of Invariant.                                   *)

\* Every step keeps the types; a call in progress has its arguments.
LEMMA TypeKept ==
  ASSUME TypeOK, LocksHeld, CallsAreWhole, [Next]_vars
  PROVE  TypeOK'
<1> USE IdsAssumption, BoundsAssumption
<1>1. ASSUME NEW s \in Starters, AcquirePlanLock(s)
      PROVE  TypeOK'
  BY <1>1 DEF AcquirePlanLock, TypeOK, callVars, recordVars, Acquire, Goto, Steps, CallsAreWhole, Requests, Locks
<1>2. ASSUME NEW s \in Starters, CheckPlan(s)
      PROVE  TypeOK'
  <2>1. CallTypes'
    BY <1>2, CheckType DEF CheckPlan, Steps
  <2>2. QED
    BY <1>2, <2>1 DEF CheckPlan, TypeOK, CallTypes, recordVars
<1>3. ASSUME NEW s \in Starters, AcquireJobLock(s)
      PROVE  TypeOK'
  BY <1>3 DEF AcquireJobLock, TypeOK, callVars, recordVars, Acquire, Goto, Steps, Locks
<1>4. ASSUME NEW s \in Starters, RecheckKey(s)
      PROVE  TypeOK'
  <2>1. CallTypes'
    BY <1>4, CheckType DEF RecheckKey, Steps
  <2>2. QED
    BY <1>4, <2>1 DEF RecheckKey, TypeOK, CallTypes, recordVars
<1>5. ASSUME NEW s \in Starters, CheckInputs(s)
      PROVE  TypeOK'
  <2>1. CallTypes'
    BY <1>5, CheckType DEF CheckInputs, Steps
  <2>2. QED
    BY <1>5, <2>1 DEF CheckInputs, TypeOK, CallTypes, recordVars
<1>6. ASSUME NEW s \in Starters, CheckCapacity(s)
      PROVE  TypeOK'
  <2>1. Cardinality(ActiveJobs) \in Nat
    BY IdsAssumption, FS_Subset, FS_CardinalityType DEF ActiveJobs
  <2>2. (Cardinality(ActiveJobs) < MaxConcurrentJobs) \in BOOLEAN
    BY <2>1, BoundsAssumption
  <2>3. Check(s, Cardinality(ActiveJobs) < MaxConcurrentJobs, "consumeApproval")
    BY <1>6 DEF CheckCapacity
  <2>4. CallTypes'
    BY <2>2, <2>3, CheckType DEF Steps
  <2>5. QED
    BY <1>6, <2>4 DEF CheckCapacity, TypeOK, CallTypes, recordVars
<1>7. ASSUME NEW s \in Starters, ConsumeApproval(s)
      PROVE  TypeOK'
  <2>1. CallTypes'
    BY <1>7, CheckType DEF ConsumeApproval, Steps
  <2>2. approval' \in [Approvals -> [status : {"absent", "fresh", "used", "expired"},
                                    plan : Plans \cup {None}]]
    BY <1>7 DEF ConsumeApproval, TypeOK
  <2>3. QED
    BY <1>7, <2>1, <2>2 DEF ConsumeApproval, TypeOK, CallTypes
<1>8. ASSUME NEW s \in Starters, MarkStarted(s)
      PROVE  TypeOK'
  BY <1>8 DEF MarkStarted, TypeOK, callVars, recordVars, Goto, Steps, CallsAreWhole, Requests, AfterMark
<1>9. ASSUME NEW s \in Starters, ConsumeNonce(s)
      PROVE  TypeOK'
  <2>1. CallTypes'
    BY <1>9, CheckType DEF ConsumeNonce, Steps
  <2>2. QED
    BY <1>9, <2>1 DEF ConsumeNonce, TypeOK, CallTypes, recordVars, CallsAreWhole, Requests
<1>10. ASSUME NEW s \in Starters, PutResponse(s)
      PROVE  TypeOK'
  <2>1. CallTypes'
    BY <1>10, ReturnType DEF PutResponse, TypeOK, CallTypes, Goto, Steps
  <2>2. req[s] \in Requests /\ newJob[s] \in Jobs
    BY <1>10 DEF PutResponse, CallsAreWhole, AfterMark
  <2>3. [request |-> req[s], job |-> newJob[s]] \in Answers
    BY <2>2 DEF Answers
  <2>4. idem' \in [Keys -> Answers \cup {None}]
    BY <1>10, <2>3 DEF PutResponse, TypeOK
  <2>5. QED
    BY <1>10, <2>1, <2>4 DEF PutResponse, TypeOK, CallTypes
<1>11. ASSUME NEW s \in Starters, Launch(s)
      PROVE  TypeOK'
  <2>1. CallTypes'
    BY <1>11, ReturnType DEF Launch
  <2>2. job' \in [Jobs -> JobRow]
    <3>1. \A i \in Jobs : [job[i] EXCEPT !.launched = "yes"] \in JobRow
      BY JobRowFields DEF TypeOK
    <3>2. QED
      BY <1>11, <3>1 DEF Launch, TypeOK
  <2>9. QED
    BY <1>11, <2>1, <2>2 DEF Launch, TypeOK, CallTypes
<1>12. ASSUME NEW s \in Starters, LaunchFails(s)
      PROVE  TypeOK'
  <2>1. CallTypes'
    BY <1>12, ReturnType DEF LaunchFails
  <2>2. job' \in [Jobs -> JobRow]
    <3>1. \A i \in Jobs : [job[i] EXCEPT !.state = "ended"] \in JobRow
      BY JobRowFields DEF TypeOK
    <3>2. QED
      BY <1>12, <3>1 DEF LaunchFails, TypeOK
  <2>9. QED
    BY <1>12, <2>1, <2>2 DEF LaunchFails, TypeOK, CallTypes
<1>13. ASSUME NEW s \in Starters, StartFault(s)
      PROVE  TypeOK'
  <2>1. CallTypes'
    BY <1>13, ReturnType DEF StartFault
  <2>2. QED
    BY <1>13, <2>1, BoundsAssumption DEF StartFault, TypeOK, CallTypes, recordVars
<1>14. ASSUME NEW p \in Plans, PreparePlan(p)
      PROVE  TypeOK'
  BY <1>14 DEF PreparePlan, TypeOK, callVars, recordVars, NoPlan
<1>15. ASSUME NEW p \in Plans, CheckApproval(p)
      PROVE  TypeOK'
  BY <1>15 DEF CheckApproval, TypeOK, callVars, recordVars
<1>16. ASSUME NEW p \in Plans, ExpireToken(p)
      PROVE  TypeOK'
  BY <1>16 DEF ExpireToken, TypeOK, callVars, recordVars
<1>17. ASSUME NEW p \in Plans, NEW a \in Approvals, CreateApproval(p, a)
      PROVE  TypeOK'
  BY <1>17 DEF CreateApproval, TypeOK, callVars, recordVars
<1>18. ASSUME NEW a \in Approvals, ExpireApproval(a)
      PROVE  TypeOK'
  BY <1>18 DEF ExpireApproval, TypeOK, callVars, recordVars
<1>19. ASSUME NEW s \in Starters, NEW p \in Plans, NEW a \in Approvals, NEW k \in Keys, BeginStart(s, p, a, k)
      PROVE  TypeOK'
  <2>1. [plan |-> p, approval |-> a, key |-> k] \in Requests
    BY DEF Requests
  <2>2. QED
    BY <1>19, <2>1 DEF BeginStart, TypeOK, Goto, Steps, recordVars
<1>20. ASSUME NEW s \in Starters, NEW j \in Jobs, PutJob(s, j)
      PROVE  TypeOK'
  <2>1. req[s].plan \in Plans /\ req[s].approval \in Approvals
    BY <1>20 DEF PutJob, CallsAreWhole, Requests
  <2>2. job' \in [Jobs -> JobRow]
    BY <1>20, <2>1 DEF PutJob, TypeOK, NoJob, JobRow
  <2>3. QED
    BY <1>20, <2>2 DEF PutJob, TypeOK, Goto, Steps
<1>21. ASSUME NEW j \in Jobs, EndJob(j)
      PROVE  TypeOK'
  <2>2. job' \in [Jobs -> JobRow]
    <3>1. \A i \in Jobs : [job[i] EXCEPT !.state = "ended"] \in JobRow
      BY JobRowFields DEF TypeOK
    <3>2. QED
      BY <1>21, <3>1 DEF EndJob, TypeOK
  <2>3. QED
    BY <1>21, <2>2 DEF EndJob, TypeOK, callVars
<1>22. ASSUME NEW j \in Jobs, RunCandidate(j)
      PROVE  TypeOK'
  <2>1. \A i \in Jobs : \A b \in BOOLEAN : [job[i] EXCEPT !.strayed = b] \in JobRow
    BY JobRowFields DEF TypeOK
  <2>2. job' \in [Jobs -> JobRow]
    <3> DEFINE b == job[j].strayed \/ draft # plan[job[j].plan].frozen
    <3>1. b \in BOOLEAN
      OBVIOUS
    <3>2. job' = [job EXCEPT ![j] = [job[j] EXCEPT !.strayed = b]]
      BY <1>22 DEF RunCandidate, TypeOK, JobRow
    <3> HIDE DEF b
    <3>3. QED
      BY <2>1, <3>1, <3>2 DEF TypeOK
  <2>3. QED
    BY <1>22, <2>2 DEF RunCandidate, TypeOK, callVars
<1>23. CASE EditDraft
  BY <1>23 DEF EditDraft, TypeOK, callVars, Versions
<1>24. CASE UNCHANGED vars
  BY <1>24 DEF vars, TypeOK
<1>25. QED
  BY <1>1, <1>2, <1>3, <1>4, <1>5, <1>6, <1>7, <1>8, <1>9, <1>10, <1>11, 
     <1>12, <1>13, <1>14, <1>15, <1>16, <1>17, <1>18, <1>19, <1>20, <1>21, 
     <1>22, <1>23, <1>24
  DEF Next, StartStep

\* A lock is taken only when it is free, and released by its holder.
LEMMA LocksHeldKept ==
  ASSUME TypeOK, CallsAreWhole, LocksHeld, [Next]_vars
  PROVE  LocksHeld'
<1> USE IdsAssumption DEF TypeOK, JobRow, CallsAreWhole, LocksHeld, Requests, Locks, Acquire, Check, Return, Goto, recordVars, callVars, UnderPlanLock, UnderJobLock, BeforeMark, AfterMark, Steps
<1>1. ASSUME NEW s \in Starters, AcquirePlanLock(s)
      PROVE  LocksHeld'
  BY <1>1 DEF AcquirePlanLock
<1>2. ASSUME NEW s \in Starters, CheckPlan(s)
      PROVE  LocksHeld'
  BY <1>2 DEF CheckPlan
<1>3. ASSUME NEW s \in Starters, AcquireJobLock(s)
      PROVE  LocksHeld'
  BY <1>3 DEF AcquireJobLock
<1>4. ASSUME NEW s \in Starters, RecheckKey(s)
      PROVE  LocksHeld'
  BY <1>4 DEF RecheckKey
<1>5. ASSUME NEW s \in Starters, CheckInputs(s)
      PROVE  LocksHeld'
  BY <1>5 DEF CheckInputs
<1>6. ASSUME NEW s \in Starters, CheckCapacity(s)
      PROVE  LocksHeld'
  BY <1>6 DEF CheckCapacity
<1>7. ASSUME NEW s \in Starters, ConsumeApproval(s)
      PROVE  LocksHeld'
  BY <1>7 DEF ConsumeApproval
<1>8. ASSUME NEW s \in Starters, MarkStarted(s)
      PROVE  LocksHeld'
  BY <1>8 DEF MarkStarted
<1>9. ASSUME NEW s \in Starters, ConsumeNonce(s)
      PROVE  LocksHeld'
  BY <1>9 DEF ConsumeNonce
<1>10. ASSUME NEW s \in Starters, PutResponse(s)
      PROVE  LocksHeld'
  BY <1>10 DEF PutResponse
<1>11. ASSUME NEW s \in Starters, Launch(s)
      PROVE  LocksHeld'
  BY <1>11 DEF Launch
<1>12. ASSUME NEW s \in Starters, LaunchFails(s)
      PROVE  LocksHeld'
  BY <1>12 DEF LaunchFails
<1>13. ASSUME NEW s \in Starters, StartFault(s)
      PROVE  LocksHeld'
  BY <1>13 DEF StartFault
<1>14. ASSUME NEW p \in Plans, PreparePlan(p)
      PROVE  LocksHeld'
  BY <1>14 DEF PreparePlan
<1>15. ASSUME NEW p \in Plans, CheckApproval(p)
      PROVE  LocksHeld'
  BY <1>15 DEF CheckApproval
<1>16. ASSUME NEW p \in Plans, ExpireToken(p)
      PROVE  LocksHeld'
  BY <1>16 DEF ExpireToken
<1>17. ASSUME NEW p \in Plans, NEW a \in Approvals, CreateApproval(p, a)
      PROVE  LocksHeld'
  BY <1>17 DEF CreateApproval
<1>18. ASSUME NEW a \in Approvals, ExpireApproval(a)
      PROVE  LocksHeld'
  BY <1>18 DEF ExpireApproval
<1>19. ASSUME NEW s \in Starters, NEW p \in Plans, NEW a \in Approvals, NEW k \in Keys, BeginStart(s, p, a, k)
      PROVE  LocksHeld'
  BY <1>19 DEF BeginStart
<1>20. ASSUME NEW s \in Starters, NEW j \in Jobs, PutJob(s, j)
      PROVE  LocksHeld'
  BY <1>20 DEF PutJob
<1>21. ASSUME NEW j \in Jobs, EndJob(j)
      PROVE  LocksHeld'
  BY <1>21 DEF EndJob
<1>22. ASSUME NEW j \in Jobs, RunCandidate(j)
      PROVE  LocksHeld'
  BY <1>22 DEF RunCandidate
<1>23. CASE EditDraft
  BY <1>23 DEF EditDraft
<1>24. CASE UNCHANGED vars
  BY <1>24 DEF vars
<1>25. QED
  BY <1>1, <1>2, <1>3, <1>4, <1>5, <1>6, <1>7, <1>8, <1>9, <1>10, <1>11, 
     <1>12, <1>13, <1>14, <1>15, <1>16, <1>17, <1>18, <1>19, <1>20, <1>21, 
     <1>22, <1>23, <1>24
  DEF Next, StartStep

\* Arguments come with the call, the job with its row.
LEMMA CallsAreWholeKept ==
  ASSUME TypeOK, CallsAreWhole, [Next]_vars
  PROVE  CallsAreWhole'
<1> USE IdsAssumption DEF TypeOK, JobRow, CallsAreWhole, Acquire, Check, Return, Goto, recordVars, callVars, UnderPlanLock, UnderJobLock, BeforeMark, AfterMark, Steps, Requests, NoRequest
<1>1. ASSUME NEW s \in Starters, AcquirePlanLock(s)
      PROVE  CallsAreWhole'
  BY <1>1 DEF AcquirePlanLock
<1>2. ASSUME NEW s \in Starters, CheckPlan(s)
      PROVE  CallsAreWhole'
  BY <1>2 DEF CheckPlan
<1>3. ASSUME NEW s \in Starters, AcquireJobLock(s)
      PROVE  CallsAreWhole'
  BY <1>3 DEF AcquireJobLock
<1>4. ASSUME NEW s \in Starters, RecheckKey(s)
      PROVE  CallsAreWhole'
  <2>1. /\ pc[s] = "recheckKey"
        /\ \/ Goto(s, "checkInputs") /\ UNCHANGED <<holder, req, newJob>>
           \/ Return(s)
    BY <1>4 DEF RecheckKey
  <2>2. QED
    BY <2>1
<1>5. ASSUME NEW s \in Starters, CheckInputs(s)
      PROVE  CallsAreWhole'
  BY <1>5 DEF CheckInputs
<1>6. ASSUME NEW s \in Starters, CheckCapacity(s)
      PROVE  CallsAreWhole'
  BY <1>6 DEF CheckCapacity
<1>7. ASSUME NEW s \in Starters, ConsumeApproval(s)
      PROVE  CallsAreWhole'
  BY <1>7 DEF ConsumeApproval
<1>8. ASSUME NEW s \in Starters, MarkStarted(s)
      PROVE  CallsAreWhole'
  BY <1>8 DEF MarkStarted
<1>9. ASSUME NEW s \in Starters, ConsumeNonce(s)
      PROVE  CallsAreWhole'
  BY <1>9 DEF ConsumeNonce
<1>10. ASSUME NEW s \in Starters, PutResponse(s)
      PROVE  CallsAreWhole'
  BY <1>10 DEF PutResponse
<1>11. ASSUME NEW s \in Starters, Launch(s)
      PROVE  CallsAreWhole'
  BY <1>11 DEF Launch
<1>12. ASSUME NEW s \in Starters, LaunchFails(s)
      PROVE  CallsAreWhole'
  BY <1>12 DEF LaunchFails
<1>13. ASSUME NEW s \in Starters, StartFault(s)
      PROVE  CallsAreWhole'
  BY <1>13 DEF StartFault
<1>14. ASSUME NEW p \in Plans, PreparePlan(p)
      PROVE  CallsAreWhole'
  BY <1>14 DEF PreparePlan
<1>15. ASSUME NEW p \in Plans, CheckApproval(p)
      PROVE  CallsAreWhole'
  BY <1>15 DEF CheckApproval
<1>16. ASSUME NEW p \in Plans, ExpireToken(p)
      PROVE  CallsAreWhole'
  BY <1>16 DEF ExpireToken
<1>17. ASSUME NEW p \in Plans, NEW a \in Approvals, CreateApproval(p, a)
      PROVE  CallsAreWhole'
  BY <1>17 DEF CreateApproval
<1>18. ASSUME NEW a \in Approvals, ExpireApproval(a)
      PROVE  CallsAreWhole'
  BY <1>18 DEF ExpireApproval
<1>19. ASSUME NEW s \in Starters, NEW p \in Plans, NEW a \in Approvals, NEW k \in Keys, BeginStart(s, p, a, k)
      PROVE  CallsAreWhole'
  BY <1>19 DEF BeginStart
<1>20. ASSUME NEW s \in Starters, NEW j \in Jobs, PutJob(s, j)
      PROVE  CallsAreWhole'
  BY <1>20 DEF PutJob
<1>21. ASSUME NEW j \in Jobs, EndJob(j)
      PROVE  CallsAreWhole'
  BY <1>21 DEF EndJob
<1>22. ASSUME NEW j \in Jobs, RunCandidate(j)
      PROVE  CallsAreWhole'
  BY <1>22 DEF RunCandidate
<1>23. CASE EditDraft
  BY <1>23 DEF EditDraft
<1>24. CASE UNCHANGED vars
  BY <1>24 DEF vars
<1>25. QED
  BY <1>1, <1>2, <1>3, <1>4, <1>5, <1>6, <1>7, <1>8, <1>9, <1>10, <1>11, 
     <1>12, <1>13, <1>14, <1>15, <1>16, <1>17, <1>18, <1>19, <1>20, <1>21, 
     <1>22, <1>23, <1>24
  DEF Next, StartStep

\* A fresh id is no other call's, and only the call that drew it launches it.
LEMMA NewJobIsMineKept ==
  ASSUME TypeOK, CallsAreWhole, NewJobIsMine, [Next]_vars
  PROVE  NewJobIsMine'
<1> USE IdsAssumption DEF TypeOK, JobRow, CallsAreWhole, NewJobIsMine, Acquire, Check, Return, Goto, recordVars, callVars, UnderPlanLock, UnderJobLock, BeforeMark, AfterMark, Steps, NoJob
<1>1. ASSUME NEW s \in Starters, AcquirePlanLock(s)
      PROVE  NewJobIsMine'
  BY <1>1 DEF AcquirePlanLock
<1>2. ASSUME NEW s \in Starters, CheckPlan(s)
      PROVE  NewJobIsMine'
  BY <1>2 DEF CheckPlan
<1>3. ASSUME NEW s \in Starters, AcquireJobLock(s)
      PROVE  NewJobIsMine'
  BY <1>3 DEF AcquireJobLock
<1>4. ASSUME NEW s \in Starters, RecheckKey(s)
      PROVE  NewJobIsMine'
  BY <1>4 DEF RecheckKey
<1>5. ASSUME NEW s \in Starters, CheckInputs(s)
      PROVE  NewJobIsMine'
  BY <1>5 DEF CheckInputs
<1>6. ASSUME NEW s \in Starters, CheckCapacity(s)
      PROVE  NewJobIsMine'
  BY <1>6 DEF CheckCapacity
<1>7. ASSUME NEW s \in Starters, ConsumeApproval(s)
      PROVE  NewJobIsMine'
  BY <1>7 DEF ConsumeApproval
<1>8. ASSUME NEW s \in Starters, MarkStarted(s)
      PROVE  NewJobIsMine'
  BY <1>8 DEF MarkStarted
<1>9. ASSUME NEW s \in Starters, ConsumeNonce(s)
      PROVE  NewJobIsMine'
  BY <1>9 DEF ConsumeNonce
<1>10. ASSUME NEW s \in Starters, PutResponse(s)
      PROVE  NewJobIsMine'
  BY <1>10 DEF PutResponse
<1>11. ASSUME NEW s \in Starters, Launch(s)
      PROVE  NewJobIsMine'
  BY <1>11 DEF Launch
<1>12. ASSUME NEW s \in Starters, LaunchFails(s)
      PROVE  NewJobIsMine'
  BY <1>12 DEF LaunchFails
<1>13. ASSUME NEW s \in Starters, StartFault(s)
      PROVE  NewJobIsMine'
  BY <1>13 DEF StartFault
<1>14. ASSUME NEW p \in Plans, PreparePlan(p)
      PROVE  NewJobIsMine'
  BY <1>14 DEF PreparePlan
<1>15. ASSUME NEW p \in Plans, CheckApproval(p)
      PROVE  NewJobIsMine'
  BY <1>15 DEF CheckApproval
<1>16. ASSUME NEW p \in Plans, ExpireToken(p)
      PROVE  NewJobIsMine'
  BY <1>16 DEF ExpireToken
<1>17. ASSUME NEW p \in Plans, NEW a \in Approvals, CreateApproval(p, a)
      PROVE  NewJobIsMine'
  BY <1>17 DEF CreateApproval
<1>18. ASSUME NEW a \in Approvals, ExpireApproval(a)
      PROVE  NewJobIsMine'
  BY <1>18 DEF ExpireApproval
<1>19. ASSUME NEW s \in Starters, NEW p \in Plans, NEW a \in Approvals, NEW k \in Keys, BeginStart(s, p, a, k)
      PROVE  NewJobIsMine'
  BY <1>19, SMTT(20) DEF BeginStart
<1>20. ASSUME NEW s \in Starters, NEW j \in Jobs, PutJob(s, j)
      PROVE  NewJobIsMine'
  BY <1>20 DEF PutJob
<1>21. ASSUME NEW j \in Jobs, EndJob(j)
      PROVE  NewJobIsMine'
  BY <1>21 DEF EndJob
<1>22. ASSUME NEW j \in Jobs, RunCandidate(j)
      PROVE  NewJobIsMine'
  BY <1>22 DEF RunCandidate
<1>23. CASE EditDraft
  BY <1>23 DEF EditDraft
<1>24. CASE UNCHANGED vars
  BY <1>24 DEF vars
<1>25. QED
  BY <1>1, <1>2, <1>3, <1>4, <1>5, <1>6, <1>7, <1>8, <1>9, <1>10, <1>11, 
     <1>12, <1>13, <1>14, <1>15, <1>16, <1>17, <1>18, <1>19, <1>20, <1>21, 
     <1>22, <1>23, <1>24
  DEF Next, StartStep

\* Only the holder of the plan's lock changes a prepared plan.
LEMMA PlanFollowsCallKept ==
  ASSUME TypeOK, CallsAreWhole, LocksHeld, NewJobIsMine, PlanFollowsCall, [Next]_vars
  PROVE  PlanFollowsCall'
<1> USE IdsAssumption DEF TypeOK, JobRow, CallsAreWhole, LocksHeld, NewJobIsMine, PlanFollowsCall, Acquire, Check, Return, Goto, recordVars, callVars, UnderPlanLock, UnderJobLock, BeforeMark, AfterMark, Steps, NoPlan, Requests
<1>1. ASSUME NEW s \in Starters, AcquirePlanLock(s)
      PROVE  PlanFollowsCall'
  BY <1>1 DEF AcquirePlanLock
<1>2. ASSUME NEW s \in Starters, CheckPlan(s)
      PROVE  PlanFollowsCall'
  BY <1>2 DEF CheckPlan
<1>3. ASSUME NEW s \in Starters, AcquireJobLock(s)
      PROVE  PlanFollowsCall'
  BY <1>3 DEF AcquireJobLock
<1>4. ASSUME NEW s \in Starters, RecheckKey(s)
      PROVE  PlanFollowsCall'
  BY <1>4 DEF RecheckKey
<1>5. ASSUME NEW s \in Starters, CheckInputs(s)
      PROVE  PlanFollowsCall'
  BY <1>5 DEF CheckInputs
<1>6. ASSUME NEW s \in Starters, CheckCapacity(s)
      PROVE  PlanFollowsCall'
  BY <1>6 DEF CheckCapacity
<1>7. ASSUME NEW s \in Starters, ConsumeApproval(s)
      PROVE  PlanFollowsCall'
  BY <1>7 DEF ConsumeApproval
<1>8. ASSUME NEW s \in Starters, MarkStarted(s)
      PROVE  PlanFollowsCall'
  BY <1>8 DEF MarkStarted
<1>9. ASSUME NEW s \in Starters, ConsumeNonce(s)
      PROVE  PlanFollowsCall'
  BY <1>9 DEF ConsumeNonce
<1>10. ASSUME NEW s \in Starters, PutResponse(s)
      PROVE  PlanFollowsCall'
  BY <1>10 DEF PutResponse
<1>11. ASSUME NEW s \in Starters, Launch(s)
      PROVE  PlanFollowsCall'
  BY <1>11 DEF Launch
<1>12. ASSUME NEW s \in Starters, LaunchFails(s)
      PROVE  PlanFollowsCall'
  BY <1>12 DEF LaunchFails
<1>13. ASSUME NEW s \in Starters, StartFault(s)
      PROVE  PlanFollowsCall'
  BY <1>13 DEF StartFault
<1>14. ASSUME NEW p \in Plans, PreparePlan(p)
      PROVE  PlanFollowsCall'
  BY <1>14 DEF PreparePlan
<1>15. ASSUME NEW p \in Plans, CheckApproval(p)
      PROVE  PlanFollowsCall'
  BY <1>15 DEF CheckApproval
<1>16. ASSUME NEW p \in Plans, ExpireToken(p)
      PROVE  PlanFollowsCall'
  BY <1>16 DEF ExpireToken
<1>17. ASSUME NEW p \in Plans, NEW a \in Approvals, CreateApproval(p, a)
      PROVE  PlanFollowsCall'
  BY <1>17 DEF CreateApproval
<1>18. ASSUME NEW a \in Approvals, ExpireApproval(a)
      PROVE  PlanFollowsCall'
  BY <1>18 DEF ExpireApproval
<1>19. ASSUME NEW s \in Starters, NEW p \in Plans, NEW a \in Approvals, NEW k \in Keys, BeginStart(s, p, a, k)
      PROVE  PlanFollowsCall'
  BY <1>19 DEF BeginStart
<1>20. ASSUME NEW s \in Starters, NEW j \in Jobs, PutJob(s, j)
      PROVE  PlanFollowsCall'
  BY <1>20 DEF PutJob
<1>21. ASSUME NEW j \in Jobs, EndJob(j)
      PROVE  PlanFollowsCall'
  BY <1>21 DEF EndJob
<1>22. ASSUME NEW j \in Jobs, RunCandidate(j)
      PROVE  PlanFollowsCall'
  BY <1>22 DEF RunCandidate
<1>23. CASE EditDraft
  BY <1>23 DEF EditDraft
<1>24. CASE UNCHANGED vars
  BY <1>24 DEF vars
<1>25. QED
  BY <1>1, <1>2, <1>3, <1>4, <1>5, <1>6, <1>7, <1>8, <1>9, <1>10, <1>11, 
     <1>12, <1>13, <1>14, <1>15, <1>16, <1>17, <1>18, <1>19, <1>20, <1>21, 
     <1>22, <1>23, <1>24
  DEF Next, StartStep

\* A fresh approval belongs to no row, and one call at a time is between its
\* approval and its row.
LEMMA ApprovalIsPaidKept ==
  ASSUME TypeOK, CallsAreWhole, LocksHeld, JobRows, OneJobPerApproval, ApprovalIsPaid, [Next]_vars
  PROVE  ApprovalIsPaid'
<1> USE IdsAssumption DEF TypeOK, JobRow, CallsAreWhole, LocksHeld, JobRows, OneJobPerApproval, ApprovalIsPaid, Acquire, Check, Return, Goto, recordVars, callVars, UnderPlanLock, UnderJobLock, BeforeMark, AfterMark, Steps, Requests, NoJob
<1>1. ASSUME NEW s \in Starters, AcquirePlanLock(s)
      PROVE  ApprovalIsPaid'
  BY <1>1 DEF AcquirePlanLock
<1>2. ASSUME NEW s \in Starters, CheckPlan(s)
      PROVE  ApprovalIsPaid'
  BY <1>2 DEF CheckPlan
<1>3. ASSUME NEW s \in Starters, AcquireJobLock(s)
      PROVE  ApprovalIsPaid'
  BY <1>3 DEF AcquireJobLock
<1>4. ASSUME NEW s \in Starters, RecheckKey(s)
      PROVE  ApprovalIsPaid'
  BY <1>4 DEF RecheckKey
<1>5. ASSUME NEW s \in Starters, CheckInputs(s)
      PROVE  ApprovalIsPaid'
  BY <1>5 DEF CheckInputs
<1>6. ASSUME NEW s \in Starters, CheckCapacity(s)
      PROVE  ApprovalIsPaid'
  BY <1>6 DEF CheckCapacity
<1>7. ASSUME NEW s \in Starters, ConsumeApproval(s)
      PROVE  ApprovalIsPaid'
  <2>1. ASSUME NEW t \in Starters, pc'[t] = "putJob"
        PROVE  t = s
    <3>1. pc[s] = "consumeApproval" /\ holder["job-concurrency"] = s
      BY <1>7 DEF ConsumeApproval
    <3>2. t # s => pc'[t] = pc[t]
      BY <1>7 DEF ConsumeApproval
    <3>3. pc[t] = "putJob" => holder["job-concurrency"] = t
      BY DEF LocksHeld
    <3>4. QED
      BY <2>1, <3>1, <3>2, <3>3
  <2>2. ASSUME pc'[s] = "putJob"
        PROVE  /\ approval[req[s].approval] = [status |-> "fresh", plan |-> req[s].plan]
               /\ approval'[req[s].approval] = [status |-> "used", plan |-> req[s].plan]
               /\ req' = req /\ job' = job
    <3>1. req[s].approval \in Approvals
      BY <1>7 DEF ConsumeApproval
    <3>2. approval[req[s].approval] = [status |-> "fresh", plan |-> req[s].plan]
      BY <1>7, <2>2 DEF ConsumeApproval
    <3>3. /\ approval' = [approval EXCEPT ![req[s].approval].status = "used"]
          /\ req' = req /\ job' = job
      BY <1>7, <2>2, <3>2 DEF ConsumeApproval
    <3>4. QED
      BY <3>1, <3>2, <3>3
  <2>3. ASSUME pc'[s] = "putJob", NEW j \in Jobs
        PROVE  job[j].approval # req[s].approval
    <3>1. req[s].approval # None
      BY <1>7 DEF ConsumeApproval
    <3>2. job[j].state # "absent" => approval[job[j].approval].status = "used"
      <4>1. ASSUME job[j].state # "absent"
            PROVE  approval[job[j].approval] = [status |-> "used", plan |-> job[j].plan]
        BY <4>1, <2>3 DEF OneJobPerApproval
      <4>2. QED
        BY <4>1
    <3>3. approval[req[s].approval].status = "fresh"
      BY <2>2, <2>3
    <3>4. job[j].state = "absent" => job[j].approval = None
      OBVIOUS
    <3>5. QED
      BY <3>1, <3>2, <3>3, <3>4
  <2>4. QED
    BY <2>1, <2>2, <2>3
<1>8. ASSUME NEW s \in Starters, MarkStarted(s)
      PROVE  ApprovalIsPaid'
  BY <1>8 DEF MarkStarted
<1>9. ASSUME NEW s \in Starters, ConsumeNonce(s)
      PROVE  ApprovalIsPaid'
  BY <1>9 DEF ConsumeNonce
<1>10. ASSUME NEW s \in Starters, PutResponse(s)
      PROVE  ApprovalIsPaid'
  BY <1>10 DEF PutResponse
<1>11. ASSUME NEW s \in Starters, Launch(s)
      PROVE  ApprovalIsPaid'
  BY <1>11 DEF Launch
<1>12. ASSUME NEW s \in Starters, LaunchFails(s)
      PROVE  ApprovalIsPaid'
  BY <1>12 DEF LaunchFails
<1>13. ASSUME NEW s \in Starters, StartFault(s)
      PROVE  ApprovalIsPaid'
  BY <1>13 DEF StartFault
<1>14. ASSUME NEW p \in Plans, PreparePlan(p)
      PROVE  ApprovalIsPaid'
  BY <1>14 DEF PreparePlan
<1>15. ASSUME NEW p \in Plans, CheckApproval(p)
      PROVE  ApprovalIsPaid'
  BY <1>15 DEF CheckApproval
<1>16. ASSUME NEW p \in Plans, ExpireToken(p)
      PROVE  ApprovalIsPaid'
  BY <1>16 DEF ExpireToken
<1>17. ASSUME NEW p \in Plans, NEW a \in Approvals, CreateApproval(p, a)
      PROVE  ApprovalIsPaid'
  BY <1>17 DEF CreateApproval
<1>18. ASSUME NEW a \in Approvals, ExpireApproval(a)
      PROVE  ApprovalIsPaid'
  BY <1>18 DEF ExpireApproval
<1>19. ASSUME NEW s \in Starters, NEW p \in Plans, NEW a \in Approvals, NEW k \in Keys, BeginStart(s, p, a, k)
      PROVE  ApprovalIsPaid'
  BY <1>19 DEF BeginStart
<1>20. ASSUME NEW s \in Starters, NEW j \in Jobs, PutJob(s, j)
      PROVE  ApprovalIsPaid'
  BY <1>20 DEF PutJob
<1>21. ASSUME NEW j \in Jobs, EndJob(j)
      PROVE  ApprovalIsPaid'
  BY <1>21 DEF EndJob
<1>22. ASSUME NEW j \in Jobs, RunCandidate(j)
      PROVE  ApprovalIsPaid'
  BY <1>22 DEF RunCandidate
<1>23. CASE EditDraft
  BY <1>23 DEF EditDraft
<1>24. CASE UNCHANGED vars
  BY <1>24 DEF vars
<1>25. QED
  BY <1>1, <1>2, <1>3, <1>4, <1>5, <1>6, <1>7, <1>8, <1>9, <1>10, <1>11, 
     <1>12, <1>13, <1>14, <1>15, <1>16, <1>17, <1>18, <1>19, <1>20, <1>21, 
     <1>22, <1>23, <1>24
  DEF Next, StartStep

\* The row is put before the plan is marked, and rows are not deleted.
LEMMA StartedPlanHasJobKept ==
  ASSUME TypeOK, CallsAreWhole, NewJobIsMine, StartedPlanHasJob, [Next]_vars
  PROVE  StartedPlanHasJob'
<1> USE IdsAssumption DEF TypeOK, JobRow, CallsAreWhole, NewJobIsMine, StartedPlanHasJob, Acquire, Check, Return, Goto, recordVars, callVars, UnderPlanLock, UnderJobLock, BeforeMark, AfterMark, Steps, NoPlan, NoJob
<1>1. ASSUME NEW s \in Starters, AcquirePlanLock(s)
      PROVE  StartedPlanHasJob'
  BY <1>1 DEF AcquirePlanLock
<1>2. ASSUME NEW s \in Starters, CheckPlan(s)
      PROVE  StartedPlanHasJob'
  BY <1>2 DEF CheckPlan
<1>3. ASSUME NEW s \in Starters, AcquireJobLock(s)
      PROVE  StartedPlanHasJob'
  BY <1>3 DEF AcquireJobLock
<1>4. ASSUME NEW s \in Starters, RecheckKey(s)
      PROVE  StartedPlanHasJob'
  BY <1>4 DEF RecheckKey
<1>5. ASSUME NEW s \in Starters, CheckInputs(s)
      PROVE  StartedPlanHasJob'
  BY <1>5 DEF CheckInputs
<1>6. ASSUME NEW s \in Starters, CheckCapacity(s)
      PROVE  StartedPlanHasJob'
  BY <1>6 DEF CheckCapacity
<1>7. ASSUME NEW s \in Starters, ConsumeApproval(s)
      PROVE  StartedPlanHasJob'
  BY <1>7 DEF ConsumeApproval
<1>8. ASSUME NEW s \in Starters, MarkStarted(s)
      PROVE  StartedPlanHasJob'
  BY <1>8 DEF MarkStarted
<1>9. ASSUME NEW s \in Starters, ConsumeNonce(s)
      PROVE  StartedPlanHasJob'
  BY <1>9 DEF ConsumeNonce
<1>10. ASSUME NEW s \in Starters, PutResponse(s)
      PROVE  StartedPlanHasJob'
  BY <1>10 DEF PutResponse
<1>11. ASSUME NEW s \in Starters, Launch(s)
      PROVE  StartedPlanHasJob'
  BY <1>11 DEF Launch
<1>12. ASSUME NEW s \in Starters, LaunchFails(s)
      PROVE  StartedPlanHasJob'
  BY <1>12 DEF LaunchFails
<1>13. ASSUME NEW s \in Starters, StartFault(s)
      PROVE  StartedPlanHasJob'
  BY <1>13 DEF StartFault
<1>14. ASSUME NEW p \in Plans, PreparePlan(p)
      PROVE  StartedPlanHasJob'
  BY <1>14 DEF PreparePlan
<1>15. ASSUME NEW p \in Plans, CheckApproval(p)
      PROVE  StartedPlanHasJob'
  BY <1>15 DEF CheckApproval
<1>16. ASSUME NEW p \in Plans, ExpireToken(p)
      PROVE  StartedPlanHasJob'
  BY <1>16 DEF ExpireToken
<1>17. ASSUME NEW p \in Plans, NEW a \in Approvals, CreateApproval(p, a)
      PROVE  StartedPlanHasJob'
  BY <1>17 DEF CreateApproval
<1>18. ASSUME NEW a \in Approvals, ExpireApproval(a)
      PROVE  StartedPlanHasJob'
  BY <1>18 DEF ExpireApproval
<1>19. ASSUME NEW s \in Starters, NEW p \in Plans, NEW a \in Approvals, NEW k \in Keys, BeginStart(s, p, a, k)
      PROVE  StartedPlanHasJob'
  BY <1>19 DEF BeginStart
<1>20. ASSUME NEW s \in Starters, NEW j \in Jobs, PutJob(s, j)
      PROVE  StartedPlanHasJob'
  BY <1>20 DEF PutJob
<1>21. ASSUME NEW j \in Jobs, EndJob(j)
      PROVE  StartedPlanHasJob'
  BY <1>21 DEF EndJob
<1>22. ASSUME NEW j \in Jobs, RunCandidate(j)
      PROVE  StartedPlanHasJob'
  BY <1>22 DEF RunCandidate
<1>23. CASE EditDraft
  BY <1>23 DEF EditDraft
<1>24. CASE UNCHANGED vars
  BY <1>24 DEF vars
<1>25. QED
  BY <1>1, <1>2, <1>3, <1>4, <1>5, <1>6, <1>7, <1>8, <1>9, <1>10, <1>11, 
     <1>12, <1>13, <1>14, <1>15, <1>16, <1>17, <1>18, <1>19, <1>20, <1>21, 
     <1>22, <1>23, <1>24
  DEF Next, StartStep

\* Rows are put whole.
LEMMA JobRowsKept ==
  ASSUME TypeOK, CallsAreWhole, NewJobIsMine, JobRows, [Next]_vars
  PROVE  JobRows'
<1> USE IdsAssumption DEF TypeOK, JobRow, CallsAreWhole, NewJobIsMine, JobRows, Acquire, Check, Return, Goto, recordVars, callVars, UnderPlanLock, UnderJobLock, BeforeMark, AfterMark, Steps, NoJob, Requests
<1>1. ASSUME NEW s \in Starters, AcquirePlanLock(s)
      PROVE  JobRows'
  BY <1>1 DEF AcquirePlanLock
<1>2. ASSUME NEW s \in Starters, CheckPlan(s)
      PROVE  JobRows'
  BY <1>2 DEF CheckPlan
<1>3. ASSUME NEW s \in Starters, AcquireJobLock(s)
      PROVE  JobRows'
  BY <1>3 DEF AcquireJobLock
<1>4. ASSUME NEW s \in Starters, RecheckKey(s)
      PROVE  JobRows'
  BY <1>4 DEF RecheckKey
<1>5. ASSUME NEW s \in Starters, CheckInputs(s)
      PROVE  JobRows'
  BY <1>5 DEF CheckInputs
<1>6. ASSUME NEW s \in Starters, CheckCapacity(s)
      PROVE  JobRows'
  BY <1>6 DEF CheckCapacity
<1>7. ASSUME NEW s \in Starters, ConsumeApproval(s)
      PROVE  JobRows'
  BY <1>7 DEF ConsumeApproval
<1>8. ASSUME NEW s \in Starters, MarkStarted(s)
      PROVE  JobRows'
  BY <1>8 DEF MarkStarted
<1>9. ASSUME NEW s \in Starters, ConsumeNonce(s)
      PROVE  JobRows'
  BY <1>9 DEF ConsumeNonce
<1>10. ASSUME NEW s \in Starters, PutResponse(s)
      PROVE  JobRows'
  BY <1>10 DEF PutResponse
<1>11. ASSUME NEW s \in Starters, Launch(s)
      PROVE  JobRows'
  BY <1>11 DEF Launch
<1>12. ASSUME NEW s \in Starters, LaunchFails(s)
      PROVE  JobRows'
  BY <1>12 DEF LaunchFails
<1>13. ASSUME NEW s \in Starters, StartFault(s)
      PROVE  JobRows'
  BY <1>13 DEF StartFault
<1>14. ASSUME NEW p \in Plans, PreparePlan(p)
      PROVE  JobRows'
  BY <1>14 DEF PreparePlan
<1>15. ASSUME NEW p \in Plans, CheckApproval(p)
      PROVE  JobRows'
  BY <1>15 DEF CheckApproval
<1>16. ASSUME NEW p \in Plans, ExpireToken(p)
      PROVE  JobRows'
  BY <1>16 DEF ExpireToken
<1>17. ASSUME NEW p \in Plans, NEW a \in Approvals, CreateApproval(p, a)
      PROVE  JobRows'
  BY <1>17 DEF CreateApproval
<1>18. ASSUME NEW a \in Approvals, ExpireApproval(a)
      PROVE  JobRows'
  BY <1>18 DEF ExpireApproval
<1>19. ASSUME NEW s \in Starters, NEW p \in Plans, NEW a \in Approvals, NEW k \in Keys, BeginStart(s, p, a, k)
      PROVE  JobRows'
  BY <1>19 DEF BeginStart
<1>20. ASSUME NEW s \in Starters, NEW j \in Jobs, PutJob(s, j)
      PROVE  JobRows'
  BY <1>20 DEF PutJob
<1>21. ASSUME NEW j \in Jobs, EndJob(j)
      PROVE  JobRows'
  BY <1>21 DEF EndJob
<1>22. ASSUME NEW j \in Jobs, RunCandidate(j)
      PROVE  JobRows'
  BY <1>22 DEF RunCandidate
<1>23. CASE EditDraft
  BY <1>23 DEF EditDraft
<1>24. CASE UNCHANGED vars
  BY <1>24 DEF vars
<1>25. QED
  BY <1>1, <1>2, <1>3, <1>4, <1>5, <1>6, <1>7, <1>8, <1>9, <1>10, <1>11, 
     <1>12, <1>13, <1>14, <1>15, <1>16, <1>17, <1>18, <1>19, <1>20, <1>21, 
     <1>22, <1>23, <1>24
  DEF Next, StartStep

\* A plan is marked while it is prepared, when none of its jobs is launched; a job
\* is launched by the call whose job the plan names.
LEMMA PlanNamesItsLaunchKept ==
  ASSUME TypeOK, CallsAreWhole, NewJobIsMine, PlanFollowsCall, PlanNamesItsLaunch, [Next]_vars
  PROVE  PlanNamesItsLaunch'
<1> USE IdsAssumption DEF TypeOK, JobRow, CallsAreWhole, NewJobIsMine, PlanFollowsCall, PlanNamesItsLaunch, Acquire, Check, Return, Goto, recordVars, callVars, UnderPlanLock, UnderJobLock, BeforeMark, AfterMark, Steps, NoPlan, NoJob, Requests
<1>1. ASSUME NEW s \in Starters, AcquirePlanLock(s)
      PROVE  PlanNamesItsLaunch'
  BY <1>1 DEF AcquirePlanLock
<1>2. ASSUME NEW s \in Starters, CheckPlan(s)
      PROVE  PlanNamesItsLaunch'
  BY <1>2 DEF CheckPlan
<1>3. ASSUME NEW s \in Starters, AcquireJobLock(s)
      PROVE  PlanNamesItsLaunch'
  BY <1>3 DEF AcquireJobLock
<1>4. ASSUME NEW s \in Starters, RecheckKey(s)
      PROVE  PlanNamesItsLaunch'
  BY <1>4 DEF RecheckKey
<1>5. ASSUME NEW s \in Starters, CheckInputs(s)
      PROVE  PlanNamesItsLaunch'
  BY <1>5 DEF CheckInputs
<1>6. ASSUME NEW s \in Starters, CheckCapacity(s)
      PROVE  PlanNamesItsLaunch'
  BY <1>6 DEF CheckCapacity
<1>7. ASSUME NEW s \in Starters, ConsumeApproval(s)
      PROVE  PlanNamesItsLaunch'
  BY <1>7 DEF ConsumeApproval
<1>8. ASSUME NEW s \in Starters, MarkStarted(s)
      PROVE  PlanNamesItsLaunch'
  BY <1>8 DEF MarkStarted
<1>9. ASSUME NEW s \in Starters, ConsumeNonce(s)
      PROVE  PlanNamesItsLaunch'
  BY <1>9 DEF ConsumeNonce
<1>10. ASSUME NEW s \in Starters, PutResponse(s)
      PROVE  PlanNamesItsLaunch'
  BY <1>10 DEF PutResponse
<1>11. ASSUME NEW s \in Starters, Launch(s)
      PROVE  PlanNamesItsLaunch'
  BY <1>11 DEF Launch
<1>12. ASSUME NEW s \in Starters, LaunchFails(s)
      PROVE  PlanNamesItsLaunch'
  BY <1>12 DEF LaunchFails
<1>13. ASSUME NEW s \in Starters, StartFault(s)
      PROVE  PlanNamesItsLaunch'
  BY <1>13 DEF StartFault
<1>14. ASSUME NEW p \in Plans, PreparePlan(p)
      PROVE  PlanNamesItsLaunch'
  BY <1>14 DEF PreparePlan
<1>15. ASSUME NEW p \in Plans, CheckApproval(p)
      PROVE  PlanNamesItsLaunch'
  BY <1>15 DEF CheckApproval
<1>16. ASSUME NEW p \in Plans, ExpireToken(p)
      PROVE  PlanNamesItsLaunch'
  BY <1>16 DEF ExpireToken
<1>17. ASSUME NEW p \in Plans, NEW a \in Approvals, CreateApproval(p, a)
      PROVE  PlanNamesItsLaunch'
  BY <1>17 DEF CreateApproval
<1>18. ASSUME NEW a \in Approvals, ExpireApproval(a)
      PROVE  PlanNamesItsLaunch'
  BY <1>18 DEF ExpireApproval
<1>19. ASSUME NEW s \in Starters, NEW p \in Plans, NEW a \in Approvals, NEW k \in Keys, BeginStart(s, p, a, k)
      PROVE  PlanNamesItsLaunch'
  BY <1>19 DEF BeginStart
<1>20. ASSUME NEW s \in Starters, NEW j \in Jobs, PutJob(s, j)
      PROVE  PlanNamesItsLaunch'
  BY <1>20 DEF PutJob
<1>21. ASSUME NEW j \in Jobs, EndJob(j)
      PROVE  PlanNamesItsLaunch'
  BY <1>21 DEF EndJob
<1>22. ASSUME NEW j \in Jobs, RunCandidate(j)
      PROVE  PlanNamesItsLaunch'
  BY <1>22 DEF RunCandidate
<1>23. CASE EditDraft
  BY <1>23 DEF EditDraft
<1>24. CASE UNCHANGED vars
  BY <1>24 DEF vars
<1>25. QED
  BY <1>1, <1>2, <1>3, <1>4, <1>5, <1>6, <1>7, <1>8, <1>9, <1>10, <1>11, 
     <1>12, <1>13, <1>14, <1>15, <1>16, <1>17, <1>18, <1>19, <1>20, <1>21, 
     <1>22, <1>23, <1>24
  DEF Next, StartStep

\* A row is put with an approval no row has.
LEMMA OneJobPerApprovalKept ==
  ASSUME TypeOK, CallsAreWhole, NewJobIsMine, ApprovalIsPaid, JobRows, OneJobPerApproval, [Next]_vars
  PROVE  OneJobPerApproval'
<1> USE IdsAssumption DEF TypeOK, JobRow, CallsAreWhole, NewJobIsMine, ApprovalIsPaid, JobRows, OneJobPerApproval, Acquire, Check, Return, Goto, recordVars, callVars, UnderPlanLock, UnderJobLock, BeforeMark, AfterMark, Steps, NoJob, Requests
<1>1. ASSUME NEW s \in Starters, AcquirePlanLock(s)
      PROVE  OneJobPerApproval'
  BY <1>1 DEF AcquirePlanLock
<1>2. ASSUME NEW s \in Starters, CheckPlan(s)
      PROVE  OneJobPerApproval'
  BY <1>2 DEF CheckPlan
<1>3. ASSUME NEW s \in Starters, AcquireJobLock(s)
      PROVE  OneJobPerApproval'
  BY <1>3 DEF AcquireJobLock
<1>4. ASSUME NEW s \in Starters, RecheckKey(s)
      PROVE  OneJobPerApproval'
  BY <1>4 DEF RecheckKey
<1>5. ASSUME NEW s \in Starters, CheckInputs(s)
      PROVE  OneJobPerApproval'
  BY <1>5 DEF CheckInputs
<1>6. ASSUME NEW s \in Starters, CheckCapacity(s)
      PROVE  OneJobPerApproval'
  BY <1>6 DEF CheckCapacity
<1>7. ASSUME NEW s \in Starters, ConsumeApproval(s)
      PROVE  OneJobPerApproval'
  BY <1>7 DEF ConsumeApproval
<1>8. ASSUME NEW s \in Starters, MarkStarted(s)
      PROVE  OneJobPerApproval'
  BY <1>8 DEF MarkStarted
<1>9. ASSUME NEW s \in Starters, ConsumeNonce(s)
      PROVE  OneJobPerApproval'
  BY <1>9 DEF ConsumeNonce
<1>10. ASSUME NEW s \in Starters, PutResponse(s)
      PROVE  OneJobPerApproval'
  BY <1>10 DEF PutResponse
<1>11. ASSUME NEW s \in Starters, Launch(s)
      PROVE  OneJobPerApproval'
  BY <1>11 DEF Launch
<1>12. ASSUME NEW s \in Starters, LaunchFails(s)
      PROVE  OneJobPerApproval'
  BY <1>12 DEF LaunchFails
<1>13. ASSUME NEW s \in Starters, StartFault(s)
      PROVE  OneJobPerApproval'
  BY <1>13 DEF StartFault
<1>14. ASSUME NEW p \in Plans, PreparePlan(p)
      PROVE  OneJobPerApproval'
  BY <1>14 DEF PreparePlan
<1>15. ASSUME NEW p \in Plans, CheckApproval(p)
      PROVE  OneJobPerApproval'
  BY <1>15 DEF CheckApproval
<1>16. ASSUME NEW p \in Plans, ExpireToken(p)
      PROVE  OneJobPerApproval'
  BY <1>16 DEF ExpireToken
<1>17. ASSUME NEW p \in Plans, NEW a \in Approvals, CreateApproval(p, a)
      PROVE  OneJobPerApproval'
  BY <1>17 DEF CreateApproval
<1>18. ASSUME NEW a \in Approvals, ExpireApproval(a)
      PROVE  OneJobPerApproval'
  BY <1>18 DEF ExpireApproval
<1>19. ASSUME NEW s \in Starters, NEW p \in Plans, NEW a \in Approvals, NEW k \in Keys, BeginStart(s, p, a, k)
      PROVE  OneJobPerApproval'
  BY <1>19 DEF BeginStart
<1>20. ASSUME NEW s \in Starters, NEW j \in Jobs, PutJob(s, j)
      PROVE  OneJobPerApproval'
  <2>1. \A i \in Jobs \ {j} : job'[i] = job[i]
    BY <1>20 DEF PutJob
  <2>2. /\ job'[j].approval = req[s].approval
        /\ job'[j].plan = req[s].plan
    BY <1>20 DEF PutJob
  <2>3. /\ approval[req[s].approval] = [status |-> "used", plan |-> req[s].plan]
        /\ \A i \in Jobs : job[i].approval # req[s].approval
        /\ approval' = approval
    BY <1>20 DEF PutJob
  <2>4. \A i \in Jobs : job'[i].state # "absent" =>
          approval'[job'[i].approval] = [status |-> "used", plan |-> job'[i].plan]
    BY <2>1, <2>2, <2>3
  <2>5. \A i, k \in Jobs : job'[i].state # "absent" /\ job'[k].approval = job'[i].approval => i = k
    <3> SUFFICES ASSUME NEW i \in Jobs, NEW k \in Jobs, job'[i].state # "absent",
                        job'[k].approval = job'[i].approval, i # k
                 PROVE  FALSE
      OBVIOUS
    <3>1. CASE i = j
      BY <2>1, <2>2, <2>3, <3>1
    <3>2. CASE k = j
      BY <2>1, <2>2, <2>3, <3>2
    <3>3. CASE i # j /\ k # j
      <4>1. job'[i] = job[i] /\ job'[k] = job[k]
        BY <2>1, <3>3
      <4>2. job[i].state # "absent" /\ job[k].approval = job[i].approval
        BY <4>1
      <4> HIDE DEF TypeOK, JobRow, CallsAreWhole, NewJobIsMine, JobRows
      <4>3. QED
        BY <3>3, <4>2 DEF OneJobPerApproval
    <3>4. QED
      BY <3>1, <3>2, <3>3
  <2>6. QED
    BY <2>4, <2>5
<1>21. ASSUME NEW j \in Jobs, EndJob(j)
      PROVE  OneJobPerApproval'
  BY <1>21 DEF EndJob
<1>22. ASSUME NEW j \in Jobs, RunCandidate(j)
      PROVE  OneJobPerApproval'
  BY <1>22 DEF RunCandidate
<1>23. CASE EditDraft
  BY <1>23 DEF EditDraft
<1>24. CASE UNCHANGED vars
  BY <1>24 DEF vars
<1>25. QED
  BY <1>1, <1>2, <1>3, <1>4, <1>5, <1>6, <1>7, <1>8, <1>9, <1>10, <1>11, 
     <1>12, <1>13, <1>14, <1>15, <1>16, <1>17, <1>18, <1>19, <1>20, <1>21, 
     <1>22, <1>23, <1>24
  DEF Next, StartStep

\* The nonce is consumed by a call whose plan is started and names its job.
LEMMA NonceBurnsLastKept ==
  ASSUME TypeOK, CallsAreWhole, NewJobIsMine, PlanFollowsCall, StartedPlanHasJob, NonceBurnsLast, [Next]_vars
  PROVE  NonceBurnsLast'
<1> USE IdsAssumption DEF TypeOK, JobRow, CallsAreWhole, NewJobIsMine, PlanFollowsCall, StartedPlanHasJob, NonceBurnsLast, Acquire, Check, Return, Goto, recordVars, callVars, UnderPlanLock, UnderJobLock, BeforeMark, AfterMark, Steps, NoPlan, NoJob, Requests
<1>1. ASSUME NEW s \in Starters, AcquirePlanLock(s)
      PROVE  NonceBurnsLast'
  BY <1>1 DEF AcquirePlanLock
<1>2. ASSUME NEW s \in Starters, CheckPlan(s)
      PROVE  NonceBurnsLast'
  BY <1>2 DEF CheckPlan
<1>3. ASSUME NEW s \in Starters, AcquireJobLock(s)
      PROVE  NonceBurnsLast'
  BY <1>3 DEF AcquireJobLock
<1>4. ASSUME NEW s \in Starters, RecheckKey(s)
      PROVE  NonceBurnsLast'
  BY <1>4 DEF RecheckKey
<1>5. ASSUME NEW s \in Starters, CheckInputs(s)
      PROVE  NonceBurnsLast'
  BY <1>5 DEF CheckInputs
<1>6. ASSUME NEW s \in Starters, CheckCapacity(s)
      PROVE  NonceBurnsLast'
  BY <1>6 DEF CheckCapacity
<1>7. ASSUME NEW s \in Starters, ConsumeApproval(s)
      PROVE  NonceBurnsLast'
  BY <1>7 DEF ConsumeApproval
<1>8. ASSUME NEW s \in Starters, MarkStarted(s)
      PROVE  NonceBurnsLast'
  BY <1>8 DEF MarkStarted
<1>9. ASSUME NEW s \in Starters, ConsumeNonce(s)
      PROVE  NonceBurnsLast'
  BY <1>9 DEF ConsumeNonce
<1>10. ASSUME NEW s \in Starters, PutResponse(s)
      PROVE  NonceBurnsLast'
  BY <1>10 DEF PutResponse
<1>11. ASSUME NEW s \in Starters, Launch(s)
      PROVE  NonceBurnsLast'
  BY <1>11 DEF Launch
<1>12. ASSUME NEW s \in Starters, LaunchFails(s)
      PROVE  NonceBurnsLast'
  BY <1>12 DEF LaunchFails
<1>13. ASSUME NEW s \in Starters, StartFault(s)
      PROVE  NonceBurnsLast'
  BY <1>13 DEF StartFault
<1>14. ASSUME NEW p \in Plans, PreparePlan(p)
      PROVE  NonceBurnsLast'
  BY <1>14 DEF PreparePlan
<1>15. ASSUME NEW p \in Plans, CheckApproval(p)
      PROVE  NonceBurnsLast'
  BY <1>15 DEF CheckApproval
<1>16. ASSUME NEW p \in Plans, ExpireToken(p)
      PROVE  NonceBurnsLast'
  BY <1>16 DEF ExpireToken
<1>17. ASSUME NEW p \in Plans, NEW a \in Approvals, CreateApproval(p, a)
      PROVE  NonceBurnsLast'
  BY <1>17 DEF CreateApproval
<1>18. ASSUME NEW a \in Approvals, ExpireApproval(a)
      PROVE  NonceBurnsLast'
  BY <1>18 DEF ExpireApproval
<1>19. ASSUME NEW s \in Starters, NEW p \in Plans, NEW a \in Approvals, NEW k \in Keys, BeginStart(s, p, a, k)
      PROVE  NonceBurnsLast'
  BY <1>19 DEF BeginStart
<1>20. ASSUME NEW s \in Starters, NEW j \in Jobs, PutJob(s, j)
      PROVE  NonceBurnsLast'
  BY <1>20 DEF PutJob
<1>21. ASSUME NEW j \in Jobs, EndJob(j)
      PROVE  NonceBurnsLast'
  BY <1>21 DEF EndJob
<1>22. ASSUME NEW j \in Jobs, RunCandidate(j)
      PROVE  NonceBurnsLast'
  BY <1>22 DEF RunCandidate
<1>23. CASE EditDraft
  BY <1>23 DEF EditDraft
<1>24. CASE UNCHANGED vars
  BY <1>24 DEF vars
<1>25. QED
  BY <1>1, <1>2, <1>3, <1>4, <1>5, <1>6, <1>7, <1>8, <1>9, <1>10, <1>11, 
     <1>12, <1>13, <1>14, <1>15, <1>16, <1>17, <1>18, <1>19, <1>20, <1>21, 
     <1>22, <1>23, <1>24
  DEF Next, StartStep

-----------------------------------------------------------------------------
(* The cap on active jobs.                                                 *)

\* The count of active jobs is a number.
LEMMA ActiveJobsCount ==
  /\ IsFiniteSet(ActiveJobs)
  /\ Cardinality(ActiveJobs) \in Nat
<1>1. ActiveJobs \subseteq Jobs
  BY DEF ActiveJobs
<1>2. QED
  BY <1>1, IdsAssumption, FS_Subset, FS_CardinalityType

\* No job becomes active, and a call that finds room finds it in the count.
Shrinks ==
  /\ ActiveJobs' \subseteq ActiveJobs
  /\ \A t \in Starters : pc'[t] \in {"consumeApproval", "putJob"} =>
       Cardinality(ActiveJobs) < MaxConcurrentJobs

\* Every step but PutJob.
LEMMA OnlyPutJobAdds ==
  ASSUME TypeOK, RoomForOne, [Next]_vars,
         ~ \E s \in Starters, j \in Jobs : PutJob(s, j)
  PROVE  Shrinks
<1> USE DEF Shrinks, TypeOK, RoomForOne, ActiveJobs, Steps, Acquire, Check, Return, Goto, recordVars, callVars
<1>1. ASSUME NEW s \in Starters, AcquirePlanLock(s)
      PROVE  Shrinks
  BY <1>1 DEF AcquirePlanLock
<1>2. ASSUME NEW s \in Starters, CheckPlan(s)
      PROVE  Shrinks
  BY <1>2 DEF CheckPlan
<1>3. ASSUME NEW s \in Starters, AcquireJobLock(s)
      PROVE  Shrinks
  BY <1>3 DEF AcquireJobLock
<1>4. ASSUME NEW s \in Starters, RecheckKey(s)
      PROVE  Shrinks
  BY <1>4 DEF RecheckKey
<1>5. ASSUME NEW s \in Starters, CheckInputs(s)
      PROVE  Shrinks
  BY <1>5 DEF CheckInputs
<1>6. ASSUME NEW s \in Starters, CheckCapacity(s)
      PROVE  Shrinks
  BY <1>6 DEF CheckCapacity
<1>7. ASSUME NEW s \in Starters, ConsumeApproval(s)
      PROVE  Shrinks
  BY <1>7 DEF ConsumeApproval
<1>8. ASSUME NEW s \in Starters, MarkStarted(s)
      PROVE  Shrinks
  BY <1>8 DEF MarkStarted
<1>9. ASSUME NEW s \in Starters, ConsumeNonce(s)
      PROVE  Shrinks
  BY <1>9 DEF ConsumeNonce
<1>10. ASSUME NEW s \in Starters, PutResponse(s)
      PROVE  Shrinks
  BY <1>10 DEF PutResponse
<1>11. ASSUME NEW s \in Starters, Launch(s)
      PROVE  Shrinks
  <2>1. \A i \in Jobs : job'[i].state = "active" => job[i].state = "active"
    BY <1>11 DEF Launch, JobRow
  <2>2. QED
    BY <1>11, <2>1 DEF Launch
<1>12. ASSUME NEW s \in Starters, LaunchFails(s)
      PROVE  Shrinks
  <2>1. \A i \in Jobs : job'[i].state = "active" => job[i].state = "active"
    BY <1>12 DEF LaunchFails, JobRow
  <2>2. QED
    BY <1>12, <2>1 DEF LaunchFails
<1>13. ASSUME NEW s \in Starters, StartFault(s)
      PROVE  Shrinks
  BY <1>13 DEF StartFault
<1>14. ASSUME NEW p \in Plans, PreparePlan(p)
      PROVE  Shrinks
  BY <1>14 DEF PreparePlan
<1>15. ASSUME NEW p \in Plans, CheckApproval(p)
      PROVE  Shrinks
  BY <1>15 DEF CheckApproval
<1>16. ASSUME NEW p \in Plans, ExpireToken(p)
      PROVE  Shrinks
  BY <1>16 DEF ExpireToken
<1>17. ASSUME NEW p \in Plans, NEW a \in Approvals, CreateApproval(p, a)
      PROVE  Shrinks
  BY <1>17 DEF CreateApproval
<1>18. ASSUME NEW a \in Approvals, ExpireApproval(a)
      PROVE  Shrinks
  BY <1>18 DEF ExpireApproval
<1>19. ASSUME NEW s \in Starters, NEW p \in Plans, NEW a \in Approvals, NEW k \in Keys, BeginStart(s, p, a, k)
      PROVE  Shrinks
  BY <1>19 DEF BeginStart
<1>20. ASSUME NEW j \in Jobs, EndJob(j)
      PROVE  Shrinks
  <2>1. \A i \in Jobs : job'[i].state = "active" => job[i].state = "active"
    BY <1>20 DEF EndJob, JobRow
  <2>2. QED
    BY <1>20, <2>1 DEF EndJob
<1>21. ASSUME NEW j \in Jobs, RunCandidate(j)
      PROVE  Shrinks
  <2>1. \A i \in Jobs : job'[i].state = "active" => job[i].state = "active"
    BY <1>21 DEF RunCandidate, JobRow
  <2>2. QED
    BY <1>21, <2>1 DEF RunCandidate
<1>22. CASE EditDraft
  BY <1>22 DEF EditDraft
<1>23. CASE UNCHANGED vars
  BY <1>23 DEF vars
<1>24. QED
  BY <1>1, <1>2, <1>3, <1>4, <1>5, <1>6, <1>7, <1>8, <1>9, <1>10, <1>11, 
     <1>12, <1>13, <1>14, <1>15, <1>16, <1>17, <1>18, <1>19, <1>20, <1>21, 
     <1>22, <1>23
  DEF Next, StartStep

\* One call at a time is between the count and the row.
LEMMA CapacityKept ==
  ASSUME TypeOK, CallsAreWhole, LocksHeld, RoomForOne, WithinCapacity, [Next]_vars
  PROVE  RoomForOne' /\ WithinCapacity'
<1> USE ActiveJobsCount, BoundsAssumption
<1>1. ASSUME NEW s \in Starters, NEW j \in Jobs, PutJob(s, j)
      PROVE  RoomForOne' /\ WithinCapacity'
  <2>1. pc[s] = "putJob" /\ pc'[s] = "markStarted" /\ \A t \in Starters \ {s} : pc'[t] = pc[t]
    BY <1>1 DEF PutJob, Goto, TypeOK
  <2>2. ActiveJobs' = ActiveJobs \cup {j}
    BY <1>1 DEF PutJob, ActiveJobs, NoJob, TypeOK
  <2>3. Cardinality(ActiveJobs) < MaxConcurrentJobs
    BY <2>1 DEF RoomForOne
  <2>4. Cardinality(ActiveJobs') <= Cardinality(ActiveJobs) + 1
    BY <2>2, FS_AddElement
  <2>5. WithinCapacity'
    <3>1. IsFiniteSet(ActiveJobs') /\ Cardinality(ActiveJobs') \in Nat
      BY <2>2, FS_AddElement, FS_CardinalityType
    <3>2. QED
      BY <2>3, <2>4, <3>1 DEF WithinCapacity
  <2>6. ASSUME NEW t \in Starters, pc'[t] \in {"consumeApproval", "putJob"}
        PROVE  FALSE
    <3>1. t # s /\ pc[t] \in {"consumeApproval", "putJob"}
      BY <2>1, <2>6
    <3>2. holder["job-concurrency"] = s /\ holder["job-concurrency"] = t
      BY <2>1, <3>1 DEF LocksHeld, UnderJobLock, UnderPlanLock, Steps
    <3>3. QED
      BY <3>1, <3>2
  <2>7. RoomForOne'
    BY <2>6 DEF RoomForOne
  <2>8. QED
    BY <2>5, <2>7
<1>2. CASE ~ \E s \in Starters, j \in Jobs : PutJob(s, j)
  <2>1. Shrinks
    BY <1>2, OnlyPutJobAdds
  <2>2. /\ Cardinality(ActiveJobs') \in Nat
        /\ Cardinality(ActiveJobs') <= Cardinality(ActiveJobs)
    BY <2>1, FS_Subset, FS_CardinalityType DEF Shrinks
  <2>3. QED
    BY <2>1, <2>2 DEF Shrinks, RoomForOne, WithinCapacity
<1>3. QED
  BY <1>1, <1>2

-----------------------------------------------------------------------------
(* The invariant and what follows from it.                                 *)

\* The invariant the other theorems rest on: it holds initially and every step of
\* every starter, approval and job keeps it.
THEOREM InvariantHolds == Spec => []Invariant
<1>1. Init => Invariant
  <2> SUFFICES ASSUME Init
               PROVE  Invariant
    OBVIOUS
  <2>1. TypeOK
    BY IdsAssumption, BoundsAssumption
    DEF Init, TypeOK, NoPlan, NoApproval, NoJob, NoRequest, JobRow, Versions, Steps, Locks
  <2>2. LocksHeld /\ CallsAreWhole /\ NewJobIsMine /\ PlanFollowsCall /\ ApprovalIsPaid
    BY IdsAssumption
    DEF Init, LocksHeld, CallsAreWhole, NewJobIsMine, PlanFollowsCall, ApprovalIsPaid,
        UnderPlanLock, UnderJobLock, BeforeMark, AfterMark, Steps
  <2>3. StartedPlanHasJob /\ JobRows /\ PlanNamesItsLaunch /\ OneJobPerApproval /\ NonceBurnsLast
    BY DEF Init, StartedPlanHasJob, JobRows, PlanNamesItsLaunch, OneJobPerApproval,
           NonceBurnsLast, NoPlan, NoJob
  <2>4. RoomForOne
    BY DEF Init, RoomForOne
  <2>5. WithinCapacity
    <3>1. ActiveJobs = {}
      BY DEF Init, ActiveJobs, NoJob
    <3>2. QED
      BY <3>1, FS_EmptySet, BoundsAssumption DEF WithinCapacity
  <2>6. QED
    BY <2>1, <2>2, <2>3, <2>4, <2>5 DEF Invariant
<1>2. Invariant /\ [Next]_vars => Invariant'
  BY TypeKept, LocksHeldKept, CallsAreWholeKept, NewJobIsMineKept, PlanFollowsCallKept,
     ApprovalIsPaidKept, StartedPlanHasJobKept, JobRowsKept, PlanNamesItsLaunchKept,
     OneJobPerApprovalKept, NonceBurnsLastKept, CapacityKept
  DEF Invariant
<1>3. QED
  BY <1>1, <1>2, PTL DEF Spec

\* Every row, lock and call keeps its type (state.py's tables, locks.py, jobs.py 418-509).
THEOREM TypeCorrect == Spec => []TypeOK
<1>1. Invariant => TypeOK
  BY DEF Invariant
<1>2. QED
  BY <1>1, InvariantHolds, PTL

\* A plan launches at most one worker, the one of the job it names: whatever the
\* callers, keys, approvals and faults (jobs.py 434-478).
THEOREM LaunchCorrect == Spec => []PlanNamesItsLaunch
<1>1. Invariant => PlanNamesItsLaunch
  BY DEF Invariant
<1>2. QED
  BY <1>1, InvariantHolds, PTL

\* No approval pays for two jobs or for another plan's job (state.py 347-370).
THEOREM ApprovalCorrect == Spec => []OneJobPerApproval
<1>1. Invariant => OneJobPerApproval
  BY DEF Invariant
<1>2. QED
  BY <1>1, InvariantHolds, PTL

\* At most max_concurrent_jobs jobs are active, for every cap and number of callers
\* (jobs.py 314-327, 446).
THEOREM CapacityCorrect == Spec => []WithinCapacity
<1>1. Invariant => WithinCapacity
  BY DEF Invariant
<1>2. QED
  BY <1>1, InvariantHolds, PTL

\* A used nonce has a started plan with a job of its own (security.py 137-157).
THEOREM NonceCorrect == Spec => []NonceBurnsLast
<1>1. Invariant => NonceBurnsLast
  BY DEF Invariant
<1>2. QED
  BY <1>1, InvariantHolds, PTL

-----------------------------------------------------------------------------
(* Without faults no plan is bricked.                                      *)

\* Statements between the second lookup of the key and its row.
KeyLookedUp == {"checkInputs", "checkCapacity", "consumeApproval", "putJob", "markStarted",
                "consumeNonce", "putResponse"}

\* What a call found under the locks still holds when it needs it: its key has no answer,
\* and nobody has used the nonce of the plan it has marked.
NothingInTheWay ==
  \A s \in Starters :
    /\ pc[s] \in KeyLookedUp => idem[req[s].key] = None
    /\ pc[s] = "consumeNonce" => req[s].plan \notin burned

\* Both are found under a lock that is kept until they are needed.
LEMMA NothingInTheWayKept ==
  ASSUME TypeOK, CallsAreWhole, LocksHeld, PlanFollowsCall, NonceBurnsLast, NothingInTheWay,
         [Next]_vars
  PROVE  NothingInTheWay'
<1> USE IdsAssumption, BoundsAssumption DEF TypeOK, CallsAreWhole, Requests, Locks, Acquire,
        Check, Return, Goto, recordVars, callVars, UnderPlanLock, UnderJobLock, BeforeMark,
        AfterMark, Steps, LocksHeld, PlanFollowsCall, NonceBurnsLast, NothingInTheWay,
        KeyLookedUp
<1>1. ASSUME NEW s \in Starters, AcquirePlanLock(s)
      PROVE  NothingInTheWay'
  BY <1>1 DEF AcquirePlanLock
<1>2. ASSUME NEW s \in Starters, CheckPlan(s)
      PROVE  NothingInTheWay'
  BY <1>2 DEF CheckPlan
<1>3. ASSUME NEW s \in Starters, AcquireJobLock(s)
      PROVE  NothingInTheWay'
  BY <1>3 DEF AcquireJobLock
<1>4. ASSUME NEW s \in Starters, RecheckKey(s)
      PROVE  NothingInTheWay'
  BY <1>4 DEF RecheckKey
<1>5. ASSUME NEW s \in Starters, CheckInputs(s)
      PROVE  NothingInTheWay'
  BY <1>5 DEF CheckInputs
<1>6. ASSUME NEW s \in Starters, CheckCapacity(s)
      PROVE  NothingInTheWay'
  BY <1>6 DEF CheckCapacity
<1>7. ASSUME NEW s \in Starters, ConsumeApproval(s)
      PROVE  NothingInTheWay'
  BY <1>7 DEF ConsumeApproval
<1>8. ASSUME NEW s \in Starters, MarkStarted(s)
      PROVE  NothingInTheWay'
  BY <1>8 DEF MarkStarted
<1>9. ASSUME NEW s \in Starters, ConsumeNonce(s)
      PROVE  NothingInTheWay'
  BY <1>9 DEF ConsumeNonce
<1>10. ASSUME NEW s \in Starters, PutResponse(s)
      PROVE  NothingInTheWay'
  BY <1>10 DEF PutResponse
<1>11. ASSUME NEW s \in Starters, Launch(s)
      PROVE  NothingInTheWay'
  BY <1>11 DEF Launch
<1>12. ASSUME NEW s \in Starters, LaunchFails(s)
      PROVE  NothingInTheWay'
  BY <1>12 DEF LaunchFails
<1>13. ASSUME NEW s \in Starters, StartFault(s)
      PROVE  NothingInTheWay'
  BY <1>13 DEF StartFault
<1>14. ASSUME NEW p \in Plans, PreparePlan(p)
      PROVE  NothingInTheWay'
  BY <1>14 DEF PreparePlan
<1>15. ASSUME NEW p \in Plans, CheckApproval(p)
      PROVE  NothingInTheWay'
  BY <1>15 DEF CheckApproval
<1>16. ASSUME NEW p \in Plans, ExpireToken(p)
      PROVE  NothingInTheWay'
  BY <1>16 DEF ExpireToken
<1>17. ASSUME NEW p \in Plans, NEW a \in Approvals, CreateApproval(p, a)
      PROVE  NothingInTheWay'
  BY <1>17 DEF CreateApproval
<1>18. ASSUME NEW a \in Approvals, ExpireApproval(a)
      PROVE  NothingInTheWay'
  BY <1>18 DEF ExpireApproval
<1>19. ASSUME NEW s \in Starters, NEW p \in Plans, NEW a \in Approvals, NEW k \in Keys, BeginStart(s, p, a, k)
      PROVE  NothingInTheWay'
  BY <1>19 DEF BeginStart
<1>20. ASSUME NEW s \in Starters, NEW j \in Jobs, PutJob(s, j)
      PROVE  NothingInTheWay'
  BY <1>20 DEF PutJob
<1>21. ASSUME NEW j \in Jobs, EndJob(j)
      PROVE  NothingInTheWay'
  BY <1>21 DEF EndJob
<1>22. ASSUME NEW j \in Jobs, RunCandidate(j)
      PROVE  NothingInTheWay'
  BY <1>22 DEF RunCandidate
<1>23. CASE EditDraft
  BY <1>23 DEF EditDraft
<1>24. CASE UNCHANGED vars
  BY <1>24 DEF vars
<1>25. QED
  BY <1>1, <1>2, <1>3, <1>4, <1>5, <1>6, <1>7, <1>8, <1>9, <1>10, <1>11, <1>12, <1>13, <1>14,
     <1>15, <1>16, <1>17, <1>18, <1>19, <1>20, <1>21, <1>22, <1>23, <1>24
  DEF Next, StartStep

\* Between the mark and the launch only a fault can end a call.
LEMMA LaunchedKept ==
  ASSUME TypeOK, CallsAreWhole, NewJobIsMine, PlanFollowsCall, StartedPlanHasJob,
         NothingInTheWay, StartedPlanIsLaunched, [Next]_vars
  PROVE  StartedPlanIsLaunched'
<1> USE IdsAssumption, BoundsAssumption DEF TypeOK, CallsAreWhole, Requests, Locks, Acquire,
        Check, Return, Goto, recordVars, callVars, UnderPlanLock, UnderJobLock, BeforeMark,
        AfterMark, Steps, JobRow, NewJobIsMine, PlanFollowsCall, StartedPlanHasJob,
        NothingInTheWay, KeyLookedUp, StartedPlanIsLaunched, NoBrickedPlan
<1>1. ASSUME NEW s \in Starters, AcquirePlanLock(s)
      PROVE  StartedPlanIsLaunched'
  BY <1>1 DEF AcquirePlanLock
<1>2. ASSUME NEW s \in Starters, CheckPlan(s)
      PROVE  StartedPlanIsLaunched'
  BY <1>2 DEF CheckPlan
<1>3. ASSUME NEW s \in Starters, AcquireJobLock(s)
      PROVE  StartedPlanIsLaunched'
  BY <1>3 DEF AcquireJobLock
<1>4. ASSUME NEW s \in Starters, RecheckKey(s)
      PROVE  StartedPlanIsLaunched'
  BY <1>4 DEF RecheckKey
<1>5. ASSUME NEW s \in Starters, CheckInputs(s)
      PROVE  StartedPlanIsLaunched'
  BY <1>5 DEF CheckInputs
<1>6. ASSUME NEW s \in Starters, CheckCapacity(s)
      PROVE  StartedPlanIsLaunched'
  BY <1>6 DEF CheckCapacity
<1>7. ASSUME NEW s \in Starters, ConsumeApproval(s)
      PROVE  StartedPlanIsLaunched'
  BY <1>7 DEF ConsumeApproval
<1>8. ASSUME NEW s \in Starters, MarkStarted(s)
      PROVE  StartedPlanIsLaunched'
  BY <1>8 DEF MarkStarted
<1>9. ASSUME NEW s \in Starters, ConsumeNonce(s)
      PROVE  StartedPlanIsLaunched'
  BY <1>9 DEF ConsumeNonce
<1>10. ASSUME NEW s \in Starters, PutResponse(s)
      PROVE  StartedPlanIsLaunched'
  BY <1>10 DEF PutResponse
<1>11. ASSUME NEW s \in Starters, Launch(s)
      PROVE  StartedPlanIsLaunched'
  BY <1>11 DEF Launch
<1>12. ASSUME NEW s \in Starters, LaunchFails(s)
      PROVE  StartedPlanIsLaunched'
  BY <1>12 DEF LaunchFails
<1>13. ASSUME NEW s \in Starters, StartFault(s)
      PROVE  StartedPlanIsLaunched'
  BY <1>13 DEF StartFault
<1>14. ASSUME NEW p \in Plans, PreparePlan(p)
      PROVE  StartedPlanIsLaunched'
  BY <1>14 DEF PreparePlan
<1>15. ASSUME NEW p \in Plans, CheckApproval(p)
      PROVE  StartedPlanIsLaunched'
  BY <1>15 DEF CheckApproval
<1>16. ASSUME NEW p \in Plans, ExpireToken(p)
      PROVE  StartedPlanIsLaunched'
  BY <1>16 DEF ExpireToken
<1>17. ASSUME NEW p \in Plans, NEW a \in Approvals, CreateApproval(p, a)
      PROVE  StartedPlanIsLaunched'
  BY <1>17 DEF CreateApproval
<1>18. ASSUME NEW a \in Approvals, ExpireApproval(a)
      PROVE  StartedPlanIsLaunched'
  BY <1>18 DEF ExpireApproval
<1>19. ASSUME NEW s \in Starters, NEW p \in Plans, NEW a \in Approvals, NEW k \in Keys, BeginStart(s, p, a, k)
      PROVE  StartedPlanIsLaunched'
  BY <1>19 DEF BeginStart
<1>20. ASSUME NEW s \in Starters, NEW j \in Jobs, PutJob(s, j)
      PROVE  StartedPlanIsLaunched'
  BY <1>20 DEF PutJob
<1>21. ASSUME NEW j \in Jobs, EndJob(j)
      PROVE  StartedPlanIsLaunched'
  BY <1>21 DEF EndJob
<1>22. ASSUME NEW j \in Jobs, RunCandidate(j)
      PROVE  StartedPlanIsLaunched'
  BY <1>22 DEF RunCandidate
<1>23. CASE EditDraft
  BY <1>23 DEF EditDraft
<1>24. CASE UNCHANGED vars
  BY <1>24 DEF vars
<1>25. QED
  BY <1>1, <1>2, <1>3, <1>4, <1>5, <1>6, <1>7, <1>8, <1>9, <1>10, <1>11, <1>12, <1>13, <1>14,
     <1>15, <1>16, <1>17, <1>18, <1>19, <1>20, <1>21, <1>22, <1>23, <1>24
  DEF Next, StartStep

\* A plan that is marked started gets its worker unless a call dies or raises between the
\* two: neither the second lookup of the key nor the nonce can refuse any more
\* (jobs.py 474-509).
THEOREM StartedPlanCorrect == Spec => []StartedPlanIsLaunched
<1>1. Init => NothingInTheWay /\ StartedPlanIsLaunched
  BY DEF Init, NothingInTheWay, KeyLookedUp, StartedPlanIsLaunched, NoBrickedPlan, NoPlan
<1>2. Invariant /\ NothingInTheWay /\ StartedPlanIsLaunched /\ [Next]_vars
        => NothingInTheWay' /\ StartedPlanIsLaunched'
  BY NothingInTheWayKept, LaunchedKept DEF Invariant
<1>3. QED
  BY <1>1, <1>2, InvariantHolds, PTL DEF Spec
=============================================================================
