------------------------ MODULE DraftRevisionProofs -------------------------
(***************************************************************************)
(* Invariant is inductive for DraftRevision and so is PlanInvariant, which *)
(* adds what preparations and clean_drafts may rely on of each other: for  *)
(* all sets of drafts, files, versions, keys, calls and cleaners and any   *)
(* number of faults.                                                       *)
(***************************************************************************)
EXTENDS DraftRevision, SequenceTheorems, TLAPS

-----------------------------------------------------------------------------
(* What makes the properties inductive: Invariant is about drafts and what  *)
(* is bound to them, PlanInvariant about the drafts of plans.               *)

AtMostOne(S) == \A x, y \in S : x = y

\* A call has one request; the key of a repair was used for that request only.
RequestsAreWhole ==
  /\ \A c \in Calls : AtMostOne(req[c]) /\ (pc[c] = "idle" <=> req[c] = {})
  /\ \A c \in Calls : \A r \in req[c] : r.tokens \subseteq validations
  /\ \A k \in Keys : AtMostOne(asked[k])
  /\ \A c \in Calls : AtMostOne(key[c]) /\ (pc[c] = "idle" => key[c] = {})
  /\ \A c \in Calls : \A k \in key[c] : asked[k] = req[c]

Locking == {"check", "write", "revise"}
OneWriter ==
  /\ \A d \in Drafts : AtMostOne(lock[d])
  /\ \A c \in Calls, d \in Drafts :
       c \in lock[d] <=> pc[c] \in Locking /\ \A r \in req[c] : r.draft = d

\* Between the check and the row nobody else revises the draft, though clean_drafts may
\* take it; a repair that has its row is the one its key counts.
WriterKnowsRow ==
  /\ \A c \in Calls : \A r \in req[c] :
       pc[c] \in {"write", "revise"} =>
         /\ base[c].revision = r.revision
         /\ row[r.draft] = NoRow \/ row[r.draft].revision = r.revision
  /\ \A c \in Calls : pc[c] \in {"revise", "answer"} => base[c].revision \in 1..(MaxRevision - 1)
  /\ \A c \in Calls : pc[c] = "answer" =>
       \A k \in key[c] : repairs[k] = <<base[c].revision + 1>>

\* A draft that is being created is known to nobody else.
CreatorIsAlone ==
  /\ \A d \in Drafts : row[d] # NoRow => d \in born
  /\ \A c \in Calls : \A r \in req[c] : r.draft \in born
  /\ \A k \in Keys : \A r \in asked[k] : r.draft \in born
  /\ \A v \in validations : v.draft \in born
  /\ \A c \in Calls : pc[c] = "put" => \A r \in req[c] :
       /\ row[r.draft] = NoRow
       /\ \A b \in Calls \ {c} : \A s \in req[b] : s.draft # r.draft
       /\ \A k \in Keys : \A s \in asked[k] : s.draft # r.draft
       /\ \A v \in validations : v.draft # r.draft
       /\ Complete(r.draft) => disk[r.draft] = [f \in Files |-> Scaffold]

\* A repair that was made leaves its draft past the revision it was asked for.
RepairsMoveOn ==
  \A k \in Keys : repairs[k] # <<>> =>
    \E r \in asked[k] :
      /\ repairs[k] = <<r.revision + 1>>
      /\ row[r.draft] = NoRow \/ row[r.draft].revision > r.revision

\* A verdict is that of its files; a plan is about to freeze what a token binds.
TokensAreTrue ==
  /\ \A v \in validations : v.passed = Passes(v.manifest)
  /\ \A c \in Calls : pc[c] = "plan" =>
       \A r \in req[c] : [draft |-> r.draft, revision |-> base[c].revision,
                           manifest |-> seen[c], passed |-> TRUE] \in validations

\* Without crashes the files are those of the row, except while they are revised, and
\* what was validated is at most as new as the row.
FilesFollowRow ==
  faults = 0 =>
    /\ \A d \in Drafts :
         row[d] # NoRow /\ Complete(d) /\ (\A c \in lock[d] : pc[c] # "revise")
           => disk[d] = row[d].manifest
    /\ \A v \in validations :
         LET r == row[v.draft] IN
         r # NoRow => v.revision < r.revision
                      \/ (v.revision = r.revision /\ v.manifest = r.manifest)

Invariant ==
  /\ CoreTypes /\ RequestsAreWhole /\ OneWriter /\ WriterKnowsRow /\ CreatorIsAlone
  /\ RepairsMoveOn /\ RepairHappensOnce
  /\ TokensAreTrue /\ PlannedContentWasValidated
  /\ FilesFollowRow /\ RevisionNamesContent

\* A call that has read a draft still has it and no clean is at work, unless one has
\* been since the call looked.
ReadersKeepDraft ==
  /\ \A c \in Calls : pc[c] \in {"idle", "look"} => seen[c] = <<>>
  /\ \A c \in Calls \ swept : pc[c] \in {"files", "verify", "plan"} => ~Cleaning
  /\ \A c \in Calls \ swept : pc[c] \in {"files", "verify", "plan"} => \A r \in req[c] :
       /\ row[r.draft] # NoRow
       /\ 1..Len(seen[c]) \subseteq DOMAIN disk[r.draft]
       /\ pc[c] \in {"verify", "plan"} => Len(seen[c]) = N

PlansAreSpared ==
  /\ \A k \in Cleaners : pc[k] = "idle" => condemned[k] = {}
  /\ \A k \in Cleaners, p \in plans \ exposed : p.draft \notin condemned[k]

PlanInvariant ==
  Invariant /\ TypeOK /\ PlannedDraftStays /\ ReadersKeepDraft /\ PlansAreSpared

-----------------------------------------------------------------------------
(* Trees and rows.                                                         *)

LEMMA TreeFacts ==
  /\ \A t \in Trees : DOMAIN t = Files => t \in Manifest
  /\ \A t \in Trees : DOMAIN t \subseteq Files /\ \A f \in DOMAIN t : t[f] \in Versions
  /\ NoDirectory \in Trees /\ DOMAIN NoDirectory = {}
  /\ [f \in Files |-> Scaffold] \in Manifest
  /\ Manifest \subseteq Trees
<1>1. \A t \in Trees : DOMAIN t = Files => t \in Manifest
  BY DEF Trees, Manifest
<1>2. \A t \in Trees : DOMAIN t \subseteq Files /\ \A f \in DOMAIN t : t[f] \in Versions
  BY DEF Trees
<1>3. NoDirectory \in Trees /\ DOMAIN NoDirectory = {}
  <2>1. NoDirectory \in [{} -> Versions]
    BY DEF NoDirectory
  <2>2. {} \in SUBSET Files
    OBVIOUS
  <2>3. QED
    BY <2>1, <2>2 DEF Trees
<1>4. [f \in Files |-> Scaffold] \in Manifest
  BY DraftAssumption DEF Manifest
<1>5. Manifest \subseteq Trees
  BY DEF Manifest, Trees
<1>6. QED
  BY <1>1, <1>2, <1>3, <1>4, <1>5

LEMMA FilesExist == Files # {} /\ \A d \in Drafts : disk[d] = NoDirectory => ~Complete(d)
<1>1. 1 \in Files
  BY DraftAssumption DEF Files
<1>2. QED
  BY <1>1, TreeFacts DEF Complete

LEMMA RowFacts ==
  /\ NoRow.revision = 0 /\ NoRow \notin DraftRow
  /\ \A r \in DraftRow : r.revision \in Revisions /\ r.manifest \in Manifest
  /\ \A n \in Revisions, m \in Manifest : [revision |-> n, manifest |-> m] \in DraftRow
  /\ \A n \in Revisions : n \in Nat /\ n > 0
  /\ 1 \in Revisions
  /\ \A n \in 1..(MaxRevision - 1) : n + 1 \in Revisions
BY DraftAssumption DEF NoRow, DraftRow, Revisions

\* The request of a call.
LEMMA OneRequest ==
  ASSUME NEW c \in Calls, NEW r, AtMostOne(req[c]), r \in req[c]
  PROVE  TheRequest(c) = r /\ DraftOf(c) = r.draft /\ req[c] = {r}
BY DEF AtMostOne, TheRequest, DraftOf

-----------------------------------------------------------------------------
(* One call moves, the others keep their locals.                           *)

CallTypes ==
  /\ lock \in [Drafts -> SUBSET Calls]
  /\ pc \in [Procs -> Steps]
  /\ req \in [Calls -> SUBSET Request]
  /\ key \in [Calls -> SUBSET Keys]
  /\ base \in [Calls -> DraftRow \cup {NoRow}]
  /\ seen \in [Calls -> Seq(Versions)]

OthersStay(c) ==
  /\ \A p \in Procs \ {c} : pc'[p] = pc[p]
  /\ \A x \in Calls \ {c} : req'[x] = req[x] /\ key'[x] = key[x] /\ base'[x] = base[x]
                            /\ seen'[x] = seen[x]
  /\ \A x \in Calls \ {c}, d \in Drafts : x \in lock'[d] <=> x \in lock[d]

LEMMA FinishEffect ==
  ASSUME CallTypes, NEW c \in Calls, Finish(c)
  PROVE  /\ CallTypes' /\ OthersStay(c)
         /\ pc'[c] = "idle" /\ req'[c] = {} /\ key'[c] = {}
         /\ \A d \in Drafts : c \notin lock'[d]
<1> USE DEF CallTypes, Finish, Goto, Procs, Steps
<1>0. <<>> \in Seq(Versions)
  OBVIOUS
<1>1. CallTypes'
  BY <1>0
<1>2. OthersStay(c)
  BY DEF OthersStay
<1>3. QED
  BY <1>1, <1>2

-----------------------------------------------------------------------------
(* What a step of a call may be: it ends, or it gets on.                   *)

store == <<born, disk, row, validations, plans, asked, answers, repairs>>

\* The call returns, raises or dies, and has changed nothing else.
Ends(c) == /\ Finish(c)
           /\ UNCHANGED <<store, condemned>>
           /\ \/ faults < MaxFaults /\ faults' = faults + 1
              \/ /\ UNCHANGED faults
                 /\ pc[c] = "revise" => ~Complete(DraftOf(c)) \/ row[DraftOf(c)] = NoRow

\* The update has its lock and its row.
Checks(c) ==
  LET r == TheRequest(c) IN
  /\ pc[c] = "check" /\ row[r.draft].revision = r.revision
  /\ base' = [base EXCEPT ![c] = row[r.draft]]
  /\ Goto(c, "write")
  /\ UNCHANGED <<store, req, key, seen, lock, condemned, faults>>

Revises(c) ==
  LET d == DraftOf(c) IN
  /\ pc[c] = "revise" /\ Complete(d) /\ row[d] # NoRow
  /\ row' = [row EXCEPT ![d] = [revision |-> base[c].revision + 1, manifest |-> disk[d]]]
  /\ Revised(c)
  /\ UNCHANGED <<born, disk, validations, plans, asked, answers, condemned, faults>>

Looks(c) ==
  /\ pc[c] = "look" /\ row[DraftOf(c)] # NoRow
  /\ base' = [base EXCEPT ![c] = row[DraftOf(c)]]
  /\ Goto(c, "files")
  /\ swept' = IF Cleaning THEN swept \cup {c} ELSE swept \ {c}
  /\ UNCHANGED <<store, req, key, seen, lock, condemned, faults>>

Reads(c) ==
  LET d == DraftOf(c)
      f == Len(seen[c]) + 1
  IN
  /\ pc[c] = "files" /\ f \in DOMAIN disk[d]
  /\ seen' = [seen EXCEPT ![c] = Append(@, disk[d][f])]
  /\ Goto(c, IF f < N THEN "files" ELSE IF key[c] # {} THEN "judge" ELSE "verify")
  /\ UNCHANGED <<store, req, key, base, lock, swept, condemned, faults>>

Judges(c) ==
  /\ pc[c] = "judge" /\ Goto(c, "acquire")
  /\ UNCHANGED <<store, callVars, lock, condemned, faults>>

Verifies(c) ==
  LET r == TheRequest(c) IN
  /\ pc[c] = "verify"
  /\ \E v \in r.tokens : /\ v.draft = r.draft /\ v.revision = base[c].revision
                         /\ v.manifest = seen[c] /\ v.passed
  /\ Goto(c, "plan")
  /\ UNCHANGED <<store, callVars, lock, condemned, faults>>

Begins(c) == BeginUpdate(c) \/ BeginPrepare(c) \/ \E k \in Keys : BeginRepair(c, k)
Moves(c) ==
  \/ Acquire(c) \/ Checks(c) \/ WriteFile(c) \/ Revises(c)
  \/ Looks(c) \/ Reads(c) \/ Judges(c) \/ Verifies(c)
  \/ PutDraft(c) \/ PutAnswer(c) \/ PutPlan(c)
Makes(c) == \E d \in Drafts : CreateFiles(c, d) \/ Validate(c, d)

LEMMA StepOfCall ==
  ASSUME NEW c \in Calls, CallStep(c) \/ CrashCall(c)
  PROVE  Ends(c) \/ Begins(c) \/ Moves(c) \/ Makes(c)
<1> USE DEF store
<1>1. CASE CheckUpdate(c)
  BY <1>1 DEF CheckUpdate, Ends, Checks, Moves
<1>2. CASE ReviseRow(c)
  BY <1>2 DEF ReviseRow, Ends, Revises, Moves
<1>3. CASE LookDraft(c)
  BY <1>3 DEF LookDraft, Ends, Looks, Moves
<1>4. CASE ReadFile(c)
  BY <1>4 DEF ReadFile, Ends, Reads, Moves
<1>5. CASE JudgeRepair(c)
  BY <1>5 DEF JudgeRepair, Ends, Judges, Moves
<1>6. CASE VerifyToken(c)
  BY <1>6 DEF VerifyToken, Ends, Verifies, Moves
<1>7. CASE CrashCall(c)
  BY <1>7 DEF CrashCall, Ends
<1>8. CASE /\ ~CheckUpdate(c) /\ ~ReviseRow(c) /\ ~LookDraft(c) /\ ~ReadFile(c)
           /\ ~JudgeRepair(c) /\ ~VerifyToken(c) /\ ~CrashCall(c)
  BY <1>8 DEF CallStep, Begins, Moves, Makes
<1>9. QED
  BY <1>1, <1>2, <1>3, <1>4, <1>5, <1>6, <1>7, <1>8

\* A call in progress has its one request.
LEMMA HasRequest ==
  ASSUME CoreTypes, RequestsAreWhole, NEW c \in Calls, pc[c] # "idle"
  PROVE  \E r \in Request : /\ req[c] = {r} /\ TheRequest(c) = r /\ DraftOf(c) = r.draft
                            /\ r.draft \in Drafts /\ r.file \in Files
                            /\ r.revision \in Revisions /\ r.content \in Versions
<1>1. AtMostOne(req[c]) /\ req[c] # {} /\ req[c] \subseteq Request
  BY DEF CoreTypes, RequestsAreWhole
<1>2. PICK r \in Request : r \in req[c]
  BY <1>1
<1>3. TheRequest(c) = r /\ DraftOf(c) = r.draft /\ req[c] = {r}
  BY <1>1, <1>2, OneRequest
<1>4. /\ r.draft \in Drafts /\ r.file \in Files
      /\ r.revision \in Revisions /\ r.content \in Versions
  BY DEF Request
<1>5. QED
  BY <1>3, <1>4

-----------------------------------------------------------------------------
(* Types.                                                                  *)

LEMMA BeginTypes ==
  ASSUME CoreTypes, CreatorIsAlone, NEW c \in Calls, Begins(c)
  PROVE  /\ CallTypes' /\ OthersStay(c) /\ asked' \in [Keys -> SUBSET Request]
         /\ UNCHANGED <<born, disk, row, validations, plans, answers, repairs, lock, base, seen,
                        condemned, faults>>
         /\ pc[c] = "idle" /\ pc'[c] \in {"acquire", "look"}
<1> USE DEF CoreTypes, CallTypes, Goto, Procs, Steps, OthersStay
<1>1. CASE BeginUpdate(c)
  <2>1. Requests({{}}) \subseteq Request
    BY DEF Requests, Request, Known
  <2>2. QED
    BY <1>1, <2>1 DEF BeginUpdate, draftVars
<1>2. CASE BeginPrepare(c)
  <2>1. ASSUME NEW v \in validations, NEW d \in Known
        PROVE  [draft |-> d, file |-> 1, content |-> Scaffold, revision |-> v.revision,
                hash |-> Scaffold, tokens |-> {v}] \in Request
    BY DraftAssumption DEF Request, Known, Files, Validation
  <2>2. QED
    BY <1>2, <2>1 DEF BeginPrepare, draftVars
<1>3. ASSUME NEW k \in Keys, BeginRepair(c, k)
      PROVE  /\ CallTypes' /\ OthersStay(c) /\ asked' \in [Keys -> SUBSET Request]
             /\ UNCHANGED <<born, disk, row, validations, plans, answers, repairs, lock, base,
                            seen, condemned, faults>>
             /\ pc[c] = "idle" /\ pc'[c] \in {"acquire", "look"}
  <2>1. Requests({{w} : w \in validations}) \subseteq Request
    BY DEF Requests, Request, Known
  <2>2. PICK r \in Request : /\ asked' = [asked EXCEPT ![k] = {r}]
                             /\ req' = [req EXCEPT ![c] = {r}]
    BY <1>3, <2>1 DEF BeginRepair
  <2>3. /\ pc[c] = "idle" /\ Goto(c, "look") /\ key' = [key EXCEPT ![c] = {k}]
        /\ UNCHANGED <<born, disk, row, validations, plans, answers, repairs, lock, base,
                       seen, condemned, faults>>
    BY <1>3 DEF BeginRepair
  <2>4. QED
    BY <2>2, <2>3
<1>4. QED
  BY <1>1, <1>2, <1>3 DEF Begins

LEMMA MoveTypes ==
  ASSUME CoreTypes, RequestsAreWhole, OneWriter, WriterKnowsRow, TokensAreTrue,
         NEW c \in Calls, Moves(c)
  PROVE  CoreTypes' /\ OthersStay(c) /\ pc[c] # "idle"
<1> USE DEF Goto, Procs, Steps
<1>0. /\ CallTypes /\ pc[c] # "idle"
  BY DEF CoreTypes, CallTypes, Moves, Acquire, Checks, WriteFile, Revises, Looks, Reads, Judges,
     Verifies, PutDraft, PutAnswer, PutPlan
<1>1. PICK r \in Request : /\ req[c] = {r} /\ TheRequest(c) = r /\ DraftOf(c) = r.draft
                           /\ r.draft \in Drafts /\ r.file \in Files
                           /\ r.revision \in Revisions /\ r.content \in Versions
  BY <1>0, HasRequest
<1>2. CASE Acquire(c)
  BY <1>0, <1>1, <1>2 DEF Acquire, CoreTypes, OthersStay, callVars
<1>3. CASE Checks(c)
  BY <1>0, <1>1, <1>3 DEF Checks, CoreTypes, OthersStay, store
<1>4. CASE WriteFile(c)
  <2>1. PICK t \in Trees : disk' = [disk EXCEPT ![r.draft] = t]
    <3>1. disk[r.draft] \in Trees
      BY <1>1 DEF CoreTypes
    <3>2. [f \in DOMAIN disk[r.draft] \cup {r.file} |->
             IF f = r.file THEN r.content ELSE disk[r.draft][f]] \in Trees
      <4>1. DOMAIN disk[r.draft] \cup {r.file} \in SUBSET Files
        BY <1>1, <3>1, TreeFacts
      <4>2. [f \in DOMAIN disk[r.draft] \cup {r.file} |->
               IF f = r.file THEN r.content ELSE disk[r.draft][f]]
              \in [DOMAIN disk[r.draft] \cup {r.file} -> Versions]
        BY <1>1, <3>1, TreeFacts
      <4>3. QED
        BY <4>1, <4>2 DEF Trees
    <3>3. QED
      BY <1>1, <1>4, <3>2 DEF WriteFile
  <2>2. /\ pc[c] = "write" /\ pc' = [pc EXCEPT ![c] = "revise"]
        /\ UNCHANGED <<born, row, validations, plans, asked, answers, repairs, lock, req, key,
                       base, seen, condemned, faults>>
    BY <1>4 DEF WriteFile, callVars
  <2>3. QED
    BY <1>0, <1>1, <2>1, <2>2 DEF CoreTypes, OthersStay
<1>5. CASE Revises(c)
  <2>1. base[c].revision + 1 \in Revisions
    BY <1>5, RowFacts DEF Revises, WriterKnowsRow
  <2>2. disk[r.draft] \in Manifest
    BY <1>1, <1>5, TreeFacts DEF Revises, Complete, CoreTypes
  <2>3. row' \in [Drafts -> DraftRow \cup {NoRow}]
    BY <1>1, <1>5, <2>1, <2>2, RowFacts DEF Revises, CoreTypes
  <2>4. CallTypes' /\ OthersStay(c)
    <3>1. CASE key[c] = {}
      BY <1>0, <1>5, <3>1, FinishEffect DEF Revises, Revised
    <3>2. CASE key[c] # {}
      <4>1. lock[r.draft] \subseteq {c}
        BY <1>1, <1>5 DEF Revises, OneWriter, AtMostOne, Locking
      <4>2. QED
        BY <1>0, <1>1, <1>5, <3>2, <4>1 DEF Revises, Revised, CallTypes, OthersStay
    <3>3. QED
      BY <3>1, <3>2
  <2>5. repairs' \in [Keys -> Seq(Revisions)]
    <3>1. \A k \in Keys : Append(repairs[k], base[c].revision + 1) \in Seq(Revisions)
      BY <2>1, AppendProperties DEF CoreTypes
    <3>2. CASE key[c] = {}
      BY <1>5, <3>2 DEF Revises, Revised, CoreTypes
    <3>3. CASE key[c] # {}
      <4>1. repairs' = [k \in Keys |-> IF k \in key[c]
                                        THEN Append(repairs[k], base[c].revision + 1)
                                        ELSE repairs[k]]
        BY <1>5, <3>3 DEF Revises, Revised
      <4>2. \A k \in Keys : repairs[k] \in Seq(Revisions)
        BY DEF CoreTypes
      <4>3. QED
        BY <3>1, <4>1, <4>2
    <3>4. QED
      BY <3>2, <3>3
  <2>6. QED
    BY <1>0, <1>5, <2>3, <2>4, <2>5 DEF Revises, CoreTypes, CallTypes
<1>6. CASE Looks(c)
  BY <1>0, <1>1, <1>6 DEF Looks, CoreTypes, OthersStay, store
<1>7. CASE Reads(c)
  <2>1. disk[r.draft][Len(seen[c]) + 1] \in Versions
    BY <1>1, <1>7, TreeFacts DEF Reads, CoreTypes
  <2>2. seen' \in [Calls -> Seq(Versions)]
    BY <1>1, <1>7, <2>1 DEF Reads, CoreTypes
  <2>3. QED
    BY <1>0, <1>1, <1>7, <2>2 DEF Reads, CoreTypes, OthersStay, store
<1>8. CASE Judges(c)
  BY <1>0, <1>8 DEF Judges, CoreTypes, OthersStay, store, callVars
<1>9. CASE Verifies(c)
  BY <1>0, <1>9 DEF Verifies, CoreTypes, OthersStay, store, callVars
<1>10. CASE PutDraft(c)
  <2>1. [revision |-> 1, manifest |-> [f \in Files |-> Scaffold]] \in DraftRow
    BY RowFacts, TreeFacts
  <2>2. QED
    BY <1>0, <1>1, <1>10, <2>1, FinishEffect DEF PutDraft, CoreTypes, CallTypes
<1>11. CASE PutAnswer(c)
  <2>1. base[c].revision + 1 \in Revisions
    BY <1>11, RowFacts DEF PutAnswer, WriterKnowsRow
  <2>2. QED
    BY <1>0, <1>11, <2>1, FinishEffect DEF PutAnswer, CoreTypes, CallTypes
<1>12. CASE PutPlan(c)
  <2>1. [draft |-> r.draft, revision |-> base[c].revision, manifest |-> seen[c]] \in Plan
    <3>1. [draft |-> r.draft, revision |-> base[c].revision, manifest |-> seen[c],
           passed |-> TRUE] \in Validation
      BY <1>1, <1>12 DEF PutPlan, TokensAreTrue, CoreTypes
    <3>2. QED
      BY <3>1 DEF Validation, Plan
  <2>2. QED
    BY <1>0, <1>1, <1>12, <2>1, FinishEffect DEF PutPlan, CoreTypes, CallTypes
<1>13. QED
  BY <1>0, <1>2, <1>3, <1>4, <1>5, <1>6, <1>7, <1>8, <1>9, <1>10, <1>11, <1>12 DEF Moves

LEMMA CallKeepsTypes ==
  ASSUME CoreTypes, RequestsAreWhole, OneWriter, WriterKnowsRow, TokensAreTrue, CreatorIsAlone,
         NEW c \in Calls, CallStep(c) \/ CrashCall(c)
  PROVE  CoreTypes' /\ OthersStay(c)
<1>0. CallTypes
  BY DEF CoreTypes, CallTypes
<1>1. CASE Ends(c)
  BY <1>0, <1>1, FinishEffect, DraftAssumption DEF Ends, store, CoreTypes, CallTypes
<1>2. CASE Begins(c)
  BY <1>2, BeginTypes DEF CoreTypes, CallTypes
<1>3. CASE Moves(c)
  BY <1>3, MoveTypes
<1>4. ASSUME NEW d \in Drafts, CreateFiles(c, d)
      PROVE  CoreTypes' /\ OthersStay(c)
  <2>1. [draft |-> d, file |-> 1, content |-> Scaffold, revision |-> 1, hash |-> Scaffold,
         tokens |-> {}] \in Request
    BY DraftAssumption, RowFacts DEF Request, Files
  <2>2. [f \in Files |-> Scaffold] \in Trees
    BY TreeFacts
  <2>3. QED
    BY <1>4, <2>1, <2>2 DEF CreateFiles, CoreTypes, OthersStay, Goto, Procs, Steps
<1>5. ASSUME NEW d \in Drafts, Validate(c, d)
      PROVE  CoreTypes' /\ OthersStay(c)
  <2>1. [draft |-> d, revision |-> row[d].revision, manifest |-> disk[d],
         passed |-> Passes(disk[d])] \in Validation
    <3>1. Passes(disk[d]) \in BOOLEAN
      BY DEF Passes
    <3>2. row[d] \in DraftRow /\ disk[d] \in Manifest
      BY <1>5, TreeFacts DEF Validate, ValidateContent, Complete, CoreTypes
    <3>3. QED
      BY <3>1, <3>2, RowFacts DEF Validation
  <2>2. QED
    BY <1>5, <2>1 DEF Validate, ValidateContent, CoreTypes, OthersStay, callVars
<1>6. QED
  BY <1>1, <1>2, <1>3, <1>4, <1>5, StepOfCall DEF Makes

-----------------------------------------------------------------------------
(* Which step of a call changes what.                                      *)

LEMMA WhoWrites ==
  ASSUME NEW c \in Calls, CallStep(c) \/ CrashCall(c)
  PROVE  /\ UNCHANGED condemned
         /\ row' = row \/ PutDraft(c) \/ Revises(c)
         /\ disk' = disk \/ WriteFile(c) \/ \E d \in Drafts : CreateFiles(c, d)
         /\ repairs' = repairs \/ Revises(c)
         /\ answers' = answers \/ PutAnswer(c)
         /\ asked' = asked \/ \E k \in Keys : BeginRepair(c, k)
         /\ validations' = validations \/ \E d \in Drafts : Validate(c, d)
         /\ plans' = plans \/ PutPlan(c)
         /\ born' = born \/ \E d \in Drafts : CreateFiles(c, d)
<1> USE DEF store, draftVars, callVars
<1>1. CASE Ends(c)
  BY <1>1 DEF Ends
<1>2. CASE Begins(c)
  BY <1>2 DEF Begins, BeginUpdate, BeginPrepare, BeginRepair
<1>3. CASE Moves(c)
  BY <1>3 DEF Moves, Acquire, Checks, WriteFile, Revises, Revised, Looks, Reads, Judges,
     Verifies, PutDraft, PutAnswer, PutPlan
<1>4. CASE Makes(c)
  BY <1>4 DEF Makes, CreateFiles, Validate, ValidateContent
<1>5. QED
  BY <1>1, <1>2, <1>3, <1>4, StepOfCall

\* A call in progress keeps its request and its key, or ends.
LEMMA LocalsStay ==
  ASSUME NEW c \in Calls, CallStep(c) \/ CrashCall(c)
  PROVE  \/ Finish(c)
         \/ UNCHANGED <<req, key>> /\ Moves(c)
         \/ UNCHANGED <<req, key, pc, lock>> /\ Makes(c)
         \/ Begins(c) \/ \E d \in Drafts : CreateFiles(c, d)
<1> USE DEF store, draftVars, callVars
<1>1. CASE Ends(c)
  BY <1>1 DEF Ends
<1>3. CASE Moves(c)
  BY <1>3 DEF Moves, Acquire, Checks, WriteFile, Revises, Revised, Looks, Reads, Judges,
     Verifies, PutDraft, PutAnswer, PutPlan
<1>4. CASE Makes(c)
  BY <1>4 DEF Makes, Validate, ValidateContent
<1>5. QED
  BY <1>1, <1>3, <1>4, StepOfCall

-----------------------------------------------------------------------------
(* Requests, keys and locks.                                               *)

LEMMA RequestsKept ==
  ASSUME Invariant, NEW c \in Calls, CallStep(c) \/ CrashCall(c)
  PROVE  RequestsAreWhole'
<1>0. /\ CoreTypes /\ CoreTypes' /\ RequestsAreWhole /\ OthersStay(c) /\ CreatorIsAlone /\ CallTypes
  BY CallKeepsTypes DEF Invariant, CoreTypes, CallTypes
<1>1. validations \subseteq validations'
  BY WhoWrites DEF Validate, ValidateContent
<1>2. \A x \in Calls \ {c} : /\ pc'[x] = pc[x] /\ req'[x] = req[x] /\ key'[x] = key[x]
  BY <1>0 DEF OthersStay, Procs
<1>3. CASE \E k \in Keys : BeginRepair(c, k)
  <2>1. PICK k \in Keys : BeginRepair(c, k)
    BY <1>3
  <2>2. PICK v \in validations, r \in Requests({{w} : w \in validations}) :
          /\ r.tokens = {v} /\ asked[k] \subseteq {r}
          /\ asked' = [asked EXCEPT ![k] = {r}]
          /\ req' = [req EXCEPT ![c] = {r}]
    BY <2>1 DEF BeginRepair
  <2>3. /\ pc' = [pc EXCEPT ![c] = "look"] /\ key' = [key EXCEPT ![c] = {k}]
        /\ UNCHANGED validations
    BY <2>1 DEF BeginRepair, Goto
  <2>4. req'[c] = {r} /\ key'[c] = {k} /\ asked'[k] = {r} /\ pc'[c] = "look"
    BY <1>0, <2>2, <2>3 DEF CoreTypes, Procs
  <2>5. \A x \in Calls \ {c} : k \in key[x] => req[x] = {r}
    BY <1>0, <2>2 DEF RequestsAreWhole
  <2>6. \A j \in Keys \ {k} : asked'[j] = asked[j]
    BY <1>0, <2>2 DEF CoreTypes
  <2>7. \A x \in Calls : \A j \in key'[x] : asked'[j] = req'[x]
    <3>1. \A x \in Calls : key[x] \subseteq Keys
      BY <1>0 DEF CoreTypes
    <3>2. ASSUME NEW x \in Calls \ {c}, NEW j \in key'[x]
          PROVE  asked'[j] = req'[x]
      <4>1. j \in key[x] /\ j \in Keys /\ asked[j] = req[x] /\ req'[x] = req[x]
        BY <1>0, <1>2, <3>1 DEF RequestsAreWhole
      <4>2. QED
        BY <2>4, <2>5, <2>6, <4>1
    <3>3. QED
      BY <2>4, <3>2
  <2>8. ASSUME NEW x \in Calls
        PROVE  /\ AtMostOne(req'[x]) /\ (pc'[x] = "idle" <=> req'[x] = {})
               /\ \A s \in req'[x] : s.tokens \subseteq validations'
               /\ AtMostOne(key'[x]) /\ (pc'[x] = "idle" => key'[x] = {})
    <3>1. CASE x = c
      BY <2>2, <2>3, <2>4, <3>1 DEF AtMostOne
    <3>2. CASE x # c
      BY <1>0, <1>2, <2>3, <3>2 DEF RequestsAreWhole
    <3>3. QED
      BY <3>1, <3>2
  <2>9. \A j \in Keys : AtMostOne(asked'[j])
    BY <1>0, <2>4, <2>6 DEF RequestsAreWhole, AtMostOne
  <2>10. QED
    BY <2>7, <2>8, <2>9 DEF RequestsAreWhole
<1>4. CASE asked' = asked
  <2>1. /\ AtMostOne(req'[c]) /\ (pc'[c] = "idle" <=> req'[c] = {})
        /\ \A r \in req'[c] : r.tokens \subseteq validations'
        /\ AtMostOne(key'[c]) /\ (pc'[c] = "idle" => key'[c] = {})
        /\ \A k \in key'[c] : asked'[k] = req'[c]
    <3>1. CASE Finish(c)
      BY <1>0, <3>1, FinishEffect DEF AtMostOne
    <3>2. CASE UNCHANGED <<req, key>> /\ Moves(c) /\ ~Finish(c)
      <4>1. pc[c] # "idle" /\ pc'[c] # "idle"
        BY <1>0, <3>2
        DEF Moves, Acquire, Checks, WriteFile, Revises, Revised, Looks, Reads, Judges,
            Verifies, PutDraft, PutAnswer, PutPlan, Goto, CoreTypes, Procs
      <4>2. QED
        BY <1>0, <1>1, <1>4, <3>2, <4>1 DEF RequestsAreWhole
    <3>3. CASE UNCHANGED <<req, key, pc>>
      BY <1>0, <1>1, <1>4, <3>3 DEF RequestsAreWhole
    <3>4. CASE BeginUpdate(c) \/ BeginPrepare(c)
      <4>1. pc[c] = "idle" /\ key[c] = {} /\ key' = key /\ pc'[c] # "idle"
        BY <1>0, <3>4, BeginTypes
        DEF BeginUpdate, BeginPrepare, Begins, RequestsAreWhole
      <4>2. \E r : req'[c] = {r} /\ r.tokens \subseteq validations
        <5>1. \A r \in Requests({{}}) : r.tokens = {}
          BY DEF Requests
        <5>2. CASE BeginUpdate(c)
          BY <1>0, <5>1, <5>2 DEF BeginUpdate, CoreTypes
        <5>3. CASE BeginPrepare(c)
          <6>1. PICK v \in validations, d \in Known :
                  req' = [req EXCEPT ![c] =
                            {[draft |-> d, file |-> 1, content |-> Scaffold,
                              revision |-> v.revision, hash |-> Scaffold, tokens |-> {v}]}]
            BY <5>3 DEF BeginPrepare
          <6> DEFINE s == [draft |-> d, file |-> 1, content |-> Scaffold,
                           revision |-> v.revision, hash |-> Scaffold, tokens |-> {v}]
          <6>2. req'[c] = {s} /\ s.tokens = {v}
            BY <1>0, <6>1 DEF CoreTypes
          <6> HIDE DEF s
          <6>3. QED
            BY <6>2
        <5>4. QED
          BY <3>4, <5>2, <5>3
      <4>3. QED
        BY <1>1, <4>1, <4>2 DEF AtMostOne
    <3>5. ASSUME NEW d \in Drafts, CreateFiles(c, d)
          PROVE  /\ AtMostOne(req'[c]) /\ (pc'[c] = "idle" <=> req'[c] = {})
                 /\ \A r \in req'[c] : r.tokens \subseteq validations'
                 /\ AtMostOne(key'[c]) /\ (pc'[c] = "idle" => key'[c] = {})
                 /\ \A k \in key'[c] : asked'[k] = req'[c]
      <4>1. key[c] = {} /\ key' = key /\ pc'[c] # "idle"
        BY <1>0, <3>5 DEF CreateFiles, Goto, RequestsAreWhole, CoreTypes, Procs
      <4>2. \E r : req'[c] = {r} /\ r.tokens = {}
        <5> DEFINE s == [draft |-> d, file |-> 1, content |-> Scaffold, revision |-> 1,
                         hash |-> Scaffold, tokens |-> {}]
        <5>1. req'[c] = {s} /\ s.tokens = {}
          BY <1>0, <3>5 DEF CreateFiles, CoreTypes
        <5> HIDE DEF s
        <5>2. QED
          BY <5>1
      <4>3. QED
        BY <4>1, <4>2 DEF AtMostOne
    <3>6. ASSUME NEW k \in Keys, BeginRepair(c, k)
          PROVE  /\ AtMostOne(req'[c]) /\ (pc'[c] = "idle" <=> req'[c] = {})
                 /\ \A r \in req'[c] : r.tokens \subseteq validations'
                 /\ AtMostOne(key'[c]) /\ (pc'[c] = "idle" => key'[c] = {})
                 /\ \A j \in key'[c] : asked'[j] = req'[c]
      <4>1. /\ key'[c] = {k} /\ pc'[c] = "look" /\ asked'[k] = req'[c]
        BY <1>0, <3>6 DEF BeginRepair, Goto, CoreTypes, Procs
      <4>2. \E r, v : v \in validations /\ req'[c] = {r} /\ r.tokens = {v}
        BY <1>0, <3>6 DEF BeginRepair, CoreTypes
      <4>3. QED
        BY <1>1, <4>1, <4>2 DEF AtMostOne
    <3>7. QED
      BY <3>1, <3>2, <3>3, <3>4, <3>5, <3>6, LocalsStay DEF Begins
  <2>2. QED
    BY <1>0, <1>1, <1>2, <1>4, <2>1 DEF RequestsAreWhole
<1>5. QED
  BY <1>3, <1>4, WhoWrites

LEMMA OneWriterKept ==
  ASSUME Invariant, NEW c \in Calls, CallStep(c) \/ CrashCall(c)
  PROVE  OneWriter'
<1>0. /\ CoreTypes /\ CoreTypes' /\ RequestsAreWhole /\ RequestsAreWhole' /\ OneWriter
      /\ OthersStay(c) /\ CreatorIsAlone /\ CallTypes
  BY CallKeepsTypes, RequestsKept DEF Invariant, CoreTypes, CallTypes
<1> USE DEF Locking
<1>1. ASSUME NEW x \in Calls \ {c}, NEW d \in Drafts
      PROVE  x \in lock'[d] <=> pc'[x] \in Locking /\ \A r \in req'[x] : r.draft = d
  BY <1>0 DEF OneWriter, OthersStay, Procs
<1>2. CASE \A d \in Drafts : lock'[d] \subseteq lock[d]
  <2>1. \A d \in Drafts : AtMostOne(lock'[d])
    BY <1>0, <1>2 DEF OneWriter, AtMostOne
  <2>2. ASSUME NEW d \in Drafts
        PROVE  c \in lock'[d] <=> pc'[c] \in Locking /\ \A r \in req'[c] : r.draft = d
    <3>1. CASE Finish(c)
      BY <1>0, <3>1, FinishEffect
    <3>2. CASE UNCHANGED <<req, key>> /\ Moves(c) /\ ~Finish(c)
      <4>1. PICK r \in Request : /\ req[c] = {r} /\ TheRequest(c) = r /\ DraftOf(c) = r.draft
                                 /\ r.draft \in Drafts
        BY <1>0, <3>2, HasRequest, MoveTypes DEF Invariant
      <4>2. CASE Acquire(c)
        BY <1>0, <1>2, <4>1, <4>2 DEF Acquire, CoreTypes
      <4>3. CASE Checks(c) \/ WriteFile(c)
        BY <1>0, <3>2, <4>3 DEF Checks, WriteFile, Goto, OneWriter, CoreTypes, Procs
      <4>4. CASE Looks(c) \/ Reads(c) \/ Judges(c) \/ Verifies(c)
        <5>1. pc[c] \notin Locking /\ pc'[c] \notin Locking
          BY <1>0, <4>4 DEF Looks, Reads, Judges, Verifies, Goto, CoreTypes, Procs
        <5>2. QED
          BY <1>0, <1>2, <5>1 DEF OneWriter
      <4>5. CASE Revises(c)
        <5>1. pc'[c] = "answer" /\ lock' = [lock EXCEPT ![r.draft] = {}] /\ pc[c] = "revise"
          BY <1>0, <3>2, <4>1, <4>5 DEF Revises, Revised, Goto, CoreTypes, Procs
        <5>2. c \notin lock'[d]
          BY <1>0, <4>1, <5>1 DEF CoreTypes, OneWriter
        <5>3. QED
          BY <5>1, <5>2
      <4>6. QED
        BY <3>2, <4>2, <4>3, <4>4, <4>5 DEF Moves, PutDraft, PutAnswer, PutPlan
    <3>3. CASE UNCHANGED <<req, key, pc, lock>>
      BY <1>0, <3>3 DEF OneWriter
    <3>4. CASE Begins(c) \/ \E e \in Drafts : CreateFiles(c, e)
      <4>1. pc[c] = "idle" /\ pc'[c] \notin Locking
        BY <1>0, <3>4, BeginTypes DEF CreateFiles, Goto, CoreTypes, Procs
      <4>2. QED
        BY <1>0, <1>2, <4>1 DEF OneWriter
    <3>5. QED
      BY <3>1, <3>2, <3>3, <3>4, LocalsStay
  <2>3. QED
    BY <1>1, <2>1, <2>2 DEF OneWriter
<1>3. CASE Acquire(c)
  <2>1. PICK r \in Request : /\ req[c] = {r} /\ DraftOf(c) = r.draft /\ r.draft \in Drafts
    BY <1>0, <1>3, HasRequest DEF Acquire
  <2>2. /\ lock[r.draft] = {} /\ lock' = [lock EXCEPT ![r.draft] = {c}]
        /\ pc[c] = "acquire" /\ pc'[c] = "check" /\ req' = req
    BY <1>0, <1>3, <2>1 DEF Acquire, Goto, CoreTypes, Procs, callVars
  <2>3. \A d \in Drafts : c \in lock'[d] <=> d = r.draft
    BY <1>0, <2>1, <2>2 DEF OneWriter, CoreTypes
  <2>4. \A d \in Drafts : AtMostOne(lock'[d])
    BY <1>0, <2>1, <2>2 DEF OneWriter, CoreTypes, AtMostOne
  <2>5. QED
    BY <1>1, <2>1, <2>2, <2>3, <2>4 DEF OneWriter
<1>4. ~Acquire(c) => \A d \in Drafts : lock'[d] \subseteq lock[d]
  <2>1. CASE Finish(c)
    BY <2>1 DEF Finish
  <2>2. CASE Begins(c)
    BY <1>0, <2>2, BeginTypes
  <2>3. CASE Makes(c)
    BY <2>3 DEF Makes, CreateFiles, Validate, ValidateContent
  <2>4. CASE Moves(c) /\ ~Finish(c) /\ ~Acquire(c) /\ ~Revises(c)
    BY <2>4 DEF Moves, Checks, WriteFile, Looks, Reads, Judges, Verifies, PutDraft,
       PutAnswer, PutPlan, callVars
  <2>5. CASE Revises(c) /\ ~Finish(c)
    <3>1. lock' = [lock EXCEPT ![DraftOf(c)] = {}]
      BY <2>5 DEF Revises, Revised
    <3>2. QED
      BY <1>0, <3>1 DEF CoreTypes
  <2>6. QED
    BY <2>1, <2>2, <2>3, <2>4, <2>5, StepOfCall DEF Ends
<1>5. QED
  BY <1>2, <1>3, <1>4

-----------------------------------------------------------------------------
(* Creations: a draft that is being created is nobody else's.              *)

\* A request begins for a draft that has its row.
LEMMA BeginsKnown ==
  ASSUME CoreTypes, NEW c \in Calls, Begins(c)
  PROVE  \E r : /\ req'[c] = {r} /\ row[r.draft] # NoRow /\ r.draft \in Drafts
                /\ \A k \in Keys : asked'[k] = asked[k] \/ asked'[k] = {r}
<1>1. CASE BeginUpdate(c)
  BY <1>1 DEF BeginUpdate, Requests, Known, CoreTypes, draftVars
<1>2. CASE BeginPrepare(c)
  <2>1. PICK v \in validations, d \in Known :
          req' = [req EXCEPT ![c] =
                    {[draft |-> d, file |-> 1, content |-> Scaffold,
                      revision |-> v.revision, hash |-> Scaffold, tokens |-> {v}]}]
    BY <1>2 DEF BeginPrepare
  <2> DEFINE s == [draft |-> d, file |-> 1, content |-> Scaffold,
                   revision |-> v.revision, hash |-> Scaffold, tokens |-> {v}]
  <2>2. req'[c] = {s} /\ s.draft = d
    BY <2>1 DEF CoreTypes
  <2>3. asked' = asked /\ d \in Drafts /\ row[d] # NoRow
    BY <1>2 DEF BeginPrepare, draftVars, Known
  <2> HIDE DEF s
  <2>4. QED
    BY <2>2, <2>3
<1>3. ASSUME NEW k \in Keys, BeginRepair(c, k)
      PROVE  \E r : /\ req'[c] = {r} /\ row[r.draft] # NoRow /\ r.draft \in Drafts
                    /\ \A j \in Keys : asked'[j] = asked[j] \/ asked'[j] = {r}
  <2>1. PICK r \in Requests({{w} : w \in validations}) :
               /\ asked' = [asked EXCEPT ![k] = {r}]
               /\ req' = [req EXCEPT ![c] = {r}]
    BY <1>3 DEF BeginRepair
  <2>2. row[r.draft] # NoRow /\ r.draft \in Drafts
    BY DEF Requests, Known
  <2>3. QED
    BY <2>1, <2>2 DEF CoreTypes
<1>4. QED
  BY <1>1, <1>2, <1>3 DEF Begins

LEMMA CreatorKept ==
  ASSUME Invariant, NEW c \in Calls, CallStep(c) \/ CrashCall(c)
  PROVE  CreatorIsAlone'
<1>0. /\ CoreTypes /\ CoreTypes' /\ RequestsAreWhole /\ RequestsAreWhole' /\ CreatorIsAlone
      /\ OthersStay(c) /\ CallTypes
  BY CallKeepsTypes, RequestsKept DEF Invariant, CoreTypes, CallTypes
<1>1. \A x \in Calls \ {c} : pc'[x] = pc[x] /\ req'[x] = req[x]
  BY <1>0 DEF OthersStay, Procs
<1>2. born \subseteq born'
  BY WhoWrites DEF CreateFiles
\* Whose draft the step is about.
<1>3. ASSUME NEW r, req[c] = {r}, pc[c] # "idle"
      PROVE  TheRequest(c) = r /\ DraftOf(c) = r.draft /\ r.draft \in Drafts /\ r.draft \in born
  BY <1>0, <1>3, HasRequest DEF CreatorIsAlone
<1>4. \A d \in Drafts : row'[d] # NoRow => d \in born'
  <2>1. CASE PutDraft(c) \/ Revises(c)
    <3>1. pc[c] # "idle"
      BY <2>1 DEF PutDraft, Revises
    <3>2. PICK r \in Request : req[c] = {r} /\ DraftOf(c) = r.draft
      BY <1>0, <3>1, HasRequest
    <3>3. \A d \in Drafts \ {r.draft} : row'[d] = row[d]
      BY <1>0, <2>1, <3>2 DEF PutDraft, Revises, CoreTypes
    <3>4. QED
      BY <1>0, <1>2, <3>2, <3>3 DEF CreatorIsAlone
  <2>2. QED
    BY <1>0, <1>2, <2>1, WhoWrites DEF CreatorIsAlone
<1>5. \A x \in Calls : \A r \in req'[x] : r.draft \in born'
  <2>1. \A r \in req'[c] : r.draft \in born'
    <3>1. CASE Finish(c)
      BY <1>0, <3>1, FinishEffect
    <3>2. CASE req' = req
      BY <1>0, <1>2, <3>2 DEF CreatorIsAlone
    <3>3. CASE Begins(c)
      BY <1>0, <1>2, <3>3, BeginsKnown DEF CreatorIsAlone
    <3>4. ASSUME NEW d \in Drafts, CreateFiles(c, d)
          PROVE  \A r \in req'[c] : r.draft \in born'
      BY <1>0, <3>4 DEF CreateFiles, CoreTypes
    <3>5. QED
      BY <3>1, <3>2, <3>3, <3>4, LocalsStay
  <2>2. QED
    BY <1>0, <1>1, <1>2, <2>1 DEF CreatorIsAlone
<1>6. \A k \in Keys : \A r \in asked'[k] : r.draft \in born'
  <2>1. CASE Begins(c)
    BY <1>0, <1>2, <2>1, BeginsKnown DEF CreatorIsAlone
  <2>2. QED
    BY <1>0, <1>2, <2>1, WhoWrites DEF CreatorIsAlone, Begins
<1>7. \A v \in validations' : v.draft \in born'
  <2>1. ASSUME NEW d \in Drafts, Validate(c, d)
        PROVE  \A v \in validations' : v.draft \in born'
    BY <1>0, <1>2, <2>1 DEF Validate, ValidateContent, CreatorIsAlone
  <2>2. QED
    BY <1>0, <1>2, <2>1, WhoWrites DEF CreatorIsAlone
<1>8. ASSUME NEW x \in Calls, pc'[x] = "put", NEW r \in req'[x]
      PROVE  /\ row'[r.draft] = NoRow
             /\ \A b \in Calls \ {x} : \A s \in req'[b] : s.draft # r.draft
             /\ \A k \in Keys : \A s \in asked'[k] : s.draft # r.draft
             /\ \A v \in validations' : v.draft # r.draft
             /\ Complete(r.draft)' => disk'[r.draft] = [f \in Files |-> Scaffold]
  <2>1. CASE x = c
    <3>1. PICK d \in Drafts : CreateFiles(c, d)
      <4>1. ~Finish(c) /\ ~Begins(c)
        BY <1>0, <1>8, <2>1, FinishEffect, BeginTypes
      <4>2. ~(UNCHANGED <<req, key>> /\ Moves(c))
        <5>1. SUFFICES ASSUME Moves(c) PROVE FALSE
          OBVIOUS
        <5>2. QED
          BY <1>0, <1>8, <2>1, <4>1, <5>1
          DEF Moves, Acquire, Checks, WriteFile, Revises, Revised, Looks, Reads, Judges,
              Verifies, PutDraft, PutAnswer, PutPlan, Goto, CoreTypes, Procs
      <4>3. ~(UNCHANGED <<req, key, pc, lock>> /\ Makes(c) /\ ~\E d \in Drafts : CreateFiles(c, d))
        <5>1. SUFFICES ASSUME pc' = pc, NEW d \in Drafts, Validate(c, d) PROVE FALSE
          BY DEF Makes
        <5>2. QED
          BY <1>8, <2>1, <5>1 DEF Validate, ValidateContent
      <4>4. QED
        BY <4>1, <4>2, <4>3, LocalsStay
    <3>2. r.draft = d /\ d \notin born
      BY <1>0, <1>8, <2>1, <3>1 DEF CreateFiles, CoreTypes
    <3>3. disk'[d] = [f \in Files |-> Scaffold]
      BY <1>0, <3>1 DEF CreateFiles, CoreTypes
    <3>4. QED
      BY <1>0, <1>1, <2>1, <3>1, <3>2, <3>3 DEF CreateFiles, CreatorIsAlone
  <2>2. CASE x # c
    <3>1. pc[x] = "put" /\ r \in req[x] /\ r.draft \in born
      BY <1>0, <1>1, <1>8, <2>2 DEF CreatorIsAlone
    <3>2. /\ row[r.draft] = NoRow
          /\ \A b \in Calls \ {x} : \A s \in req[b] : s.draft # r.draft
          /\ \A k \in Keys : \A s \in asked[k] : s.draft # r.draft
          /\ \A v \in validations : v.draft # r.draft
          /\ Complete(r.draft) => disk[r.draft] = [f \in Files |-> Scaffold]
      BY <1>0, <3>1 DEF CreatorIsAlone
    <3>3. pc[c] # "idle" => DraftOf(c) # r.draft /\ DraftOf(c) \in Drafts
                            /\ DraftOf(c) = TheRequest(c).draft
      BY <1>0, <2>2, <3>2, HasRequest DEF DraftOf
    <3>4. row'[r.draft] = NoRow
      <4>1. CASE PutDraft(c)
        BY <1>0, <3>2, <3>3, <4>1 DEF PutDraft, CoreTypes
      <4>2. CASE Revises(c)
        BY <1>0, <3>2, <3>3, <4>2 DEF Revises, CoreTypes
      <4>3. QED
        BY <3>2, <4>1, <4>2, WhoWrites
    <3>5. \A b \in Calls \ {x} : \A s \in req'[b] : s.draft # r.draft
      <4>1. \A s \in req'[c] : s.draft # r.draft
        <5>1. CASE Finish(c)
          BY <1>0, <5>1, FinishEffect
        <5>2. CASE req' = req
          BY <2>2, <3>2, <5>2
        <5>3. CASE Begins(c)
          BY <1>0, <3>2, <5>3, BeginsKnown
        <5>4. ASSUME NEW d \in Drafts, CreateFiles(c, d)
              PROVE  \A s \in req'[c] : s.draft # r.draft
          BY <1>0, <3>1, <5>4 DEF CreateFiles, CoreTypes
        <5>5. QED
          BY <5>1, <5>2, <5>3, <5>4, LocalsStay
      <4>2. QED
        BY <1>1, <3>2, <4>1
    <3>6. \A k \in Keys : \A s \in asked'[k] : s.draft # r.draft
      <4>1. CASE Begins(c)
        BY <1>0, <3>2, <4>1, BeginsKnown
      <4>2. QED
        BY <3>2, <4>1, WhoWrites DEF Begins
    <3>7. \A v \in validations' : v.draft # r.draft
      <4>1. ASSUME NEW d \in Drafts, Validate(c, d)
            PROVE  \A v \in validations' : v.draft # r.draft
        BY <3>2, <4>1 DEF Validate, ValidateContent
      <4>2. QED
        BY <3>2, <4>1, WhoWrites
    <3>8. disk'[r.draft] = disk[r.draft]
      <4>1. CASE WriteFile(c)
        BY <1>0, <3>3, <4>1 DEF WriteFile, CoreTypes
      <4>2. ASSUME NEW d \in Drafts, CreateFiles(c, d)
            PROVE  disk'[r.draft] = disk[r.draft]
        BY <1>0, <3>1, <4>2 DEF CreateFiles, CoreTypes
      <4>3. QED
        BY <4>1, <4>2, WhoWrites
    <3>9. QED
      BY <3>2, <3>4, <3>5, <3>6, <3>7, <3>8 DEF Complete
  <2>3. QED
    BY <2>1, <2>2
<1>9. QED
  BY <1>4, <1>5, <1>6, <1>7, <1>8 DEF CreatorIsAlone

-----------------------------------------------------------------------------
(* Writers and repairs.                                                    *)

\* A call at its row: the draft still has the revision it was asked for, and no repair
\* with its key has been made.
LEMMA ReviserBefore ==
  ASSUME Invariant, NEW c \in Calls, Revises(c)
  PROVE  \E r \in Request :
           /\ req[c] = {r} /\ DraftOf(c) = r.draft /\ r.draft \in Drafts
           /\ base[c].revision = r.revision /\ r.revision \in Revisions
           /\ row[r.draft] \in DraftRow /\ row[r.draft].revision = r.revision
           /\ r.revision + 1 \in Revisions
           /\ \A x \in Calls : c # x /\ pc[x] \in Locking => \E s \in req[x] : s.draft # r.draft
           /\ \A k \in key[c] : /\ k \in Keys /\ repairs[k] = <<>> /\ answers[k] = {}
                               /\ asked[k] = {r}
<1>0. /\ CoreTypes /\ RequestsAreWhole /\ OneWriter /\ WriterKnowsRow /\ RepairsMoveOn
      /\ RepairHappensOnce
  BY DEF Invariant
<1>1. pc[c] = "revise" /\ row[DraftOf(c)] # NoRow
  BY DEF Revises
<1>2. PICK r \in Request : /\ req[c] = {r} /\ DraftOf(c) = r.draft /\ r.draft \in Drafts
                           /\ r.revision \in Revisions
  BY <1>0, <1>1, HasRequest
<1>3. /\ base[c].revision = r.revision /\ row[r.draft] \in DraftRow
      /\ row[r.draft].revision = r.revision /\ r.revision + 1 \in Revisions
  BY <1>0, <1>1, <1>2, RowFacts DEF WriterKnowsRow, CoreTypes
<1>4. ASSUME NEW x \in Calls, c # x, pc[x] \in Locking
      PROVE  \E s \in req[x] : s.draft # r.draft
  BY <1>0, <1>1, <1>2, <1>4 DEF OneWriter, AtMostOne, Locking
<1>5. ASSUME NEW k \in key[c]
      PROVE  /\ k \in Keys /\ repairs[k] = <<>> /\ answers[k] = {} /\ asked[k] = {r}
  <2>1. k \in Keys /\ asked[k] = {r}
    BY <1>0, <1>2 DEF RequestsAreWhole, CoreTypes
  <2>2. repairs[k] = <<>>
    BY <1>0, <1>2, <1>3, <2>1, RowFacts DEF RepairsMoveOn
  <2>3. \A n \in answers[k] : repairs[k] = <<n>>
    BY <1>0, <2>1 DEF RepairHappensOnce
  <2>4. QED
    BY <2>1, <2>2, <2>3
<1>6. QED
  BY <1>2, <1>3, <1>4, <1>5

\* The row and the repairs after it.
LEMMA ReviserAfter ==
  ASSUME Invariant, NEW c \in Calls, Revises(c), NEW r \in Request,
         req[c] = {r}, DraftOf(c) = r.draft, r.draft \in Drafts, base[c].revision = r.revision
  PROVE  /\ row'[r.draft] = [revision |-> r.revision + 1, manifest |-> disk[r.draft]]
         /\ disk[r.draft] \in Manifest
         /\ \A d \in Drafts \ {r.draft} : row'[d] = row[d]
         /\ \A k \in Keys : repairs'[k] = IF k \in key[c] THEN <<r.revision + 1>> ELSE repairs[k]
<1>0. CoreTypes
  BY DEF Invariant
<1>1. /\ row' = [row EXCEPT ![r.draft] = [revision |-> r.revision + 1, manifest |-> disk[r.draft]]]
      /\ Complete(r.draft)
  BY DEF Revises
<1>2. disk[r.draft] \in Manifest
  BY <1>0, <1>1, TreeFacts DEF Complete, CoreTypes
<1>3. \A k \in Keys : repairs'[k] = IF k \in key[c] THEN <<r.revision + 1>> ELSE repairs[k]
  <2>1. CASE key[c] = {}
    BY <2>1 DEF Revises, Revised
  <2>2. CASE key[c] # {}
    <3>1. \A k \in key[c] : repairs[k] = <<>>
      BY ReviserBefore
    <3>2. repairs' = [k \in Keys |-> IF k \in key[c] THEN Append(repairs[k], base[c].revision + 1)
                                                    ELSE repairs[k]]
      BY <2>2 DEF Revises, Revised
    <3>3. Append(<<>>, r.revision + 1) = <<r.revision + 1>>
      OBVIOUS
    <3>4. QED
      BY <3>1, <3>2, <3>3
  <2>3. QED
    BY <2>1, <2>2
<1>4. QED
  BY <1>0, <1>1, <1>2, <1>3 DEF CoreTypes

\* Both: what the update or repair c does to the row of the draft of its request r.
RevisesAs(c, r) ==
  /\ req[c] = {r} /\ r.draft \in Drafts /\ r.revision \in Revisions
  /\ row[r.draft] \in DraftRow /\ row[r.draft].revision = r.revision
  /\ base[c].revision = r.revision
  /\ \A x \in Calls : c # x /\ pc[x] \in Locking => \E s \in req[x] : s.draft # r.draft
  /\ row'[r.draft] = [revision |-> r.revision + 1, manifest |-> disk[r.draft]]
  /\ disk[r.draft] \in Manifest
  /\ \A d \in Drafts \ {r.draft} : row'[d] = row[d]
  /\ \A k \in key[c] : /\ k \in Keys /\ repairs[k] = <<>> /\ answers[k] = {}
                      /\ asked[k] = {r} /\ repairs'[k] = <<r.revision + 1>>
  /\ \A k \in Keys \ key[c] : repairs'[k] = repairs[k]

LEMMA Reviser ==
  ASSUME Invariant, NEW c \in Calls, Revises(c)
  PROVE  \E r \in Request : RevisesAs(c, r)
<1>1. PICK r \in Request :
           /\ req[c] = {r} /\ DraftOf(c) = r.draft /\ r.draft \in Drafts
           /\ base[c].revision = r.revision /\ r.revision \in Revisions
           /\ row[r.draft] \in DraftRow /\ row[r.draft].revision = r.revision
           /\ \A x \in Calls : c # x /\ pc[x] \in Locking => \E s \in req[x] : s.draft # r.draft
           /\ \A k \in key[c] : /\ k \in Keys /\ repairs[k] = <<>> /\ answers[k] = {}
                               /\ asked[k] = {r}
  BY ReviserBefore
<1>2. /\ row'[r.draft] = [revision |-> r.revision + 1, manifest |-> disk[r.draft]]
      /\ disk[r.draft] \in Manifest
      /\ \A d \in Drafts \ {r.draft} : row'[d] = row[d]
      /\ \A k \in Keys : repairs'[k] = IF k \in key[c] THEN <<r.revision + 1>> ELSE repairs[k]
  BY <1>1, ReviserAfter
<1>3. RevisesAs(c, r)
  BY <1>1, <1>2 DEF RevisesAs
<1>4. QED
  BY <1>3

\* A creation makes the first row, of the files as they were scaffolded.
LEMMA CreatorEffect ==
  ASSUME Invariant, NEW c \in Calls, PutDraft(c)
  PROVE  \E r \in Request :
           /\ req[c] = {r} /\ DraftOf(c) = r.draft /\ r.draft \in Drafts /\ row[r.draft] = NoRow
           /\ row'[r.draft] = [revision |-> 1, manifest |-> [f \in Files |-> Scaffold]]
           /\ \A d \in Drafts \ {r.draft} : row'[d] = row[d]
           /\ \A b \in Calls \ {c} : \A s \in req[b] : s.draft # r.draft
           /\ \A k \in Keys : \A s \in asked[k] : s.draft # r.draft
           /\ \A v \in validations : v.draft # r.draft
           /\ Complete(r.draft) => disk[r.draft] = [f \in Files |-> Scaffold]
<1>0. CoreTypes /\ RequestsAreWhole /\ CreatorIsAlone /\ pc[c] = "put"
  BY DEF Invariant, PutDraft
<1>1. PICK r \in Request : req[c] = {r} /\ DraftOf(c) = r.draft /\ r.draft \in Drafts
  BY <1>0, HasRequest
<1>2. /\ row[r.draft] = NoRow
      /\ \A b \in Calls \ {c} : \A s \in req[b] : s.draft # r.draft
      /\ \A k \in Keys : \A s \in asked[k] : s.draft # r.draft
      /\ \A v \in validations : v.draft # r.draft
      /\ Complete(r.draft) => disk[r.draft] = [f \in Files |-> Scaffold]
  BY <1>0, <1>1 DEF CreatorIsAlone
<1>3. row' = [row EXCEPT ![r.draft] = [revision |-> 1, manifest |-> [f \in Files |-> Scaffold]]]
  BY <1>1 DEF PutDraft
<1>4. QED
  BY <1>0, <1>1, <1>2, <1>3 DEF CoreTypes

LEMMA WriterKept ==
  ASSUME Invariant, NEW c \in Calls, CallStep(c) \/ CrashCall(c)
  PROVE  WriterKnowsRow'
<1>0. /\ CoreTypes /\ CoreTypes' /\ RequestsAreWhole /\ RequestsAreWhole' /\ OneWriter
      /\ WriterKnowsRow /\ RepairsMoveOn /\ OthersStay(c) /\ CreatorIsAlone /\ CallTypes
  BY CallKeepsTypes, RequestsKept DEF Invariant, CoreTypes, CallTypes
<1>1. \A x \in Calls \ {c} : pc'[x] = pc[x] /\ req'[x] = req[x] /\ base'[x] = base[x]
                              /\ key'[x] = key[x]
  BY <1>0 DEF OthersStay, Procs
\* The others.
<1>2. ASSUME NEW x \in Calls \ {c}, NEW r \in req'[x], pc'[x] \in {"write", "revise"}
      PROVE  /\ base'[x].revision = r.revision
             /\ row'[r.draft] = NoRow \/ row'[r.draft].revision = r.revision
  <2>1. /\ base'[x].revision = r.revision /\ r \in req[x] /\ pc[x] \in {"write", "revise"}
        /\ row[r.draft] = NoRow \/ row[r.draft].revision = r.revision
    BY <1>0, <1>1, <1>2 DEF WriterKnowsRow
  <2>2. req[x] = {r} /\ r.draft \in Drafts
    BY <1>0, <2>1, HasRequest
  <2>3. row'[r.draft] = row[r.draft]
    <3>1. CASE PutDraft(c)
      BY <2>1, <2>2, <3>1, CreatorEffect
    <3>2. CASE Revises(c)
      <4>1. PICK s \in Request : RevisesAs(c, s)
        BY <3>2, Reviser
      <4>2. r.draft # s.draft
        BY <2>1, <2>2, <4>1 DEF Locking, RevisesAs
      <4>3. QED
        BY <2>2, <4>1, <4>2 DEF RevisesAs
    <3>3. QED
      BY <3>1, <3>2, WhoWrites
  <2>4. QED
    BY <2>1, <2>3
<1>3. ASSUME NEW x \in Calls \ {c}, pc'[x] = "answer", NEW k \in key'[x]
      PROVE  repairs'[k] = <<base'[x].revision + 1>>
  <2>1. repairs[k] = <<base[x].revision + 1>> /\ k \in key[x] /\ k \in Keys
    BY <1>0, <1>1, <1>3 DEF WriterKnowsRow, CoreTypes
  <2>2. repairs'[k] = repairs[k]
    <3>1. CASE Revises(c)
      <4>1. PICK s \in Request : RevisesAs(c, s)
        BY <3>1, Reviser
      <4>2. QED
        BY <2>1, <4>1 DEF RevisesAs
    <3>2. QED
      BY <3>1, WhoWrites
  <2>3. QED
    BY <1>1, <2>1, <2>2
\* The call itself.
<1>4. /\ \A r \in req'[c] :
           pc'[c] \in {"write", "revise"} =>
             /\ base'[c].revision = r.revision
             /\ row'[r.draft] = NoRow \/ row'[r.draft].revision = r.revision
      /\ pc'[c] \in {"revise", "answer"} => base'[c].revision \in 1..(MaxRevision - 1)
      /\ pc'[c] = "answer" => \A k \in key'[c] : repairs'[k] = <<base'[c].revision + 1>>
  <2>1. CASE pc'[c] \notin {"write", "revise", "answer"}
    BY <2>1
  <2>2. CASE Checks(c)
    <3>1. PICK r \in Request : req[c] = {r} /\ TheRequest(c) = r /\ r.draft \in Drafts
      BY <1>0, <2>2, HasRequest DEF Checks
    <3>2. /\ pc'[c] = "write" /\ req' = req /\ row' = row /\ base'[c] = row[r.draft]
          /\ row[r.draft].revision = r.revision
      BY <1>0, <2>2, <3>1 DEF Checks, Goto, CoreTypes, Procs, store
    <3>3. QED
      BY <3>1, <3>2
  <2>3. CASE WriteFile(c)
    <3>1. PICK r \in Request : req[c] = {r} /\ TheRequest(c) = r /\ r.draft \in Drafts
                              /\ r.revision \in Revisions
      BY <1>0, <2>3, HasRequest DEF WriteFile
    <3>2. /\ pc[c] = "write" /\ pc'[c] = "revise" /\ req' = req /\ row' = row /\ base' = base
          /\ base[c].revision < MaxRevision
      BY <1>0, <2>3 DEF WriteFile, Goto, CoreTypes, Procs, callVars
    <3>3. /\ base[c].revision = r.revision
          /\ row[r.draft] = NoRow \/ row[r.draft].revision = r.revision
      BY <1>0, <3>1, <3>2 DEF WriterKnowsRow
    <3>4. base[c].revision \in 1..(MaxRevision - 1)
      BY <3>1, <3>2, <3>3, DraftAssumption DEF Revisions
    <3>5. QED
      BY <3>1, <3>2, <3>3, <3>4
  <2>4. CASE Revises(c)
    <3>1. CASE key[c] = {}
      <4>1. pc'[c] = "idle"
        BY <1>0, <2>4, <3>1, FinishEffect DEF Revises, Revised
      <4>2. QED
        BY <2>1, <4>1
    <3>2. CASE key[c] # {}
      <4>1. pc'[c] = "answer" /\ UNCHANGED <<req, key, base>> /\ pc[c] = "revise"
        BY <1>0, <2>4, <3>2 DEF Revises, Revised, Goto, CoreTypes, Procs
      <4>2. PICK r \in Request : RevisesAs(c, r)
        BY <2>4, Reviser
      <4>3. base[c].revision = r.revision /\ \A k \in key[c] : repairs'[k] = <<r.revision + 1>>
        BY <4>2 DEF RevisesAs
      <4>4. base[c].revision \in 1..(MaxRevision - 1)
        BY <1>0, <4>1 DEF WriterKnowsRow
      <4>5. QED
        BY <4>1, <4>3, <4>4
    <3>3. QED
      BY <3>1, <3>2
  <2>5. Checks(c) \/ WriteFile(c) \/ Revises(c) \/ pc'[c] \notin {"write", "revise", "answer"}
    <3>1. CASE Finish(c)
      BY <1>0, <3>1, FinishEffect
    <3>2. CASE Moves(c) /\ ~Finish(c)
      BY <1>0, <3>2 DEF Moves, Acquire, Looks, Reads, Judges, Verifies, PutDraft, PutAnswer,
         PutPlan, Goto, CoreTypes, Procs
    <3>3. CASE Begins(c)
      BY <1>0, <3>3, BeginTypes
    <3>4. CASE Makes(c)
      BY <1>0, <3>4 DEF Makes, CreateFiles, Validate, ValidateContent, Goto, CoreTypes,
         Procs
    <3>5. QED
      BY <3>1, <3>2, <3>3, <3>4, StepOfCall DEF Ends
  <2>6. QED
    BY <2>1, <2>2, <2>3, <2>4, <2>5
<1>5. \A x \in Calls \ {c} : pc'[x] \in {"revise", "answer"} =>
                               base'[x].revision \in 1..(MaxRevision - 1)
  BY <1>0, <1>1 DEF WriterKnowsRow
<1>6. QED
  BY <1>2, <1>3, <1>4, <1>5 DEF WriterKnowsRow

LEMMA RepairsKept ==
  ASSUME Invariant, NEW c \in Calls, CallStep(c) \/ CrashCall(c)
  PROVE  RepairsMoveOn' /\ RepairHappensOnce'
<1>0. /\ CoreTypes /\ CoreTypes' /\ RequestsAreWhole /\ RequestsAreWhole' /\ WriterKnowsRow
      /\ RepairsMoveOn /\ RepairHappensOnce
  BY CallKeepsTypes, RequestsKept DEF Invariant
<1>1. ASSUME NEW k \in Keys, repairs'[k] # <<>>
      PROVE  \E r \in asked'[k] :
               /\ repairs'[k] = <<r.revision + 1>>
               /\ row'[r.draft] = NoRow \/ row'[r.draft].revision > r.revision
  <2>1. CASE Revises(c)
    <3>1. asked' = asked
      BY <2>1 DEF Revises
    <3>2. PICK s \in Request :
            /\ s.revision \in Revisions /\ row[s.draft].revision = s.revision
            /\ row'[s.draft] = [revision |-> s.revision + 1, manifest |-> disk[s.draft]]
            /\ \A d \in Drafts \ {s.draft} : row'[d] = row[d]
            /\ k \in key[c] => asked[k] = {s} /\ repairs'[k] = <<s.revision + 1>>
            /\ k \notin key[c] => repairs'[k] = repairs[k]
      <4>1. PICK s \in Request : RevisesAs(c, s)
        BY <2>1, Reviser
      <4>2. QED
        BY <4>1 DEF RevisesAs
    <3>3. row'[s.draft].revision = s.revision + 1
      BY <3>2
    <3>4. CASE k \in key[c]
      BY <3>1, <3>2, <3>3, <3>4, RowFacts
    <3>5. CASE k \notin key[c]
      <4>1. PICK r \in asked[k] : /\ repairs[k] = <<r.revision + 1>>
                                  /\ row[r.draft] = NoRow \/ row[r.draft].revision > r.revision
        BY <1>0, <1>1, <3>2, <3>5 DEF RepairsMoveOn
      <4>2. r.draft \in Drafts /\ r.revision \in Revisions
        BY <1>0 DEF CoreTypes, Request
      <4>3. CASE r.draft = s.draft
        <5>1. s.revision > r.revision
          BY <1>0, <3>2, <4>1, <4>2, <4>3, RowFacts DEF CoreTypes
        <5>2. s.revision + 1 > r.revision
          BY <3>2, <4>2, <5>1, RowFacts
        <5>3. QED
          BY <3>1, <3>2, <3>3, <3>5, <4>1, <4>3, <5>2
      <4>4. CASE r.draft # s.draft
        BY <3>1, <3>2, <3>5, <4>1, <4>2, <4>4
      <4>5. QED
        BY <4>3, <4>4
    <3>6. QED
      BY <3>4, <3>5
  <2>2. CASE ~Revises(c)
    <3>1. repairs' = repairs
      BY <2>2, WhoWrites
    <3>2. PICK r \in asked[k] : /\ repairs[k] = <<r.revision + 1>>
                                /\ row[r.draft] = NoRow \/ row[r.draft].revision > r.revision
      BY <1>0, <1>1, <3>1 DEF RepairsMoveOn
    <3>3. r.draft \in Drafts
      BY <1>0 DEF CoreTypes, Request
    <3>4. row'[r.draft] = row[r.draft]
      BY <2>2, <3>3, WhoWrites, CreatorEffect
    <3>5. r \in asked'[k]
      <4>1. ASSUME NEW j \in Keys, BeginRepair(c, j)
            PROVE  asked[k] \subseteq asked'[k]
        BY <1>0, <4>1 DEF BeginRepair, CoreTypes
      <4>2. QED
        BY <4>1, WhoWrites
    <3>6. QED
      BY <3>1, <3>2, <3>4, <3>5
  <2>3. QED
    BY <2>1, <2>2
<1>2. ASSUME NEW k \in Keys
      PROVE  Len(repairs'[k]) <= 1 /\ \A r \in answers'[k] : repairs'[k] = <<r>>
  <2>1. Len(repairs[k]) <= 1 /\ \A r \in answers[k] : repairs[k] = <<r>>
    BY <1>0 DEF RepairHappensOnce
  <2>2. CASE Revises(c)
    <3>1. answers' = answers
      BY <2>2 DEF Revises
    <3>2. CASE k \in key[c]
      <4>0. PICK s \in Request : RevisesAs(c, s)
        BY <2>2, Reviser
      <4>1. answers[k] = {} /\ repairs'[k] = <<s.revision + 1>>
        BY <3>2, <4>0 DEF RevisesAs
      <4>2. Len(<<s.revision + 1>>) = 1
        OBVIOUS
      <4>3. QED
        BY <3>1, <4>1, <4>2
    <3>3. CASE k \notin key[c]
      <4>1. repairs'[k] = repairs[k]
        <5>1. PICK s \in Request : RevisesAs(c, s)
          BY <2>2, Reviser
        <5>2. QED
          BY <3>3, <5>1 DEF RevisesAs
      <4>2. QED
        BY <2>1, <3>1, <4>1
    <3>4. QED
      BY <3>2, <3>3
  <2>3. CASE PutAnswer(c)
    <3>1. repairs' = repairs /\ pc[c] = "answer"
      BY <2>3 DEF PutAnswer
    <3>2. answers'[k] = IF k \in key[c] /\ answers[k] = {} THEN {base[c].revision + 1} ELSE answers[k]
      BY <2>3 DEF PutAnswer
    <3>3. k \in key[c] => repairs[k] = <<base[c].revision + 1>>
      BY <1>0, <3>1 DEF WriterKnowsRow
    <3>4. QED
      BY <2>1, <3>1, <3>2, <3>3
  <2>4. CASE ~Revises(c) /\ ~PutAnswer(c)
    BY <2>1, <2>4, WhoWrites
  <2>5. QED
    BY <2>2, <2>3, <2>4
<1>3. QED
  BY <1>1, <1>2 DEF RepairsMoveOn, RepairHappensOnce

-----------------------------------------------------------------------------
(* Validations, plans and files.                                           *)

ValidatesAs(d, v) ==
  /\ validations' = validations \cup {v} /\ v \in Validation
  /\ v.draft = d /\ v.revision = row[d].revision /\ v.manifest = disk[d]
  /\ v.passed = Passes(v.manifest)
  /\ lock[d] = {} /\ row[d] \in DraftRow /\ Complete(d)
  /\ row' = row /\ disk' = disk /\ lock' = lock /\ pc' = pc

LEMMA ValidationEffect ==
  ASSUME CoreTypes, NEW c \in Calls, NEW d \in Drafts, Validate(c, d)
  PROVE  \E v \in Validation : ValidatesAs(d, v)
<1> DEFINE v == [draft |-> d, revision |-> row[d].revision, manifest |-> disk[d],
                 passed |-> Passes(disk[d])]
<1>1. Passes(disk[d]) \in BOOLEAN
  BY DEF Passes
<1>2. row[d] \in DraftRow /\ disk[d] \in Manifest
  BY TreeFacts DEF Validate, ValidateContent, Complete, CoreTypes
<1>3. ValidatesAs(d, v)
  BY <1>1, <1>2, RowFacts DEF Validate, ValidateContent, Validation, ValidatesAs
<1>4. QED
  BY <1>3 DEF ValidatesAs

LEMMA TokensKept ==
  ASSUME Invariant, NEW c \in Calls, CallStep(c) \/ CrashCall(c)
  PROVE  TokensAreTrue' /\ PlannedContentWasValidated'
<1>0. /\ CoreTypes /\ CoreTypes' /\ RequestsAreWhole /\ TokensAreTrue /\ PlannedContentWasValidated
      /\ OthersStay(c) /\ CallTypes /\ CreatorIsAlone
  BY CallKeepsTypes DEF Invariant, CoreTypes, CallTypes
<1>1. /\ \A v \in validations' : v.passed = Passes(v.manifest)
      /\ validations \subseteq validations'
  <2>1. ASSUME NEW d \in Drafts, Validate(c, d)
        PROVE  /\ \A v \in validations' : v.passed = Passes(v.manifest)
               /\ validations \subseteq validations'
    <3>1. PICK v \in Validation : ValidatesAs(d, v)
      BY <1>0, <2>1, ValidationEffect
    <3>2. QED
      BY <1>0, <3>1 DEF TokensAreTrue, ValidatesAs
  <2>2. QED
    BY <1>0, <2>1, WhoWrites DEF TokensAreTrue
<1>2. ASSUME NEW x \in Calls \ {c}, pc'[x] = "plan", NEW r \in req'[x]
      PROVE  [draft |-> r.draft, revision |-> base'[x].revision,
              manifest |-> seen'[x], passed |-> TRUE] \in validations'
  BY <1>0, <1>1, <1>2 DEF OthersStay, TokensAreTrue, Procs
<1>3. ASSUME pc'[c] = "plan", NEW r \in req'[c]
      PROVE  [draft |-> r.draft, revision |-> base'[c].revision,
              manifest |-> seen'[c], passed |-> TRUE] \in validations'
  <2>1. CASE Verifies(c)
    <3>1. PICK s \in Request : req[c] = {s} /\ TheRequest(c) = s
      BY <1>0, <2>1, HasRequest DEF Verifies
    <3>2. r = s /\ base' = base /\ seen' = seen
      BY <1>3, <2>1, <3>1 DEF Verifies, callVars
    <3>3. PICK v \in s.tokens : /\ v.draft = s.draft /\ v.revision = base[c].revision
                                /\ v.manifest = seen[c] /\ v.passed
      BY <2>1, <3>1 DEF Verifies
    <3>4. v \in validations /\ v \in Validation
      BY <1>0, <3>1 DEF RequestsAreWhole, CoreTypes
    <3>5. v = [draft |-> s.draft, revision |-> base[c].revision, manifest |-> seen[c],
               passed |-> TRUE]
      BY <3>3, <3>4 DEF Validation
    <3>6. QED
      BY <1>1, <3>2, <3>4, <3>5
  <2>2. CASE ~Verifies(c)
    <3>1. pc'[c] # "plan"
      <4>1. CASE Finish(c)
        BY <1>0, <4>1, FinishEffect
      <4>2. CASE Moves(c) /\ ~Finish(c)
        <5>1. CASE Reads(c)
          BY <1>0, <5>1 DEF Reads, Goto, CoreTypes, Procs
        <5>2. CASE Revises(c)
          BY <1>0, <4>2, <5>2 DEF Revises, Revised, Goto, CoreTypes, Procs
        <5>3. CASE Acquire(c) \/ Checks(c) \/ WriteFile(c) \/ Looks(c) \/ Judges(c)
          BY <1>0, <5>3 DEF Acquire, Checks, WriteFile, Looks, Judges, Goto, CoreTypes, Procs
        <5>4. ~PutDraft(c) /\ ~PutAnswer(c) /\ ~PutPlan(c)
          BY <4>2 DEF PutDraft, PutAnswer, PutPlan
        <5>5. QED
          BY <2>2, <4>2, <5>1, <5>2, <5>3, <5>4 DEF Moves
      <4>3. CASE Begins(c)
        BY <1>0, <4>3, BeginTypes
      <4>4. CASE Makes(c)
        BY <1>0, <4>4 DEF Makes, CreateFiles, Validate, ValidateContent, Goto,
           CoreTypes, Procs
      <4>5. QED
        BY <4>1, <4>2, <4>3, <4>4, StepOfCall DEF Ends
    <3>2. QED
      BY <1>3, <3>1
  <2>3. QED
    BY <2>1, <2>2
<1>4. TokensAreTrue'
  BY <1>1, <1>2, <1>3 DEF TokensAreTrue, Passes
<1>5. ASSUME NEW p \in plans'
      PROVE  /\ Passes(p.manifest)
             /\ [draft |-> p.draft, revision |-> p.revision, manifest |-> p.manifest,
                 passed |-> TRUE] \in validations'
  <2>1. CASE p \in plans
    BY <1>0, <1>1, <2>1 DEF PlannedContentWasValidated
  <2>2. CASE PutPlan(c)
    <3>1. PICK s \in Request : req[c] = {s} /\ DraftOf(c) = s.draft
      BY <1>0, <2>2, HasRequest DEF PutPlan
    <3> DEFINE v == [draft |-> s.draft, revision |-> base[c].revision, manifest |-> seen[c],
                     passed |-> TRUE]
               q == [draft |-> s.draft, revision |-> base[c].revision, manifest |-> seen[c]]
    <3>2. v \in validations /\ plans' = plans \cup {q}
      BY <1>0, <2>2, <3>1 DEF PutPlan, TokensAreTrue
    <3>3. v.passed = TRUE /\ v.manifest = seen[c]
      OBVIOUS
    <3>4. Passes(seen[c])
      <4> HIDE DEF v
      <4>1. v.passed = Passes(v.manifest)
        BY <1>0, <3>2 DEF TokensAreTrue
      <4>2. QED
        BY <3>3, <4>1
    <3>5. CASE p = q
      BY <1>1, <3>2, <3>4, <3>5
    <3>6. QED
      BY <2>1, <3>2, <3>5
  <2>3. QED
    BY <2>1, <2>2, WhoWrites
<1>6. QED
  BY <1>4, <1>5 DEF PlannedContentWasValidated, Passes

\* The files of the rows.
FilesAreOfRows ==
  \A d \in Drafts :
    row[d] # NoRow /\ Complete(d) /\ (\A c \in lock[d] : pc[c] # "revise")
      => disk[d] = row[d].manifest

ValidatedIsOld ==
  \A v \in validations : row[v.draft] # NoRow =>
    \/ v.revision < row[v.draft].revision
    \/ v.revision = row[v.draft].revision /\ v.manifest = row[v.draft].manifest

LEMMA FilesByParts == FilesFollowRow <=> (faults = 0 => FilesAreOfRows /\ ValidatedIsOld)
BY DEF FilesFollowRow, FilesAreOfRows, ValidatedIsOld

\* Two validations of a revision agree.
Agree(S) == \A v, w \in S : v.draft = w.draft /\ v.revision = w.revision => v.manifest = w.manifest

\* The second half of RevisionNamesContent follows from the rest.
LEMMA PlansAreCurrent ==
  ASSUME NEW rows, NEW made, NEW p \in Plan,
         [draft |-> p.draft, revision |-> p.revision, manifest |-> p.manifest, passed |-> TRUE] \in made,
         \A v \in made : rows[v.draft] # NoRow =>
           \/ v.revision < rows[v.draft].revision
           \/ v.revision = rows[v.draft].revision /\ v.manifest = rows[v.draft].manifest,
         rows[p.draft].revision = p.revision
  PROVE  rows[p.draft].manifest = p.manifest
<1> DEFINE v == [draft |-> p.draft, revision |-> p.revision, manifest |-> p.manifest, passed |-> TRUE]
<1>1. v \in made
  OBVIOUS
<1>2. p.draft \in Drafts /\ p.revision \in Revisions
  BY DEF Plan
<1>3. rows[p.draft] # NoRow
  BY <1>2, RowFacts
<1>4. v.draft = p.draft /\ v.revision = p.revision /\ v.manifest = p.manifest
  OBVIOUS
<1> HIDE DEF v
<1>5. rows[v.draft] # NoRow =>
        \/ v.revision < rows[v.draft].revision
        \/ v.revision = rows[v.draft].revision /\ v.manifest = rows[v.draft].manifest
  BY <1>1
<1>6. QED
  BY <1>2, <1>3, <1>4, <1>5, RowFacts

LEMMA CallFaults ==
  ASSUME NEW c \in Calls, CallStep(c) \/ CrashCall(c), faults \in Nat, faults' = 0
  PROVE  faults = 0 /\ faults' = faults
<1>1. CASE CrashCall(c)
  BY <1>1 DEF CrashCall
<1>2. CASE CallStep(c)
  BY <1>2 DEF CallStep, CreateFiles, Validate, ValidateContent, BeginRepair, PutDraft,
     BeginUpdate, Acquire, CheckUpdate, WriteFile, ReviseRow, LookDraft, ReadFile, JudgeRepair,
     PutAnswer, BeginPrepare, VerifyToken, PutPlan
<1>3. QED
  BY <1>1, <1>2

LEMMA FilesKept ==
  ASSUME Invariant, NEW c \in Calls, CallStep(c) \/ CrashCall(c), faults' = 0
  PROVE  FilesAreOfRows' /\ ValidatedIsOld' /\ Agree(validations')
<1>0. /\ CoreTypes /\ CoreTypes' /\ RequestsAreWhole /\ OneWriter /\ CreatorIsAlone
      /\ OthersStay(c) /\ CallTypes
  BY CallKeepsTypes DEF Invariant, CoreTypes, CallTypes
<1>1. /\ faults' = faults
      /\ FilesAreOfRows /\ ValidatedIsOld /\ Agree(validations)
  BY <1>0, CallFaults, FilesByParts DEF Invariant, CoreTypes, RevisionNamesContent, Agree
<1>2. ValidatedIsOld' /\ Agree(validations')
  <2>1. ASSUME NEW d \in Drafts, Validate(c, d)
        PROVE  ValidatedIsOld' /\ Agree(validations')
    <3>1. PICK v \in Validation : ValidatesAs(d, v)
      BY <1>0, <2>1, ValidationEffect
    <3>2. v.manifest = row[d].manifest
      BY <1>1, <3>1, RowFacts DEF ValidatesAs, FilesAreOfRows
    <3>3. ValidatedIsOld'
      BY <1>1, <3>1, <3>2 DEF ValidatesAs, ValidatedIsOld
    <3>4. ASSUME NEW w \in validations, w.draft = d, w.revision = v.revision
          PROVE  w.manifest = v.manifest
      <4>1. row[d] # NoRow /\ row[d].revision \in Nat
        BY <3>1, RowFacts DEF ValidatesAs
      <4>2. \/ w.revision < row[d].revision
            \/ w.revision = row[d].revision /\ w.manifest = row[d].manifest
        BY <1>1, <3>4, <4>1 DEF ValidatedIsOld
      <4>3. QED
        BY <3>1, <3>2, <3>4, <4>1, <4>2 DEF ValidatesAs
    <3>5. Agree(validations')
      BY <1>1, <3>1, <3>4 DEF ValidatesAs, Agree
    <3>6. QED
      BY <3>3, <3>5
  <2>2. ASSUME validations' = validations
        PROVE  ValidatedIsOld' /\ Agree(validations')
    <3>1. ASSUME NEW v \in validations, row'[v.draft] # NoRow
          PROVE  \/ v.revision < row'[v.draft].revision
                 \/ v.revision = row'[v.draft].revision /\ v.manifest = row'[v.draft].manifest
      <4>0. v.draft \in Drafts /\ v.revision \in Nat
        BY <1>0, RowFacts DEF CoreTypes, Validation
      <4>1. CASE PutDraft(c)
        <5>1. row'[v.draft] = row[v.draft]
          BY <4>0, <4>1, CreatorEffect
        <5>2. QED
          BY <1>1, <3>1, <5>1 DEF ValidatedIsOld
      <4>2. CASE Revises(c)
        <5>1. PICK s \in Request : RevisesAs(c, s)
          BY <4>2, Reviser
        <5>2. CASE v.draft = s.draft
          <6>1. row[s.draft] # NoRow /\ row[s.draft].revision = s.revision /\ s.revision \in Nat
            BY <5>1, RowFacts DEF RevisesAs
          <6>2. v.revision <= s.revision
            BY <1>1, <4>0, <5>2, <6>1 DEF ValidatedIsOld
          <6>3. row'[s.draft].revision = s.revision + 1
            BY <5>1 DEF RevisesAs
          <6>4. QED
            BY <4>0, <5>2, <6>1, <6>2, <6>3
        <5>3. CASE v.draft # s.draft
          <6>1. row'[v.draft] = row[v.draft]
            BY <4>0, <5>1, <5>3 DEF RevisesAs
          <6>2. QED
            BY <1>1, <3>1, <6>1 DEF ValidatedIsOld
        <5>4. QED
          BY <5>2, <5>3
      <4>3. CASE row' = row
        BY <1>1, <3>1, <4>3 DEF ValidatedIsOld
      <4>4. QED
        BY <4>1, <4>2, <4>3, WhoWrites
    <3>2. QED
      BY <1>1, <2>2, <3>1 DEF ValidatedIsOld
  <2>3. QED
    BY <2>1, <2>2, WhoWrites
<1>3. ASSUME NEW d \in Drafts, row'[d] # NoRow, Complete(d)', \A b \in lock'[d] : pc'[b] # "revise"
      PROVE  disk'[d] = row'[d].manifest
  <2>1. \A b \in lock[d] : pc[b] = "revise" => b = c
    BY <1>0, <1>3 DEF OthersStay, CoreTypes, Procs
  <2>2. ASSUME row'[d] = row[d], disk'[d] = disk[d], pc[c] # "revise" \/ c \notin lock[d]
        PROVE  disk'[d] = row'[d].manifest
    BY <1>1, <1>3, <2>1, <2>2 DEF FilesAreOfRows, Complete
  <2>3. CASE WriteFile(c)
    <3>1. PICK s \in Request : req[c] = {s} /\ TheRequest(c) = s /\ s.draft \in Drafts
      BY <1>0, <2>3, HasRequest DEF WriteFile
    <3>2. /\ pc[c] = "write" /\ pc'[c] = "revise" /\ lock' = lock /\ row' = row
          /\ \A e \in Drafts \ {s.draft} : disk'[e] = disk[e]
      BY <1>0, <2>3, <3>1 DEF WriteFile, Goto, CoreTypes, Procs
    <3>3. c \in lock[s.draft]
      BY <1>0, <3>1, <3>2 DEF OneWriter, Locking
    <3>4. d # s.draft
      BY <1>3, <3>2, <3>3
    <3>5. QED
      BY <2>2, <3>2, <3>4
  <2>4. ASSUME NEW e \in Drafts, CreateFiles(c, e)
        PROVE  disk'[d] = row'[d].manifest
    <3>1. d # e
      BY <1>0, <1>3, <2>4 DEF CreateFiles, CreatorIsAlone
    <3>2. /\ disk'[d] = disk[d] /\ row' = row /\ pc[c] # "revise"
      BY <1>0, <2>4, <3>1 DEF CreateFiles, CoreTypes
    <3>3. QED
      BY <2>2, <3>2
  <2>5. CASE PutDraft(c)
    <3>1. PICK r \in Request :
            /\ row'[r.draft] = [revision |-> 1, manifest |-> [f \in Files |-> Scaffold]]
            /\ \A e \in Drafts \ {r.draft} : row'[e] = row[e]
            /\ Complete(r.draft) => disk[r.draft] = [f \in Files |-> Scaffold]
      BY <2>5, CreatorEffect
    <3>2. disk' = disk /\ pc[c] # "revise"
      BY <2>5 DEF PutDraft
    <3>3. QED
      BY <1>3, <2>2, <3>1, <3>2 DEF Complete
  <2>6. CASE Revises(c)
    <3>1. PICK s \in Request : RevisesAs(c, s)
      BY <2>6, Reviser
    <3>2. disk' = disk
      BY <2>6 DEF Revises
    <3>3. CASE d = s.draft
      BY <3>1, <3>2, <3>3 DEF RevisesAs
    <3>4. CASE d # s.draft
      <4>1. c \notin lock[d]
        BY <1>0, <3>1, <3>4 DEF RevisesAs, OneWriter
      <4>2. QED
        BY <2>2, <3>1, <3>2, <3>4, <4>1 DEF RevisesAs
    <3>5. QED
      BY <3>3, <3>4
  <2>7. CASE row' = row /\ disk' = disk
    <3>1. CASE pc[c] # "revise" \/ c \notin lock[d]
      BY <2>2, <2>7, <3>1
    <3>2. CASE pc[c] = "revise" /\ c \in lock[d]
      <4>1. DraftOf(c) = d
        BY <1>0, <3>2, HasRequest DEF OneWriter
      <4>2. ~Begins(c) /\ ~Makes(c)
        BY <3>2 DEF Begins, BeginUpdate, BeginPrepare, BeginRepair, Makes, CreateFiles, Validate,
           ValidateContent
      <4>3. Moves(c) => Revises(c)
        BY <3>2 DEF Moves, Acquire, Checks, WriteFile, Looks, Reads, Judges, Verifies, PutDraft,
           PutAnswer, PutPlan
      <4>4. CASE Ends(c)
        <5>1. ~Complete(d) \/ row[d] = NoRow
          BY <1>0, <1>1, <3>2, <4>1, <4>4 DEF Ends, CoreTypes
        <5>2. QED
          BY <1>3, <2>7, <5>1 DEF Complete
      <4>5. QED
        BY <2>6, <4>2, <4>3, <4>4, StepOfCall
    <3>3. QED
      BY <3>1, <3>2
  <2>8. QED
    BY <2>3, <2>4, <2>5, <2>6, <2>7, WhoWrites
<1>4. QED
  BY <1>2, <1>3 DEF FilesAreOfRows

LEMMA CallKeepsInvariant ==
  ASSUME Invariant, NEW c \in Calls, CallStep(c) \/ CrashCall(c)
  PROVE  Invariant'
<1>1. /\ CoreTypes' /\ RequestsAreWhole' /\ OneWriter' /\ WriterKnowsRow' /\ CreatorIsAlone'
      /\ RepairsMoveOn' /\ RepairHappensOnce' /\ TokensAreTrue' /\ PlannedContentWasValidated'
  BY CallKeepsTypes, RequestsKept, OneWriterKept, WriterKept, CreatorKept, RepairsKept, TokensKept
  DEF Invariant
<1>2. FilesFollowRow'
  BY FilesKept DEF FilesFollowRow, FilesAreOfRows, ValidatedIsOld
<1>3. RevisionNamesContent'
  <2>1. SUFFICES ASSUME faults' = 0 PROVE RevisionNamesContent'
    BY DEF RevisionNamesContent
  <2>2. ValidatedIsOld' /\ Agree(validations')
    BY <2>1, FilesKept
  <2>3. ASSUME NEW p \in plans', row'[p.draft].revision = p.revision
        PROVE  row'[p.draft].manifest = p.manifest
    <3>1. /\ p \in Plan
          /\ [draft |-> p.draft, revision |-> p.revision, manifest |-> p.manifest, passed |-> TRUE]
               \in validations'
      BY <1>1 DEF CoreTypes, PlannedContentWasValidated
    <3>2. \A v \in validations' : row'[v.draft] # NoRow =>
            \/ v.revision < row'[v.draft].revision
            \/ v.revision = row'[v.draft].revision /\ v.manifest = row'[v.draft].manifest
      BY <2>2 DEF ValidatedIsOld
    <3>3. QED
      BY <2>3, <3>1, <3>2, PlansAreCurrent
  <2>4. QED
    BY <2>2, <2>3 DEF RevisionNamesContent, Agree
<1>4. QED
  BY <1>1, <1>2, <1>3 DEF Invariant

-----------------------------------------------------------------------------
(* clean_drafts takes directories and rows, and nothing else.              *)

LEMMA CleanerEffect ==
  ASSUME CoreTypes, NEW k \in Cleaners, CleanStep(k) \/ CrashClean(k)
  PROVE  /\ UNCHANGED <<born, validations, plans, exposed, asked, answers, repairs, lock>>
         /\ UNCHANGED <<req, key, base, seen>>
         /\ Gather(k) \/ (UNCHANGED swept /\ pc[k] # "idle")
         /\ disk' \in [Drafts -> Trees] /\ row' \in [Drafts -> DraftRow \cup {NoRow}]
         /\ pc' \in [Procs -> Steps] /\ condemned' \in [Cleaners -> SUBSET Drafts]
         /\ \A p \in Procs \ {k} : pc'[p] = pc[p]
         /\ \A j \in Cleaners \ {k} : condemned'[j] = condemned[j]
         /\ \A d \in Drafts : disk'[d] = disk[d] \/ (disk'[d] = NoDirectory /\ d \in condemned[k])
         /\ \A d \in Drafts : row'[d] = row[d] \/ (row'[d] = NoRow /\ d \in condemned[k])
         /\ faults' \in 0..MaxFaults /\ (faults' = 0 => faults = 0)
<1> USE TreeFacts, DraftAssumption DEF CoreTypes, Goto, Procs, Steps, draftVars, callVars
<1>1. CASE Gather(k)
  BY <1>1 DEF Gather
<1>2. CASE ListDrafts(k)
  BY <1>2 DEF ListDrafts
<1>3. CASE RemoveDirectory(k)
  <2>1. PICK d \in condemned[k] : /\ disk' = [disk EXCEPT ![d] = NoDirectory]
                                  /\ condemned' = [condemned EXCEPT ![k] = {d}]
    BY <1>3 DEF RemoveDirectory
  <2>2. QED
    BY <1>3, <2>1 DEF RemoveDirectory
<1>4. CASE DeleteRow(k)
  BY <1>4 DEF DeleteRow
<1>5. CASE EndClean(k)
  BY <1>5 DEF EndClean
<1>6. CASE CrashClean(k)
  BY <1>6 DEF CrashClean
<1>7. QED
  BY <1>1, <1>2, <1>3, <1>4, <1>5, <1>6 DEF CleanStep

LEMMA CleanerKeepsInvariant ==
  ASSUME Invariant, NEW k \in Cleaners, CleanStep(k) \/ CrashClean(k)
  PROVE  Invariant'
<1>0. /\ CoreTypes /\ RequestsAreWhole /\ OneWriter /\ WriterKnowsRow /\ CreatorIsAlone
      /\ RepairsMoveOn /\ RepairHappensOnce /\ TokensAreTrue /\ PlannedContentWasValidated
      /\ FilesFollowRow /\ RevisionNamesContent
  BY DEF Invariant
<1>1. /\ UNCHANGED <<born, validations, plans, asked, answers, repairs, lock, req, key, base, seen>>
      /\ \A c \in Calls : pc'[c] = pc[c]
      /\ \A d \in Drafts : disk'[d] = disk[d] \/ ~Complete(d)'
      /\ \A d \in Drafts : row'[d] = row[d] \/ row'[d] = NoRow
      /\ faults' = 0 => faults = 0
  <2>1. \A c \in Calls : c \in Procs \ {k}
    BY DraftAssumption DEF Procs
  <2>2. \A d \in Drafts : disk'[d] = NoDirectory => ~Complete(d)'
    BY TreeFacts, FilesExist DEF Complete
  <2>3. QED
    BY <1>0, <2>1, <2>2, CleanerEffect DEF callVars
<1>2. CoreTypes'
  BY <1>0, CleanerEffect DEF CoreTypes, callVars
<1>3. RequestsAreWhole' /\ OneWriter'
  BY <1>0, <1>1 DEF RequestsAreWhole, OneWriter
<1>4. WriterKnowsRow'
  <2>1. \A c \in Calls : \A r \in req[c] : r.draft \in Drafts
    BY <1>0 DEF CoreTypes, Request
  <2>2. QED
    BY <1>0, <1>1, <2>1 DEF WriterKnowsRow
<1>5. CreatorIsAlone'
  <2>1. \A c \in Calls : \A r \in req[c] : r.draft \in Drafts
    BY <1>0 DEF CoreTypes, Request
  <2>2. \A d \in Drafts : row'[d] # NoRow => d \in born
    BY <1>0, <1>1 DEF CreatorIsAlone
  <2>3. ASSUME NEW c \in Calls, pc[c] = "put", NEW r \in req[c]
        PROVE  /\ row'[r.draft] = NoRow
               /\ Complete(r.draft)' => disk'[r.draft] = [f \in Files |-> Scaffold]
    BY <1>0, <1>1, <2>1, <2>3 DEF CreatorIsAlone, Complete
  <2>4. QED
    BY <1>0, <1>1, <2>2, <2>3 DEF CreatorIsAlone
<1>6. RepairsMoveOn' /\ RepairHappensOnce'
  <2>1. \A j \in Keys : \A r \in asked[j] : r.draft \in Drafts
    BY <1>0 DEF CoreTypes, Request
  <2>2. RepairsMoveOn'
    BY <1>0, <1>1, <2>1 DEF RepairsMoveOn
  <2>3. RepairHappensOnce'
    BY <1>0, <1>1 DEF RepairHappensOnce
  <2>4. QED
    BY <2>2, <2>3
<1>7. TokensAreTrue' /\ PlannedContentWasValidated'
  BY <1>0, <1>1 DEF TokensAreTrue, PlannedContentWasValidated, Passes
<1>8. ASSUME faults' = 0
      PROVE  FilesAreOfRows' /\ ValidatedIsOld'
  <2>1. FilesAreOfRows /\ ValidatedIsOld
    BY <1>0, <1>1, <1>8, FilesByParts
  <2>2. ASSUME NEW d \in Drafts, row'[d] # NoRow, Complete(d)', \A c \in lock'[d] : pc'[c] # "revise"
        PROVE  disk'[d] = row'[d].manifest
    <3>1. row'[d] = row[d] /\ disk'[d] = disk[d]
      BY <1>1, <2>2
    <3>2. \A c \in lock[d] : pc[c] # "revise"
      BY <1>0, <1>1, <2>2 DEF CoreTypes
    <3>3. QED
      BY <2>1, <2>2, <3>1, <3>2 DEF FilesAreOfRows, Complete
  <2>3. \A v \in validations : v.draft \in Drafts
    BY <1>0 DEF CoreTypes, Validation
  <2>4. ValidatedIsOld'
    BY <1>1, <2>1, <2>3 DEF ValidatedIsOld
  <2>5. QED
    BY <2>2, <2>4 DEF FilesAreOfRows
<1>9. FilesFollowRow'
  BY <1>8 DEF FilesFollowRow, FilesAreOfRows, ValidatedIsOld
<1>10. RevisionNamesContent'
  <2>1. ASSUME faults' = 0, NEW p \in plans, row'[p.draft].revision = p.revision
        PROVE  row'[p.draft].manifest = p.manifest
    <3>1. p.draft \in Drafts /\ p.revision \in Revisions
      BY <1>0 DEF CoreTypes, Plan
    <3>2. row'[p.draft] = row[p.draft]
      BY <1>1, <2>1, <3>1, RowFacts
    <3>3. QED
      BY <1>0, <1>1, <2>1, <3>2 DEF RevisionNamesContent
  <2>2. QED
    BY <1>0, <1>1, <2>1 DEF RevisionNamesContent
<1>11. QED
  BY <1>2, <1>3, <1>4, <1>5, <1>6, <1>7, <1>9, <1>10 DEF Invariant

-----------------------------------------------------------------------------
(* The theorems.                                                           *)

LEMMA InitInvariant == Init => Invariant
<1> SUFFICES ASSUME Init PROVE Invariant
  OBVIOUS
<1> USE DEF Init
<1>1. CoreTypes
  <2>1. <<>> \in Seq(Versions) /\ <<>> \in Seq(Revisions)
    OBVIOUS
  <2>2. QED
    BY <2>1, TreeFacts, DraftAssumption DEF CoreTypes, Procs, Steps
<1>2. RequestsAreWhole /\ OneWriter
  BY DEF RequestsAreWhole, OneWriter, AtMostOne, Procs, Locking
<1>3. WriterKnowsRow /\ CreatorIsAlone
  BY DEF WriterKnowsRow, CreatorIsAlone, Procs
<1>4. RepairsMoveOn /\ RepairHappensOnce
  BY DEF RepairsMoveOn, RepairHappensOnce
<1>5. TokensAreTrue /\ PlannedContentWasValidated
  BY DEF TokensAreTrue, PlannedContentWasValidated, Procs
<1>6. FilesFollowRow /\ RevisionNamesContent
  BY DEF FilesFollowRow, RevisionNamesContent
<1>7. QED
  BY <1>1, <1>2, <1>3, <1>4, <1>5, <1>6 DEF Invariant

LEMMA StutterKeeps == Invariant /\ UNCHANGED vars => Invariant'
<1> SUFFICES ASSUME Invariant, UNCHANGED vars PROVE Invariant'
  OBVIOUS
<1> USE DEF vars, draftVars, callVars, Invariant
<1>1. CoreTypes'
  BY DEF CoreTypes
<1>2. RequestsAreWhole' /\ OneWriter'
  BY DEF RequestsAreWhole, OneWriter
<1>3. WriterKnowsRow'
  BY DEF WriterKnowsRow
<1>4. CreatorIsAlone'
  BY DEF CreatorIsAlone, Complete
<1>5. RepairsMoveOn' /\ RepairHappensOnce'
  BY DEF RepairsMoveOn, RepairHappensOnce
<1>6. TokensAreTrue' /\ PlannedContentWasValidated'
  BY DEF TokensAreTrue, PlannedContentWasValidated, Passes
<1>7. FilesFollowRow' /\ RevisionNamesContent'
  BY DEF FilesFollowRow, RevisionNamesContent, Complete
<1>8. QED
  BY <1>1, <1>2, <1>3, <1>4, <1>5, <1>6, <1>7

\* Nothing the calls, clean_drafts and crashes do leaves Invariant.
LEMMA StepKeeps == ASSUME Invariant, [Next]_vars PROVE Invariant'
BY CallKeepsInvariant, CleanerKeepsInvariant, StutterKeeps DEF Next

LEMMA InvariantHolds == Spec => []Invariant
BY InitInvariant, StepKeeps, PTL DEF Spec

\* A plan freezes files that were validated and passed as one revision, for any number of
\* calls and crashes, although row and files are read without a lock (verify_validation,
\* drafts.py 303-324).
THEOREM PlannedCorrect == Spec => []PlannedContentWasValidated
<1>1. Invariant => PlannedContentWasValidated
  BY DEF Invariant
<1>2. QED
  BY InvariantHolds, <1>1, PTL

\* Without a crash a revision number names one content, for updates, repairs, validations and
\* clean_drafts in any order (update_draft_file, drafts.py 161-208).
THEOREM RevisionCorrect == Spec => []RevisionNamesContent
<1>1. Invariant => RevisionNamesContent
  BY DEF Invariant
<1>2. QED
  BY InvariantHolds, <1>1, PTL

\* A repair with one key is made once, whatever is repeated or dies (apply_strategy_repair, drafts.py
\* 210-256).
THEOREM RepairCorrect == Spec => []RepairHappensOnce
<1>1. Invariant => RepairHappensOnce
  BY DEF Invariant
<1>2. QED
  BY InvariantHolds, <1>1, PTL

-----------------------------------------------------------------------------
(* The drafts of plans, beside cleans.                                     *)

\* Calls only add rows and files.
LEMMA CallsOnlyAdd ==
  ASSUME Invariant, NEW c \in Calls, CallStep(c) \/ CrashCall(c), NEW d \in Drafts
  PROVE  /\ row[d] # NoRow => row'[d] # NoRow
         /\ DOMAIN disk[d] \subseteq DOMAIN disk'[d]
<1>0. /\ CoreTypes /\ CoreTypes' /\ RequestsAreWhole
  BY CallKeepsTypes DEF Invariant
<1>1. row[d] # NoRow => row'[d] # NoRow
  <2>1. CASE PutDraft(c)
    <3>1. PICK r \in Request : row[r.draft] = NoRow /\ \A e \in Drafts \ {r.draft} : row'[e] = row[e]
      BY <2>1, CreatorEffect
    <3>2. QED
      BY <3>1
  <2>2. CASE Revises(c)
    <3>1. PICK s \in Request : RevisesAs(c, s)
      BY <2>2, Reviser
    <3>2. row'[s.draft].revision = s.revision + 1 /\ s.revision \in Nat
      BY <3>1, RowFacts DEF RevisesAs
    <3>3. row'[s.draft] # NoRow
      BY <3>2, RowFacts
    <3>4. QED
      BY <3>1, <3>3 DEF RevisesAs
  <2>3. QED
    BY <2>1, <2>2, WhoWrites
<1>2. DOMAIN disk[d] \subseteq DOMAIN disk'[d]
  <2>1. CASE WriteFile(c)
    <3>1. PICK r \in Request : TheRequest(c) = r /\ r.draft \in Drafts
      BY <1>0, <2>1, HasRequest DEF WriteFile
    <3>2. disk' = [disk EXCEPT ![r.draft] =
                     [f \in DOMAIN disk[r.draft] \cup {r.file} |->
                        IF f = r.file THEN r.content ELSE disk[r.draft][f]]]
      BY <2>1, <3>1 DEF WriteFile
    <3>3. QED
      BY <1>0, <3>1, <3>2 DEF CoreTypes
  <2>2. ASSUME NEW e \in Drafts, CreateFiles(c, e)
        PROVE  DOMAIN disk[d] \subseteq DOMAIN disk'[d]
    <3>1. DOMAIN disk[d] \subseteq Files
      BY <1>0, TreeFacts DEF CoreTypes
    <3>2. disk'[d] = disk[d] \/ DOMAIN disk'[d] = Files
      BY <1>0, <2>2 DEF CreateFiles, CoreTypes
    <3>3. QED
      BY <3>1, <3>2
  <2>3. QED
    BY <2>1, <2>2, WhoWrites
<1>3. QED
  BY <1>1, <1>2

\* Only a call's own steps and the beginning of a clean change what is known of it.
LEMMA SweptEffect ==
  ASSUME NEW c \in Calls, CallStep(c) \/ CrashCall(c)
  PROVE  UNCHANGED swept \/ swept' = swept \cup {c} \/ swept' = swept \ {c}
<1>1. CASE Ends(c) \/ PutDraft(c) \/ PutAnswer(c) \/ PutPlan(c)
  BY <1>1 DEF Ends, PutDraft, PutAnswer, PutPlan, Finish
<1>2. CASE Begins(c)
  BY <1>2 DEF Begins, BeginUpdate, BeginPrepare, BeginRepair
<1>3. CASE Makes(c)
  BY <1>3 DEF Makes, CreateFiles, Validate, ValidateContent, callVars
<1>4. CASE Acquire(c) \/ CheckUpdate(c) \/ WriteFile(c) \/ ReviseRow(c)
  BY <1>4 DEF Acquire, CheckUpdate, WriteFile, ReviseRow, Revised, Finish, callVars
<1>5. CASE LookDraft(c) \/ ReadFile(c) \/ JudgeRepair(c) \/ VerifyToken(c)
  BY <1>5 DEF LookDraft, ReadFile, JudgeRepair, VerifyToken, Finish, callVars
<1>6. QED
  BY <1>1, <1>2, <1>3, <1>4, <1>5 DEF CallStep, CrashCall, Begins, Makes, Finish

\* Only the put of a plan changes plans and what is exposed of them.
LEMMA ExposedEffect ==
  ASSUME NEW c \in Calls, CallStep(c) \/ CrashCall(c)
  PROVE  PutPlan(c) \/ UNCHANGED <<plans, exposed>>
BY DEF CallStep, CrashCall, CreateFiles, Validate, ValidateContent, BeginRepair, PutDraft,
   BeginUpdate, Acquire, CheckUpdate, WriteFile, ReviseRow, LookDraft, ReadFile,
   JudgeRepair, PutAnswer, BeginPrepare, VerifyToken, draftVars

\* What a step of a call does to what it has read.
LEMMA ReadersKept ==
  ASSUME Invariant, ReadersKeepDraft, NEW c \in Calls, CallStep(c) \/ CrashCall(c)
  PROVE  ReadersKeepDraft'
<1>0. /\ CoreTypes /\ CoreTypes' /\ RequestsAreWhole /\ CreatorIsAlone /\ OthersStay(c) /\ CallTypes
  BY CallKeepsTypes DEF Invariant, CoreTypes, CallTypes
<1> DEFINE Kept(x) ==
      /\ pc'[x] \in {"idle", "look"} => seen'[x] = <<>>
      /\ pc'[x] \in {"files", "verify", "plan"} /\ x \notin swept' => ~Cleaning
      /\ pc'[x] \in {"files", "verify", "plan"} /\ x \notin swept' => \A r \in req'[x] :
           /\ row'[r.draft] # NoRow
           /\ 1..Len(seen'[x]) \subseteq DOMAIN disk'[r.draft]
           /\ pc'[x] \in {"verify", "plan"} => Len(seen'[x]) = N
<1>a. Cleaning' = Cleaning
  BY <1>0, DraftAssumption DEF OthersStay, Procs, Cleaning
<1>1. ASSUME NEW x \in Calls \ swept, pc[x] \in {"files", "verify", "plan"}, NEW r \in req[x]
      PROVE  /\ row'[r.draft] # NoRow
             /\ 1..Len(seen[x]) \subseteq DOMAIN disk'[r.draft]
             /\ pc[x] \in {"verify", "plan"} => Len(seen[x]) = N
  <2>1. r.draft \in Drafts
    BY <1>0 DEF CoreTypes, Request
  <2>2. QED
    BY <1>1, <2>1, CallsOnlyAdd DEF ReadersKeepDraft
<1>2. ASSUME NEW x \in Calls \ {c} PROVE Kept(x)
  <2>1. pc'[x] = pc[x] /\ req'[x] = req[x] /\ seen'[x] = seen[x]
    BY <1>0 DEF OthersStay, Procs
  <2>2. x \in swept' <=> x \in swept
    BY SweptEffect
  <2>3. QED
    BY <1>1, <2>1, <2>2 DEF ReadersKeepDraft
<1>3. Kept(c)
  <2>1. CASE Finish(c)
    BY <1>0, <2>1, FinishEffect DEF Finish, CoreTypes
  <2>2. CASE Looks(c)
    <3>1. PICK r \in Request : req[c] = {r} /\ DraftOf(c) = r.draft /\ r.draft \in Drafts
      BY <1>0, <2>2, HasRequest DEF Looks
    <3>2. /\ pc[c] = "look" /\ pc'[c] = "files" /\ seen' = seen /\ req' = req /\ row' = row
          /\ row[r.draft] # NoRow
      BY <1>0, <2>2, <3>1 DEF Looks, Goto, CoreTypes, Procs, store
    <3>3. seen[c] = <<>> /\ Len(<<>>) = 0
      BY <3>2 DEF ReadersKeepDraft
    <3>4. c \notin swept' => ~Cleaning
      BY <2>2 DEF Looks
    <3>5. QED
      BY <3>1, <3>2, <3>3, <3>4
  <2>3. CASE Reads(c)
    <3>1. PICK r \in Request : req[c] = {r} /\ DraftOf(c) = r.draft /\ r.draft \in Drafts
      BY <1>0, <2>3, HasRequest DEF Reads
    <3>2. /\ pc[c] = "files" /\ req' = req /\ disk' = disk /\ row' = row /\ swept' = swept
          /\ Len(seen[c]) + 1 \in DOMAIN disk[r.draft]
          /\ seen'[c] = Append(seen[c], disk[r.draft][Len(seen[c]) + 1])
          /\ pc'[c] = IF Len(seen[c]) + 1 < N THEN "files"
                      ELSE IF key[c] # {} THEN "judge" ELSE "verify"
      BY <1>0, <2>3, <3>1 DEF Reads, Goto, CoreTypes, Procs, store
    <3>3. /\ Len(seen[c]) + 1 \in Files /\ Len(seen[c]) \in Nat
          /\ disk[r.draft][Len(seen[c]) + 1] \in Versions
      BY <1>0, <3>1, <3>2, TreeFacts DEF CoreTypes
    <3>4. Len(seen'[c]) = Len(seen[c]) + 1
      BY <1>0, <3>2, <3>3, AppendProperties DEF CoreTypes
    <3>5. c \notin swept => /\ 1..Len(seen'[c]) \subseteq DOMAIN disk'[r.draft]
                            /\ row'[r.draft] # NoRow /\ ~Cleaning
      BY <3>1, <3>2, <3>3, <3>4 DEF ReadersKeepDraft
    <3>6. pc'[c] = "verify" => Len(seen'[c]) = N
      BY <3>2, <3>3, <3>4, DraftAssumption DEF Files
    <3>7. QED
      BY <3>1, <3>2, <3>5, <3>6
  <2>4. CASE Verifies(c)
    <3>1. /\ pc[c] = "verify" /\ pc'[c] = "plan" /\ seen' = seen /\ req' = req
          /\ swept' = swept
      BY <1>0, <2>4 DEF Verifies, Goto, CoreTypes, Procs, callVars
    <3>2. QED
      BY <1>1, <3>1 DEF ReadersKeepDraft
  <2>5. CASE Begins(c)
    <3>1. pc[c] = "idle" /\ pc'[c] \in {"acquire", "look"} /\ seen' = seen
      BY <1>0, <2>5, BeginTypes
    <3>2. QED
      BY <3>1 DEF ReadersKeepDraft
  <2>6. CASE Makes(c)
    <3>1. pc[c] = "idle" /\ seen' = seen /\ pc'[c] \in {"idle", "put"}
      BY <1>0, <2>6 DEF Makes, CreateFiles, Validate, ValidateContent, Goto, CoreTypes,
         Procs, callVars
    <3>2. QED
      BY <3>1 DEF ReadersKeepDraft
  <2>7. CASE Moves(c) /\ ~Finish(c) /\ ~Looks(c) /\ ~Reads(c) /\ ~Verifies(c)
    <3>1. ~PutDraft(c) /\ ~PutAnswer(c) /\ ~PutPlan(c)
      BY <2>7 DEF PutDraft, PutAnswer, PutPlan
    <3>2. Acquire(c) \/ Checks(c) \/ WriteFile(c) \/ Judges(c) \/ Revises(c)
      BY <2>7, <3>1 DEF Moves
    <3>3. CASE Revises(c)
      BY <1>0, <2>7, <3>3 DEF Revises, Revised, Goto, CoreTypes, Procs
    <3>4. CASE Acquire(c) \/ Checks(c) \/ WriteFile(c) \/ Judges(c)
      BY <1>0, <3>4 DEF Acquire, Checks, WriteFile, Judges, Goto, CoreTypes, Procs
    <3>5. QED
      BY <3>2, <3>3, <3>4
  <2>8. QED
    BY <2>1, <2>2, <2>3, <2>4, <2>5, <2>6, <2>7, StepOfCall DEF Ends
<1>4. QED
  BY <1>a, <1>2, <1>3 DEF ReadersKeepDraft

LEMMA PlansKept ==
  ASSUME Invariant, PlannedDraftStays, ReadersKeepDraft, PlansAreSpared,
         NEW c \in Calls, CallStep(c) \/ CrashCall(c)
  PROVE  PlannedDraftStays' /\ PlansAreSpared'
<1>0. /\ CoreTypes /\ CoreTypes' /\ RequestsAreWhole /\ OthersStay(c) /\ condemned' = condemned
  BY CallKeepsTypes, WhoWrites DEF Invariant
<1>1. \A k \in Cleaners : pc'[k] = pc[k]
  BY <1>0, DraftAssumption DEF OthersStay, Procs
<1>2. ASSUME NEW d \in Drafts, row[d] # NoRow, Complete(d)
      PROVE  row'[d] # NoRow /\ Complete(d)'
  <2>1. row'[d] # NoRow /\ DOMAIN disk[d] \subseteq DOMAIN disk'[d]
    BY <1>2, CallsOnlyAdd
  <2>2. DOMAIN disk'[d] \subseteq Files
    BY <1>0, TreeFacts DEF CoreTypes
  <2>3. QED
    BY <1>2, <2>1, <2>2 DEF Complete
<1>3. \A p \in plans \ exposed : row'[p.draft] # NoRow /\ Complete(p.draft)'
  BY <1>0, <1>2 DEF PlannedDraftStays, CoreTypes, Plan
<1>4. CASE PutPlan(c)
  <2>1. PICK r \in Request : req[c] = {r} /\ DraftOf(c) = r.draft /\ r.draft \in Drafts
    BY <1>0, <1>4, HasRequest DEF PutPlan
  <2> DEFINE new == [draft |-> r.draft, revision |-> base[c].revision, manifest |-> seen[c]]
  <2>2. /\ pc[c] = "plan" /\ plans' = plans \cup {new}
        /\ exposed' = IF c \in swept THEN exposed \cup ({new} \ plans) ELSE exposed \ {new}
    BY <1>4, <2>1 DEF PutPlan
  \* A plan that is not exposed was not before, or its call had no clean beside it.
  <2>3. \A p \in plans' \ exposed' : p \in plans \ exposed \/ (p = new /\ c \notin swept)
    BY <2>2
  <2>4. ASSUME c \notin swept
        PROVE  row[r.draft] # NoRow /\ Complete(r.draft) /\ ~Cleaning
    <3>1. /\ row[r.draft] # NoRow /\ 1..Len(seen[c]) \subseteq DOMAIN disk[r.draft]
          /\ Len(seen[c]) = N /\ ~Cleaning
      BY <2>1, <2>2, <2>4 DEF ReadersKeepDraft
    <3>2. DOMAIN disk[r.draft] \subseteq Files
      BY <1>0, <2>1, TreeFacts DEF CoreTypes
    <3>3. QED
      BY <3>1, <3>2 DEF Complete, Files
  <2>5. PlannedDraftStays'
    <3>1. new.draft = r.draft
      OBVIOUS
    <3>2. c \notin swept => row'[new.draft] # NoRow /\ Complete(new.draft)'
      BY <1>2, <2>1, <2>4, <3>1
    <3>3. QED
      BY <1>3, <2>3, <3>2 DEF PlannedDraftStays
  <2>6. c \notin swept => \A k \in Cleaners : condemned[k] = {}
    BY <2>4 DEF Cleaning, PlansAreSpared
  <2>7. QED
    BY <1>0, <1>1, <2>3, <2>5, <2>6 DEF PlansAreSpared
<1>5. CASE UNCHANGED <<plans, exposed>>
  BY <1>0, <1>1, <1>3, <1>5 DEF PlannedDraftStays, PlansAreSpared
<1>6. QED
  BY <1>4, <1>5, ExposedEffect

LEMMA CleanerKeepsPlans ==
  ASSUME Invariant, PlannedDraftStays, ReadersKeepDraft, PlansAreSpared,
         NEW k \in Cleaners, CleanStep(k) \/ CrashClean(k)
  PROVE  PlannedDraftStays' /\ ReadersKeepDraft' /\ PlansAreSpared'
<1>0. CoreTypes
  BY DEF Invariant
<1>1. /\ UNCHANGED <<plans, exposed, req, seen>>
      /\ Gather(k) \/ (UNCHANGED swept /\ pc[k] # "idle")
      /\ \A c \in Calls : pc'[c] = pc[c]
      /\ \A j \in Cleaners \ {k} : pc'[j] = pc[j] /\ condemned'[j] = condemned[j]
      /\ \A d \in Drafts \ condemned[k] : disk'[d] = disk[d] /\ row'[d] = row[d]
  BY <1>0, CleanerEffect, DraftAssumption DEF Procs
<1>2. \A p \in plans \ exposed : p.draft \in Drafts \ condemned[k]
  BY <1>0 DEF PlansAreSpared, CoreTypes, Plan
<1>3. PlannedDraftStays'
  BY <1>1, <1>2 DEF PlannedDraftStays, Complete
\* A call that has looked is swept.
<1>4. \A c \in Calls \ swept' : pc[c] \notin {"files", "verify", "plan"}
  <2>1. CASE Gather(k)
    BY <2>1 DEF Gather, HaveLooked
  <2>2. CASE UNCHANGED swept /\ pc[k] # "idle"
    BY <2>2 DEF ReadersKeepDraft, Cleaning
  <2>3. QED
    BY <1>1, <2>1, <2>2
<1>5. ReadersKeepDraft'
  BY <1>1, <1>4 DEF ReadersKeepDraft
<1>6. /\ pc'[k] = "idle" => condemned'[k] = {}
      /\ \A p \in plans \ exposed : p.draft \notin condemned'[k]
  <2> USE DEF CoreTypes, Goto, Procs
  <2>1. CASE Gather(k)
    BY <1>0, <2>1 DEF Gather
  <2>2. CASE ListDrafts(k)
    BY <1>0, <2>2 DEF ListDrafts, PlansAreSpared
  <2>3. CASE RemoveDirectory(k)
    BY <1>0, <2>3 DEF RemoveDirectory, PlansAreSpared
  <2>4. CASE DeleteRow(k) \/ EndClean(k) \/ CrashClean(k)
    BY <1>0, <2>4 DEF DeleteRow, EndClean, CrashClean
  <2>5. QED
    BY <2>1, <2>2, <2>3, <2>4 DEF CleanStep
<1>7. PlansAreSpared'
  BY <1>1, <1>6 DEF PlansAreSpared
<1>8. QED
  BY <1>3, <1>5, <1>7

\* The history variables have their types.
LEMMA HistoryTypes ==
  ASSUME TypeOK, CoreTypes', [Next]_vars
  PROVE  TypeOK'
<1>1. CASE \E c \in Calls : CallStep(c) \/ CrashCall(c)
  <2>1. PICK c \in Calls : CallStep(c) \/ CrashCall(c)
    BY <1>1
  <2>2. swept' \subseteq Calls
    BY <2>1, SweptEffect DEF TypeOK
  <2>3. exposed' \subseteq plans'
    BY <2>1, ExposedEffect DEF PutPlan, TypeOK
  <2>4. QED
    BY <2>2, <2>3 DEF TypeOK
<1>2. CASE \E k \in Cleaners : CleanStep(k) \/ CrashClean(k)
  BY <1>2, CleanerEffect DEF TypeOK, Gather, HaveLooked
<1>3. CASE UNCHANGED vars
  BY <1>3 DEF vars, draftVars, callVars, TypeOK
<1>4. QED
  BY <1>1, <1>2, <1>3 DEF Next

LEMMA PlanInvariantHolds == Spec => []PlanInvariant
<1>1. Init => PlanInvariant
  <2>1. SUFFICES ASSUME Init PROVE PlanInvariant
    OBVIOUS
  <2>2. PlannedDraftStays /\ ReadersKeepDraft /\ PlansAreSpared
    BY <2>1 DEF Init, PlannedDraftStays, ReadersKeepDraft, PlansAreSpared, Procs
  <2>3. Invariant /\ TypeOK
    BY <2>1, InitInvariant DEF Init, Invariant, TypeOK
  <2>4. QED
    BY <2>2, <2>3 DEF PlanInvariant
<1>2. PlanInvariant /\ [Next]_vars => PlanInvariant'
  <2>1. SUFFICES ASSUME PlanInvariant, [Next]_vars PROVE PlanInvariant'
    OBVIOUS
  <2>2. Invariant /\ TypeOK /\ PlannedDraftStays /\ ReadersKeepDraft /\ PlansAreSpared
    BY <2>1 DEF PlanInvariant
  <2>3. Invariant'
    BY <2>1, <2>2, StepKeeps
  <2>4. TypeOK'
    BY <2>1, <2>2, <2>3, HistoryTypes DEF Invariant
  <2>5. ASSUME NEW c \in Calls, CallStep(c) \/ CrashCall(c)
        PROVE  PlanInvariant'
    <3>1. ReadersKeepDraft'
      BY <2>2, <2>5, ReadersKept
    <3>2. PlannedDraftStays' /\ PlansAreSpared'
      BY <2>2, <2>5, PlansKept
    <3>3. QED
      BY <2>3, <2>4, <3>1, <3>2 DEF PlanInvariant
  <2>6. ASSUME NEW k \in Cleaners, CleanStep(k) \/ CrashClean(k)
        PROVE  PlanInvariant'
    <3>1. PlannedDraftStays' /\ ReadersKeepDraft' /\ PlansAreSpared'
      BY <2>2, <2>6, CleanerKeepsPlans
    <3>2. QED
      BY <2>3, <2>4, <3>1 DEF PlanInvariant
  <2>7. CASE UNCHANGED vars
    BY <2>2, <2>3, <2>4, <2>7
    DEF PlanInvariant, vars, draftVars, callVars, PlannedDraftStays, ReadersKeepDraft,
        PlansAreSpared, Complete, Cleaning
  <2>8. QED
    BY <2>1, <2>5, <2>6, <2>7 DEF Next
<1>3. QED
  BY <1>1, <1>2, PTL DEF Spec

\* The state of the drafts is always of the shape the code keeps (drafts.py 49-157).
THEOREM TypeCorrect == Spec => []TypeOK
<1>1. PlanInvariant => TypeOK
  BY DEF PlanInvariant
<1>2. QED
  BY <1>1, PlanInvariantHolds, PTL

\* The draft of a plan stays, row and files, whatever else is at work and dies of it,
\* unless a clean was at work beside the plan's preparation (drafts.py 326-360, jobs.py
\* 187-278).
THEOREM DraftStaysCorrect == Spec => []PlannedDraftStays
<1>1. PlanInvariant => PlannedDraftStays
  BY DEF PlanInvariant
<1>2. QED
  BY <1>1, PlanInvariantHolds, PTL
=============================================================================
