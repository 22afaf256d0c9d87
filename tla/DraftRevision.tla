---------------------------- MODULE DraftRevision ----------------------------
(***************************************************************************)
(* Drafts, their revisions and the validations bound to them (drafts.py).  *)
(* A draft is a directory of files and a row with the revision and the     *)
(* hashes of the files (the manifest); an update writes the file first and *)
(* the row afterwards, both under the draft's lock.  A validation token    *)
(* binds revision and manifest; preparing a run (jobs.py) checks it with   *)
(* no lock.  clean_drafts gathers the drafts in use, then deletes.         *)
(*                                                                         *)
(* A version stands for its own hash.  Left out: files nobody may edit,    *)
(* the expiry of tokens, and the checks of the analysis (Passes).          *)
(***************************************************************************)
EXTENDS Naturals, Sequences, FiniteSets

CONSTANTS Drafts,
          N,          \* files of a draft, read in the order 1..N
          Versions,   \* what a file can hold
          Bad,        \* versions the validation refuses
          Scaffold,   \* the version a new draft's files hold
          Keys,       \* idempotency keys of apply_strategy_repair
          Calls,      \* concurrent calls
          Cleaners,   \* concurrent runs of clean_drafts
          MaxRevision, MaxFaults

ASSUME DraftAssumption ==
  /\ N \in Nat \ {0} /\ MaxRevision \in Nat \ {0} /\ MaxFaults \in Nat
  /\ Bad \subseteq Versions /\ Scaffold \in Versions
  /\ Calls \cap Cleaners = {}

Files == 1..N
Revisions == 1..MaxRevision
Manifest == [Files -> Versions]
Trees == UNION {[S -> Versions] : S \in SUBSET Files}
NoDirectory == [f \in {} |-> Scaffold]
NoRow == [revision |-> 0, manifest |-> <<>>]
DraftRow == [revision : Revisions, manifest : Manifest]
Validation == [draft : Drafts, revision : Revisions, manifest : Manifest, passed : BOOLEAN]
Plan == [draft : Drafts, revision : Revisions, manifest : Manifest]
Request == [draft : Drafts, file : Files, content : Versions, revision : Revisions,
            hash : Versions, tokens : SUBSET Validation]
Passes(manifest) == \A f \in Files : manifest[f] \notin Bad

VARIABLES
  born,        \* drafts made so far: an id is never used again
  disk,        \* the files of each draft's directory; no file, no directory
  row,         \* the row of each draft, or NoRow
  validations, \* validations made; the token of one is the validation itself
  plans,       \* plans put
  asked,       \* the request each key was used for: a set of at most one
  answers,     \* the revisions put as the answer for each key
  repairs,     \* history: the revisions made for each key
  lock,        \* per draft: the calls that hold its lock
  pc,          \* statement of each call and cleaner
  req,         \* per call: its request, a set of at most one
  key,         \* per call: the idempotency keys it uses
  base,        \* per call: the row it has read
  seen,        \* per call: the files it has read
  condemned,   \* per cleaner: drafts still to be deleted
  faults,
  swept,       \* history: calls that had a clean at work since they looked at their draft
  exposed      \* history: plans put by such a call, and by no other

draftVars == <<born, disk, row, validations, plans, exposed, asked, answers, repairs, lock>>
callVars == <<req, key, base, seen, swept>>
vars == <<draftVars, pc, callVars, condemned, faults>>

Procs == Calls \cup Cleaners
Steps == {"idle", "put", "look", "files", "verify", "plan", "judge", "acquire", "check",
          "write", "revise", "answer", "list", "delete", "row"}

CoreTypes ==
  /\ born \subseteq Drafts
  /\ disk \in [Drafts -> Trees]
  /\ row \in [Drafts -> DraftRow \cup {NoRow}]
  /\ validations \subseteq Validation
  /\ plans \subseteq Plan
  /\ asked \in [Keys -> SUBSET Request]
  /\ answers \in [Keys -> SUBSET Revisions]
  /\ repairs \in [Keys -> Seq(Revisions)]
  /\ lock \in [Drafts -> SUBSET Calls]
  /\ pc \in [Procs -> Steps]
  /\ req \in [Calls -> SUBSET Request]
  /\ key \in [Calls -> SUBSET Keys]
  /\ base \in [Calls -> DraftRow \cup {NoRow}]
  /\ seen \in [Calls -> Seq(Versions)]
  /\ condemned \in [Cleaners -> SUBSET Drafts]
  /\ faults \in 0..MaxFaults

TypeOK == CoreTypes /\ swept \subseteq Calls /\ exposed \subseteq plans

Init ==
  /\ born = {}
  /\ disk = [d \in Drafts |-> NoDirectory]
  /\ row = [d \in Drafts |-> NoRow]
  /\ validations = {} /\ plans = {}
  /\ asked = [k \in Keys |-> {}]
  /\ answers = [k \in Keys |-> {}]
  /\ repairs = [k \in Keys |-> <<>>]
  /\ lock = [d \in Drafts |-> {}]
  /\ pc = [p \in Procs |-> "idle"]
  /\ req = [c \in Calls |-> {}]
  /\ key = [c \in Calls |-> {}]
  /\ base = [c \in Calls |-> NoRow]
  /\ seen = [c \in Calls |-> <<>>]
  /\ condemned = [k \in Cleaners |-> {}]
  /\ faults = 0
  /\ swept = {} /\ exposed = {}

Goto(p, s) == pc' = [pc EXCEPT ![p] = s]
TheRequest(c) == CHOOSE r \in req[c] : TRUE
DraftOf(c) == TheRequest(c).draft
Complete(d) == DOMAIN disk[d] = Files

\* A clean is at work, and the calls that have looked at a draft when one begins.
Cleaning == \E k \in Cleaners : pc[k] # "idle"
HaveLooked == {c \in Calls : pc[c] \in {"files", "verify", "plan"}}

\* A call returns or raises, or its process dies: locals and locks are gone.
Finish(c) ==
  /\ Goto(c, "idle")
  /\ req' = [req EXCEPT ![c] = {}]
  /\ key' = [key EXCEPT ![c] = {}]
  /\ base' = [base EXCEPT ![c] = NoRow]
  /\ seen' = [seen EXCEPT ![c] = <<>>]
  /\ lock' = [d \in Drafts |-> lock[d] \ {c}]
  /\ swept' = swept \ {c}

-----------------------------------------------------------------------------
(* create_draft.                                                           *)

CreateFiles(c, d) ==
  /\ pc[c] = "idle"
  /\ d \notin born
  /\ born' = born \cup {d}
  /\ disk' = [disk EXCEPT ![d] = [f \in Files |-> Scaffold]]
  /\ req' = [req EXCEPT ![c] = {[draft |-> d, file |-> 1, content |-> Scaffold,
                                 revision |-> 1, hash |-> Scaffold, tokens |-> {}]}]
  /\ Goto(c, "put")
  /\ UNCHANGED <<row, validations, plans, exposed, asked, answers, repairs, lock,
                 key, base, seen, swept, condemned, faults>>

PutDraft(c) ==
  LET d == DraftOf(c) IN
  /\ pc[c] = "put"
  /\ row' = [row EXCEPT ![d] = [revision |-> 1, manifest |-> [f \in Files |-> Scaffold]]]
  /\ Finish(c)
  /\ UNCHANGED <<born, disk, validations, plans, exposed, asked, answers, repairs,
                 condemned, faults>>

-----------------------------------------------------------------------------
(* update_draft_file, on its own and as the last part of a repair.         *)

\* What a client can know: drafts there are, and the revisions they have had.
Known == {d \in Drafts : row[d] # NoRow}
Requests(tokens) ==
  [draft : Known, file : Files, content : Versions, revision : Revisions,
   hash : Versions, tokens : tokens]

\* The call waits for the lock, with what it was given and has read nothing.
BeginUpdate(c) ==
  /\ pc[c] = "idle"
  /\ \E r \in Requests({{}}) :
       r.content # r.hash /\ r.revision <= row[r.draft].revision /\ req' = [req EXCEPT ![c] = {r}]
  /\ Goto(c, "acquire")
  /\ UNCHANGED <<draftVars, key, base, seen, swept, condemned, faults>>

Acquire(c) ==
  LET d == DraftOf(c) IN
  /\ pc[c] = "acquire"
  /\ lock[d] = {}
  /\ lock' = [lock EXCEPT ![d] = {c}]
  /\ Goto(c, "check")
  /\ UNCHANGED <<born, disk, row, validations, plans, exposed, asked, answers,
                 repairs, callVars, condemned, faults>>

\* Mutation: what is expected is not compared under the lock.
CheckUpdateUnchecked(c) ==
  /\ pc[c] = "check"
  /\ base' = [base EXCEPT ![c] = row[DraftOf(c)]]
  /\ Goto(c, "write")
  /\ UNCHANGED <<draftVars, req, key, seen, swept, condemned, faults>>

CheckUpdate(c) ==
  LET r == TheRequest(c) IN
  /\ pc[c] = "check"
  /\ IF /\ row[r.draft].revision = r.revision
        /\ r.file \in DOMAIN disk[r.draft] /\ disk[r.draft][r.file] = r.hash
       THEN /\ base' = [base EXCEPT ![c] = row[r.draft]]
            /\ Goto(c, "write")
            /\ UNCHANGED <<req, key, seen, swept, lock>>
       ELSE Finish(c)
  /\ UNCHANGED <<born, disk, row, validations, plans, exposed, asked, answers,
                 repairs, condemned, faults>>

\* atomic_write makes the directory again when it is gone.
WriteFile(c) ==
  LET r == TheRequest(c)
      old == disk[r.draft]
  IN
  /\ pc[c] = "write"
  /\ base[c].revision < MaxRevision
  /\ disk' = [disk EXCEPT ![r.draft] =
                [f \in DOMAIN old \cup {r.file} |->
                   IF f = r.file THEN r.content ELSE old[f]]]
  /\ Goto(c, "revise")
  /\ UNCHANGED <<born, row, validations, plans, exposed, asked, answers, repairs,
                 lock, callVars, condemned, faults>>

\* The call returns, or the repair goes on without the lock.
Revised(c) ==
  IF key[c] = {}
    THEN Finish(c) /\ UNCHANGED repairs
    ELSE /\ repairs' = [k \in Keys |-> IF k \in key[c]
                                         THEN Append(repairs[k], base[c].revision + 1)
                                         ELSE repairs[k]]
         /\ lock' = [lock EXCEPT ![DraftOf(c)] = {}]
         /\ Goto(c, "answer")
         /\ UNCHANGED <<req, key, base, seen, swept>>

ReviseRow(c) ==
  LET d == DraftOf(c) IN
  /\ pc[c] = "revise"
  /\ IF Complete(d) /\ row[d] # NoRow
       THEN /\ row' = [row EXCEPT ![d] =
                         [revision |-> base[c].revision + 1, manifest |-> disk[d]]]
            /\ Revised(c)
       ELSE Finish(c) /\ UNCHANGED <<born, row, repairs>>
  /\ UNCHANGED <<born, disk, validations, plans, exposed, asked, answers, condemned,
                 faults>>

-----------------------------------------------------------------------------
(* get_draft, outside the lock: the row, then one file after the other.    *)

LookDraft(c) ==
  LET d == DraftOf(c) IN
  /\ pc[c] = "look"
  /\ IF row[d] # NoRow
       THEN /\ base' = [base EXCEPT ![c] = row[d]]
            /\ swept' = IF Cleaning THEN swept \cup {c} ELSE swept \ {c}
            /\ Goto(c, "files")
            /\ UNCHANGED <<req, key, seen, lock>>
       ELSE Finish(c)
  /\ UNCHANGED <<born, disk, row, validations, plans, exposed, asked, answers,
                 repairs, condemned, faults>>

\* A repair goes on with a judgement of its validation, a prepare with its token.
ReadFile(c) ==
  LET d == DraftOf(c)
      f == Len(seen[c]) + 1
  IN
  /\ pc[c] = "files"
  /\ IF f \in DOMAIN disk[d]
       THEN /\ seen' = [seen EXCEPT ![c] = Append(@, disk[d][f])]
            /\ Goto(c, IF f < N THEN "files" ELSE IF key[c] # {} THEN "judge" ELSE "verify")
            /\ UNCHANGED <<req, key, base, swept, lock>>
       ELSE Finish(c)
  /\ UNCHANGED <<born, disk, row, validations, plans, exposed, asked, answers,
                 repairs, condemned, faults>>

-----------------------------------------------------------------------------
(* apply_strategy_repair.                                                  *)

\* idempotent_get: a known answer is returned, a key used for another request refused;
\* a client repeats a request with the key it has used for it.
BeginRepair(c, k) ==
  /\ pc[c] = "idle"
  /\ answers[k] = {}
  /\ \E v \in validations, r \in Requests({{w} : w \in validations}) :
       /\ r.tokens = {v} /\ r.content # r.hash /\ r.revision <= row[r.draft].revision
       /\ asked[k] \subseteq {r}
       /\ asked' = [asked EXCEPT ![k] = {r}]
       /\ req' = [req EXCEPT ![c] = {r}]
  /\ key' = [key EXCEPT ![c] = {k}]
  /\ Goto(c, "look")
  /\ UNCHANGED <<born, disk, row, validations, plans, exposed, answers, repairs, lock, base,
                 seen, swept, condemned, faults>>

JudgeRepair(c) ==
  LET r == TheRequest(c) IN
  /\ pc[c] = "judge"
  /\ IF \E v \in r.tokens : /\ v.draft = r.draft /\ v.revision = r.revision
                            \* the artifact hash: revision and files
                            /\ v.revision = base[c].revision /\ v.manifest = seen[c]
       THEN Goto(c, "acquire") /\ UNCHANGED <<callVars, lock>>
       ELSE Finish(c)
  /\ UNCHANGED <<born, disk, row, validations, plans, exposed, asked, answers,
                 repairs, condemned, faults>>

\* idempotent_put: the second of two answers is refused.
PutAnswer(c) ==
  /\ pc[c] = "answer"
  /\ answers' = [k \in Keys |-> IF k \in key[c] /\ answers[k] = {}
                                  THEN {base[c].revision + 1} ELSE answers[k]]
  /\ Finish(c)
  /\ UNCHANGED <<born, disk, row, validations, plans, exposed, asked, repairs,
                 condemned, faults>>

-----------------------------------------------------------------------------
(* validate_draft.                                                         *)

ValidateContent(c, d) ==
  /\ pc[c] = "idle"
  /\ row[d] # NoRow /\ Complete(d)
  /\ validations' = validations \cup {[draft |-> d, revision |-> row[d].revision,
                                       manifest |-> disk[d], passed |-> Passes(disk[d])]}
  /\ UNCHANGED <<born, disk, row, plans, exposed, asked, answers, repairs, lock, pc,
                 callVars, condemned, faults>>

\* Mutation: a draft is validated without its lock.
ValidateUnlocked(c, d) == ValidateContent(c, d)

\* All of it under the lock: one step, at the put of the row.
Validate(c, d) == lock[d] = {} /\ ValidateContent(c, d)

-----------------------------------------------------------------------------
(* prepare_strategy_run, as far as it is about the draft.                  *)

BeginPrepare(c) ==
  /\ pc[c] = "idle"
  /\ \E v \in validations, d \in Known :
       req' = [req EXCEPT ![c] = {[draft |-> d, file |-> 1, content |-> Scaffold,
                                   revision |-> v.revision, hash |-> Scaffold, tokens |-> {v}]}]
  /\ Goto(c, "look")
  /\ UNCHANGED <<draftVars, key, base, seen, swept, condemned, faults>>

\* Mutation: the token is compared with the revision alone.
VerifyRevisionOnly(c) ==
  LET r == TheRequest(c) IN
  /\ pc[c] = "verify"
  /\ IF \E v \in r.tokens : v.draft = r.draft /\ v.revision = base[c].revision /\ v.passed
       THEN Goto(c, "plan") /\ UNCHANGED <<callVars, lock>>
       ELSE Finish(c)
  /\ UNCHANGED <<born, disk, row, validations, plans, exposed, asked, answers,
                 repairs, condemned, faults>>

\* verify_validation
VerifyToken(c) ==
  LET r == TheRequest(c) IN
  /\ pc[c] = "verify"
  /\ IF \E v \in r.tokens : /\ v.draft = r.draft /\ v.revision = base[c].revision
                            /\ v.manifest = seen[c] /\ v.passed
       THEN Goto(c, "plan") /\ UNCHANGED <<callVars, lock>>
       ELSE Finish(c)
  /\ UNCHANGED <<born, disk, row, validations, plans, exposed, asked, answers,
                 repairs, condemned, faults>>

PutPlan(c) ==
  LET p == [draft |-> DraftOf(c), revision |-> base[c].revision, manifest |-> seen[c]] IN
  /\ pc[c] = "plan"
  /\ plans' = plans \cup {p}
  /\ exposed' = IF c \in swept THEN exposed \cup ({p} \ plans) ELSE exposed \ {p}
  /\ Finish(c)
  /\ UNCHANGED <<born, disk, row, validations, asked, answers, repairs, condemned,
                 faults>>

-----------------------------------------------------------------------------
(* clean_drafts.                                                           *)

\* Mutation: plans do not count as references.
GatherNothing(k) ==
  /\ pc[k] = "idle"
  /\ condemned' = [condemned EXCEPT ![k] = Drafts]
  /\ swept' = swept \cup HaveLooked
  /\ Goto(k, "list")
  /\ UNCHANGED <<draftVars, req, key, base, seen, faults>>

\* A job's draft is its plan's.
Gather(k) ==
  /\ pc[k] = "idle"
  /\ condemned' = [condemned EXCEPT ![k] = Drafts \ {p.draft : p \in plans}]
  /\ swept' = swept \cup HaveLooked
  /\ Goto(k, "list")
  /\ UNCHANGED <<draftVars, req, key, base, seen, faults>>

\* The drafts there are, and of them those made before the cutoff, whatever it is.
ListDrafts(k) ==
  /\ pc[k] = "list"
  /\ \E expired \in SUBSET {d \in condemned[k] : row[d] # NoRow} :
       condemned' = [condemned EXCEPT ![k] = expired]
  /\ Goto(k, "delete")
  /\ UNCHANGED <<draftVars, callVars, faults>>

RemoveDirectory(k) ==
  /\ pc[k] = "delete"
  /\ \E d \in condemned[k] :
       /\ disk' = [disk EXCEPT ![d] = NoDirectory]
       /\ condemned' = [condemned EXCEPT ![k] = {d}]
  /\ Goto(k, "row")
  /\ UNCHANGED <<born, row, validations, plans, exposed, asked, answers, repairs,
                 lock, callVars, faults>>

DeleteRow(k) ==
  /\ pc[k] = "row"
  /\ row' = [d \in Drafts |-> IF d \in condemned[k] THEN NoRow ELSE row[d]]
  /\ condemned' = [condemned EXCEPT ![k] = {}]
  /\ Goto(k, "idle")
  /\ UNCHANGED <<born, disk, validations, plans, exposed, asked, answers, repairs,
                 lock, callVars, faults>>

EndClean(k) ==
  /\ pc[k] = "delete" /\ condemned[k] = {}
  /\ Goto(k, "idle")
  /\ UNCHANGED <<draftVars, callVars, condemned, faults>>

-----------------------------------------------------------------------------
CrashCall(c) ==
  /\ pc[c] # "idle"
  /\ faults < MaxFaults
  /\ faults' = faults + 1
  /\ Finish(c)
  /\ UNCHANGED <<born, disk, row, validations, plans, exposed, asked, answers,
                 repairs, condemned>>

CrashClean(k) ==
  /\ pc[k] # "idle"
  /\ faults < MaxFaults
  /\ faults' = faults + 1
  /\ condemned' = [condemned EXCEPT ![k] = {}]
  /\ Goto(k, "idle")
  /\ UNCHANGED <<draftVars, callVars>>

CallStep(c) ==
  \/ \E d \in Drafts : CreateFiles(c, d) \/ Validate(c, d)
  \/ \E k \in Keys : BeginRepair(c, k)
  \/ PutDraft(c) \/ BeginUpdate(c) \/ Acquire(c) \/ CheckUpdate(c) \/ WriteFile(c)
  \/ ReviseRow(c) \/ LookDraft(c) \/ ReadFile(c) \/ JudgeRepair(c) \/ PutAnswer(c)
  \/ BeginPrepare(c) \/ VerifyToken(c) \/ PutPlan(c)

CleanStep(k) ==
  Gather(k) \/ ListDrafts(k) \/ RemoveDirectory(k) \/ DeleteRow(k) \/ EndClean(k)

Next ==
  \/ \E c \in Calls : CallStep(c) \/ CrashCall(c)
  \/ \E k \in Cleaners : CleanStep(k) \/ CrashClean(k)

Spec == Init /\ [][Next]_vars

-----------------------------------------------------------------------------
(* Properties.                                                             *)

\* What a plan freezes was validated and passed, as one revision with these very
\* files, although verify_validation reads row and files with no lock, and also
\* after an update that died between file and row.
PlannedContentWasValidated ==
  \A p \in plans :
    /\ Passes(p.manifest)
    /\ [draft |-> p.draft, revision |-> p.revision, manifest |-> p.manifest, passed |-> TRUE]
         \in validations

\* Two validations of one revision saw the same files: without a crash a revision
\* number names one content, so the worker's check of the row's manifest
\* (worker.py 361-370) accepts the draft of a plan that is still current.
RevisionNamesContent ==
  faults = 0 =>
    /\ \A v, w \in validations : v.draft = w.draft /\ v.revision = w.revision
                                   => v.manifest = w.manifest
    /\ \A p \in plans : row[p.draft].revision = p.revision => row[p.draft].manifest = p.manifest

\* One idempotency key makes at most one revision, the answer kept for it names that
\* revision, however often and however concurrently the repair is repeated.
RepairHappensOnce ==
  \A k \in Keys :
    /\ Len(repairs[k]) <= 1
    /\ \A r \in answers[k] : repairs[k] = <<r>>

\* The draft of a plan stays, row and files, whatever cleans, updates and other
\* preparations do beside each other or die of (drafts.py 335-360).  The code does not
\* keep this for a plan whose preparation had a clean beside it, from its look at the
\* draft to the put of the plan: that clean may have gathered the plans before this one
\* was there, and delete the draft before or after it is (jobs.py 187-278).
PlannedDraftStays == \A p \in plans \ exposed : row[p.draft] # NoRow /\ Complete(p.draft)
=============================================================================
