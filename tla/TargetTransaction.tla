-------------------------- MODULE TargetTransaction --------------------------
(***************************************************************************)
(* apply_strategy_changes on one target directory, and the recovery every  *)
(* process runs when it starts (changes.py 200-335, service.py 45-49).     *)
(*                                                                         *)
(* One step is one call that touches the file system or the database; the  *)
(* existence tests a branch rests on are one step of their own.  A         *)
(* directory holds the original tree "old", the tree of a change (the      *)
(* change itself stands for it), a "partial" one (being copied or being    *)
(* removed) or is "absent".  The lock change:{id} admits one call per      *)
(* change, so a change is also the process that applies it; nothing keeps  *)
(* two changes, or a call and a recovery, apart.  A directory removed by   *)
(* rmtree is partial before it is absent.                                  *)
(***************************************************************************)
EXTENDS Naturals

CONSTANTS
  Changes,      \* change sets for this target
  Recoverers,   \* processes that start and call recover_transactions
  MaxFaults     \* bound: calls that raise, or processes that die, half-way

Procs == Changes \cup Recoverers
Trees == {"old"} \cup Changes
Dirs == Trees \cup {"absent", "partial"}
Phases == {"staged", "backup_moved", "applied"}

ASSUME TransactionAssumption ==
  /\ MaxFaults \in Nat
  /\ Changes \cap Recoverers = {}
  /\ {"old", "absent", "partial", "none"} \cap Procs = {}

VARIABLES
  target,    \* the managed directory
  stage,     \* .backtrader-mcp-{change}.stage
  backup,    \* .backtrader-mcp-{change}.backup
  journal,   \* transactions/{change}.json: its phase
  status,    \* the change row: none, prepared, applied
  preimage,  \* the change row: the tree it was prepared against
  burned,    \* changes whose token nonce is used
  pc,        \* the next statement of each process
  todo,      \* the journals a recovery has listed and not been through
  seen,      \* the journal a recovery has read: change and phase
  crashed,   \* the process that serves calls has died and is not up again
  faults,
  beside,    \* history: changes whose apply has had another process at work beside it
  mixed      \* history: an apply or a recovery began while another process was at work,
             \* or an apply upon the journal another change had left, or a change was
             \* prepared on a target that was moved aside

dirVars == <<target, stage, backup, journal>>
rowVars == <<status, preimage, burned>>
history == <<beside, mixed>>
vars == <<target, stage, backup, journal, status, preimage, burned, pc, todo, seen,
          crashed, faults, beside, mixed>>

ApplySteps == {"checkTarget", "makeStage", "copyDraft", "journalStaged", "testTarget",
               "moveTarget", "journalMoved", "promote", "journalApplied", "dropBackup",
               "emptyBackup", "unlink", "burnNonce", "markApplied", "undo", "undoStage",
               "undoEmpty"}
RecoverSteps == {"next", "look", "restore", "restoreOnly", "dropStage", "emptyStage",
                 "promote", "dropBackup", "emptyBackup", "unlink"}
Journals == [change : Changes, phase : Phases]
NothingSeen == [change |-> "none", phase |-> "none"]

TypeOK ==
  /\ target \in Dirs
  /\ stage \in [Changes -> {"absent", "partial", "full"}]
  /\ backup \in [Changes -> Dirs]
  /\ journal \in [Changes -> Phases \cup {"none"}]
  /\ status \in [Changes -> {"none", "prepared", "applied"}]
  /\ preimage \in [Changes -> Dirs \cup {"none"}]
  /\ burned \in SUBSET Changes
  /\ pc \in [Procs -> ApplySteps \cup RecoverSteps \cup {"idle"}]
  /\ todo \in [Recoverers -> SUBSET Changes]
  /\ seen \in [Recoverers -> Journals \cup {NothingSeen}]
  /\ crashed \in BOOLEAN
  /\ faults \in 0..MaxFaults
  /\ beside \in SUBSET Changes
  /\ mixed \in BOOLEAN

Init ==
  /\ target \in {"old", "absent"}
  /\ stage = [c \in Changes |-> "absent"]
  /\ backup = [c \in Changes |-> "absent"]
  /\ journal = [c \in Changes |-> "none"]
  /\ status = [c \in Changes |-> "none"]
  /\ preimage = [c \in Changes |-> "none"]
  /\ burned = {}
  /\ pc = [p \in Procs |-> "idle"]
  /\ todo = [r \in Recoverers |-> {}]
  /\ seen = [r \in Recoverers |-> NothingSeen]
  /\ crashed = FALSE
  /\ faults = 0
  /\ beside = {}
  /\ mixed = FALSE

Goto(p, step) == pc' = [pc EXCEPT ![p] = step]
AtWork == {p \in Procs : pc[p] # "idle"}

\* The tree a reader is entitled to: the target, or while it is away the tree that
\* was moved aside, by the change whose stage is to take its place.
Parked == {c \in Changes : backup[c] # "absent"}
Swapping == {c \in Parked : stage[c] # "absent"}
Visible ==
  IF target # "absent" \/ Parked = {} THEN target
    ELSE backup[CHOOSE c \in Parked : Swapping # {} => c \in Swapping]

\* What the history keeps when a call or a recovery goes to work.
Enter(p) ==
  /\ pc[p] = "idle"
  /\ beside' = IF AtWork = {} THEN beside \ {p}
                 ELSE beside \cup ((AtWork \cup {p}) \cap Changes)

-----------------------------------------------------------------------------
(* The change set.                                                         *)

\* prepare_strategy_changes: the caller's preimage hashes are those of the target.
PrepareChange(c) ==
  /\ status[c] = "none"
  /\ status' = [status EXCEPT ![c] = "prepared"]
  /\ preimage' = [preimage EXCEPT ![c] = target]
  /\ mixed' = (mixed \/ target # Visible)
  /\ UNCHANGED <<dirVars, burned, pc, todo, seen, crashed, faults, beside>>

\* apply_strategy_changes with a token and an approval; a change that is applied
\* is a Conflict (or the recorded answer), without effect.
BeginApply(c) ==
  /\ Enter(c)
  /\ status[c] = "prepared"
  /\ Goto(c, "checkTarget")
  /\ mixed' = (mixed \/ AtWork # {} \/ \E d \in Changes \ {c} : journal[d] # "none")
  /\ UNCHANGED <<dirVars, rowVars, todo, seen, crashed, faults>>

\* Mutation: the target is not compared again when the change is applied.
CheckTargetSkipped(c) ==
  /\ pc[c] = "checkTarget"
  /\ Goto(c, "makeStage")
  /\ UNCHANGED <<dirVars, rowVars, todo, seen, crashed, faults, history>>

\* "target changed after prepare", or the approval is consumed.
CheckTarget(c) ==
  /\ pc[c] = "checkTarget"
  /\ Goto(c, IF target = preimage[c] THEN "makeStage" ELSE "idle")
  /\ UNCHANGED <<dirVars, rowVars, todo, seen, crashed, faults, history>>

\* _replace_tree: "an unfinished target transaction already exists", or mkdir.
MakeStage(c) ==
  LET leftovers == stage[c] # "absent" \/ backup[c] # "absent" \/ journal[c] # "none"
  IN /\ pc[c] = "makeStage"
     /\ Goto(c, IF leftovers THEN "idle" ELSE "copyDraft")
     /\ stage' = IF leftovers THEN stage ELSE [stage EXCEPT ![c] = "partial"]
     /\ UNCHANGED <<target, backup, journal, rowVars, todo, seen, crashed, faults, history>>

\* The draft's files are copied and the stage is synced.
CopyDraft(c) ==
  /\ pc[c] = "copyDraft"
  /\ stage' = [stage EXCEPT ![c] = "full"]
  /\ Goto(c, "journalStaged")
  /\ UNCHANGED <<target, backup, journal, rowVars, todo, seen, crashed, faults, history>>

WriteJournal(c, step, phase, next) ==
  /\ pc[c] = step
  /\ journal' = [journal EXCEPT ![c] = phase]
  /\ Goto(c, next)
  /\ UNCHANGED <<target, stage, backup, rowVars, todo, seen, crashed, faults, history>>

JournalStaged(c) == WriteJournal(c, "journalStaged", "staged", "testTarget")
JournalMoved(c) == WriteJournal(c, "journalMoved", "backup_moved", "promote")
JournalApplied(c) == WriteJournal(c, "journalApplied", "applied", "dropBackup")

TestTarget(c) ==
  /\ pc[c] = "testTarget"
  /\ Goto(c, IF target # "absent" THEN "moveTarget" ELSE "promote")
  /\ UNCHANGED <<dirVars, rowVars, todo, seen, crashed, faults, history>>

\* os.replace(target, backup) raises when the target has gone meanwhile.
MoveTarget(c) ==
  /\ pc[c] = "moveTarget"
  /\ IF target = "absent"
       THEN Goto(c, "undo") /\ UNCHANGED <<target, backup>>
       ELSE /\ Goto(c, "journalMoved")
            /\ backup' = [backup EXCEPT ![c] = target]
            /\ target' = "absent"
  /\ UNCHANGED <<stage, journal, rowVars, todo, seen, crashed, faults, history>>

\* os.replace(stage, target) raises when there is no stage, or when the target is
\* a directory again.  A stage that is being removed moves with what is left.
MoveStage(c) ==
  /\ target' = IF stage[c] = "full" THEN c ELSE "partial"
  /\ stage' = [stage EXCEPT ![c] = "absent"]
CanMoveStage(c) == stage[c] # "absent" /\ target = "absent"

PromoteStage(c) ==
  /\ pc[c] = "promote"
  /\ IF CanMoveStage(c)
       THEN Goto(c, "journalApplied") /\ MoveStage(c)
       ELSE Goto(c, "undo") /\ UNCHANGED <<target, stage>>
  /\ UNCHANGED <<backup, journal, rowVars, todo, seen, crashed, faults, history>>

\* rmtree: nothing when there is no directory; else it is emptied, and then
\* removed, which raises when it has been renamed meanwhile.
Remove(dir, p, c, empty, next) ==
  IF dir[c] = "absent"
    THEN Goto(p, next) /\ UNCHANGED dir
    ELSE Goto(p, empty) /\ dir' = [dir EXCEPT ![c] = "partial"]
RemoveEmpty(dir, p, c, next, raised) ==
  /\ Goto(p, IF dir[c] = "absent" THEN raised ELSE next)
  /\ dir' = [dir EXCEPT ![c] = "absent"]

DropBackup(c) ==
  /\ \/ pc[c] = "dropBackup" /\ Remove(backup, c, c, "emptyBackup", "unlink")
     \/ pc[c] = "emptyBackup" /\ RemoveEmpty(backup, c, c, "unlink", "undo")
  /\ UNCHANGED <<target, stage, journal, rowVars, todo, seen, crashed, faults, history>>

\* journal.unlink() raises when a recovery has removed the journal.
UnlinkJournal(c) ==
  /\ pc[c] = "unlink"
  /\ Goto(c, IF journal[c] = "none" THEN "undo" ELSE "burnNonce")
  /\ journal' = [journal EXCEPT ![c] = "none"]
  /\ UNCHANGED <<target, stage, backup, rowVars, todo, seen, crashed, faults, history>>

\* signer.consume, after the persistent result exists.
BurnNonce(c) ==
  /\ pc[c] = "burnNonce"
  /\ burned' = burned \cup {c}
  /\ Goto(c, IF c \in burned THEN "idle" ELSE "markApplied")
  /\ UNCHANGED <<dirVars, status, preimage, todo, seen, crashed, faults, history>>

\* mark_applied, and the response recorded for the key.
MarkApplied(c) ==
  /\ pc[c] = "markApplied"
  /\ status' = [status EXCEPT ![c] = "applied"]
  /\ Goto(c, "idle")
  /\ UNCHANGED <<dirVars, preimage, burned, todo, seen, crashed, faults, history>>

\* The except clause: the backup goes back when the target is missing, and the
\* stage is removed.  The journal stays.
Undo(c) ==
  /\ pc[c] = "undo"
  /\ IF target = "absent" /\ backup[c] # "absent"
       THEN target' = backup[c] /\ backup' = [backup EXCEPT ![c] = "absent"]
       ELSE UNCHANGED <<target, backup>>
  /\ Goto(c, "undoStage")
  /\ UNCHANGED <<stage, journal, rowVars, todo, seen, crashed, faults, history>>

\* Mutation: the except clause does not raise again.
UndoStageSwallows(c) ==
  /\ \/ pc[c] = "undoStage" /\ Remove(stage, c, c, "undoEmpty", "burnNonce")
     \/ pc[c] = "undoEmpty" /\ RemoveEmpty(stage, c, c, "burnNonce", "idle")
  /\ UNCHANGED <<target, backup, journal, rowVars, todo, seen, crashed, faults, history>>

UndoStage(c) ==
  /\ \/ pc[c] = "undoStage" /\ Remove(stage, c, c, "undoEmpty", "idle")
     \/ pc[c] = "undoEmpty" /\ RemoveEmpty(stage, c, c, "idle", "idle")
  /\ UNCHANGED <<target, backup, journal, rowVars, todo, seen, crashed, faults, history>>

ReplaceTree(c) ==
  \/ MakeStage(c) \/ CopyDraft(c) \/ JournalStaged(c) \/ TestTarget(c) \/ MoveTarget(c)
  \/ JournalMoved(c) \/ PromoteStage(c) \/ JournalApplied(c) \/ DropBackup(c)
  \/ UnlinkJournal(c) \/ Undo(c) \/ UndoStage(c)

-----------------------------------------------------------------------------
(* recover_transactions: for each journal, by its phase.                   *)

\* The constructor of a process lists the journals.
BeginRecovery(r) ==
  /\ Enter(r)
  /\ todo' = [todo EXCEPT ![r] = {c \in Changes : journal[c] # "none"}]
  /\ Goto(r, "next")
  /\ mixed' = (mixed \/ AtWork # {})
  /\ UNCHANGED <<dirVars, rowVars, seen, crashed, faults>>

\* An exception leaves the constructor: the process does not come up.
Abandon(r) ==
  /\ Goto(r, "idle")
  /\ todo' = [todo EXCEPT ![r] = {}]
  /\ seen' = [seen EXCEPT ![r] = NothingSeen]

\* The next journal is read, which raises when it has been removed meanwhile.
ReadJournal(r, c) ==
  /\ pc[r] = "next" /\ c \in todo[r]
  /\ IF journal[c] = "none"
       THEN Abandon(r)
       ELSE /\ Goto(r, "look")
            /\ todo' = [todo EXCEPT ![r] = @ \ {c}]
            /\ seen' = [seen EXCEPT ![r] = [change |-> c, phase |-> journal[c]]]
  /\ UNCHANGED <<dirVars, rowVars, crashed, faults, history>>

\* Mutation: a swap that is complete but for its backup is taken for finished.
BranchKeepsBackup(phase, c) ==
  CASE phase = "staged" ->
         IF target = "absent" /\ backup[c] # "absent" THEN "restore" ELSE "dropStage"
    [] phase = "backup_moved" -> IF target # "absent" THEN "unlink" ELSE "promote"
    [] phase = "applied" -> "dropBackup"

\* Mutation: a stage that is left is promoted, whether or not the target is away.
BranchStageFirst(phase, c) ==
  CASE phase = "staged" ->
         IF target = "absent" /\ backup[c] # "absent" THEN "restore" ELSE "dropStage"
    [] phase = "backup_moved" -> IF stage[c] # "absent" THEN "promote" ELSE "dropBackup"
    [] phase = "applied" -> "dropBackup"

Branch(phase, c) ==
  CASE phase = "staged" ->
         IF target = "absent" /\ backup[c] # "absent" THEN "restore" ELSE "dropStage"
    [] phase = "backup_moved" ->
         (CASE target # "absent" -> "dropBackup"
            [] target = "absent" /\ stage[c] # "absent" -> "promote"
            [] target = "absent" /\ stage[c] = "absent" /\ backup[c] # "absent" ->
                 "restoreOnly"
            [] OTHER -> "unlink")
    [] phase = "applied" -> "dropBackup"

Look(r) ==
  /\ pc[r] = "look"
  /\ Goto(r, Branch(seen[r].phase, seen[r].change))
  /\ UNCHANGED <<dirVars, rowVars, todo, seen, crashed, faults, history>>

Restore(r) ==
  LET c == seen[r].change IN
  /\ pc[r] \in {"restore", "restoreOnly"}
  /\ IF target = "absent" /\ backup[c] # "absent"
       THEN /\ target' = backup[c]
            /\ backup' = [backup EXCEPT ![c] = "absent"]
            /\ Goto(r, IF pc[r] = "restore" THEN "dropStage" ELSE "unlink")
            /\ UNCHANGED <<todo, seen>>
       ELSE Abandon(r) /\ UNCHANGED <<target, backup>>
  /\ UNCHANGED <<stage, journal, rowVars, crashed, faults, history>>

RecoverPromote(r) ==
  LET c == seen[r].change IN
  /\ pc[r] = "promote"
  /\ IF CanMoveStage(c)
       THEN Goto(r, "dropBackup") /\ MoveStage(c) /\ UNCHANGED <<todo, seen>>
       ELSE Abandon(r) /\ UNCHANGED <<target, stage>>
  /\ UNCHANGED <<backup, journal, rowVars, crashed, faults, history>>

\* rmtree raises when the directory has gone before it is empty.
RecoverRemoves(dir, r, drop, empty) ==
  LET c == seen[r].change IN
  \/ pc[r] = drop /\ Remove(dir, r, c, empty, "unlink") /\ UNCHANGED <<todo, seen>>
  \/ /\ pc[r] = empty
     /\ IF dir[c] = "absent"
          THEN Abandon(r) /\ UNCHANGED dir
          ELSE RemoveEmpty(dir, r, c, "unlink", "idle") /\ UNCHANGED <<todo, seen>>

RecoverDropStage(r) ==
  /\ RecoverRemoves(stage, r, "dropStage", "emptyStage")
  /\ UNCHANGED <<target, backup, journal, rowVars, crashed, faults, history>>

RecoverDropBackup(r) ==
  /\ RecoverRemoves(backup, r, "dropBackup", "emptyBackup")
  /\ UNCHANGED <<target, stage, journal, rowVars, crashed, faults, history>>

\* unlink(missing_ok=True)
RecoverUnlink(r) ==
  /\ pc[r] = "unlink"
  /\ journal' = [journal EXCEPT ![seen[r].change] = "none"]
  /\ Goto(r, "next")
  /\ seen' = [seen EXCEPT ![r] = NothingSeen]
  /\ UNCHANGED <<target, stage, backup, rowVars, todo, crashed, faults, history>>

\* The constructor returns when it has been through its list.
ComeUp(r) ==
  /\ pc[r] = "next" /\ todo[r] = {}
  /\ crashed' = FALSE
  /\ Abandon(r)
  /\ UNCHANGED <<dirVars, rowVars, faults, history>>

Recover(r) ==
  \/ Look(r) \/ Restore(r) \/ RecoverPromote(r) \/ RecoverDropStage(r)
  \/ RecoverDropBackup(r) \/ RecoverUnlink(r) \/ ComeUp(r)
  \/ \E c \in Changes : ReadJournal(r, c)

-----------------------------------------------------------------------------
(* Failures.                                                               *)

\* A statement raises: the try block goes to its except clause, the others leave the
\* call.
Tried == {"copyDraft", "journalStaged", "testTarget", "moveTarget", "journalMoved",
          "promote", "journalApplied", "dropBackup", "emptyBackup", "unlink"}
ApplyRaises(c) ==
  /\ pc[c] # "idle"
  /\ faults < MaxFaults
  /\ faults' = faults + 1
  /\ Goto(c, IF pc[c] \in Tried THEN "undo" ELSE "idle")
  /\ UNCHANGED <<dirVars, rowVars, todo, seen, crashed, history>>

\* A process dies; what is on disk stays.  The next one recovers before it serves.
Crash(p) ==
  /\ pc[p] # "idle"
  /\ faults < MaxFaults
  /\ faults' = faults + 1
  /\ Goto(p, "idle")
  /\ crashed' = TRUE
  /\ todo' = [r \in Recoverers |-> IF r = p THEN {} ELSE todo[r]]
  /\ seen' = [r \in Recoverers |-> IF r = p THEN NothingSeen ELSE seen[r]]
  /\ UNCHANGED <<dirVars, rowVars, history>>

Next ==
  \/ \E c \in Changes : \/ PrepareChange(c) \/ BeginApply(c) \/ CheckTarget(c)
                        \/ ReplaceTree(c) \/ BurnNonce(c) \/ MarkApplied(c)
                        \/ ApplyRaises(c)
  \/ \E r \in Recoverers : BeginRecovery(r) \/ Recover(r)
  \/ \E p \in Procs : Crash(p)

Spec == Init /\ [][Next]_vars

\* recover_transactions runs straight through, and a process that died is started
\* again as often as it takes.
FairSpec ==
  /\ Spec
  /\ \A r \in Recoverers : WF_vars(crashed /\ BeginRecovery(r)) /\ WF_vars(Recover(r))

-----------------------------------------------------------------------------
(* Properties.                                                             *)

Settled == AtWork = {} /\ ~crashed /\ \A c \in Changes : journal[c] = "none"

\* As long as calls and recoveries are not mixed, the target goes from one whole tree
\* to another, from its preimage to a prepared change's tree, whatever raises or dies
\* (changes.py 261-335).
Record == INSTANCE TargetRecord
  WITH tree <- Visible, prepared <- preimage, Preimages <- {"old", "absent"}
ImplementsTargetRecord ==
  Record!Init /\ [][Record!Next \/ mixed']_<<Visible, preimage>>

\* "crash-recoverable" (README.md 468-470), of calls and recoveries that are not mixed:
\* once no process works on it and no journal is left, the target is whole and nothing
\* of it is parked elsewhere.
RecoveredTargetIsWhole ==
  Settled /\ ~mixed => /\ target # "partial"
                       /\ \A c \in Changes : backup[c] = "absent"

\* A change is reported as applied only when its tree has replaced its preimage and its
\* nonce is used, unless another process has worked beside its apply: whatever earlier
\* calls, recoveries and deaths have left.
AppliedIsInPlace ==
  [][\A c \in Changes \ beside : status[c] = "prepared" /\ status'[c] = "applied" =>
       target = c /\ c \in burned]_vars

\* "a mid-apply failure never bricks the change set" (changes.py 237-239): what is
\* prepared and still has its preimage in place can be applied.
NeverBricked ==
  \A c \in Changes : Settled /\ status[c] = "prepared" =>
    /\ stage[c] = "absent"
    /\ backup[c] = "absent"
    /\ target = c => status[c] = "applied"
    /\ c \notin burned

\* The service comes up again, whatever it finds on disk: also beside calls that hang,
\* once no call takes another step.  Calls that are repeated for ever can make each
\* recovery raise.
CallsRest == <>[][\A c \in Changes : pc'[c] = pc[c]]_pc
ComesUpAgain == CallsRest => (crashed ~> ~crashed)

\* What an apply moves aside is the preimage its change was prepared and approved for
\* ("after rechecking every preimage hash", server.py 381-382), unless another process
\* has worked beside it.
ReplacesOnlyItsPreimage ==
  [][\A c \in Changes \ beside : backup[c] = "absent" /\ backup'[c] # "absent" =>
       backup'[c] = preimage[c]]_vars
=============================================================================
