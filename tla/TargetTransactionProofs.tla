----------------------- MODULE TargetTransactionProofs -----------------------
(***************************************************************************)
(* Invariant is inductive for TargetTransaction, for any number of change  *)
(* sets, recoveries and faults and whatever overlaps: what it says of the  *)
(* directories is said as long as calls and recoveries are not mixed, and  *)
(* what it says of one call as long as nothing has worked beside it.  From *)
(* it follow wholeness, that an applied change is in place, and that       *)
(* TargetTransaction implements TargetRecord.                              *)
(***************************************************************************)
EXTENDS TargetTransaction, TLAPS

-----------------------------------------------------------------------------
(* The inductive invariant.                                                *)

\* A change has moved its preimage aside, and its stage is to take the place.
Swapped(c) ==
  /\ target = "absent"
  /\ backup[c] \in Trees /\ backup[c] = preimage[c]
  /\ stage[c] = "full"
  /\ journal[c] \in {"staged", "backup_moved"}

Untouched(c) == stage[c] = "absent" /\ backup[c] = "absent" /\ journal[c] = "none"

\* Each process is at a statement of its own, and what is applied was prepared.
Stations ==
  /\ \A c \in Changes : /\ pc[c] \in ApplySteps \cup {"idle"}
                        /\ pc[c] # "idle" => status[c] # "none"
  /\ \A r \in Recoverers : /\ pc[r] \in RecoverSteps \cup {"idle"}
                           /\ pc[r] \notin {"idle", "next"} => seen[r] \in Journals

\* What a call may rely on that nothing has worked beside, whatever was left before.
AloneProgress ==
  \A c \in Changes \ beside :
    /\ pc[c] # "idle" => \A q \in Procs \ {c} : pc[q] = "idle"
    /\ pc[c] \in {"makeStage", "copyDraft", "journalStaged", "testTarget", "moveTarget"} =>
         target = preimage[c]
    /\ pc[c] \in {"journalStaged", "testTarget", "moveTarget", "journalMoved", "promote"} =>
         stage[c] = "full"
    /\ pc[c] \in {"journalApplied", "dropBackup", "emptyBackup", "unlink", "burnNonce",
                  "markApplied"} => target = c
    /\ pc[c] = "markApplied" => c \in burned

\* While nothing is mixed: one process is at work at a time, and the journal that is
\* left, if any, is of the change that is at work.
OneAtATime ==
  /\ \A p, q \in Procs : pc[p] # "idle" /\ pc[q] # "idle" => p = q
  /\ \A c, d \in Changes :
       journal[c] # "none" /\ (journal[d] # "none" \/ pc[d] # "idle") => c = d

\* A change that is not prepared has done nothing; the others were prepared on a tree.
PreparedFirst ==
  \A c \in Changes :
    IF status[c] = "none"
      THEN Untouched(c) /\ pc[c] = "idle" /\ preimage[c] = "none"
      ELSE preimage[c] \in Trees \cup {"absent"}

\* A backup has a journal; one that is not the target's only copy has no stage.
JournalKnows ==
  \A c \in Changes :
    /\ journal[c] = "none" => backup[c] = "absent"
    /\ journal[c] = "staged" => backup[c] = "absent" \/ Swapped(c)
    /\ backup[c] # "absent" => stage[c] = "absent" \/ Swapped(c)

\* The target is away only while one change swaps it; else it was never there.
TargetIsSomewhere ==
  /\ target # "partial"
  /\ target = "absent" =>
       \/ \A c \in Changes : backup[c] = "absent" /\ journal[c] \in {"none", "staged"}
       \/ \E c \in Changes : Swapped(c)

\* What a call may rely on at each of its statements.
ApplyProgress ==
  \A c \in Changes :
    /\ pc[c] \in {"makeStage", "copyDraft", "journalStaged", "testTarget", "moveTarget"} =>
         target = preimage[c]
    /\ pc[c] \in {"copyDraft", "journalStaged"} => journal[c] = "none"
    /\ pc[c] \in {"testTarget", "moveTarget"} => journal[c] = "staged" /\ backup[c] = "absent"
    /\ pc[c] \in {"journalStaged", "testTarget", "moveTarget",
       "promote"} => stage[c] = "full"
    /\ pc[c] = "moveTarget" => target # "absent"
    /\ pc[c] = "journalMoved" => Swapped(c) /\ journal[c] = "staged"
    /\ pc[c] = "promote" =>
         \/ Swapped(c) /\ journal[c] = "backup_moved"
         \/ /\ target = "absent" /\ preimage[c] = "absent"
            /\ journal[c] = "staged" /\ backup[c] = "absent"
    /\ pc[c] \in {"journalApplied", "dropBackup", "emptyBackup", "unlink"} =>
         target = c /\ stage[c] = "absent" /\ journal[c] # "none"
    /\ pc[c] \in {"dropBackup", "emptyBackup", "unlink"} => journal[c] = "applied"
    /\ pc[c] = "emptyBackup" => backup[c] = "partial"
    /\ pc[c] = "unlink" => backup[c] = "absent"
    /\ pc[c] \in {"burnNonce", "markApplied"} => target = c /\ Untouched(c)
    /\ pc[c] = "markApplied" => c \in burned
    /\ pc[c] \in {"undoStage", "undoEmpty"} => target # "absent" \/ backup[c] = "absent"

\* What a recovery may rely on at each of its statements.
RecoveryProgress ==
  \A r \in Recoverers :
    /\ pc[r] # "idle" => \A c \in todo[r] : journal[c] # "none"
    /\ pc[r] \notin {"idle", "next"} =>
         LET c == seen[r].change IN
         /\ c \notin todo[r]
         /\ pc[r] # "restoreOnly"
         /\ pc[r] = "look" => journal[c] = seen[r].phase
         /\ pc[r] = "restore" => Swapped(c) /\ journal[c] = "staged"
         /\ pc[r] = "promote" => Swapped(c) /\ journal[c] = "backup_moved"
         /\ pc[r] \in {"dropStage", "emptyStage"} =>
              backup[c] = "absent" /\ journal[c] = "staged"
         /\ pc[r] \in {"dropBackup", "emptyBackup"} =>
              target # "absent" /\ journal[c] \in {"backup_moved", "applied"}
         /\ pc[r] = "emptyBackup" => backup[c] # "absent"
         /\ pc[r] = "emptyStage" => stage[c] # "absent"
         /\ pc[r] = "unlink" => backup[c] = "absent"

Orderly ==
  /\ OneAtATime /\ PreparedFirst /\ JournalKnows /\ TargetIsSomewhere
  /\ ApplyProgress /\ RecoveryProgress

Invariant == TypeOK /\ Stations /\ AloneProgress /\ (~mixed => Orderly)

-----------------------------------------------------------------------------
(* One lemma for each part of Invariant.                                   *)

\* A recovery that raises keeps the types of its locals.
LEMMA AbandonTypes ==
  ASSUME TypeOK, NEW r \in Recoverers, Abandon(r)
  PROVE  /\ pc' \in [Procs -> ApplySteps \cup RecoverSteps \cup {"idle"}]
         /\ todo' \in [Recoverers -> SUBSET Changes]
         /\ seen' \in [Recoverers -> Journals \cup {NothingSeen}]
BY DEF TypeOK, Abandon, Goto, Procs

\* What a recovery restores is a directory: it knows of which change.
LEMMA TypeOKKept ==
  ASSUME TypeOK, Stations, [Next]_vars
  PROVE  TypeOK'
<1> USE TransactionAssumption DEF TypeOK, Stations, Procs, Trees, Dirs, Phases,
        ApplySteps, RecoverSteps, Journals, NothingSeen, dirVars, rowVars, history,
        Goto
<1>1. ASSUME NEW c \in Changes, PrepareChange(c)
      PROVE  TypeOK'
  BY <1>1 DEF PrepareChange
<1>2. ASSUME NEW c \in Changes, BeginApply(c)
      PROVE  TypeOK'
  BY <1>2 DEF BeginApply, Enter, AtWork
<1>3. ASSUME NEW c \in Changes, CheckTarget(c)
      PROVE  TypeOK'
  BY <1>3 DEF CheckTarget
<1>4. ASSUME NEW c \in Changes, MakeStage(c)
      PROVE  TypeOK'
  BY <1>4 DEF MakeStage
<1>5. ASSUME NEW c \in Changes, CopyDraft(c)
      PROVE  TypeOK'
  BY <1>5 DEF CopyDraft
<1>6. ASSUME NEW c \in Changes, JournalStaged(c)
      PROVE  TypeOK'
  BY <1>6 DEF JournalStaged, WriteJournal
<1>7. ASSUME NEW c \in Changes, TestTarget(c)
      PROVE  TypeOK'
  BY <1>7 DEF TestTarget
<1>8. ASSUME NEW c \in Changes, MoveTarget(c)
      PROVE  TypeOK'
  BY <1>8 DEF MoveTarget
<1>9. ASSUME NEW c \in Changes, JournalMoved(c)
      PROVE  TypeOK'
  BY <1>9 DEF JournalMoved, WriteJournal
<1>10. ASSUME NEW c \in Changes, PromoteStage(c)
      PROVE  TypeOK'
  BY <1>10 DEF PromoteStage, MoveStage, CanMoveStage
<1>11. ASSUME NEW c \in Changes, JournalApplied(c)
      PROVE  TypeOK'
  BY <1>11 DEF JournalApplied, WriteJournal
<1>12. ASSUME NEW c \in Changes, DropBackup(c)
      PROVE  TypeOK'
  BY <1>12 DEF DropBackup, Remove, RemoveEmpty
<1>13. ASSUME NEW c \in Changes, UnlinkJournal(c)
      PROVE  TypeOK'
  BY <1>13 DEF UnlinkJournal
<1>14. ASSUME NEW c \in Changes, Undo(c)
      PROVE  TypeOK'
  BY <1>14 DEF Undo
<1>15. ASSUME NEW c \in Changes, UndoStage(c)
      PROVE  TypeOK'
  BY <1>15 DEF UndoStage, Remove, RemoveEmpty
<1>16. ASSUME NEW c \in Changes, BurnNonce(c)
      PROVE  TypeOK'
  BY <1>16 DEF BurnNonce
<1>17. ASSUME NEW c \in Changes, MarkApplied(c)
      PROVE  TypeOK'
  BY <1>17 DEF MarkApplied
<1>18. ASSUME NEW c \in Changes, ApplyRaises(c)
      PROVE  TypeOK'
  BY <1>18 DEF ApplyRaises, Tried
<1>19. ASSUME NEW r \in Recoverers, BeginRecovery(r)
      PROVE  TypeOK'
  BY <1>19 DEF BeginRecovery, Enter, AtWork
<1>20. ASSUME NEW r \in Recoverers, NEW c \in Changes, ReadJournal(r, c)
      PROVE  TypeOK'
  <2>1. UNCHANGED <<dirVars, rowVars, crashed, faults, history>>
    BY <1>20 DEF ReadJournal
  <2>2. /\ pc' \in [Procs -> ApplySteps \cup RecoverSteps \cup {"idle"}]
        /\ todo' \in [Recoverers -> SUBSET Changes]
        /\ seen' \in [Recoverers -> Journals \cup {NothingSeen}]
    <3>1. CASE journal[c] = "none"
      BY <1>20, <3>1, AbandonTypes DEF ReadJournal
    <3>2. CASE journal[c] # "none"
      BY <1>20, <3>2 DEF ReadJournal
    <3>3. QED
      BY <3>1, <3>2
  <2>3. QED
    BY <2>1, <2>2
<1>21. ASSUME NEW r \in Recoverers, Look(r)
      PROVE  TypeOK'
  BY <1>21 DEF Look, Branch
<1>22. ASSUME NEW r \in Recoverers, Restore(r)
      PROVE  TypeOK'
  <2>1. seen[r].change \in Changes
    BY <1>22 DEF Restore
  <2>2. backup[seen[r].change] \in Dirs
    BY <2>1
  <2>3. target' \in Dirs /\ backup' \in [Changes -> Dirs]
    BY <1>22, <2>2 DEF Restore
  <2>4. /\ pc' \in [Procs -> ApplySteps \cup RecoverSteps \cup {"idle"}]
        /\ seen' \in [Recoverers -> Journals \cup {NothingSeen}]
        /\ todo' \in [Recoverers -> SUBSET Changes]
    <3>1. CASE target = "absent" /\ backup[seen[r].change] # "absent"
      BY <1>22, <3>1 DEF Restore
    <3>2. CASE ~(target = "absent" /\ backup[seen[r].change] # "absent")
      <4>1. Abandon(r)
        BY <1>22, <3>2 DEF Restore
      <4>2. QED
        BY <4>1, AbandonTypes
    <3>3. QED
      BY <3>1, <3>2
  <2>5. QED
    BY <1>22, <2>3, <2>4 DEF Restore
<1>23. ASSUME NEW r \in Recoverers, RecoverPromote(r)
      PROVE  TypeOK'
  <2>1. seen[r].change \in Changes
    BY <1>23 DEF RecoverPromote
  <2>2. CASE CanMoveStage(seen[r].change)
    <3>1. target' \in Dirs /\ stage' \in [Changes -> {"absent", "partial", "full"}]
      BY <1>23, <2>1, <2>2 DEF RecoverPromote, MoveStage
    <3>2. pc' \in [Procs -> ApplySteps \cup RecoverSteps \cup {"idle"}]
      BY <1>23, <2>2 DEF RecoverPromote
    <3>3. QED
      BY <1>23, <2>2, <3>1, <3>2 DEF RecoverPromote
  <2>3. CASE ~CanMoveStage(seen[r].change)
    <3>1. Abandon(r) /\ UNCHANGED <<target, stage>>
      BY <1>23, <2>3 DEF RecoverPromote
    <3>2. UNCHANGED <<backup, journal, status, preimage, burned, crashed, faults, beside, mixed>>
      BY <1>23 DEF RecoverPromote
    <3>3. QED
      BY <3>1, <3>2, AbandonTypes
  <2>4. QED
    BY <2>2, <2>3
<1>24. ASSUME NEW r \in Recoverers, RecoverDropStage(r)
      PROVE  TypeOK'
  BY <1>24 DEF RecoverDropStage, RecoverRemoves, Remove, RemoveEmpty, Abandon
<1>25. ASSUME NEW r \in Recoverers, RecoverDropBackup(r)
      PROVE  TypeOK'
  BY <1>25 DEF RecoverDropBackup, RecoverRemoves, Remove, RemoveEmpty, Abandon
<1>26. ASSUME NEW r \in Recoverers, RecoverUnlink(r)
      PROVE  TypeOK'
  BY <1>26 DEF RecoverUnlink
<1>27. ASSUME NEW r \in Recoverers, ComeUp(r)
      PROVE  TypeOK'
  BY <1>27 DEF ComeUp, Abandon
<1>28. ASSUME NEW p \in Procs, Crash(p)
      PROVE  TypeOK'
  BY <1>28 DEF Crash
<1>29. CASE UNCHANGED vars
  BY <1>29 DEF vars
<1>30. QED
  BY <1>1, <1>2, <1>3, <1>4, <1>5, <1>6, <1>7, <1>8, <1>9, <1>10, <1>11, <1>12, <1>13,
     <1>14, <1>15, <1>16, <1>17, <1>18, <1>19, <1>20, <1>21, <1>22, <1>23, <1>24,
     <1>25, <1>26, <1>27, <1>28, <1>29
  DEF Next, ReplaceTree, Recover

\* Each statement is followed by another of the same call or recovery.
LEMMA StationsKept ==
  ASSUME TypeOK, Stations, [Next]_vars
  PROVE  Stations'
<1> USE TransactionAssumption DEF TypeOK, Stations, Procs, Trees, Dirs, Phases,
        ApplySteps, RecoverSteps, Journals, NothingSeen, dirVars, rowVars, history,
        Goto
<1>1. ASSUME NEW c \in Changes, PrepareChange(c)
      PROVE  Stations'
  BY <1>1 DEF PrepareChange
<1>2. ASSUME NEW c \in Changes, BeginApply(c)
      PROVE  Stations'
  BY <1>2 DEF BeginApply, Enter, AtWork
<1>3. ASSUME NEW c \in Changes, CheckTarget(c)
      PROVE  Stations'
  BY <1>3 DEF CheckTarget
<1>4. ASSUME NEW c \in Changes, MakeStage(c)
      PROVE  Stations'
  BY <1>4 DEF MakeStage
<1>5. ASSUME NEW c \in Changes, CopyDraft(c)
      PROVE  Stations'
  BY <1>5 DEF CopyDraft
<1>6. ASSUME NEW c \in Changes, JournalStaged(c)
      PROVE  Stations'
  BY <1>6 DEF JournalStaged, WriteJournal
<1>7. ASSUME NEW c \in Changes, TestTarget(c)
      PROVE  Stations'
  BY <1>7 DEF TestTarget
<1>8. ASSUME NEW c \in Changes, MoveTarget(c)
      PROVE  Stations'
  BY <1>8 DEF MoveTarget
<1>9. ASSUME NEW c \in Changes, JournalMoved(c)
      PROVE  Stations'
  BY <1>9 DEF JournalMoved, WriteJournal
<1>10. ASSUME NEW c \in Changes, PromoteStage(c)
      PROVE  Stations'
  BY <1>10 DEF PromoteStage, MoveStage, CanMoveStage
<1>11. ASSUME NEW c \in Changes, JournalApplied(c)
      PROVE  Stations'
  BY <1>11 DEF JournalApplied, WriteJournal
<1>12. ASSUME NEW c \in Changes, DropBackup(c)
      PROVE  Stations'
  BY <1>12 DEF DropBackup, Remove, RemoveEmpty
<1>13. ASSUME NEW c \in Changes, UnlinkJournal(c)
      PROVE  Stations'
  BY <1>13 DEF UnlinkJournal
<1>14. ASSUME NEW c \in Changes, Undo(c)
      PROVE  Stations'
  BY <1>14 DEF Undo
<1>15. ASSUME NEW c \in Changes, UndoStage(c)
      PROVE  Stations'
  BY <1>15 DEF UndoStage, Remove, RemoveEmpty
<1>16. ASSUME NEW c \in Changes, BurnNonce(c)
      PROVE  Stations'
  BY <1>16 DEF BurnNonce
<1>17. ASSUME NEW c \in Changes, MarkApplied(c)
      PROVE  Stations'
  BY <1>17 DEF MarkApplied
<1>18. ASSUME NEW c \in Changes, ApplyRaises(c)
      PROVE  Stations'
  BY <1>18 DEF ApplyRaises, Tried
<1>19. ASSUME NEW r \in Recoverers, BeginRecovery(r)
      PROVE  Stations'
  BY <1>19 DEF BeginRecovery, Enter, AtWork
<1>20. ASSUME NEW r \in Recoverers, NEW c \in Changes, ReadJournal(r, c)
      PROVE  Stations'
  BY <1>20 DEF ReadJournal, Abandon
<1>21. ASSUME NEW r \in Recoverers, Look(r)
      PROVE  Stations'
  BY <1>21 DEF Look, Branch
<1>22. ASSUME NEW r \in Recoverers, Restore(r)
      PROVE  Stations'
  BY <1>22 DEF Restore, Abandon
<1>23. ASSUME NEW r \in Recoverers, RecoverPromote(r)
      PROVE  Stations'
  BY <1>23 DEF RecoverPromote, Abandon, MoveStage, CanMoveStage
<1>24. ASSUME NEW r \in Recoverers, RecoverDropStage(r)
      PROVE  Stations'
  BY <1>24 DEF RecoverDropStage, RecoverRemoves, Remove, RemoveEmpty, Abandon
<1>25. ASSUME NEW r \in Recoverers, RecoverDropBackup(r)
      PROVE  Stations'
  BY <1>25 DEF RecoverDropBackup, RecoverRemoves, Remove, RemoveEmpty, Abandon
<1>26. ASSUME NEW r \in Recoverers, RecoverUnlink(r)
      PROVE  Stations'
  BY <1>26 DEF RecoverUnlink
<1>27. ASSUME NEW r \in Recoverers, ComeUp(r)
      PROVE  Stations'
  BY <1>27 DEF ComeUp, Abandon
<1>28. ASSUME NEW p \in Procs, Crash(p)
      PROVE  Stations'
  BY <1>28 DEF Crash
<1>29. CASE UNCHANGED vars
  BY <1>29 DEF vars
<1>30. QED
  BY <1>1, <1>2, <1>3, <1>4, <1>5, <1>6, <1>7, <1>8, <1>9, <1>10, <1>11, <1>12, <1>13,
     <1>14, <1>15, <1>16, <1>17, <1>18, <1>19, <1>20, <1>21, <1>22, <1>23, <1>24,
     <1>25, <1>26, <1>27, <1>28, <1>29
  DEF Next, ReplaceTree, Recover

\* Nothing else moves what a call works on alone.
LEMMA AloneProgressKept ==
  ASSUME TypeOK, Stations, AloneProgress, [Next]_vars
  PROVE  AloneProgress'
<1> USE TransactionAssumption DEF TypeOK, Stations, AloneProgress, Procs, Trees, Dirs,
        Phases, ApplySteps, RecoverSteps, Journals, NothingSeen, dirVars, rowVars,
        history, Goto
<1>1. ASSUME NEW c \in Changes, PrepareChange(c)
      PROVE  AloneProgress'
  BY <1>1 DEF PrepareChange
<1>2. ASSUME NEW c \in Changes, BeginApply(c)
      PROVE  AloneProgress'
  BY <1>2 DEF BeginApply, Enter, AtWork
<1>3. ASSUME NEW c \in Changes, CheckTarget(c)
      PROVE  AloneProgress'
  BY <1>3 DEF CheckTarget
<1>4. ASSUME NEW c \in Changes, MakeStage(c)
      PROVE  AloneProgress'
  BY <1>4 DEF MakeStage
<1>5. ASSUME NEW c \in Changes, CopyDraft(c)
      PROVE  AloneProgress'
  BY <1>5 DEF CopyDraft
<1>6. ASSUME NEW c \in Changes, JournalStaged(c)
      PROVE  AloneProgress'
  BY <1>6 DEF JournalStaged, WriteJournal
<1>7. ASSUME NEW c \in Changes, TestTarget(c)
      PROVE  AloneProgress'
  BY <1>7 DEF TestTarget
<1>8. ASSUME NEW c \in Changes, MoveTarget(c)
      PROVE  AloneProgress'
  BY <1>8 DEF MoveTarget
<1>9. ASSUME NEW c \in Changes, JournalMoved(c)
      PROVE  AloneProgress'
  BY <1>9 DEF JournalMoved, WriteJournal
<1>10. ASSUME NEW c \in Changes, PromoteStage(c)
      PROVE  AloneProgress'
  BY <1>10 DEF PromoteStage, MoveStage, CanMoveStage
<1>11. ASSUME NEW c \in Changes, JournalApplied(c)
      PROVE  AloneProgress'
  BY <1>11 DEF JournalApplied, WriteJournal
<1>12. ASSUME NEW c \in Changes, DropBackup(c)
      PROVE  AloneProgress'
  BY <1>12 DEF DropBackup, Remove, RemoveEmpty
<1>13. ASSUME NEW c \in Changes, UnlinkJournal(c)
      PROVE  AloneProgress'
  BY <1>13 DEF UnlinkJournal
<1>14. ASSUME NEW c \in Changes, Undo(c)
      PROVE  AloneProgress'
  BY <1>14 DEF Undo
<1>15. ASSUME NEW c \in Changes, UndoStage(c)
      PROVE  AloneProgress'
  BY <1>15 DEF UndoStage, Remove, RemoveEmpty
<1>16. ASSUME NEW c \in Changes, BurnNonce(c)
      PROVE  AloneProgress'
  BY <1>16 DEF BurnNonce
<1>17. ASSUME NEW c \in Changes, MarkApplied(c)
      PROVE  AloneProgress'
  BY <1>17 DEF MarkApplied
<1>18. ASSUME NEW c \in Changes, ApplyRaises(c)
      PROVE  AloneProgress'
  BY <1>18 DEF ApplyRaises, Tried
<1>19. ASSUME NEW r \in Recoverers, BeginRecovery(r)
      PROVE  AloneProgress'
  BY <1>19 DEF BeginRecovery, Enter, AtWork
<1>20. ASSUME NEW r \in Recoverers, NEW c \in Changes, ReadJournal(r, c)
      PROVE  AloneProgress'
  BY <1>20 DEF ReadJournal, Abandon
<1>21. ASSUME NEW r \in Recoverers, Look(r)
      PROVE  AloneProgress'
  BY <1>21 DEF Look, Branch
<1>22. ASSUME NEW r \in Recoverers, Restore(r)
      PROVE  AloneProgress'
  BY <1>22 DEF Restore, Abandon
<1>23. ASSUME NEW r \in Recoverers, RecoverPromote(r)
      PROVE  AloneProgress'
  BY <1>23 DEF RecoverPromote, Abandon, MoveStage, CanMoveStage
<1>24. ASSUME NEW r \in Recoverers, RecoverDropStage(r)
      PROVE  AloneProgress'
  BY <1>24 DEF RecoverDropStage, RecoverRemoves, Remove, RemoveEmpty, Abandon
<1>25. ASSUME NEW r \in Recoverers, RecoverDropBackup(r)
      PROVE  AloneProgress'
  BY <1>25 DEF RecoverDropBackup, RecoverRemoves, Remove, RemoveEmpty, Abandon
<1>26. ASSUME NEW r \in Recoverers, RecoverUnlink(r)
      PROVE  AloneProgress'
  BY <1>26 DEF RecoverUnlink
<1>27. ASSUME NEW r \in Recoverers, ComeUp(r)
      PROVE  AloneProgress'
  BY <1>27 DEF ComeUp, Abandon
<1>28. ASSUME NEW p \in Procs, Crash(p)
      PROVE  AloneProgress'
  BY <1>28 DEF Crash
<1>29. CASE UNCHANGED vars
  BY <1>29 DEF vars
<1>30. QED
  BY <1>1, <1>2, <1>3, <1>4, <1>5, <1>6, <1>7, <1>8, <1>9, <1>10, <1>11, <1>12, <1>13,
     <1>14, <1>15, <1>16, <1>17, <1>18, <1>19, <1>20, <1>21, <1>22, <1>23, <1>24,
     <1>25, <1>26, <1>27, <1>28, <1>29
  DEF Next, ReplaceTree, Recover

\* What begins while another is at work, or upon another's journal, is mixed.
LEMMA OneAtATimeKept ==
  ASSUME ~mixed', TypeOK, Stations, OneAtATime, [Next]_vars
  PROVE  OneAtATime'
<1> USE TransactionAssumption DEF TypeOK, Stations, OneAtATime, Procs, Trees, Dirs,
        Phases, ApplySteps, RecoverSteps, Journals, NothingSeen, dirVars, rowVars,
        history, Goto, Swapped, Untouched
<1>1. ASSUME NEW c \in Changes, PrepareChange(c)
      PROVE  OneAtATime'
  BY <1>1 DEF PrepareChange
<1>2. ASSUME NEW c \in Changes, BeginApply(c)
      PROVE  OneAtATime'
  <2>1. \A q \in Procs : pc[q] = "idle"
    BY <1>2 DEF BeginApply, Enter, AtWork
  <2>2. \A d \in Changes \ {c} : journal[d] = "none"
    BY <1>2 DEF BeginApply
  <2>3. QED
    BY <1>2, <2>1, <2>2 DEF BeginApply
<1>3. ASSUME NEW c \in Changes, CheckTarget(c)
      PROVE  OneAtATime'
  BY <1>3 DEF CheckTarget
<1>4. ASSUME NEW c \in Changes, MakeStage(c)
      PROVE  OneAtATime'
  BY <1>4 DEF MakeStage
<1>5. ASSUME NEW c \in Changes, CopyDraft(c)
      PROVE  OneAtATime'
  BY <1>5 DEF CopyDraft
<1>6. ASSUME NEW c \in Changes, JournalStaged(c)
      PROVE  OneAtATime'
  BY <1>6 DEF JournalStaged, WriteJournal
<1>7. ASSUME NEW c \in Changes, TestTarget(c)
      PROVE  OneAtATime'
  BY <1>7 DEF TestTarget
<1>8. ASSUME NEW c \in Changes, MoveTarget(c)
      PROVE  OneAtATime'
  BY <1>8 DEF MoveTarget
<1>9. ASSUME NEW c \in Changes, JournalMoved(c)
      PROVE  OneAtATime'
  BY <1>9 DEF JournalMoved, WriteJournal
<1>10. ASSUME NEW c \in Changes, PromoteStage(c)
      PROVE  OneAtATime'
  BY <1>10 DEF PromoteStage, MoveStage, CanMoveStage
<1>11. ASSUME NEW c \in Changes, JournalApplied(c)
      PROVE  OneAtATime'
  BY <1>11 DEF JournalApplied, WriteJournal
<1>12. ASSUME NEW c \in Changes, DropBackup(c)
      PROVE  OneAtATime'
  BY <1>12 DEF DropBackup, Remove, RemoveEmpty
<1>13. ASSUME NEW c \in Changes, UnlinkJournal(c)
      PROVE  OneAtATime'
  BY <1>13 DEF UnlinkJournal
<1>14. ASSUME NEW c \in Changes, Undo(c)
      PROVE  OneAtATime'
  BY <1>14 DEF Undo
<1>15. ASSUME NEW c \in Changes, UndoStage(c)
      PROVE  OneAtATime'
  BY <1>15 DEF UndoStage, Remove, RemoveEmpty
<1>16. ASSUME NEW c \in Changes, BurnNonce(c)
      PROVE  OneAtATime'
  BY <1>16 DEF BurnNonce
<1>17. ASSUME NEW c \in Changes, MarkApplied(c)
      PROVE  OneAtATime'
  BY <1>17 DEF MarkApplied
<1>18. ASSUME NEW c \in Changes, ApplyRaises(c)
      PROVE  OneAtATime'
  BY <1>18 DEF ApplyRaises, Tried
<1>19. ASSUME NEW r \in Recoverers, BeginRecovery(r)
      PROVE  OneAtATime'
  <2>1. \A q \in Procs : pc[q] = "idle"
    BY <1>19 DEF BeginRecovery, Enter, AtWork
  <2>3. QED
    BY <1>19, <2>1 DEF BeginRecovery
<1>20. ASSUME NEW r \in Recoverers, NEW c \in Changes, ReadJournal(r, c)
      PROVE  OneAtATime'
  <2>1. pc[r] = "next" /\ UNCHANGED journal /\ \A p \in Procs \ {r} : pc'[p] = pc[p]
    BY <1>20 DEF ReadJournal, Abandon
  <2>2. QED
    BY <2>1
<1>21. ASSUME NEW r \in Recoverers, Look(r)
      PROVE  OneAtATime'
  BY <1>21, SMTT(30) DEF Look
<1>22. ASSUME NEW r \in Recoverers, Restore(r)
      PROVE  OneAtATime'
  BY <1>22 DEF Restore, Abandon
<1>23. ASSUME NEW r \in Recoverers, RecoverPromote(r)
      PROVE  OneAtATime'
  BY <1>23 DEF RecoverPromote, Abandon, MoveStage, CanMoveStage
<1>24. ASSUME NEW r \in Recoverers, RecoverDropStage(r)
      PROVE  OneAtATime'
  BY <1>24 DEF RecoverDropStage, RecoverRemoves, Remove, RemoveEmpty, Abandon
<1>25. ASSUME NEW r \in Recoverers, RecoverDropBackup(r)
      PROVE  OneAtATime'
  BY <1>25 DEF RecoverDropBackup, RecoverRemoves, Remove, RemoveEmpty, Abandon
<1>26. ASSUME NEW r \in Recoverers, RecoverUnlink(r)
      PROVE  OneAtATime'
  BY <1>26 DEF RecoverUnlink
<1>27. ASSUME NEW r \in Recoverers, ComeUp(r)
      PROVE  OneAtATime'
  BY <1>27 DEF ComeUp, Abandon
<1>28. ASSUME NEW p \in Procs, Crash(p)
      PROVE  OneAtATime'
  BY <1>28 DEF Crash
<1>29. CASE UNCHANGED vars
  BY <1>29 DEF vars
<1>30. QED
  BY <1>1, <1>2, <1>3, <1>4, <1>5, <1>6, <1>7, <1>8, <1>9, <1>10, <1>11, <1>12, <1>13,
     <1>14, <1>15, <1>16, <1>17, <1>18, <1>19, <1>20, <1>21, <1>22, <1>23, <1>24,
     <1>25, <1>26, <1>27, <1>28, <1>29
  DEF Next, ReplaceTree, Recover

\* A change is prepared on a target that is whole.
LEMMA PreparedFirstKept ==
  ASSUME ~mixed', TypeOK, Stations, PreparedFirst, TargetIsSomewhere,
         RecoveryProgress, [Next]_vars
  PROVE  PreparedFirst'
<1> USE TransactionAssumption DEF TypeOK, Stations, PreparedFirst, TargetIsSomewhere,
        RecoveryProgress, Procs, Trees, Dirs, Phases, ApplySteps, RecoverSteps,
        Journals, NothingSeen, dirVars, rowVars, history, Goto, Swapped, Untouched
<1>1. ASSUME NEW c \in Changes, PrepareChange(c)
      PROVE  PreparedFirst'
  BY <1>1 DEF PrepareChange
<1>2. ASSUME NEW c \in Changes, BeginApply(c)
      PROVE  PreparedFirst'
  BY <1>2 DEF BeginApply, Enter, AtWork
<1>3. ASSUME NEW c \in Changes, CheckTarget(c)
      PROVE  PreparedFirst'
  BY <1>3 DEF CheckTarget
<1>4. ASSUME NEW c \in Changes, MakeStage(c)
      PROVE  PreparedFirst'
  BY <1>4 DEF MakeStage
<1>5. ASSUME NEW c \in Changes, CopyDraft(c)
      PROVE  PreparedFirst'
  BY <1>5 DEF CopyDraft
<1>6. ASSUME NEW c \in Changes, JournalStaged(c)
      PROVE  PreparedFirst'
  BY <1>6 DEF JournalStaged, WriteJournal
<1>7. ASSUME NEW c \in Changes, TestTarget(c)
      PROVE  PreparedFirst'
  BY <1>7 DEF TestTarget
<1>8. ASSUME NEW c \in Changes, MoveTarget(c)
      PROVE  PreparedFirst'
  BY <1>8 DEF MoveTarget
<1>9. ASSUME NEW c \in Changes, JournalMoved(c)
      PROVE  PreparedFirst'
  BY <1>9 DEF JournalMoved, WriteJournal
<1>10. ASSUME NEW c \in Changes, PromoteStage(c)
      PROVE  PreparedFirst'
  BY <1>10 DEF PromoteStage, MoveStage, CanMoveStage
<1>11. ASSUME NEW c \in Changes, JournalApplied(c)
      PROVE  PreparedFirst'
  BY <1>11 DEF JournalApplied, WriteJournal
<1>12. ASSUME NEW c \in Changes, DropBackup(c)
      PROVE  PreparedFirst'
  BY <1>12 DEF DropBackup, Remove, RemoveEmpty
<1>13. ASSUME NEW c \in Changes, UnlinkJournal(c)
      PROVE  PreparedFirst'
  BY <1>13 DEF UnlinkJournal
<1>14. ASSUME NEW c \in Changes, Undo(c)
      PROVE  PreparedFirst'
  BY <1>14 DEF Undo
<1>15. ASSUME NEW c \in Changes, UndoStage(c)
      PROVE  PreparedFirst'
  BY <1>15 DEF UndoStage, Remove, RemoveEmpty
<1>16. ASSUME NEW c \in Changes, BurnNonce(c)
      PROVE  PreparedFirst'
  BY <1>16 DEF BurnNonce
<1>17. ASSUME NEW c \in Changes, MarkApplied(c)
      PROVE  PreparedFirst'
  BY <1>17 DEF MarkApplied
<1>18. ASSUME NEW c \in Changes, ApplyRaises(c)
      PROVE  PreparedFirst'
  BY <1>18 DEF ApplyRaises, Tried
<1>19. ASSUME NEW r \in Recoverers, BeginRecovery(r)
      PROVE  PreparedFirst'
  BY <1>19 DEF BeginRecovery, Enter, AtWork
<1>20. ASSUME NEW r \in Recoverers, NEW c \in Changes, ReadJournal(r, c)
      PROVE  PreparedFirst'
  BY <1>20 DEF ReadJournal, Abandon
<1>21. ASSUME NEW r \in Recoverers, Look(r)
      PROVE  PreparedFirst'
  BY <1>21 DEF Look, Branch
<1>22. ASSUME NEW r \in Recoverers, Restore(r)
      PROVE  PreparedFirst'
  BY <1>22 DEF Restore, Abandon
<1>23. ASSUME NEW r \in Recoverers, RecoverPromote(r)
      PROVE  PreparedFirst'
  BY <1>23 DEF RecoverPromote, Abandon, MoveStage, CanMoveStage
<1>24. ASSUME NEW r \in Recoverers, RecoverDropStage(r)
      PROVE  PreparedFirst'
  BY <1>24 DEF RecoverDropStage, RecoverRemoves, Remove, RemoveEmpty, Abandon
<1>25. ASSUME NEW r \in Recoverers, RecoverDropBackup(r)
      PROVE  PreparedFirst'
  BY <1>25 DEF RecoverDropBackup, RecoverRemoves, Remove, RemoveEmpty, Abandon
<1>26. ASSUME NEW r \in Recoverers, RecoverUnlink(r)
      PROVE  PreparedFirst'
  BY <1>26 DEF RecoverUnlink
<1>27. ASSUME NEW r \in Recoverers, ComeUp(r)
      PROVE  PreparedFirst'
  BY <1>27 DEF ComeUp, Abandon
<1>28. ASSUME NEW p \in Procs, Crash(p)
      PROVE  PreparedFirst'
  BY <1>28 DEF Crash
<1>29. CASE UNCHANGED vars
  BY <1>29 DEF vars
<1>30. QED
  BY <1>1, <1>2, <1>3, <1>4, <1>5, <1>6, <1>7, <1>8, <1>9, <1>10, <1>11, <1>12, <1>13,
     <1>14, <1>15, <1>16, <1>17, <1>18, <1>19, <1>20, <1>21, <1>22, <1>23, <1>24,
     <1>25, <1>26, <1>27, <1>28, <1>29
  DEF Next, ReplaceTree, Recover

\* The journal is written before the move it announces and removed after the backup.
LEMMA JournalKnowsKept ==
  ASSUME ~mixed', TypeOK, Stations, OneAtATime, PreparedFirst, JournalKnows,
         TargetIsSomewhere, ApplyProgress, RecoveryProgress, [Next]_vars
  PROVE  JournalKnows'
<1> USE TransactionAssumption DEF TypeOK, Stations, OneAtATime, PreparedFirst,
        JournalKnows, TargetIsSomewhere, ApplyProgress, RecoveryProgress, Procs,
        Trees, Dirs, Phases, ApplySteps, RecoverSteps, Journals, NothingSeen, dirVars,
        rowVars, history, Goto, Swapped, Untouched
<1>1. ASSUME NEW c \in Changes, PrepareChange(c)
      PROVE  JournalKnows'
  BY <1>1 DEF PrepareChange
<1>2. ASSUME NEW c \in Changes, BeginApply(c)
      PROVE  JournalKnows'
  BY <1>2 DEF BeginApply, Enter, AtWork
<1>3. ASSUME NEW c \in Changes, CheckTarget(c)
      PROVE  JournalKnows'
  BY <1>3 DEF CheckTarget
<1>4. ASSUME NEW c \in Changes, MakeStage(c)
      PROVE  JournalKnows'
  BY <1>4 DEF MakeStage
<1>5. ASSUME NEW c \in Changes, CopyDraft(c)
      PROVE  JournalKnows'
  BY <1>5 DEF CopyDraft
<1>6. ASSUME NEW c \in Changes, JournalStaged(c)
      PROVE  JournalKnows'
  BY <1>6 DEF JournalStaged, WriteJournal
<1>7. ASSUME NEW c \in Changes, TestTarget(c)
      PROVE  JournalKnows'
  BY <1>7 DEF TestTarget
<1>8. ASSUME NEW c \in Changes, MoveTarget(c)
      PROVE  JournalKnows'
  BY <1>8 DEF MoveTarget
<1>9. ASSUME NEW c \in Changes, JournalMoved(c)
      PROVE  JournalKnows'
  BY <1>9 DEF JournalMoved, WriteJournal
<1>10. ASSUME NEW c \in Changes, PromoteStage(c)
      PROVE  JournalKnows'
  BY <1>10 DEF PromoteStage, MoveStage, CanMoveStage
<1>11. ASSUME NEW c \in Changes, JournalApplied(c)
      PROVE  JournalKnows'
  BY <1>11 DEF JournalApplied, WriteJournal
<1>12. ASSUME NEW c \in Changes, DropBackup(c)
      PROVE  JournalKnows'
  BY <1>12 DEF DropBackup, Remove, RemoveEmpty
<1>13. ASSUME NEW c \in Changes, UnlinkJournal(c)
      PROVE  JournalKnows'
  BY <1>13 DEF UnlinkJournal
<1>14. ASSUME NEW c \in Changes, Undo(c)
      PROVE  JournalKnows'
  BY <1>14 DEF Undo
<1>15. ASSUME NEW c \in Changes, UndoStage(c)
      PROVE  JournalKnows'
  BY <1>15 DEF UndoStage, Remove, RemoveEmpty
<1>16. ASSUME NEW c \in Changes, BurnNonce(c)
      PROVE  JournalKnows'
  BY <1>16 DEF BurnNonce
<1>17. ASSUME NEW c \in Changes, MarkApplied(c)
      PROVE  JournalKnows'
  BY <1>17 DEF MarkApplied
<1>18. ASSUME NEW c \in Changes, ApplyRaises(c)
      PROVE  JournalKnows'
  BY <1>18 DEF ApplyRaises, Tried
<1>19. ASSUME NEW r \in Recoverers, BeginRecovery(r)
      PROVE  JournalKnows'
  BY <1>19 DEF BeginRecovery, Enter, AtWork
<1>20. ASSUME NEW r \in Recoverers, NEW c \in Changes, ReadJournal(r, c)
      PROVE  JournalKnows'
  BY <1>20 DEF ReadJournal, Abandon
<1>21. ASSUME NEW r \in Recoverers, Look(r)
      PROVE  JournalKnows'
  BY <1>21 DEF Look, Branch
<1>22. ASSUME NEW r \in Recoverers, Restore(r)
      PROVE  JournalKnows'
  BY <1>22 DEF Restore, Abandon
<1>23. ASSUME NEW r \in Recoverers, RecoverPromote(r)
      PROVE  JournalKnows'
  BY <1>23 DEF RecoverPromote, Abandon, MoveStage, CanMoveStage
<1>24. ASSUME NEW r \in Recoverers, RecoverDropStage(r)
      PROVE  JournalKnows'
  BY <1>24 DEF RecoverDropStage, RecoverRemoves, Remove, RemoveEmpty, Abandon
<1>25. ASSUME NEW r \in Recoverers, RecoverDropBackup(r)
      PROVE  JournalKnows'
  BY <1>25 DEF RecoverDropBackup, RecoverRemoves, Remove, RemoveEmpty, Abandon
<1>26. ASSUME NEW r \in Recoverers, RecoverUnlink(r)
      PROVE  JournalKnows'
  BY <1>26 DEF RecoverUnlink
<1>27. ASSUME NEW r \in Recoverers, ComeUp(r)
      PROVE  JournalKnows'
  BY <1>27 DEF ComeUp, Abandon
<1>28. ASSUME NEW p \in Procs, Crash(p)
      PROVE  JournalKnows'
  BY <1>28 DEF Crash
<1>29. CASE UNCHANGED vars
  BY <1>29 DEF vars
<1>30. QED
  BY <1>1, <1>2, <1>3, <1>4, <1>5, <1>6, <1>7, <1>8, <1>9, <1>10, <1>11, <1>12, <1>13,
     <1>14, <1>15, <1>16, <1>17, <1>18, <1>19, <1>20, <1>21, <1>22, <1>23, <1>24,
     <1>25, <1>26, <1>27, <1>28, <1>29
  DEF Next, ReplaceTree, Recover

\* The target is put back, or replaced, by whoever finds it away.
LEMMA TargetIsSomewhereKept ==
  ASSUME ~mixed', TypeOK, Stations, OneAtATime, PreparedFirst, JournalKnows,
         TargetIsSomewhere, ApplyProgress, RecoveryProgress, [Next]_vars
  PROVE  TargetIsSomewhere'
<1> USE TransactionAssumption DEF TypeOK, Stations, OneAtATime, PreparedFirst,
        JournalKnows, TargetIsSomewhere, ApplyProgress, RecoveryProgress, Procs,
        Trees, Dirs, Phases, ApplySteps, RecoverSteps, Journals, NothingSeen, dirVars,
        rowVars, history, Goto, Swapped, Untouched
<1>1. ASSUME NEW c \in Changes, PrepareChange(c)
      PROVE  TargetIsSomewhere'
  BY <1>1 DEF PrepareChange
<1>2. ASSUME NEW c \in Changes, BeginApply(c)
      PROVE  TargetIsSomewhere'
  BY <1>2 DEF BeginApply, Enter, AtWork
<1>3. ASSUME NEW c \in Changes, CheckTarget(c)
      PROVE  TargetIsSomewhere'
  BY <1>3 DEF CheckTarget
<1>4. ASSUME NEW c \in Changes, MakeStage(c)
      PROVE  TargetIsSomewhere'
  BY <1>4 DEF MakeStage
<1>5. ASSUME NEW c \in Changes, CopyDraft(c)
      PROVE  TargetIsSomewhere'
  BY <1>5 DEF CopyDraft
<1>6. ASSUME NEW c \in Changes, JournalStaged(c)
      PROVE  TargetIsSomewhere'
  BY <1>6 DEF JournalStaged, WriteJournal
<1>7. ASSUME NEW c \in Changes, TestTarget(c)
      PROVE  TargetIsSomewhere'
  BY <1>7 DEF TestTarget
<1>8. ASSUME NEW c \in Changes, MoveTarget(c)
      PROVE  TargetIsSomewhere'
  BY <1>8 DEF MoveTarget
<1>9. ASSUME NEW c \in Changes, JournalMoved(c)
      PROVE  TargetIsSomewhere'
  BY <1>9 DEF JournalMoved, WriteJournal
<1>10. ASSUME NEW c \in Changes, PromoteStage(c)
      PROVE  TargetIsSomewhere'
  BY <1>10 DEF PromoteStage, MoveStage, CanMoveStage
<1>11. ASSUME NEW c \in Changes, JournalApplied(c)
      PROVE  TargetIsSomewhere'
  BY <1>11 DEF JournalApplied, WriteJournal
<1>12. ASSUME NEW c \in Changes, DropBackup(c)
      PROVE  TargetIsSomewhere'
  BY <1>12 DEF DropBackup, Remove, RemoveEmpty
<1>13. ASSUME NEW c \in Changes, UnlinkJournal(c)
      PROVE  TargetIsSomewhere'
  BY <1>13 DEF UnlinkJournal
<1>14. ASSUME NEW c \in Changes, Undo(c)
      PROVE  TargetIsSomewhere'
  BY <1>14 DEF Undo
<1>15. ASSUME NEW c \in Changes, UndoStage(c)
      PROVE  TargetIsSomewhere'
  BY <1>15 DEF UndoStage, Remove, RemoveEmpty
<1>16. ASSUME NEW c \in Changes, BurnNonce(c)
      PROVE  TargetIsSomewhere'
  BY <1>16 DEF BurnNonce
<1>17. ASSUME NEW c \in Changes, MarkApplied(c)
      PROVE  TargetIsSomewhere'
  BY <1>17 DEF MarkApplied
<1>18. ASSUME NEW c \in Changes, ApplyRaises(c)
      PROVE  TargetIsSomewhere'
  BY <1>18 DEF ApplyRaises, Tried
<1>19. ASSUME NEW r \in Recoverers, BeginRecovery(r)
      PROVE  TargetIsSomewhere'
  BY <1>19 DEF BeginRecovery, Enter, AtWork
<1>20. ASSUME NEW r \in Recoverers, NEW c \in Changes, ReadJournal(r, c)
      PROVE  TargetIsSomewhere'
  BY <1>20 DEF ReadJournal, Abandon
<1>21. ASSUME NEW r \in Recoverers, Look(r)
      PROVE  TargetIsSomewhere'
  BY <1>21 DEF Look, Branch
<1>22. ASSUME NEW r \in Recoverers, Restore(r)
      PROVE  TargetIsSomewhere'
  BY <1>22 DEF Restore, Abandon
<1>23. ASSUME NEW r \in Recoverers, RecoverPromote(r)
      PROVE  TargetIsSomewhere'
  BY <1>23 DEF RecoverPromote, Abandon, MoveStage, CanMoveStage
<1>24. ASSUME NEW r \in Recoverers, RecoverDropStage(r)
      PROVE  TargetIsSomewhere'
  BY <1>24 DEF RecoverDropStage, RecoverRemoves, Remove, RemoveEmpty, Abandon
<1>25. ASSUME NEW r \in Recoverers, RecoverDropBackup(r)
      PROVE  TargetIsSomewhere'
  BY <1>25 DEF RecoverDropBackup, RecoverRemoves, Remove, RemoveEmpty, Abandon
<1>26. ASSUME NEW r \in Recoverers, RecoverUnlink(r)
      PROVE  TargetIsSomewhere'
  BY <1>26 DEF RecoverUnlink
<1>27. ASSUME NEW r \in Recoverers, ComeUp(r)
      PROVE  TargetIsSomewhere'
  BY <1>27 DEF ComeUp, Abandon
<1>28. ASSUME NEW p \in Procs, Crash(p)
      PROVE  TargetIsSomewhere'
  BY <1>28 DEF Crash
<1>29. CASE UNCHANGED vars
  BY <1>29 DEF vars
<1>30. QED
  BY <1>1, <1>2, <1>3, <1>4, <1>5, <1>6, <1>7, <1>8, <1>9, <1>10, <1>11, <1>12, <1>13,
     <1>14, <1>15, <1>16, <1>17, <1>18, <1>19, <1>20, <1>21, <1>22, <1>23, <1>24,
     <1>25, <1>26, <1>27, <1>28, <1>29
  DEF Next, ReplaceTree, Recover

\* Nobody else touches the tree between two statements of a call.
LEMMA ApplyProgressKept ==
  ASSUME ~mixed', TypeOK, Stations, OneAtATime, PreparedFirst, JournalKnows,
         TargetIsSomewhere, ApplyProgress, [Next]_vars
  PROVE  ApplyProgress'
<1> USE TransactionAssumption DEF TypeOK, Stations, OneAtATime, PreparedFirst,
        JournalKnows, TargetIsSomewhere, ApplyProgress, Procs, Trees, Dirs, Phases,
        ApplySteps, RecoverSteps, Journals, NothingSeen, dirVars, rowVars, history,
        Goto, Swapped, Untouched
<1>1. ASSUME NEW c \in Changes, PrepareChange(c)
      PROVE  ApplyProgress'
  BY <1>1 DEF PrepareChange
<1>2. ASSUME NEW c \in Changes, BeginApply(c)
      PROVE  ApplyProgress'
  BY <1>2 DEF BeginApply, Enter, AtWork
<1>3. ASSUME NEW c \in Changes, CheckTarget(c)
      PROVE  ApplyProgress'
  BY <1>3 DEF CheckTarget
<1>4. ASSUME NEW c \in Changes, MakeStage(c)
      PROVE  ApplyProgress'
  BY <1>4 DEF MakeStage
<1>5. ASSUME NEW c \in Changes, CopyDraft(c)
      PROVE  ApplyProgress'
  BY <1>5 DEF CopyDraft
<1>6. ASSUME NEW c \in Changes, JournalStaged(c)
      PROVE  ApplyProgress'
  BY <1>6 DEF JournalStaged, WriteJournal
<1>7. ASSUME NEW c \in Changes, TestTarget(c)
      PROVE  ApplyProgress'
  BY <1>7 DEF TestTarget
<1>8. ASSUME NEW c \in Changes, MoveTarget(c)
      PROVE  ApplyProgress'
  BY <1>8 DEF MoveTarget
<1>9. ASSUME NEW c \in Changes, JournalMoved(c)
      PROVE  ApplyProgress'
  BY <1>9 DEF JournalMoved, WriteJournal
<1>10. ASSUME NEW c \in Changes, PromoteStage(c)
      PROVE  ApplyProgress'
  BY <1>10 DEF PromoteStage, MoveStage, CanMoveStage
<1>11. ASSUME NEW c \in Changes, JournalApplied(c)
      PROVE  ApplyProgress'
  BY <1>11 DEF JournalApplied, WriteJournal
<1>12. ASSUME NEW c \in Changes, DropBackup(c)
      PROVE  ApplyProgress'
  BY <1>12 DEF DropBackup, Remove, RemoveEmpty
<1>13. ASSUME NEW c \in Changes, UnlinkJournal(c)
      PROVE  ApplyProgress'
  BY <1>13 DEF UnlinkJournal
<1>14. ASSUME NEW c \in Changes, Undo(c)
      PROVE  ApplyProgress'
  BY <1>14 DEF Undo
<1>15. ASSUME NEW c \in Changes, UndoStage(c)
      PROVE  ApplyProgress'
  BY <1>15 DEF UndoStage, Remove, RemoveEmpty
<1>16. ASSUME NEW c \in Changes, BurnNonce(c)
      PROVE  ApplyProgress'
  BY <1>16 DEF BurnNonce
<1>17. ASSUME NEW c \in Changes, MarkApplied(c)
      PROVE  ApplyProgress'
  BY <1>17 DEF MarkApplied
<1>18. ASSUME NEW c \in Changes, ApplyRaises(c)
      PROVE  ApplyProgress'
  BY <1>18 DEF ApplyRaises, Tried
<1>19. ASSUME NEW r \in Recoverers, BeginRecovery(r)
      PROVE  ApplyProgress'
  BY <1>19 DEF BeginRecovery, Enter, AtWork
<1>20. ASSUME NEW r \in Recoverers, NEW c \in Changes, ReadJournal(r, c)
      PROVE  ApplyProgress'
  BY <1>20 DEF ReadJournal, Abandon
<1>21. ASSUME NEW r \in Recoverers, Look(r)
      PROVE  ApplyProgress'
  BY <1>21 DEF Look, Branch
<1>22. ASSUME NEW r \in Recoverers, Restore(r)
      PROVE  ApplyProgress'
  BY <1>22 DEF Restore, Abandon
<1>23. ASSUME NEW r \in Recoverers, RecoverPromote(r)
      PROVE  ApplyProgress'
  BY <1>23 DEF RecoverPromote, Abandon, MoveStage, CanMoveStage
<1>24. ASSUME NEW r \in Recoverers, RecoverDropStage(r)
      PROVE  ApplyProgress'
  BY <1>24 DEF RecoverDropStage, RecoverRemoves, Remove, RemoveEmpty, Abandon
<1>25. ASSUME NEW r \in Recoverers, RecoverDropBackup(r)
      PROVE  ApplyProgress'
  BY <1>25 DEF RecoverDropBackup, RecoverRemoves, Remove, RemoveEmpty, Abandon
<1>26. ASSUME NEW r \in Recoverers, RecoverUnlink(r)
      PROVE  ApplyProgress'
  BY <1>26 DEF RecoverUnlink
<1>27. ASSUME NEW r \in Recoverers, ComeUp(r)
      PROVE  ApplyProgress'
  BY <1>27 DEF ComeUp, Abandon
<1>28. ASSUME NEW p \in Procs, Crash(p)
      PROVE  ApplyProgress'
  BY <1>28 DEF Crash
<1>29. CASE UNCHANGED vars
  BY <1>29 DEF vars
<1>30. QED
  BY <1>1, <1>2, <1>3, <1>4, <1>5, <1>6, <1>7, <1>8, <1>9, <1>10, <1>11, <1>12, <1>13,
     <1>14, <1>15, <1>16, <1>17, <1>18, <1>19, <1>20, <1>21, <1>22, <1>23, <1>24,
     <1>25, <1>26, <1>27, <1>28, <1>29
  DEF Next, ReplaceTree, Recover

\* Nor between two statements of a recovery.
LEMMA RecoveryProgressKept ==
  ASSUME ~mixed', TypeOK, Stations, OneAtATime, PreparedFirst, JournalKnows,
         TargetIsSomewhere, ApplyProgress, RecoveryProgress, [Next]_vars
  PROVE  RecoveryProgress'
<1> USE TransactionAssumption DEF TypeOK, Stations, OneAtATime, PreparedFirst,
        JournalKnows, TargetIsSomewhere, ApplyProgress, RecoveryProgress, Procs,
        Trees, Dirs, Phases, ApplySteps, RecoverSteps, Journals, NothingSeen, dirVars,
        rowVars, history, Goto, Swapped, Untouched
<1>1. ASSUME NEW c \in Changes, PrepareChange(c)
      PROVE  RecoveryProgress'
  BY <1>1 DEF PrepareChange
<1>2. ASSUME NEW c \in Changes, BeginApply(c)
      PROVE  RecoveryProgress'
  BY <1>2 DEF BeginApply, Enter, AtWork
<1>3. ASSUME NEW c \in Changes, CheckTarget(c)
      PROVE  RecoveryProgress'
  BY <1>3 DEF CheckTarget
<1>4. ASSUME NEW c \in Changes, MakeStage(c)
      PROVE  RecoveryProgress'
  BY <1>4 DEF MakeStage
<1>5. ASSUME NEW c \in Changes, CopyDraft(c)
      PROVE  RecoveryProgress'
  BY <1>5 DEF CopyDraft
<1>6. ASSUME NEW c \in Changes, JournalStaged(c)
      PROVE  RecoveryProgress'
  BY <1>6 DEF JournalStaged, WriteJournal
<1>7. ASSUME NEW c \in Changes, TestTarget(c)
      PROVE  RecoveryProgress'
  BY <1>7 DEF TestTarget
<1>8. ASSUME NEW c \in Changes, MoveTarget(c)
      PROVE  RecoveryProgress'
  BY <1>8 DEF MoveTarget
<1>9. ASSUME NEW c \in Changes, JournalMoved(c)
      PROVE  RecoveryProgress'
  BY <1>9 DEF JournalMoved, WriteJournal
<1>10. ASSUME NEW c \in Changes, PromoteStage(c)
      PROVE  RecoveryProgress'
  BY <1>10 DEF PromoteStage, MoveStage, CanMoveStage
<1>11. ASSUME NEW c \in Changes, JournalApplied(c)
      PROVE  RecoveryProgress'
  BY <1>11 DEF JournalApplied, WriteJournal
<1>12. ASSUME NEW c \in Changes, DropBackup(c)
      PROVE  RecoveryProgress'
  BY <1>12 DEF DropBackup, Remove, RemoveEmpty
<1>13. ASSUME NEW c \in Changes, UnlinkJournal(c)
      PROVE  RecoveryProgress'
  BY <1>13 DEF UnlinkJournal
<1>14. ASSUME NEW c \in Changes, Undo(c)
      PROVE  RecoveryProgress'
  BY <1>14 DEF Undo
<1>15. ASSUME NEW c \in Changes, UndoStage(c)
      PROVE  RecoveryProgress'
  BY <1>15 DEF UndoStage, Remove, RemoveEmpty
<1>16. ASSUME NEW c \in Changes, BurnNonce(c)
      PROVE  RecoveryProgress'
  BY <1>16 DEF BurnNonce
<1>17. ASSUME NEW c \in Changes, MarkApplied(c)
      PROVE  RecoveryProgress'
  BY <1>17 DEF MarkApplied
<1>18. ASSUME NEW c \in Changes, ApplyRaises(c)
      PROVE  RecoveryProgress'
  BY <1>18 DEF ApplyRaises, Tried
<1>19. ASSUME NEW r \in Recoverers, BeginRecovery(r)
      PROVE  RecoveryProgress'
  <2>1. \A q \in Procs : pc[q] = "idle"
    BY <1>19 DEF BeginRecovery, Enter, AtWork
  <2>3. QED
    BY <1>19, <2>1 DEF BeginRecovery
<1>20. ASSUME NEW r \in Recoverers, NEW c \in Changes, ReadJournal(r, c)
      PROVE  RecoveryProgress'
  BY <1>20 DEF ReadJournal, Abandon
<1>21. ASSUME NEW r \in Recoverers, Look(r)
      PROVE  RecoveryProgress'
  BY <1>21 DEF Look, Branch
<1>22. ASSUME NEW r \in Recoverers, Restore(r)
      PROVE  RecoveryProgress'
  BY <1>22 DEF Restore, Abandon
<1>23. ASSUME NEW r \in Recoverers, RecoverPromote(r)
      PROVE  RecoveryProgress'
  BY <1>23 DEF RecoverPromote, Abandon, MoveStage, CanMoveStage
<1>24. ASSUME NEW r \in Recoverers, RecoverDropStage(r)
      PROVE  RecoveryProgress'
  BY <1>24 DEF RecoverDropStage, RecoverRemoves, Remove, RemoveEmpty, Abandon
<1>25. ASSUME NEW r \in Recoverers, RecoverDropBackup(r)
      PROVE  RecoveryProgress'
  BY <1>25 DEF RecoverDropBackup, RecoverRemoves, Remove, RemoveEmpty, Abandon
<1>26. ASSUME NEW r \in Recoverers, RecoverUnlink(r)
      PROVE  RecoveryProgress'
  BY <1>26 DEF RecoverUnlink
<1>27. ASSUME NEW r \in Recoverers, ComeUp(r)
      PROVE  RecoveryProgress'
  BY <1>27 DEF ComeUp, Abandon
<1>28. ASSUME NEW p \in Procs, Crash(p)
      PROVE  RecoveryProgress'
  BY <1>28 DEF Crash
<1>29. CASE UNCHANGED vars
  BY <1>29 DEF vars
<1>30. QED
  BY <1>1, <1>2, <1>3, <1>4, <1>5, <1>6, <1>7, <1>8, <1>9, <1>10, <1>11, <1>12, <1>13,
     <1>14, <1>15, <1>16, <1>17, <1>18, <1>19, <1>20, <1>21, <1>22, <1>23, <1>24,
     <1>25, <1>26, <1>27, <1>28, <1>29
  DEF Next, ReplaceTree, Recover
\* What is mixed stays so.
LEMMA MixedStays ==
  ASSUME [Next]_vars
  PROVE  ~mixed' => ~mixed
<1> USE DEF history
<1>1. ASSUME NEW c \in Changes, PrepareChange(c)
      PROVE  ~mixed' => ~mixed
  BY <1>1 DEF PrepareChange
<1>2. ASSUME NEW c \in Changes, BeginApply(c)
      PROVE  ~mixed' => ~mixed
  BY <1>2 DEF BeginApply, Enter, AtWork
<1>3. ASSUME NEW c \in Changes, CheckTarget(c)
      PROVE  ~mixed' => ~mixed
  BY <1>3 DEF CheckTarget
<1>4. ASSUME NEW c \in Changes, MakeStage(c)
      PROVE  ~mixed' => ~mixed
  BY <1>4 DEF MakeStage
<1>5. ASSUME NEW c \in Changes, CopyDraft(c)
      PROVE  ~mixed' => ~mixed
  BY <1>5 DEF CopyDraft
<1>6. ASSUME NEW c \in Changes, JournalStaged(c)
      PROVE  ~mixed' => ~mixed
  BY <1>6 DEF JournalStaged, WriteJournal
<1>7. ASSUME NEW c \in Changes, TestTarget(c)
      PROVE  ~mixed' => ~mixed
  BY <1>7 DEF TestTarget
<1>8. ASSUME NEW c \in Changes, MoveTarget(c)
      PROVE  ~mixed' => ~mixed
  BY <1>8 DEF MoveTarget
<1>9. ASSUME NEW c \in Changes, JournalMoved(c)
      PROVE  ~mixed' => ~mixed
  BY <1>9 DEF JournalMoved, WriteJournal
<1>10. ASSUME NEW c \in Changes, PromoteStage(c)
      PROVE  ~mixed' => ~mixed
  BY <1>10 DEF PromoteStage, MoveStage, CanMoveStage
<1>11. ASSUME NEW c \in Changes, JournalApplied(c)
      PROVE  ~mixed' => ~mixed
  BY <1>11 DEF JournalApplied, WriteJournal
<1>12. ASSUME NEW c \in Changes, DropBackup(c)
      PROVE  ~mixed' => ~mixed
  BY <1>12 DEF DropBackup, Remove, RemoveEmpty
<1>13. ASSUME NEW c \in Changes, UnlinkJournal(c)
      PROVE  ~mixed' => ~mixed
  BY <1>13 DEF UnlinkJournal
<1>14. ASSUME NEW c \in Changes, Undo(c)
      PROVE  ~mixed' => ~mixed
  BY <1>14 DEF Undo
<1>15. ASSUME NEW c \in Changes, UndoStage(c)
      PROVE  ~mixed' => ~mixed
  BY <1>15 DEF UndoStage, Remove, RemoveEmpty
<1>16. ASSUME NEW c \in Changes, BurnNonce(c)
      PROVE  ~mixed' => ~mixed
  BY <1>16 DEF BurnNonce
<1>17. ASSUME NEW c \in Changes, MarkApplied(c)
      PROVE  ~mixed' => ~mixed
  BY <1>17 DEF MarkApplied
<1>18. ASSUME NEW c \in Changes, ApplyRaises(c)
      PROVE  ~mixed' => ~mixed
  BY <1>18 DEF ApplyRaises, Tried
<1>19. ASSUME NEW r \in Recoverers, BeginRecovery(r)
      PROVE  ~mixed' => ~mixed
  BY <1>19 DEF BeginRecovery, Enter, AtWork
<1>20. ASSUME NEW r \in Recoverers, NEW c \in Changes, ReadJournal(r, c)
      PROVE  ~mixed' => ~mixed
  BY <1>20 DEF ReadJournal, Abandon
<1>21. ASSUME NEW r \in Recoverers, Look(r)
      PROVE  ~mixed' => ~mixed
  BY <1>21 DEF Look, Branch
<1>22. ASSUME NEW r \in Recoverers, Restore(r)
      PROVE  ~mixed' => ~mixed
  BY <1>22 DEF Restore, Abandon
<1>23. ASSUME NEW r \in Recoverers, RecoverPromote(r)
      PROVE  ~mixed' => ~mixed
  BY <1>23 DEF RecoverPromote, Abandon, MoveStage, CanMoveStage
<1>24. ASSUME NEW r \in Recoverers, RecoverDropStage(r)
      PROVE  ~mixed' => ~mixed
  BY <1>24 DEF RecoverDropStage, RecoverRemoves, Remove, RemoveEmpty, Abandon
<1>25. ASSUME NEW r \in Recoverers, RecoverDropBackup(r)
      PROVE  ~mixed' => ~mixed
  BY <1>25 DEF RecoverDropBackup, RecoverRemoves, Remove, RemoveEmpty, Abandon
<1>26. ASSUME NEW r \in Recoverers, RecoverUnlink(r)
      PROVE  ~mixed' => ~mixed
  BY <1>26 DEF RecoverUnlink
<1>27. ASSUME NEW r \in Recoverers, ComeUp(r)
      PROVE  ~mixed' => ~mixed
  BY <1>27 DEF ComeUp, Abandon
<1>28. ASSUME NEW p \in Procs, Crash(p)
      PROVE  ~mixed' => ~mixed
  BY <1>28 DEF Crash
<1>29. CASE UNCHANGED vars
  BY <1>29 DEF vars
<1>30. QED
  BY <1>1, <1>2, <1>3, <1>4, <1>5, <1>6, <1>7, <1>8, <1>9, <1>10, <1>11, <1>12, <1>13,
     <1>14, <1>15, <1>16, <1>17, <1>18, <1>19, <1>20, <1>21, <1>22, <1>23, <1>24,
     <1>25, <1>26, <1>27, <1>28, <1>29
  DEF Next, ReplaceTree, Recover

-----------------------------------------------------------------------------
(* What a reader sees, state by state.                                     *)

\* Two changes never swap at once.
LEMMA OneSwap ==
  ASSUME Invariant, ~mixed, NEW c \in Changes, NEW d \in Changes, Swapped(c), Swapped(d)
  PROVE  c = d
BY DEF Invariant, Orderly, Orderly, OneAtATime, Swapped

\* The target itself, when it is there or nothing is parked.
LEMMA TargetIsVisible ==
  (target # "absent" \/ Parked = {}) => Visible = target
BY DEF Visible

\* While a change swaps, the preimage it has moved aside.
LEMMA PreimageIsVisible ==
  Invariant /\ ~mixed => \A c \in Changes : Swapped(c) => Visible = preimage[c] /\ target = "absent"
<1> SUFFICES ASSUME Invariant, ~mixed, NEW c \in Changes, Swapped(c)
             PROVE  Visible = preimage[c] /\ target = "absent"
  OBVIOUS
<1>1. c \in Swapping /\ target = "absent"
  BY TransactionAssumption DEF Swapped, Swapping, Parked, Trees, Procs
<1>2. \A d \in Swapping : d = c
  <2>1. \A d \in Swapping : Swapped(d)
    BY DEF Invariant, Orderly, JournalKnows, Swapping, Parked
  <2>2. QED
    BY <2>1, OneSwap DEF Swapping, Parked
<1>3. (CHOOSE d \in Parked : Swapping # {} => d \in Swapping) = c
  BY <1>1, <1>2 DEF Swapping
<1>4. QED
  BY <1>1, <1>3 DEF Visible, Swapped, Swapping

LEMMA PreimageIsVisibleNext ==
  (Invariant /\ ~mixed => \A c \in Changes : Swapped(c) => Visible = preimage[c] /\ target = "absent")'
BY PreimageIsVisible, PTL

\* There is no third case.
LEMMA SomethingIsVisible ==
  ASSUME Invariant, ~mixed
  PROVE  \/ target # "absent" \/ Parked = {}
         \/ \E c \in Changes : Swapped(c)
BY DEF Invariant, Orderly, TargetIsSomewhere, Parked

\* A change that works on the target and has not moved it is not kept from it by another.
LEMMA WorkerSwaps ==
  ASSUME Invariant, ~mixed, NEW c \in Changes, pc[c] # "idle", NEW d \in Changes, Swapped(d)
  PROVE  d = c
BY DEF Invariant, Orderly, OneAtATime, Swapped

\* Nor is a recovery.
LEMMA RecoveredSwaps ==
  ASSUME Invariant, ~mixed, NEW r \in Recoverers, NEW d \in Changes, Swapped(d),
         seen[r] \in Journals, journal[seen[r].change] # "none"
  PROVE  d = seen[r].change
BY DEF Invariant, Orderly, OneAtATime, Journals, Swapped

-----------------------------------------------------------------------------
(* Every step implements one of the record, or none.                       *)

Seen == <<Visible, preimage>>

\* Steps that leave the target and the backups where they are are not seen.
LEMMA StageIsNotSeen ==
  ASSUME target # "absent" \/ Parked = {}, UNCHANGED <<target, backup, preimage>>
  PROVE  UNCHANGED Seen
BY DEF Seen, Visible, Parked

LEMMA RowsAreNotSeen ==
  ASSUME UNCHANGED <<target, stage, backup, preimage>>
  PROVE  UNCHANGED Seen
BY DEF Seen, Visible, Parked, Swapping

\* Preparing a change records what a reader sees.
LEMMA PrepareImplements ==
  ASSUME Invariant, ~mixed', NEW c \in Changes, PrepareChange(c)
  PROVE  Record!Prepare(c)
<1>1. ~mixed /\ target = Visible
  BY DEF PrepareChange
<1>2. UNCHANGED Visible
  BY RowsAreNotSeen DEF PrepareChange, dirVars, Visible, Parked, Swapping
<1>3. QED
  BY <1>1, <1>2 DEF Record!Prepare, PrepareChange, Invariant, Orderly, PreparedFirst

\* A call.
LEMMA ApplyImplements ==
  ASSUME Invariant, Invariant', ~mixed, ~mixed', NEW c \in Changes,
         ReplaceTree(c) \/ BurnNonce(c) \/ MarkApplied(c) \/ BeginApply(c) \/ CheckTarget(c)
           \/ ApplyRaises(c)
  PROVE  Record!Replace(c) \/ UNCHANGED Seen
<1> USE DEF dirVars, rowVars
<1>1. ASSUME UNCHANGED <<target, backup, preimage>>, pc[c] # "idle", ~Swapped(c)
      PROVE  UNCHANGED Seen
  BY <1>1, WorkerSwaps, SomethingIsVisible, StageIsNotSeen
<1>2. CASE MakeStage(c) \/ CopyDraft(c)
  <2>1. pc[c] # "idle" /\ ~Swapped(c) /\ UNCHANGED <<target, backup, preimage>>
    BY <1>2, TransactionAssumption
       DEF MakeStage, CopyDraft, Invariant, Orderly, ApplyProgress, Swapped, Trees, Procs
  <2>2. QED
    BY <1>1, <2>1
<1>3. CASE MoveTarget(c)
  <2>1. target # "absent" /\ target = preimage[c] /\ UNCHANGED preimage
    BY <1>3 DEF MoveTarget, Invariant, Orderly, ApplyProgress
  <2>2. Visible = preimage[c]
    BY <2>1, TargetIsVisible
  <2>3. Swapped(c)'
    BY <1>3, <2>1 DEF MoveTarget, Invariant, Orderly, ApplyProgress, Goto, TypeOK, Procs
  <2>4. Visible' = preimage'[c]
    BY <2>3, PreimageIsVisibleNext
  <2>5. QED
    BY <2>1, <2>2, <2>4 DEF Seen
<1>4. CASE PromoteStage(c)
  <2>1. stage[c] = "full" /\ target = "absent" /\ Visible = preimage[c]
    <3>1. CASE Swapped(c)
      BY <1>4, <3>1, PreimageIsVisible DEF Swapped
    <3>2. CASE ~Swapped(c)
      <4>1. stage[c] = "full" /\ target = "absent" /\ preimage[c] = "absent"
        BY <1>4, <3>2 DEF PromoteStage, Invariant, Orderly, ApplyProgress
      <4>2. Visible = target
        BY <1>4, <3>2, WorkerSwaps, SomethingIsVisible, TargetIsVisible DEF PromoteStage
      <4>3. QED
        BY <4>1, <4>2
    <3>3. QED
      BY <3>1, <3>2
  <2>2. target' = c /\ UNCHANGED preimage
    BY <1>4, <2>1 DEF PromoteStage, CanMoveStage, MoveStage
  <2>3. Visible' = c
    BY <2>2, TransactionAssumption DEF Visible, Procs
  <2>4. QED
    BY <2>1, <2>2, <2>3 DEF Record!Replace
<1>5. CASE DropBackup(c)
  <2>1. target # "absent" /\ UNCHANGED <<target, preimage>>
    BY <1>5, TransactionAssumption DEF DropBackup, Invariant, Orderly, ApplyProgress, Procs
  <2>2. QED
    BY <2>1 DEF Seen, Visible
<1>6. CASE Undo(c)
  <2>1. CASE target = "absent" /\ backup[c] # "absent"
    <3>1. Swapped(c)
      BY <1>6, <2>1, WorkerSwaps, SomethingIsVisible DEF Undo, Parked
    <3>2. Visible = preimage[c] /\ backup[c] = preimage[c] /\ backup[c] # "absent"
      BY <2>1, <3>1, PreimageIsVisible DEF Swapped
    <3>3. target' = backup[c] /\ UNCHANGED preimage
      BY <1>6, <2>1 DEF Undo
    <3>4. QED
      BY <3>2, <3>3 DEF Seen, Visible
  <2>2. CASE ~(target = "absent" /\ backup[c] # "absent")
    BY <1>1, <1>6, <2>2, TransactionAssumption DEF Undo, Swapped, Trees, Procs
  <2>3. QED
    BY <2>1, <2>2
<1>7. CASE UndoStage(c)
  <2>1. pc[c] # "idle" /\ ~Swapped(c) /\ UNCHANGED <<target, backup, preimage>>
    BY <1>7, TransactionAssumption DEF UndoStage, Invariant, Orderly, ApplyProgress,
       Swapped, Trees, Procs
  <2>2. QED
    BY <1>1, <2>1
<1>8. CASE JournalStaged(c) \/ JournalMoved(c) \/ JournalApplied(c) \/ UnlinkJournal(c)
  BY <1>8, RowsAreNotSeen
     DEF JournalStaged, JournalMoved, JournalApplied, WriteJournal, UnlinkJournal
<1>9. CASE TestTarget(c) \/ BurnNonce(c) \/ MarkApplied(c) \/ BeginApply(c) \/ CheckTarget(c)
             \/ ApplyRaises(c)
  BY <1>9, RowsAreNotSeen
     DEF TestTarget, BurnNonce, MarkApplied, BeginApply, CheckTarget, ApplyRaises
<1>10. QED
  BY <1>2, <1>3, <1>4, <1>5, <1>6, <1>7, <1>8, <1>9 DEF ReplaceTree

\* A recovery finishes the swap it finds, or undoes it unseen.
LEMMA RecoverImplements ==
  ASSUME Invariant, ~mixed, NEW r \in Recoverers, Recover(r)
  PROVE  (\E c \in Changes : Record!Replace(c)) \/ UNCHANGED Seen
<1> USE DEF dirVars, rowVars
<1> DEFINE c == seen[r].change
<1> DEFINE Work == \/ Look(r) \/ Restore(r) \/ RecoverPromote(r) \/ RecoverDropStage(r)
                   \/ RecoverDropBackup(r) \/ RecoverUnlink(r)
<1>0. CASE ComeUp(r) \/ \E d \in Changes : ReadJournal(r, d)
  BY <1>0, RowsAreNotSeen DEF ComeUp, ReadJournal
<1> SUFFICES ASSUME Work
             PROVE  (\E d \in Changes : Record!Replace(d)) \/ UNCHANGED Seen
  BY <1>0 DEF Recover
<1>1. pc[r] \notin {"idle", "next"} /\ c \in Changes /\ seen[r] \in Journals /\ UNCHANGED preimage
  <2>1. pc[r] \notin {"idle", "next"} /\ UNCHANGED preimage
    BY DEF Look, Restore, RecoverPromote, RecoverDropStage, RecoverDropBackup,
       RecoverRemoves,
           RecoverUnlink
  <2>2. QED
    BY <2>1 DEF Invariant, Stations, Journals
<1>2. CASE Look(r)
  BY <1>2, RowsAreNotSeen DEF Look
<1>3. CASE Restore(r)
  <2>1. Swapped(c)
    BY <1>1, <1>3 DEF Restore, Invariant, Orderly, RecoveryProgress
  <2>2. Visible = preimage[c] /\ backup[c] = preimage[c] /\ backup[c] # "absent"
    BY <1>1, <2>1, PreimageIsVisible, TransactionAssumption DEF Swapped, Trees, Procs
  <2>3. target' = backup[c]
    BY <1>3, <2>1, <2>2 DEF Restore, Swapped
  <2>4. QED
    BY <1>1, <2>2, <2>3 DEF Seen, Visible
<1>4. CASE RecoverPromote(r)
  <2>1. Swapped(c)
    BY <1>1, <1>4 DEF RecoverPromote, Invariant, Orderly, RecoveryProgress
  <2>2. Visible = preimage[c]
    BY <1>1, <2>1, PreimageIsVisible
  <2>3. target' = c
    BY <1>4, <2>1 DEF RecoverPromote, CanMoveStage, MoveStage, Swapped
  <2>4. Visible' = c
    BY <1>1, <2>3, TransactionAssumption DEF Visible, Procs
  <2>5. QED
    BY <1>1, <2>2, <2>4 DEF Record!Replace
<1>5. CASE RecoverDropStage(r)
  <2>1. journal[c] # "none" /\ ~Swapped(c) /\ UNCHANGED <<target, backup>>
    BY <1>1, <1>5, TransactionAssumption
       DEF RecoverDropStage, RecoverRemoves, Invariant, Orderly, RecoveryProgress,
          Swapped, Trees, Procs
  <2>2. QED
    BY <1>1, <2>1, RecoveredSwaps, SomethingIsVisible, StageIsNotSeen
<1>6. CASE RecoverDropBackup(r)
  <2>1. target # "absent" /\ UNCHANGED target
    BY <1>1, <1>6 DEF RecoverDropBackup, RecoverRemoves, Invariant, Orderly,
       RecoveryProgress
  <2>2. QED
    BY <1>1, <2>1 DEF Seen, Visible
<1>7. CASE RecoverUnlink(r)
  BY <1>1, <1>7 DEF RecoverUnlink, Seen, Visible, Parked, Swapping
<1>8. QED
  BY <1>2, <1>3, <1>4, <1>5, <1>6, <1>7

LEMMA StepImplements ==
  ASSUME Invariant, Invariant', [Next]_vars
  PROVE  [Record!Next \/ mixed']_<<Visible, preimage>>
<1> USE DEF Seen, dirVars, rowVars
<1> SUFFICES ASSUME ~mixed'
             PROVE  [Record!Next]_<<Visible, preimage>>
  OBVIOUS
<1>1. ASSUME NEW c \in Changes, PrepareChange(c)
      PROVE  Record!Next
  BY <1>1, PrepareImplements DEF Record!Next
<1>2. ASSUME NEW c \in Changes,
             ReplaceTree(c) \/ BurnNonce(c) \/ MarkApplied(c) \/ CheckTarget(c)
               \/ ApplyRaises(c)
      PROVE  [Record!Next]_<<Visible, preimage>>
  <2>1. ~mixed
    BY <1>2 DEF ReplaceTree, MakeStage, CopyDraft, WriteJournal, JournalStaged, TestTarget,
      MoveTarget, JournalMoved, PromoteStage, JournalApplied, DropBackup, UnlinkJournal,
         Undo,
      UndoStage, BurnNonce, MarkApplied, CheckTarget, ApplyRaises, history
  <2>2. QED
    BY <1>2, <2>1, ApplyImplements DEF Record!Next
<1>3. ASSUME NEW r \in Recoverers, Recover(r)
      PROVE  [Record!Next]_<<Visible, preimage>>
  <2>1. ~mixed
    BY <1>3 DEF Recover, Look, Restore, RecoverPromote, RecoverDropStage, RecoverDropBackup,
      RecoverUnlink, ComeUp, ReadJournal, history
  <2>2. QED
    BY <1>3, <2>1, RecoverImplements DEF Record!Next
<1>4. CASE \/ \E r \in Recoverers : BeginRecovery(r)
           \/ \E c \in Changes : BeginApply(c)
           \/ \E p \in Procs : Crash(p)
  BY <1>4, RowsAreNotSeen DEF BeginRecovery, BeginApply, Crash
<1>5. CASE UNCHANGED vars
  BY <1>5, RowsAreNotSeen DEF vars
<1>6. QED
  BY <1>1, <1>2, <1>3, <1>4, <1>5 DEF Next

-----------------------------------------------------------------------------
(* The theorems.                                                           *)

\* Invariant holds of every run, whatever raises, dies or overlaps.
THEOREM InvariantHolds == Spec => []Invariant
<1>1. Init => Invariant
  <2> SUFFICES ASSUME Init
               PROVE  Invariant
    OBVIOUS
  <2> USE TransactionAssumption DEF Init, Procs, Trees, Dirs
  <2>1. TypeOK
    <3>1. target \in Dirs /\ faults \in 0..MaxFaults
      OBVIOUS
    <3>2. crashed \in BOOLEAN /\ mixed \in BOOLEAN /\ beside \in SUBSET Changes
      OBVIOUS
    <3>3. /\ stage \in [Changes -> {"absent", "partial", "full"}]
          /\ backup \in [Changes -> Dirs]
          /\ journal \in [Changes -> Phases \cup {"none"}]
          /\ status \in [Changes -> {"none", "prepared", "applied"}]
          /\ preimage \in [Changes -> Dirs \cup {"none"}]
          /\ burned \in SUBSET Changes
      OBVIOUS
    <3>4. pc \in [Procs -> ApplySteps \cup RecoverSteps \cup {"idle"}]
      OBVIOUS
    <3>5. /\ seen \in [Recoverers -> Journals \cup {NothingSeen}]
          /\ todo \in [Recoverers -> SUBSET Changes]
      OBVIOUS
    <3>6. QED
      BY <3>1, <3>2, <3>3, <3>4, <3>5 DEF TypeOK
  <2>2. Stations /\ AloneProgress
    BY DEF Stations, AloneProgress
  <2>3. OneAtATime /\ PreparedFirst
    BY DEF OneAtATime, PreparedFirst, Untouched
  <2>4. JournalKnows /\ TargetIsSomewhere
    BY DEF JournalKnows, TargetIsSomewhere, Swapped
  <2>5. ApplyProgress /\ RecoveryProgress
    BY DEF ApplyProgress, RecoveryProgress
  <2>6. QED
    BY <2>1, <2>2, <2>3, <2>4, <2>5 DEF Invariant, Orderly
<1>2. Invariant /\ [Next]_vars => Invariant'
  <2> SUFFICES ASSUME Invariant, [Next]_vars
               PROVE  Invariant'
    OBVIOUS
  <2>1. TypeOK' /\ Stations' /\ AloneProgress'
    BY TypeOKKept, StationsKept, AloneProgressKept DEF Invariant
  <2>2. ASSUME ~mixed'
        PROVE  Orderly'
    <3>1. ~mixed
      BY <2>2, MixedStays
    <3>2. QED
      BY <2>2, <3>1, OneAtATimeKept, PreparedFirstKept, JournalKnowsKept,
         TargetIsSomewhereKept, ApplyProgressKept, RecoveryProgressKept
      DEF Invariant, Orderly
  <2>3. QED
    BY <2>1, <2>2 DEF Invariant
<1>3. QED
  BY <1>1, <1>2, PTL DEF Spec

\* Once no process is at work and no journal is left, the target is one whole tree and no
\* backup lies about: whoever died or raised, wherever and however often, as long as calls
\* and recoveries were not mixed (changes.py 261-335).
THEOREM WholeCorrect == Spec => []RecoveredTargetIsWhole
<1>1. Invariant => RecoveredTargetIsWhole
  BY DEF Invariant, Orderly, TargetIsSomewhere, JournalKnows, RecoveredTargetIsWhole,
     Settled
<1>2. QED
  BY <1>1, InvariantHolds, PTL

\* A change becomes applied only while its tree is in the target and its token is used,
\* whatever other calls, recoveries and deaths came before, when no other process has
\* worked beside its apply (changes.py 240-259).
THEOREM AppliedCorrect == Spec => AppliedIsInPlace
<1>1. Invariant /\ [Next]_vars =>
        [\A c \in Changes \ beside : status[c] = "prepared" /\ status'[c] = "applied" =>
           target = c /\ c \in burned]_vars
  <2> SUFFICES ASSUME Invariant, Next, NEW c \in Changes \ beside,
                      status[c] = "prepared", status'[c] = "applied"
               PROVE  target = c /\ c \in burned
    OBVIOUS
  <2>1. MarkApplied(c)
    BY DEF Next, ReplaceTree, Recover, PrepareChange, BeginApply, CheckTarget, MakeStage,
           CopyDraft, WriteJournal, JournalStaged, TestTarget, MoveTarget, JournalMoved,
           PromoteStage, JournalApplied, DropBackup, UnlinkJournal, Undo, UndoStage,
              BurnNonce,
           MarkApplied, ApplyRaises, Look, Restore, RecoverPromote, RecoverDropStage,
           RecoverDropBackup, RecoverUnlink, ReadJournal, BeginRecovery, Crash, ComeUp,
              rowVars,
           Invariant, TypeOK
  <2>2. QED
    BY <2>1 DEF MarkApplied, Invariant, AloneProgress
<1>2. QED
  BY <1>1, InvariantHolds, PTL DEF Spec, AppliedIsInPlace

\* What a change moves aside to be replaced is the very tree it was prepared on, for any
\* number of change sets of one target that each hold a lock of their own, when no other
\* process has worked beside its apply (changes.py 215-236, 288-289).
THEOREM PreimageCorrect == Spec => ReplacesOnlyItsPreimage
<1>1. Invariant /\ [Next]_vars =>
        [\A c \in Changes \ beside : backup[c] = "absent" /\ backup'[c] # "absent" =>
           backup'[c] = preimage[c]]_vars
  <2> SUFFICES ASSUME Invariant, Next, NEW c \in Changes \ beside,
                      backup[c] = "absent", backup'[c] # "absent"
               PROVE  backup'[c] = preimage[c]
    OBVIOUS
  <2>1. MoveTarget(c)
    BY DEF Next, ReplaceTree, Recover, PrepareChange, BeginApply, CheckTarget, MakeStage,
           CopyDraft, WriteJournal, JournalStaged, TestTarget, MoveTarget, JournalMoved,
           PromoteStage, JournalApplied, DropBackup, UnlinkJournal, Undo, UndoStage,
              BurnNonce,
           MarkApplied, ApplyRaises, Look, Restore, RecoverPromote, RecoverDropStage,
           RecoverDropBackup, RecoverUnlink, ReadJournal, BeginRecovery, Crash, ComeUp,
           RecoverRemoves, Remove, RemoveEmpty, dirVars, Invariant, TypeOK
  <2>2. QED
    BY <2>1 DEF MoveTarget, Invariant, TypeOK, AloneProgress
<1>2. QED
  BY <1>1, InvariantHolds, PTL DEF Spec, ReplacesOnlyItsPreimage

\* The target implements the record: as long as calls and recoveries are not mixed it goes
\* as a whole from the preimage of a prepared change to that change's tree, and a reader is
\* entitled to one of the two at every moment.
THEOREM RecordCorrect == Spec => ImplementsTargetRecord
<1>1. Init => Record!Init
  BY DEF Init, Record!Init, Visible, Parked
<1>2. QED
  BY <1>1, InvariantHolds, StepImplements, PTL DEF Spec, ImplementsTargetRecord
==============================================================================
