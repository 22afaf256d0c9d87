------------------------- MODULE DatasetStoreProofs -------------------------
(***************************************************************************)
(* Invariant is inductive for DatasetStore and so is StoreInvariant, which *)
(* says what calls and collectors may rely on of each other: for all sets  *)
(* of sources, contents, DataSpecs, calls and cleaners and any number of   *)
(* edits and faults.  From the second follows that DatasetStore implements *)
(* DatasetRecord.                                                          *)
(***************************************************************************)
EXTENDS DatasetStore, SequenceTheorems, TLAPS

-----------------------------------------------------------------------------
(* What makes the properties inductive: Invariant speaks of rows and calls, *)
(* StoreInvariant of their objects.                                         *)

Storing(c) == pc[c] \in {"check", "test", "write", "look", "put"}

\* What a call may rely on at its statement.
CallIsWhole(c) ==
  /\ pc[c] \in CallSteps
  /\ pc[c] \in {"read", "find"} \/ (Storing(c) /\ goal[c].kind = "file") => todo[c] # <<>>
  /\ pc[c] = "find" => raw[c] \in Bytes
  /\ Storing(c) /\ goal[c].kind = "file" => /\ raw[c] \in Bytes
                                           /\ goal[c].content = Canonical[raw[c]]
  /\ pc[c] \in {"check", "test", "write"} => goal[c].kind # "spec"
  /\ pc[c] = "size" => goal[c].kind = "spec"
  /\ pc[c] = "load" => goal[c] \in FileId

\* A dataset of several feeds is about to be stored with feeds that are registered and
\* were compared.
FeedsAreSettled(c) ==
  /\ parts[c] \subseteq Registered
  /\ pc[c] \in {"size", "look", "put"} /\ goal[c].kind = "spec" =>
       goal[c].parts \subseteq Registered /\ ObjectsOf(goal[c]) \in Aligned

\* Provenance is that of files.
BytesAreOfFiles == \A r \in rows : r.bytes \in Bytes => r.id \in FileId

Invariant ==
  /\ TypeOK
  /\ \A c \in Calls : CallIsWhole(c) /\ FeedsAreSettled(c)
  /\ BytesAreOfFiles
  /\ SameBytesSameContent
  /\ SpecsAreAligned

\* A call that only has its row to write has the objects the row will refer to, and no
\* clean is at work, unless one has been since the call saw them.
ObjectsFirst ==
  \A c \in Calls \ swept : pc[c] \in {"look", "put"} => Readable(goal[c]) /\ ~Cleaning

\* A collector knows every reference but those of exposed rows, and spares what is
\* referenced.
ReferencesAreSpared ==
  \A k \in Cleaners :
    /\ pc[k] # "idle" => \A d \in Registered \ exposed : ObjectsOf(d) \subseteq refs[k]
    /\ victim[k] \cap refs[k] = {}
    /\ pc[k] = "idle" => victim[k] = {}

StoreInvariant ==
  Invariant /\ RegisteredIsReadable /\ ObjectsFirst /\ ReferencesAreSpared

-----------------------------------------------------------------------------
(* Datasets by kind.                                                       *)

LEMMA Kinds ==
  /\ \A d \in DatasetId : /\ d.kind = "file" => d \in FileId
                          /\ d.kind = "spec" => d \in SpecId
                          /\ d.kind # "spec" => d.content \in Contents
                          /\ d.kind = "spec" => d.parts \subseteq FileId
  /\ \A d \in FileId : d \in DatasetId /\ d.kind = "file" /\ d.content \in Contents
  /\ \A d \in DerivedId : d.kind = "derived"
  /\ \A p \in SUBSET FileId : [kind |-> "spec", parts |-> p] \in DatasetId
  /\ NoGoal \in DatasetId /\ NoGoal.kind = "spec"
BY DEF DatasetId, FileId, DerivedId, SpecId, NoGoal

LEMMA RowId == ASSUME TypeOK PROVE Registered \subseteq DatasetId
BY DEF TypeOK, Registered, Row

-----------------------------------------------------------------------------
(* One call moves, the others keep their locals.                           *)

CallTypes ==
  /\ pc \in [Procs -> CallSteps \cup CleanSteps]
  /\ op \in [Calls -> {"register", "spec", "derive", "read"}]
  /\ todo \in [Calls -> Seq(Sources)]
  /\ raw \in [Calls -> Bytes \cup {NoBytes}]
  /\ reuse \in [Calls -> BOOLEAN]
  /\ goal \in [Calls -> DatasetId]
  /\ parts \in [Calls -> SUBSET FileId]

Locals(c) == <<pc[c], op[c], todo[c], raw[c], goal[c], parts[c]>>
OthersStay(c) ==
  \A x \in Procs \ {c} : pc'[x] = pc[x] /\ (x \in Calls => Locals(x)' = Locals(x))

LEMMA FinishEffect ==
  ASSUME CallTypes, NEW c \in Calls, Finish(c)
  PROVE  /\ CallTypes' /\ OthersStay(c)
         /\ pc'[c] = "idle" /\ parts'[c] = {}
<1> USE Kinds DEF CallTypes, Finish, Goto, Procs, CallSteps
<1>1. CallTypes'
  OBVIOUS
<1>2. OthersStay(c)
  BY DEF OthersStay, Locals
<1>3. QED
  BY <1>1, <1>2

LEMMA StoredEffect ==
  ASSUME CallTypes, NEW c \in Calls, CallIsWhole(c), Storing(c), Stored(c)
  PROVE  /\ CallTypes' /\ OthersStay(c)
         /\ \/ pc'[c] = "idle" /\ parts'[c] = {}
            \/ /\ pc'[c] = "align"
               /\ parts'[c] = parts[c] \cup {goal[c]}
            \/ /\ pc'[c] = "read" /\ todo'[c] # <<>>
               /\ parts'[c] = parts[c] \cup {goal[c]}
<1>1. CASE op[c] = "spec" /\ goal[c].kind = "file"
  <2>1. todo[c] \in Seq(Sources) /\ todo[c] # <<>>
    BY <1>1 DEF CallTypes, CallIsWhole
  <2>2. /\ Tail(todo[c]) \in Seq(Sources)
        /\ Len(todo[c]) # 1 => Tail(todo[c]) # <<>>
    <3>1. Tail(todo[c]) \in Seq(Sources) /\ Len(Tail(todo[c])) = Len(todo[c]) - 1
      BY <2>1, HeadTailProperties
    <3>2. Len(todo[c]) \in Nat
      BY <2>1
    <3>3. CASE Tail(todo[c]) = <<>>
      <4>1. Len(<<>>) = 0
        OBVIOUS
      <4>2. Len(Tail(todo[c])) = 0
        BY <3>3, <4>1, Zenon
      <4>3. QED
        BY <3>1, <3>2, <4>2
    <3>4. QED
      BY <3>1, <3>3
  <2>3. goal[c] \in FileId
    BY <1>1, Kinds DEF CallTypes
  <2>4. CallTypes'
    <3>1. todo' \in [Calls -> Seq(Sources)]
      BY <1>1, <2>2 DEF CallTypes, Stored
    <3>2. parts' \in [Calls -> SUBSET FileId]
      <4>1. parts[c] \cup {goal[c]} \in SUBSET FileId
        BY <2>3 DEF CallTypes
      <4>2. parts' = [parts EXCEPT ![c] = parts[c] \cup {goal[c]}]
        BY <1>1 DEF Stored
      <4>3. QED
        BY <4>1, <4>2 DEF CallTypes
    <3>3. pc' \in [Procs -> CallSteps \cup CleanSteps]
      BY <1>1 DEF CallTypes, Stored, Goto, Procs, CallSteps
    <3>4. QED
      BY <1>1, <3>1, <3>2, <3>3 DEF CallTypes, Stored
  <2>5. OthersStay(c)
    BY <1>1 DEF CallTypes, Stored, Goto, Procs, OthersStay, Locals
  <2>6. QED
    BY <1>1, <2>2, <2>4, <2>5 DEF CallTypes, Stored, Goto, Procs
<1>2. CASE ~(op[c] = "spec" /\ goal[c].kind = "file")
  BY <1>2, FinishEffect DEF Stored
<1>3. QED
  BY <1>1, <1>2

-----------------------------------------------------------------------------
(* Steps of a call.                                                        *)

LEMMA MoveTypes ==
  ASSUME Invariant, NEW c \in Calls, CallStep(c) \/ CrashCall(c)
  PROVE  CallTypes' /\ OthersStay(c)
<1> USE DEF Procs, CallSteps
<1>0. CallTypes /\ TypeOK /\ CallIsWhole(c) /\ BytesAreOfFiles
  BY DEF Invariant, TypeOK, CallTypes
<1>1. CASE BeginRegister(c)
  BY <1>0, <1>1 DEF BeginRegister, CallTypes, Goto, OthersStay, Locals
<1>2. CASE BeginSpec(c)
  BY <1>0, <1>2, SpecAssumption DEF BeginSpec, CallTypes, Goto, OthersStay, Locals
<1>3. CASE ReadSource(c)
  <2>1. Head(todo[c]) \in Sources
    BY <1>0, <1>3 DEF ReadSource, CallIsWhole, CallTypes
  <2>2. source[Head(todo[c])] \in Bytes
    BY <1>0, <2>1 DEF TypeOK
  <2>3. QED
    BY <1>0, <1>3, <2>2 DEF ReadSource, CallTypes, Goto, OthersStay, Locals
<1>4. CASE FindRegistered(c)
  <2>1. raw[c] \in Bytes /\ Head(todo[c]) \in Sources
    BY <1>0, <1>4 DEF FindRegistered, CallIsWhole, CallTypes
  <2>2. \A r \in rows : r.bytes = raw[c] => r.id.content \in Contents
    BY <1>0, <2>1, Kinds DEF BytesAreOfFiles
  <2>3. Canonical[raw[c]] # Malformed => Canonical[raw[c]] \in Contents
    BY <2>1, ParsingAssumption
  <2>4. \A x \in Contents : [kind |-> "file", source |-> Head(todo[c]), content |-> x] \in DatasetId
    BY <2>1 DEF DatasetId, FileId
  <2>5. CASE Finish(c)
    BY <1>0, <2>5, FinishEffect
  <2>6. CASE ~Finish(c)
    <3>1. PICK x \in Contents, b \in BOOLEAN :
            /\ goal' = [goal EXCEPT ![c] = [kind |-> "file", source |-> Head(todo[c]), content |-> x]]
            /\ reuse' = [reuse EXCEPT ![c] = b]
            /\ Goto(c, "check")
            /\ UNCHANGED <<op, todo, raw, parts>>
      BY <1>4, <2>2, <2>3, <2>6 DEF FindRegistered
    <3>2. QED
      BY <1>0, <2>4, <3>1 DEF CallTypes, Goto, OthersStay, Locals
  <2>7. QED
    BY <2>5, <2>6
<1>5. CASE CheckSource(c)
  BY <1>0, <1>5, FinishEffect
  DEF CheckSource, callVars, localVars, CallTypes, Goto, OthersStay, Locals
<1>6. CASE TestObject(c)
  BY <1>0, <1>6, FinishEffect
  DEF TestObject, callVars, localVars, CallTypes, Goto, OthersStay, Locals
<1>7. CASE WriteObject(c)
  BY <1>0, <1>7 DEF WriteObject, callVars, localVars, CallTypes, Goto, OthersStay, Locals
<1>8. CASE LookRow(c)
  BY <1>0, <1>8, StoredEffect
  DEF LookRow, Storing, callVars, localVars, CallTypes, Goto, OthersStay, Locals
<1>9. CASE PutRow(c)
  BY <1>0, <1>9, StoredEffect, FinishEffect DEF PutRow, Storing
<1>10. CASE Align(c)
  <2>1. [kind |-> "spec", parts |-> parts[c]] \in DatasetId
    BY <1>0, Kinds DEF CallTypes
  <2>2. QED
    BY <1>0, <1>10, <2>1, FinishEffect DEF Align, CallTypes, Goto, OthersStay, Locals
<1>11. CASE SizeOfSpec(c)
  BY <1>0, <1>11, FinishEffect
  DEF SizeOfSpec, callVars, localVars, CallTypes, Goto, OthersStay, Locals
<1>12. CASE BeginDerive(c)
  BY <1>0, <1>12, Kinds DEF BeginDerive, CallTypes, Goto, OthersStay, Locals
<1>13. CASE LoadContent(c)
  <2>1. goal[c] \in FileId
    BY <1>0, <1>13 DEF LoadContent, CallIsWhole
  <2>2. Transformed[goal[c].content] # Malformed => Transformed[goal[c].content] \in Contents
    BY <2>1, Kinds, ParsingAssumption
  <2>3. \A x \in Contents : [kind |-> "derived", from |-> goal[c], content |-> x] \in DatasetId
    BY <2>1 DEF DatasetId, DerivedId
  <2>4. QED
    BY <1>0, <1>13, <2>2, <2>3, FinishEffect
    DEF LoadContent, CallTypes, Goto, OthersStay, Locals
<1>14. CASE BeginRead(c)
  BY <1>0, <1>14, RowId DEF BeginRead, CallTypes, Goto, OthersStay, Locals
<1>15. CASE OpenPaths(c)
  BY <1>0, <1>15, FinishEffect DEF OpenPaths
<1>16. CASE CrashCall(c)
  BY <1>0, <1>16, FinishEffect DEF CrashCall
<1>17. QED
  BY <1>1, <1>2, <1>3, <1>4, <1>5, <1>6, <1>7, <1>8, <1>9, <1>10, <1>11, <1>12, <1>13,
     <1>14, <1>15, <1>16 DEF CallStep

\* What a call may rely on survives the steps of the others.
LEMMA OthersWhole ==
  ASSUME NEW c, NEW x \in Calls \ {c}, OthersStay(c), Registered \subseteq Registered',
         CallIsWhole(x), FeedsAreSettled(x)
  PROVE  CallIsWhole(x)' /\ FeedsAreSettled(x)'
<1>1. /\ pc'[x] = pc[x] /\ todo'[x] = todo[x] /\ raw'[x] = raw[x]
      /\ goal'[x] = goal[x] /\ parts'[x] = parts[x]
  BY DEF OthersStay, Locals, Procs
<1>2. CallIsWhole(x)'
  BY <1>1 DEF CallIsWhole, Storing
<1>3. FeedsAreSettled(x)'
  BY <1>1 DEF FeedsAreSettled, ObjectsOf
<1>4. QED
  BY <1>2, <1>3

LEMMA IdleIsWhole ==
  ASSUME NEW c \in Calls, pc'[c] = "idle", parts'[c] = {}
  PROVE  CallIsWhole(c)' /\ FeedsAreSettled(c)'
BY DEF CallIsWhole, FeedsAreSettled, Storing, CallSteps

\* A call that has stored its dataset.
LEMMA StoredIsWhole ==
  ASSUME CallTypes, NEW c \in Calls, CallIsWhole(c), FeedsAreSettled(c), Storing(c), Stored(c),
         Registered \subseteq Registered', goal[c] \in Registered'
  PROVE  CallIsWhole(c)' /\ FeedsAreSettled(c)'
<1>1. CASE pc'[c] = "idle" /\ parts'[c] = {}
  BY <1>1, IdleIsWhole
<1>2. CASE /\ pc'[c] = "align" \/ (pc'[c] = "read" /\ todo'[c] # <<>>)
           /\ parts'[c] = parts[c] \cup {goal[c]}
  BY <1>2 DEF CallIsWhole, FeedsAreSettled, Storing, CallSteps
<1>3. QED
  BY <1>1, <1>2, StoredEffect

LEMMA MoveWhole ==
  ASSUME Invariant, NEW c \in Calls, CallStep(c) \/ CrashCall(c),
         Registered \subseteq Registered'
  PROVE  CallIsWhole(c)' /\ FeedsAreSettled(c)'
<1> USE DEF Storing
<1>0. /\ CallTypes /\ TypeOK /\ CallIsWhole(c) /\ FeedsAreSettled(c)
      /\ BytesAreOfFiles /\ SameBytesSameContent
  BY DEF Invariant, TypeOK, CallTypes
<1>1. CASE BeginRegister(c)
  BY <1>0, <1>1
  DEF BeginRegister, CallTypes, Goto, Procs, CallIsWhole, FeedsAreSettled, CallSteps
<1>2. CASE BeginSpec(c)
  BY <1>0, <1>2, SpecAssumption
  DEF BeginSpec, CallTypes, Goto, Procs, CallIsWhole, FeedsAreSettled, CallSteps
<1>3. CASE ReadSource(c)
  <2>1. Head(todo[c]) \in Sources
    BY <1>0, <1>3 DEF ReadSource, CallIsWhole, CallTypes
  <2>2. source[Head(todo[c])] \in Bytes
    BY <1>0, <2>1 DEF TypeOK
  <2>3. QED
    BY <1>0, <1>3, <2>2
    DEF ReadSource, CallTypes, Goto, Procs, CallIsWhole, FeedsAreSettled, CallSteps
<1>4. CASE FindRegistered(c)
  <2>1. raw[c] \in Bytes
    BY <1>0, <1>4 DEF FindRegistered, CallIsWhole
  <2>2. \A r \in rows : r.bytes = raw[c] => r.id.content = Canonical[raw[c]]
    BY <1>0, <2>1, Kinds DEF BytesAreOfFiles, SameBytesSameContent
  <2>3. CASE Finish(c)
    BY <1>0, <2>3, FinishEffect, IdleIsWhole
  <2>4. CASE ~Finish(c)
    <3>1. /\ goal' = [goal EXCEPT ![c] = [kind |-> "file", source |-> Head(todo[c]),
                                         content |-> Canonical[raw[c]]]]
          /\ Goto(c, "check")
          /\ UNCHANGED <<op, todo, raw, parts>>
      BY <1>4, <2>2, <2>4 DEF FindRegistered
    <3>2. QED
      BY <1>0, <1>4, <2>1, <3>1
      DEF FindRegistered, CallTypes, Goto, Procs, CallIsWhole, FeedsAreSettled, CallSteps
  <2>5. QED
    BY <2>3, <2>4
<1>5. CASE CheckSource(c)
  BY <1>0, <1>5, FinishEffect, IdleIsWhole
  DEF CheckSource, callVars, localVars, CallTypes, Goto, Procs, CallIsWhole, FeedsAreSettled, CallSteps
<1>6. CASE TestObject(c)
  BY <1>0, <1>6, FinishEffect, IdleIsWhole
  DEF TestObject, callVars, localVars, CallTypes, Goto, Procs, CallIsWhole, FeedsAreSettled, CallSteps
<1>7. CASE WriteObject(c)
  BY <1>0, <1>7
  DEF WriteObject, callVars, localVars, CallTypes, Goto, Procs, CallIsWhole,
      FeedsAreSettled, CallSteps
<1>8. CASE LookRow(c)
  <2>1. CASE goal[c] \in Registered
    BY <1>0, <1>8, <2>1, StoredIsWhole DEF LookRow
  <2>2. CASE goal[c] \notin Registered
    BY <1>0, <1>8, <2>2
    DEF LookRow, callVars, localVars, CallTypes, Goto, Procs, CallIsWhole, FeedsAreSettled, CallSteps
  <2>3. QED
    BY <2>1, <2>2
<1>9. CASE PutRow(c)
  <2>1. CASE goal[c] \in Registered
    BY <1>0, <1>9, <2>1, FinishEffect, IdleIsWhole DEF PutRow
  <2>2. CASE goal[c] \notin Registered
    <3>1. goal[c] \in Registered'
      <4>1. PICK b : [id |-> goal[c], bytes |-> b] \in rows'
        BY <1>9, <2>2 DEF PutRow
      <4>2. QED
        BY <4>1 DEF Registered
    <3>2. QED
      BY <1>0, <1>9, <2>2, <3>1, StoredIsWhole DEF PutRow
  <2>3. QED
    BY <2>1, <2>2
<1>10. CASE Align(c)
  <2>1. CASE Finish(c)
    BY <1>0, <2>1, FinishEffect, IdleIsWhole
  <2>2. CASE ~Finish(c)
    <3>1. /\ goal'[c] = [kind |-> "spec", parts |-> parts[c]]
          /\ pc'[c] = "size" /\ parts'[c] = parts[c]
          /\ {p.content : p \in parts[c]} \in Aligned
      BY <1>0, <1>10, <2>2 DEF Align, CallTypes, Goto, Procs
    <3>2. ObjectsOf(goal[c])' \in Aligned /\ goal'[c].parts = parts[c] /\ goal'[c].kind = "spec"
      BY <3>1 DEF ObjectsOf
    <3>3. QED
      BY <1>0, <3>1, <3>2 DEF CallIsWhole, FeedsAreSettled, CallSteps
  <2>3. QED
    BY <2>1, <2>2
<1>11. CASE SizeOfSpec(c)
  <2>1. CASE Finish(c)
    BY <1>0, <2>1, FinishEffect, IdleIsWhole
  <2>2. CASE ~Finish(c)
    <3>1. UNCHANGED localVars /\ pc[c] = "size" /\ pc'[c] = "look"
      BY <1>0, <1>11, <2>2 DEF SizeOfSpec, CallTypes, Goto, Procs
    <3>2. QED
      BY <1>0, <3>1 DEF localVars, CallIsWhole, FeedsAreSettled, ObjectsOf, CallSteps
  <2>3. QED
    BY <2>1, <2>2
<1>12. CASE BeginDerive(c)
  BY <1>0, <1>12
  DEF BeginDerive, CallTypes, Goto, Procs, CallIsWhole, FeedsAreSettled, CallSteps
<1>13. CASE LoadContent(c)
  BY <1>0, <1>13, FinishEffect, IdleIsWhole
  DEF LoadContent, CallTypes, Goto, Procs, CallIsWhole, FeedsAreSettled, CallSteps
<1>14. CASE BeginRead(c)
  BY <1>0, <1>14
  DEF BeginRead, CallTypes, Goto, Procs, CallIsWhole, FeedsAreSettled, CallSteps
<1>15. CASE OpenPaths(c)
  BY <1>0, <1>15, FinishEffect, IdleIsWhole DEF OpenPaths
<1>16. CASE CrashCall(c)
  BY <1>0, <1>16, FinishEffect, IdleIsWhole DEF CrashCall
<1>17. QED
  BY <1>1, <1>2, <1>3, <1>4, <1>5, <1>6, <1>7, <1>8, <1>9, <1>10, <1>11, <1>12, <1>13,
     <1>14, <1>15, <1>16 DEF CallStep

\* The row a call puts, and what a step of a call does to the store.
NewRow(c) == [id |-> goal[c], bytes |-> IF goal[c].kind = "file" THEN raw[c] ELSE NoBytes]
Puts(c) == pc[c] = "put" /\ goal[c] \notin Registered /\ rows' = rows \cup {NewRow(c)}
Writes(c) == /\ pc[c] = "write" /\ pc'[c] = "look" /\ goal'[c] = goal[c]
             /\ objects' = [objects EXCEPT ![goal[c].content] = "fresh"]

LEMMA StoreEffect ==
  ASSUME CallTypes, NEW c \in Calls, CallStep(c) \/ CrashCall(c)
  PROVE  /\ \/ UNCHANGED rows
            \/ Puts(c)
         /\ \/ UNCHANGED objects
            \/ Writes(c) /\ UNCHANGED rows
         /\ \/ UNCHANGED <<rows, exposed>>
            \/ /\ Puts(c)
               /\ exposed' = IF c \in swept THEN exposed \cup {goal[c]} ELSE exposed
            \/ /\ pc[c] = "look" /\ c \notin swept /\ UNCHANGED rows
               /\ exposed' = exposed \ {goal[c]}
         /\ UNCHANGED <<source, cleanVars, edits>>
         /\ UNCHANGED faults \/ (faults < MaxFaults /\ faults' = faults + 1)
<1>1. CASE PutRow(c)
  BY <1>1 DEF PutRow, Puts, NewRow
<1>2. CASE WriteObject(c)
  BY <1>2 DEF WriteObject, Writes, CallTypes, Goto, Procs, callVars, localVars
<1>3. CASE LookRow(c)
  BY <1>3 DEF LookRow, Puts
<1>4. CASE ~PutRow(c) /\ ~WriteObject(c) /\ ~LookRow(c)
  BY <1>4
  DEF Puts, CallStep, CrashCall, BeginRegister, BeginSpec, ReadSource, FindRegistered,
     CheckSource, TestObject, Align, SizeOfSpec, BeginDerive, LoadContent, BeginRead,
     OpenPaths
<1>5. QED
  BY <1>1, <1>2, <1>3, <1>4

\* What a step of a call does to the history of cleans beside it.
LEMMA SweptEffect ==
  ASSUME CallTypes, swept \subseteq Calls, NEW c \in Calls, CallStep(c) \/ CrashCall(c)
  PROVE  /\ swept' \subseteq Calls /\ swept' \ {c} = swept \ {c}
         /\ pc'[c] \in {"look", "put"} =>
              IF pc[c] \in {"look", "put"} THEN swept' = swept
                                          ELSE Cleaning => c \in swept'
<1> USE DEF CallTypes, Goto, Procs
<1>1. CASE TestObject(c) \/ WriteObject(c) \/ SizeOfSpec(c)
  BY <1>1 DEF TestObject, WriteObject, SizeOfSpec, SeesObjects, Finish, callVars
<1>2. CASE LookRow(c) \/ PutRow(c)
  BY <1>2 DEF LookRow, PutRow, Stored, Finish, callVars
<1>3. CASE CheckSource(c) \/ FindRegistered(c) \/ Align(c) \/ LoadContent(c)
  BY <1>3 DEF CheckSource, FindRegistered, Align, LoadContent, Finish, callVars
<1>4. CASE /\ ~(TestObject(c) \/ WriteObject(c) \/ SizeOfSpec(c) \/ LookRow(c) \/ PutRow(c))
           /\ ~(CheckSource(c) \/ FindRegistered(c) \/ Align(c) \/ LoadContent(c))
  BY <1>4 DEF CallStep, CrashCall, BeginRegister, BeginSpec, ReadSource, BeginDerive,
     BeginRead, OpenPaths, Finish
<1>5. QED
  BY <1>1, <1>2, <1>3, <1>4

LEMMA PutsKeeps ==
  ASSUME Invariant, NEW c \in Calls, Puts(c)
  PROVE  /\ rows' \subseteq Row
         /\ Registered' = Registered \cup {goal[c]}
         /\ BytesAreOfFiles' /\ SameBytesSameContent' /\ SpecsAreAligned'
<1>1. /\ TypeOK /\ CallIsWhole(c) /\ FeedsAreSettled(c) /\ pc[c] = "put"
      /\ goal[c] \in DatasetId /\ raw[c] \in Bytes \cup {NoBytes}
      /\ rows' = rows \cup {NewRow(c)}
  BY DEF Invariant, TypeOK, Puts
<1>2. /\ NewRow(c).id = goal[c]
      /\ goal[c].kind = "file" => NewRow(c).bytes = raw[c]
      /\ goal[c].kind # "file" => NewRow(c).bytes = NoBytes
      /\ NewRow(c) \in Row
  BY <1>1 DEF NewRow, Row
<1>3. rows' \subseteq Row
  BY <1>1, <1>2 DEF TypeOK
<1>4. Registered' = Registered \cup {goal[c]}
  BY <1>1, <1>2 DEF Registered
<1>5. BytesAreOfFiles'
  BY <1>1, <1>2, Kinds, ParsingAssumption DEF Invariant, BytesAreOfFiles
<1>6. SameBytesSameContent'
  BY <1>1, <1>2 DEF Invariant, SameBytesSameContent, CallIsWhole, Storing
<1>7. SpecsAreAligned'
  BY <1>1, <1>4 DEF Invariant, SpecsAreAligned, FeedsAreSettled, ObjectsOf
<1>8. QED
  BY <1>3, <1>4, <1>5, <1>6, <1>7

LEMMA CallKeeps ==
  ASSUME Invariant, NEW c \in Calls, CallStep(c) \/ CrashCall(c)
  PROVE  /\ Invariant'
         /\ OthersStay(c) /\ Registered \subseteq Registered'
<1>1. CallTypes /\ CallTypes' /\ OthersStay(c)
  BY MoveTypes DEF Invariant, TypeOK, CallTypes
<1>2. /\ rows' \subseteq Row /\ Registered \subseteq Registered'
      /\ BytesAreOfFiles' /\ SameBytesSameContent' /\ SpecsAreAligned'
  <2>1. CASE UNCHANGED rows
    BY <2>1 DEF Invariant, TypeOK, Registered, BytesAreOfFiles, SameBytesSameContent,
       SpecsAreAligned
  <2>2. CASE Puts(c)
    BY <2>2, PutsKeeps
  <2>3. QED
    BY <1>1, <2>1, <2>2, StoreEffect
<1>3. TypeOK'
  <2>1. objects' \in [Contents -> {"absent", "fresh", "old"}]
    BY <1>1, StoreEffect DEF Writes, Invariant, TypeOK
  <2>2. faults' \in 0..MaxFaults
    <3>1. UNCHANGED faults \/ (faults < MaxFaults /\ faults' = faults + 1)
      BY <1>1, StoreEffect
    <3>2. QED
      BY <3>1, BoundAssumption DEF Invariant, TypeOK
  <2>3. UNCHANGED <<source, refs, listed, victim, edits>>
    BY <1>1, StoreEffect DEF cleanVars
  <2>4. swept' \subseteq Calls /\ exposed' \subseteq Registered'
    <3>1. exposed' \subseteq Registered'
      <4>1. Puts(c) => goal[c] \in Registered'
        BY PutsKeeps
      <4>2. QED
        BY <1>1, <1>2, <4>1, StoreEffect DEF Invariant, TypeOK
    <3>2. QED
      BY <1>1, <3>1, SweptEffect DEF Invariant, TypeOK
  <2>5. QED
    BY <1>1, <1>2, <2>1, <2>2, <2>3, <2>4 DEF Invariant, TypeOK, CallTypes
<1>4. \A x \in Calls : CallIsWhole(x)' /\ FeedsAreSettled(x)'
  <2>1. CallIsWhole(c)' /\ FeedsAreSettled(c)'
    BY <1>2, MoveWhole
  <2>2. \A x \in Calls \ {c} : CallIsWhole(x) /\ FeedsAreSettled(x)
    BY DEF Invariant
  <2>3. QED
    BY <1>1, <1>2, <2>1, <2>2, OthersWhole
<1>5. QED
  BY <1>1, <1>2, <1>3, <1>4 DEF Invariant

-----------------------------------------------------------------------------
(* Steps of a collector and of the surroundings.                           *)

\* A step of a collector, and what it may do to the objects.
LEMMA CleanEffect ==
  ASSUME TypeOK, NEW k \in Cleaners, CleanStep(k) \/ CrashClean(k)
  PROVE  /\ TypeOK'
         /\ UNCHANGED <<source, rows, exposed, localVars, edits>>
         /\ Gather(k) \/ (UNCHANGED swept /\ pc[k] # "idle")
         /\ \A p \in Procs \ {k} : pc'[p] = pc[p]
         /\ \A j \in Cleaners \ {k} : refs'[j] = refs[j] /\ victim'[j] = victim[j]
<1> USE DEF Procs, CleanSteps
<1>1. CASE Gather(k)
  <2>1. UNION {ObjectsOf(d) : d \in Registered} \subseteq Contents
    BY Kinds, RowId DEF ObjectsOf
  <2>2. QED
    BY <1>1, <2>1 DEF Gather, TypeOK, Goto, localVars, Registered, HaveSeen
<1>2. CASE ListObjects(k)
  BY <1>2 DEF ListObjects, TypeOK, Goto, callVars, localVars, Registered
<1>3. CASE StatObject(k)
  <2>1. PICK o \in Contents :
          \/ /\ listed' = [listed EXCEPT ![k] = @ \ {o}]
             /\ UNCHANGED <<pc, refs, victim>>
          \/ /\ listed' = [listed EXCEPT ![k] = @ \ {o}]
             /\ victim' = [victim EXCEPT ![k] = {o}]
             /\ Goto(k, "unlink")
             /\ UNCHANGED refs
          \/ CleanEnds(k)
    BY <1>3 DEF StatObject, TypeOK
  <2>2. pc[k] = "scan" /\ UNCHANGED <<source, objects, rows, exposed, callVars, edits, faults>>
    BY <1>3 DEF StatObject
  <2>3. CASE listed' = [listed EXCEPT ![k] = @ \ {o}] /\ UNCHANGED <<pc, refs, victim>>
    BY <2>2, <2>3 DEF TypeOK, callVars, localVars, Registered
  <2>4. CASE /\ listed' = [listed EXCEPT ![k] = @ \ {o}]
             /\ victim' = [victim EXCEPT ![k] = {o}]
             /\ Goto(k, "unlink")
             /\ UNCHANGED refs
    BY <2>2, <2>4 DEF TypeOK, Goto, callVars, localVars, Registered
  <2>5. CASE CleanEnds(k)
    BY <2>2, <2>5 DEF CleanEnds, TypeOK, Goto, callVars, localVars, Registered
  <2>6. QED
    BY <2>1, <2>3, <2>4, <2>5
<1>4. CASE UnlinkObject(k)
  BY <1>4 DEF UnlinkObject, TypeOK, Goto, callVars, localVars, Registered
<1>5. CASE EndClean(k)
  BY <1>5 DEF EndClean, CleanEnds, TypeOK, Goto, callVars, localVars, Registered
<1>6. CASE CrashClean(k)
  BY <1>6, BoundAssumption
  DEF CrashClean, CleanEnds, TypeOK, Goto, callVars, localVars, Registered
<1>7. QED
  BY <1>1, <1>2, <1>3, <1>4, <1>5, <1>6 DEF CleanStep

LEMMA RestStays ==
  ASSUME Invariant, TypeOK', UNCHANGED <<rows, localVars>>, \A c \in Calls : pc'[c] = pc[c]
  PROVE  Invariant'
<1>1. Registered' = Registered
  BY DEF Registered
<1>2. \A c \in Calls : CallIsWhole(c)'
  BY DEF Invariant, CallIsWhole, Storing, callVars, localVars
<1>3. \A c \in Calls : FeedsAreSettled(c)'
  BY <1>1 DEF Invariant, FeedsAreSettled, ObjectsOf, callVars, localVars
<1>4. BytesAreOfFiles' /\ SameBytesSameContent' /\ SpecsAreAligned'
  BY <1>1 DEF Invariant, BytesAreOfFiles, SameBytesSameContent, SpecsAreAligned, ObjectsOf
<1>5. QED
  BY <1>2, <1>3, <1>4 DEF Invariant

LEMMA SurroundingsTypes ==
  ASSUME TypeOK, (\E o \in Contents : Age(o)) \/ EditSource
  PROVE  TypeOK' /\ UNCHANGED <<rows, pc, exposed, callVars, cleanVars>>
<1>1. CASE \E o \in Contents : Age(o)
  BY <1>1 DEF Age, Registered, TypeOK, callVars, localVars, cleanVars
<1>2. CASE EditSource
  BY <1>2, BoundAssumption
  DEF EditSource, Registered, TypeOK, callVars, localVars, cleanVars
<1>3. QED
  BY <1>1, <1>2

-----------------------------------------------------------------------------
(* Invariant is inductive.                                                 *)

LEMMA StepKeeps == ASSUME Invariant, [Next]_vars PROVE Invariant'
<1>1. CASE \E c \in Calls : CallStep(c) \/ CrashCall(c)
  BY <1>1, CallKeeps
<1>2. CASE \E k \in Cleaners : CleanStep(k) \/ CrashClean(k)
  <2>1. PICK k \in Cleaners : CleanStep(k) \/ CrashClean(k)
    BY <1>2
  <2>2. TypeOK' /\ UNCHANGED <<rows, localVars>> /\ \A c \in Calls : pc'[c] = pc[c]
    BY <2>1, CleanEffect, ProcAssumption DEF Invariant, Procs
  <2>3. QED
    BY <2>2, RestStays
<1>3. CASE (\E o \in Contents : Age(o)) \/ EditSource
  <2>1. TypeOK' /\ UNCHANGED <<rows, pc, localVars>>
    BY <1>3, SurroundingsTypes DEF Invariant, callVars
  <2>2. QED
    BY <2>1, RestStays
<1>4. CASE UNCHANGED vars
  <2>1. TypeOK' /\ UNCHANGED <<rows, pc, localVars>>
    BY <1>4 DEF vars, cleanVars, callVars, localVars, Registered, TypeOK, Invariant
  <2>2. QED
    BY <2>1, RestStays
<1>5. QED
  BY <1>1, <1>2, <1>3, <1>4 DEF Next

LEMMA InitKeeps == Init => Invariant
<1> SUFFICES ASSUME Init PROVE Invariant
  OBVIOUS
<1>1. TypeOK
  BY Kinds, BoundAssumption DEF Init, TypeOK, Procs, CallSteps
<1>2. \A c \in Calls : CallIsWhole(c) /\ FeedsAreSettled(c)
  BY DEF Init, CallIsWhole, FeedsAreSettled, Storing, Procs, CallSteps
<1>3. BytesAreOfFiles /\ SameBytesSameContent /\ SpecsAreAligned
  BY DEF Init, BytesAreOfFiles, SameBytesSameContent, SpecsAreAligned, Registered
<1>4. QED
  BY <1>1, <1>2, <1>3 DEF Invariant

LEMMA InvariantHolds == Spec => []Invariant
BY InitKeeps, StepKeeps, PTL DEF Spec

\* Every row, object, call and collector keeps its type (data.py 121-262, 552-1127).
THEOREM TypeCorrect == Spec => []TypeOK
<1>1. Invariant => TypeOK
  BY DEF Invariant
<1>2. QED
  BY <1>1, InvariantHolds, PTL

\* A row's provenance determines its content, whoever edits the sources and whatever
\* the collectors do (data.py 170-193).
THEOREM ContentCorrect == Spec => []SameBytesSameContent
<1>1. Invariant => SameBytesSameContent
  BY DEF Invariant
<1>2. QED
  BY <1>1, InvariantHolds, PTL

\* A dataset of several feeds was compared, for every notion of overlap (data.py 578-596).
THEOREM AlignmentCorrect == Spec => []SpecsAreAligned
<1>1. Invariant => SpecsAreAligned
  BY DEF Invariant
<1>2. QED
  BY <1>1, InvariantHolds, PTL

-----------------------------------------------------------------------------
(* The objects of rows stay.                                               *)

\* An object is looked for, or written, or its size is taken, before its row is.
LEMMA ArrivesWithObjects ==
  ASSUME Invariant, NEW c \in Calls, CallStep(c) \/ CrashCall(c),
         pc[c] \notin {"look", "put"}, pc'[c] \in {"look", "put"}
  PROVE  Readable(goal[c])'
<1>0. CallTypes /\ CallTypes' /\ CallIsWhole(c)
  BY MoveTypes DEF Invariant, TypeOK, CallTypes
<1>1. pc'[c] # "idle" /\ ~Finish(c)
  BY <1>0, FinishEffect
<1>2. CASE TestObject(c)
  BY <1>0, <1>1, <1>2
  DEF TestObject, callVars, localVars, CallTypes, Goto, Procs, CallIsWhole, Readable,
     ObjectsOf
<1>3. CASE WriteObject(c)
  <2>1. goal[c] \in DatasetId /\ goal[c].kind # "spec" /\ goal'[c] = goal[c]
    BY <1>0, <1>3 DEF WriteObject, callVars, localVars, CallTypes, CallIsWhole
  <2>2. goal[c].content \in Contents
    BY <2>1, Kinds
  <2>3. objects'[goal[c].content] # "absent"
    BY <1>3, <2>2 DEF WriteObject, Invariant, TypeOK
  <2>4. QED
    BY <2>1, <2>3 DEF Readable, ObjectsOf
<1>4. CASE SizeOfSpec(c)
  BY <1>1, <1>4 DEF SizeOfSpec, callVars, localVars, Readable, ObjectsOf
<1>5. CASE ~TestObject(c) /\ ~WriteObject(c) /\ ~SizeOfSpec(c)
  BY <1>0, <1>1, <1>5
  DEF CallStep, CrashCall, BeginRegister, BeginSpec, ReadSource, FindRegistered, CheckSource,
      LookRow, PutRow, Align, BeginDerive, LoadContent, BeginRead, OpenPaths,
      CallTypes, Goto, Procs, callVars, localVars
<1>6. QED
  BY <1>2, <1>3, <1>4, <1>5

\* No step of a call takes an object away.
LEMMA ObjectsGrow ==
  ASSUME TypeOK, NEW c \in Calls, CallStep(c) \/ CrashCall(c), NEW o, objects[o] # "absent"
  PROVE  objects'[o] # "absent"
<1>1. CallTypes
  BY DEF TypeOK, CallTypes
<1>2. CASE UNCHANGED objects
  BY <1>2
<1>3. CASE Writes(c)
  BY <1>3 DEF Writes, TypeOK
<1>4. QED
  BY <1>1, <1>2, <1>3, StoreEffect

LEMMA CallKeepsStore ==
  ASSUME StoreInvariant, NEW c \in Calls, CallStep(c) \/ CrashCall(c)
  PROVE  StoreInvariant'
<1>1. /\ Invariant /\ TypeOK /\ CallTypes /\ Invariant' /\ OthersStay(c)
      /\ RegisteredIsReadable /\ ObjectsFirst /\ ReferencesAreSpared
  BY CallKeeps DEF StoreInvariant, Invariant, TypeOK, CallTypes
<1>2. /\ refs' = refs /\ victim' = victim
      /\ \A k \in Cleaners : pc'[k] = pc[k]
      /\ Cleaning' = Cleaning
  <2>1. \A k \in Cleaners : pc'[k] = pc[k]
    BY <1>1, ProcAssumption DEF OthersStay, Procs
  <2>2. QED
    BY <1>1, <2>1, StoreEffect DEF cleanVars, Cleaning
\* What is neither registered nor exposed after the step was so before, or the call
\* has its objects, and no clean is at work.
<1>3. ASSUME NEW d \in Registered' \ exposed'
      PROVE  d \in Registered \ exposed \/ (d = goal[c] /\ Readable(d) /\ ~Cleaning)
  <2>1. CASE UNCHANGED exposed /\ UNCHANGED rows
    BY <1>3, <2>1 DEF Registered
  <2>2. CASE /\ Puts(c)
             /\ exposed' = IF c \in swept THEN exposed \cup {goal[c]} ELSE exposed
    <3>1. Registered' = Registered \cup {goal[c]} /\ pc[c] = "put"
      BY <1>1, <2>2, PutsKeeps DEF Puts
    <3>2. exposed \subseteq exposed' /\ (c \in swept => goal[c] \in exposed')
      BY <2>2
    <3>3. c \notin swept => Readable(goal[c]) /\ ~Cleaning
      BY <1>1, <3>1 DEF ObjectsFirst
    <3>4. QED
      BY <1>3, <3>1, <3>2, <3>3
  <2>3. CASE /\ pc[c] = "look" /\ c \notin swept /\ UNCHANGED rows
             /\ exposed' = exposed \ {goal[c]}
    <3>1. Readable(goal[c]) /\ ~Cleaning /\ Registered' = Registered
      BY <1>1, <2>3 DEF ObjectsFirst, Registered
    <3>2. QED
      BY <1>3, <2>3, <3>1
  <2>4. QED
    BY <1>1, <2>1, <2>2, <2>3, StoreEffect
<1>4. RegisteredIsReadable'
  <2>1. ASSUME NEW d \in Registered' \ exposed'
        PROVE  Readable(d)'
    <3>1. Readable(d)
      BY <1>1, <1>3 DEF RegisteredIsReadable
    <3>2. QED
      BY <1>1, <3>1, ObjectsGrow DEF Readable
  <2>2. QED
    BY <2>1 DEF RegisteredIsReadable
<1>5. ObjectsFirst'
  <2>1. ASSUME NEW x \in Calls \ {c}, pc'[x] \in {"look", "put"}, x \notin swept'
        PROVE  Readable(goal[x])' /\ ~Cleaning'
    <3>1. pc[x] = pc'[x] /\ goal'[x] = goal[x] /\ x \notin swept
      BY <1>1, <2>1, SweptEffect DEF OthersStay, Locals, Procs, TypeOK
    <3>2. Readable(goal[x]) /\ ~Cleaning
      BY <1>1, <2>1, <3>1 DEF ObjectsFirst
    <3>3. \A o \in ObjectsOf(goal[x]) : objects'[o] # "absent"
      BY <1>1, <3>2, ObjectsGrow DEF Readable
    <3>4. QED
      BY <1>2, <3>1, <3>2, <3>3 DEF Readable, ObjectsOf
  <2>2. ASSUME pc'[c] \in {"look", "put"}, c \notin swept'
        PROVE  Readable(goal[c])' /\ ~Cleaning'
    <3>1. CASE pc[c] \in {"look", "put"}
      <4>1. goal'[c] = goal[c]
        BY <1>1, <2>2, <3>1, FinishEffect, StoredEffect
        DEF CallStep, CrashCall, BeginRegister, BeginSpec, ReadSource, FindRegistered,
            CheckSource, TestObject, WriteObject, LookRow, PutRow, Align, SizeOfSpec,
            BeginDerive, LoadContent, BeginRead, OpenPaths, callVars, localVars, Storing,
            Invariant
      <4>2. Readable(goal[c]) /\ ~Cleaning
        BY <1>1, <2>2, <3>1, SweptEffect DEF ObjectsFirst, TypeOK
      <4>3. \A o \in ObjectsOf(goal[c]) : objects'[o] # "absent"
        BY <1>1, <4>2, ObjectsGrow DEF Readable
      <4>4. QED
        BY <1>2, <4>1, <4>2, <4>3 DEF Readable, ObjectsOf
    <3>2. CASE pc[c] \notin {"look", "put"}
      <4>1. ~Cleaning
        BY <1>1, <2>2, <3>2, SweptEffect DEF TypeOK
      <4>2. QED
        BY <1>1, <1>2, <2>2, <3>2, <4>1, ArrivesWithObjects
    <3>3. QED
      BY <3>1, <3>2
  <2>3. QED
    BY <2>1, <2>2 DEF ObjectsFirst
<1>6. ReferencesAreSpared'
  <2>1. ASSUME NEW k \in Cleaners, pc'[k] # "idle", NEW d \in Registered' \ exposed'
        PROVE  ObjectsOf(d) \subseteq refs'[k]
    <3>1. Cleaning /\ pc[k] # "idle"
      BY <1>2, <2>1 DEF Cleaning
    <3>2. QED
      BY <1>1, <1>2, <1>3, <3>1 DEF ReferencesAreSpared
  <2>2. \A k \in Cleaners : /\ victim'[k] \cap refs'[k] = {}
                            /\ pc'[k] = "idle" => victim'[k] = {}
    BY <1>1, <1>2 DEF ReferencesAreSpared
  <2>3. QED
    BY <2>1, <2>2 DEF ReferencesAreSpared, ObjectsOf
<1>7. QED
  BY <1>1, <1>4, <1>5, <1>6 DEF StoreInvariant

LEMMA CleanKeepsStore ==
  ASSUME StoreInvariant, NEW k \in Cleaners, CleanStep(k) \/ CrashClean(k)
  PROVE  StoreInvariant'
<1>1. /\ Invariant /\ TypeOK /\ TypeOK' /\ RegisteredIsReadable /\ ObjectsFirst
      /\ ReferencesAreSpared /\ UNCHANGED <<rows, exposed, localVars>>
      /\ Gather(k) \/ (UNCHANGED swept /\ pc[k] # "idle")
      /\ \A p \in Procs \ {k} : pc'[p] = pc[p]
      /\ \A j \in Cleaners \ {k} : refs'[j] = refs[j] /\ victim'[j] = victim[j]
  BY CleanEffect DEF StoreInvariant, Invariant
<1>2. Registered' = Registered /\ exposed' = exposed /\ Invariant'
  BY <1>1, RestStays, ProcAssumption DEF Registered, Procs
\* A call that has seen its objects is swept.
<1>3. ObjectsFirst'
  <2>1. SUFFICES ASSUME NEW c \in Calls, c \notin swept', pc'[c] \in {"look", "put"}
                 PROVE  FALSE
    BY DEF ObjectsFirst
  <2>2. pc[c] = pc'[c]
    BY <1>1, ProcAssumption DEF Procs
  <2>3. CASE Gather(k)
    BY <2>1, <2>2, <2>3 DEF Gather, HaveSeen
  <2>4. CASE UNCHANGED swept /\ pc[k] # "idle"
    BY <1>1, <2>1, <2>2, <2>4 DEF ObjectsFirst, Cleaning
  <2>5. QED
    BY <1>1, <2>3, <2>4
<1>4. RegisteredIsReadable'
  <2>1. CASE UnlinkObject(k)
    <3>1. \A d \in Registered \ exposed : ObjectsOf(d) \cap victim[k] = {}
      BY <1>1, <2>1 DEF UnlinkObject, ReferencesAreSpared
    <3>2. \A o : o \in Contents /\ o \notin victim[k] => objects'[o] = objects[o]
      BY <2>1 DEF UnlinkObject
    <3>3. \A d \in Registered : ObjectsOf(d) \subseteq Contents
      BY <1>1, RowId, Kinds DEF ObjectsOf
    <3>4. QED
      BY <1>1, <1>2, <3>1, <3>2, <3>3 DEF RegisteredIsReadable, Readable
  <2>2. CASE ~UnlinkObject(k)
    <3>1. UNCHANGED objects
      BY <2>2 DEF CleanStep, CrashClean, Gather, ListObjects, StatObject, EndClean
    <3>2. QED
      BY <1>1, <1>2, <3>1 DEF RegisteredIsReadable, Readable
  <2>3. QED
    BY <2>1, <2>2
<1>5. ReferencesAreSpared'
  <2>1. ASSUME NEW j \in Cleaners \ {k}
        PROVE  /\ pc'[j] = pc[j] /\ victim'[j] = victim[j] /\ refs'[j] = refs[j]
    BY <1>1, ProcAssumption DEF Procs
  <2>2. /\ pc'[k] # "idle" => \A d \in Registered \ exposed : ObjectsOf(d) \subseteq refs'[k]
        /\ victim'[k] \cap refs'[k] = {}
        /\ pc'[k] = "idle" => victim'[k] = {}
    <3>1. CASE Gather(k)
      BY <1>1, <3>1 DEF Gather, ReferencesAreSpared, TypeOK, Goto, Procs
    <3>2. CASE ListObjects(k)
      BY <1>1, <3>2 DEF ListObjects, ReferencesAreSpared, TypeOK, Goto, Procs
    <3>3. CASE StatObject(k)
      BY <1>1, <3>3 DEF StatObject, CleanEnds, ReferencesAreSpared, TypeOK, Goto, Procs
    <3>4. CASE UnlinkObject(k)
      BY <1>1, <3>4 DEF UnlinkObject, ReferencesAreSpared, TypeOK, Goto, Procs
    <3>5. CASE EndClean(k)
      BY <1>1, <3>5 DEF EndClean, CleanEnds, TypeOK, Goto, Procs
    <3>6. CASE CrashClean(k)
      BY <1>1, <3>6 DEF CrashClean, CleanEnds, TypeOK, Goto, Procs
    <3>7. QED
      BY <3>1, <3>2, <3>3, <3>4, <3>5, <3>6 DEF CleanStep
  <2>3. QED
    BY <1>1, <1>2, <2>1, <2>2 DEF ReferencesAreSpared, ObjectsOf
<1>6. QED
  BY <1>2, <1>3, <1>4, <1>5 DEF StoreInvariant

LEMMA StoreStays ==
  ASSUME StoreInvariant, Invariant', UNCHANGED <<rows, exposed, pc, callVars, cleanVars>>,
         \A o \in Contents : objects[o] # "absent" => objects'[o] # "absent"
  PROVE  StoreInvariant'
<1>1. /\ Registered' = Registered
      /\ UNCHANGED <<goal, refs, victim, swept, exposed, pc>>
      /\ \A d \in Registered : ObjectsOf(d) \subseteq Contents
      /\ \A c \in Calls : ObjectsOf(goal[c]) \subseteq Contents
  <2>1. TypeOK /\ Registered \subseteq DatasetId /\ \A c \in Calls : goal[c] \in DatasetId
    BY RowId DEF StoreInvariant, Invariant, TypeOK
  <2>2. \A d \in DatasetId : ObjectsOf(d) \subseteq Contents
    BY Kinds DEF ObjectsOf
  <2>3. QED
    BY <2>1, <2>2 DEF Registered, callVars, localVars, cleanVars
<1>2. RegisteredIsReadable'
  BY <1>1 DEF StoreInvariant, RegisteredIsReadable, Readable
<1>3. ObjectsFirst'
  BY <1>1 DEF StoreInvariant, ObjectsFirst, Cleaning, Readable, ObjectsOf
<1>4. ReferencesAreSpared'
  BY <1>1 DEF StoreInvariant, ReferencesAreSpared, ObjectsOf
<1>5. QED
  BY <1>2, <1>3, <1>4 DEF StoreInvariant

LEMMA StoreStepKeeps ==
  ASSUME StoreInvariant, [Next]_vars
  PROVE  StoreInvariant'
<1>1. CASE \E c \in Calls : CallStep(c) \/ CrashCall(c)
  BY <1>1, CallKeepsStore
<1>2. CASE \E k \in Cleaners : CleanStep(k) \/ CrashClean(k)
  BY <1>2, CleanKeepsStore
<1>3. CASE (\E o \in Contents : Age(o)) \/ EditSource
  <2>1. Invariant' /\ UNCHANGED <<rows, exposed, pc, callVars, cleanVars>>
    BY <1>3, StepKeeps, SurroundingsTypes DEF StoreInvariant, Invariant, Next
  <2>2. \A o \in Contents : objects[o] # "absent" => objects'[o] # "absent"
    BY <1>3 DEF Age, EditSource, StoreInvariant, Invariant, TypeOK
  <2>3. QED
    BY <2>1, <2>2, StoreStays
<1>4. CASE UNCHANGED vars
  BY <1>4, StepKeeps, StoreStays DEF vars, StoreInvariant
<1>5. QED
  BY <1>1, <1>2, <1>3, <1>4 DEF Next

LEMMA StoreInit == Init => StoreInvariant
<1> SUFFICES ASSUME Init PROVE StoreInvariant
  OBVIOUS
<1>1. RegisteredIsReadable
  BY DEF Init, RegisteredIsReadable, Registered
<1>2. ObjectsFirst /\ ReferencesAreSpared
  BY DEF Init, ObjectsFirst, ReferencesAreSpared, Procs
<1>3. QED
  BY <1>1, <1>2, InitKeeps DEF StoreInvariant

LEMMA StoreInvariantHolds == Spec => []StoreInvariant
BY StoreInit, StoreStepKeeps, PTL DEF Spec

\* A registered dataset stays readable, whatever calls and collectors do beside each
\* other and whichever of them died, unless a clean was at work between its call's look
\* at the objects and its row (data.py 743-826, 1091-1127).
THEOREM ReadableCorrect == Spec => []RegisteredIsReadable
<1>1. StoreInvariant => RegisteredIsReadable
  BY DEF StoreInvariant
<1>2. QED
  BY <1>1, StoreInvariantHolds, PTL

-----------------------------------------------------------------------------
(* DatasetStore implements DatasetRecord.                                  *)

\* All that is registered is readable or exposed, so the record holds what is registered;
\* only the row of a call changes that.
LEMMA StepImplements ==
  ASSUME StoreInvariant, StoreInvariant', [Next]_vars
  PROVE  [Record!Next]_({d \in Registered : d \in exposed \/ Readable(d)})
<1>1. /\ {d \in Registered : d \in exposed \/ Readable(d)} = Registered
      /\ {d \in Registered : d \in exposed \/ Readable(d)}' = Registered'
  BY DEF StoreInvariant, RegisteredIsReadable
<1>2. SUFFICES ASSUME Registered' # Registered
               PROVE  Record!Next
  BY <1>1
<1>3. PICK c \in Calls : Puts(c)
  <2>1. rows' # rows
    BY <1>2 DEF Registered
  <2>2. PICK c \in Calls : CallStep(c) \/ CrashCall(c)
    BY <2>1, CleanEffect, SurroundingsTypes DEF Next, vars, StoreInvariant, Invariant
  <2>3. CallTypes
    BY DEF StoreInvariant, Invariant, TypeOK, CallTypes
  <2>4. QED
    BY <2>1, <2>2, <2>3, StoreEffect
<1>4. /\ Registered' = Registered \cup {goal[c]} /\ goal[c] \in DatasetId
      /\ pc[c] = "put" /\ FeedsAreSettled(c)
  BY <1>3, PutsKeeps DEF StoreInvariant, Invariant, TypeOK, Puts
<1>5. CASE goal[c].kind = "spec"
  <2>1. goal[c] \in SpecId /\ goal[c].parts \subseteq Registered
    BY <1>4, <1>5, Kinds DEF FeedsAreSettled
  <2>2. QED
    BY <1>1, <1>4, <2>1 DEF Record!Next, Record!RegisterSpec
<1>6. CASE goal[c].kind # "spec"
  <2>1. goal[c] \in FileId \cup DerivedId
    BY <1>4, <1>6 DEF DatasetId, SpecId
  <2>2. QED
    BY <1>1, <1>4, <2>1 DEF Record!Next, Record!RegisterFile
<1>7. QED
  BY <1>5, <1>6

\* What calls, collectors and failures do together is what DatasetRecord allows: datasets
\* are only added, those of several feeds after their feeds, and none that is registered
\* is lost, save through a clean beside its own registration.
THEOREM RecordCorrect == Spec => ImplementsDatasetRecord
<1>1. Init => Record!Init
  BY DEF Init, Record!Init, Registered
<1>2. QED
  BY <1>1, StoreInvariantHolds, StepImplements, PTL
  DEF Spec, ImplementsDatasetRecord, Record!Spec
=============================================================================
