---------------------------- MODULE DatasetStore ----------------------------
(***************************************************************************)
(* Dataset registration and retention (data.py).  A registration parses a  *)
(* source file into a canonical CSV, writes that as an object named by its *)
(* hash, and then inserts the dataset row that refers to it.  clean_cas    *)
(* first gathers what the rows refer to and then deletes old objects that  *)
(* are not among it.  A content stands for its own hash, so an object is   *)
(* named by its content; a dataset id is the hash of the record given here.*)
(*                                                                         *)
(* One step is one read or write of a file, one listing, one transaction.  *)
(* Left out: objects altered on disk (every read checks the hash), the     *)
(* second column map, and the parsing itself, which FeedData has.          *)
(***************************************************************************)
EXTENDS Naturals, Sequences, FiniteSets

CONSTANTS Sources,     \* the source files, by root and relative path
          Bytes,       \* what a source file can hold
          Contents,    \* canonical files
          Malformed,   \* the outcome of parsing that raises
          NoBytes,     \* the provenance of a dataset that is not a source file
          Canonical,   \* [Bytes -> Contents \cup {Malformed}]
          Transformed, \* [Contents -> Contents \cup {Malformed}]
          DataSpecs,   \* DataSpecs a client sends: sequences of sources
          Aligned,     \* sets of contents that satisfy minimum_overlap
          Calls,       \* concurrent calls that register, derive or read
          Cleaners,    \* concurrent runs of clean_cas
          MaxEdits,    \* bound on edits of source files
          MaxFaults    \* bound on calls that die

ASSUME ParsingAssumption ==
  /\ Canonical \in [Bytes -> Contents \cup {Malformed}]
  /\ Transformed \in [Contents -> Contents \cup {Malformed}]
  /\ Malformed \notin Contents
  /\ NoBytes \notin Bytes
ASSUME SpecAssumption == DataSpecs \subseteq Seq(Sources)
ASSUME ProcAssumption == Calls \cap Cleaners = {}
ASSUME BoundAssumption ==
  /\ MaxEdits \in Nat
  /\ MaxFaults \in Nat

FileId == [kind : {"file"}, source : Sources, content : Contents]
DerivedId == [kind : {"derived"}, from : FileId, content : Contents]
SpecId == [kind : {"spec"}, parts : SUBSET FileId]
DatasetId == FileId \cup DerivedId \cup SpecId
Row == [id : DatasetId, bytes : Bytes \cup {NoBytes}]

VARIABLES
  source,   \* content of each source file
  objects,  \* each CAS object: "absent", "fresh", or "old" (before the cutoff)
  rows,     \* the rows of kind dataset
  pc,       \* statement of each call and cleaner
  op,       \* per call: "register", "spec", "derive", "read"
  todo,     \* per call: sources still to be registered, the current one first
  raw,      \* per call: the bytes read from the current source
  reuse,    \* per call: content is None (an earlier registration is reused)
  goal,     \* per call: id of the dataset it stores or reads
  parts,    \* per call: child datasets registered for the DataSpec
  refs,     \* per cleaner: objects that were referenced
  listed,   \* per cleaner: objects listed and not yet looked at
  victim,   \* per cleaner: the object it is about to unlink
  edits, faults,
  swept,    \* history: calls that have had a clean at work since they saw their object
  exposed   \* history: datasets whose row came from such a call, and from no other yet

localVars == <<op, todo, raw, reuse, goal, parts>>
callVars == <<localVars, swept>>
cleanVars == <<refs, listed, victim>>
vars == <<source, objects, rows, exposed, pc, callVars, cleanVars, edits, faults>>

Procs == Calls \cup Cleaners
CallSteps == {"idle", "read", "find", "check", "test", "write", "look", "put", "align",
              "size", "load", "open"}
CleanSteps == {"idle", "list", "scan", "unlink"}
Registered == {r.id : r \in rows}
NoGoal == [kind |-> "spec", parts |-> {}]

TypeOK ==
  /\ source \in [Sources -> Bytes]
  /\ objects \in [Contents -> {"absent", "fresh", "old"}]
  /\ rows \subseteq Row
  /\ pc \in [Procs -> CallSteps \cup CleanSteps]
  /\ op \in [Calls -> {"register", "spec", "derive", "read"}]
  /\ todo \in [Calls -> Seq(Sources)]
  /\ raw \in [Calls -> Bytes \cup {NoBytes}]
  /\ reuse \in [Calls -> BOOLEAN]
  /\ goal \in [Calls -> DatasetId]
  /\ parts \in [Calls -> SUBSET FileId]
  /\ refs \in [Cleaners -> SUBSET Contents]
  /\ listed \in [Cleaners -> SUBSET Contents]
  /\ victim \in [Cleaners -> SUBSET Contents]
  /\ edits \in 0..MaxEdits
  /\ faults \in 0..MaxFaults
  /\ swept \subseteq Calls
  /\ exposed \subseteq Registered

Init ==
  /\ source \in [Sources -> Bytes]
  /\ objects = [o \in Contents |-> "absent"]
  /\ rows = {}
  /\ pc = [p \in Procs |-> "idle"]
  /\ op = [c \in Calls |-> "register"]
  /\ todo = [c \in Calls |-> <<>>]
  /\ raw = [c \in Calls |-> NoBytes]
  /\ reuse = [c \in Calls |-> FALSE]
  /\ goal = [c \in Calls |-> NoGoal]
  /\ parts = [c \in Calls |-> {}]
  /\ refs = [k \in Cleaners |-> {}]
  /\ listed = [k \in Cleaners |-> {}]
  /\ victim = [k \in Cleaners |-> {}]
  /\ edits = 0
  /\ faults = 0
  /\ swept = {}
  /\ exposed = {}

Goto(p, s) == pc' = [pc EXCEPT ![p] = s]

\* The objects a row refers to: extensions.feed_objects.
ObjectsOf(d) == IF d.kind = "spec" THEN {p.content : p \in d.parts} ELSE {d.content}
Readable(d) == \A o \in ObjectsOf(d) : objects[o] # "absent"

\* Whether a clean is at work when the call sees that its objects are there, ...
Cleaning == \E k \in Cleaners : pc[k] # "idle"
SeesObjects(c) == swept' = IF Cleaning THEN swept \cup {c} ELSE swept \ {c}
\* ... and which calls have seen theirs when a clean begins.
HaveSeen == {c \in Calls : pc[c] \in {"look", "put"}}

\* A call returns, or raises: its locals are gone.
Finish(c) ==
  /\ Goto(c, "idle")
  /\ op' = [op EXCEPT ![c] = "register"]
  /\ todo' = [todo EXCEPT ![c] = <<>>]
  /\ raw' = [raw EXCEPT ![c] = NoBytes]
  /\ reuse' = [reuse EXCEPT ![c] = FALSE]
  /\ goal' = [goal EXCEPT ![c] = NoGoal]
  /\ parts' = [parts EXCEPT ![c] = {}]
  /\ swept' = swept \ {c}

-----------------------------------------------------------------------------
(* register_dataset and register_local_dataset.                            *)

\* _source
BeginRegister(c) ==
  /\ pc[c] = "idle"
  /\ \E s \in Sources : todo' = [todo EXCEPT ![c] = <<s>>]
  /\ Goto(c, "read")
  /\ UNCHANGED <<source, objects, rows, exposed, op, raw, reuse, goal, parts>>
  /\ UNCHANGED <<swept, cleanVars, edits, faults>>

BeginSpec(c) ==
  /\ pc[c] = "idle"
  /\ \E s \in DataSpecs : Len(s) > 0 /\ todo' = [todo EXCEPT ![c] = s]
  /\ op' = [op EXCEPT ![c] = "spec"]
  /\ Goto(c, "read")
  /\ UNCHANGED <<source, objects, rows, exposed, raw, reuse, goal, parts>>
  /\ UNCHANGED <<swept, cleanVars, edits, faults>>

ReadSource(c) ==
  /\ pc[c] = "read"
  /\ raw' = [raw EXCEPT ![c] = source[Head(todo[c])]]
  /\ Goto(c, "find")
  /\ UNCHANGED <<source, objects, rows, exposed, op, todo, reuse, goal, parts>>
  /\ UNCHANGED <<swept, cleanVars, edits, faults>>

\* Mutation: an earlier registration with the same options is found whatever its digest.
FindRegisteredAnyDigest(c) ==
  LET s == Head(todo[c])
      prior == {r \in rows : r.bytes # NoBytes}
      Found(content, reused) ==
        /\ goal' = [goal EXCEPT ![c] =
                      [kind |-> "file", source |-> s, content |-> content]]
        /\ reuse' = [reuse EXCEPT ![c] = reused]
        /\ Goto(c, "check")
        /\ UNCHANGED <<op, todo, raw, parts, swept>>
  IN
  /\ pc[c] = "find"
  /\ \/ \E r \in prior : Found(r.id.content, TRUE)
     \/ /\ prior = {} /\ Canonical[raw[c]] # Malformed
        /\ Found(Canonical[raw[c]], FALSE)
     \/ /\ prior = {} /\ Canonical[raw[c]] = Malformed
        /\ Finish(c)
  /\ UNCHANGED <<source, objects, rows, exposed, cleanVars, edits, faults>>

\* _find_registered, and the parsing of what has not been registered before.
FindRegistered(c) ==
  LET s == Head(todo[c])
      prior == {r \in rows : r.bytes = raw[c]}
      Found(content, reused) ==
        /\ goal' = [goal EXCEPT ![c] =
                      [kind |-> "file", source |-> s, content |-> content]]
        /\ reuse' = [reuse EXCEPT ![c] = reused]
        /\ Goto(c, "check")
        /\ UNCHANGED <<op, todo, raw, parts, swept>>
  IN
  /\ pc[c] = "find"
  /\ \/ \E r \in prior : Found(r.id.content, TRUE)
     \/ /\ prior = {} /\ Canonical[raw[c]] # Malformed
        /\ Found(Canonical[raw[c]], FALSE)
     \/ /\ prior = {} /\ Canonical[raw[c]] = Malformed
        /\ Finish(c)
  /\ UNCHANGED <<source, objects, rows, exposed, cleanVars, edits, faults>>

\* "source changed while it was being registered"
CheckSource(c) ==
  /\ pc[c] = "check"
  /\ IF source[Head(todo[c])] = raw[c]
       THEN Goto(c, "test") /\ UNCHANGED callVars
       ELSE Finish(c)
  /\ UNCHANGED <<source, objects, rows, exposed, cleanVars, edits, faults>>

-----------------------------------------------------------------------------
(* _store_manifest, for all three kinds of dataset that hold a file.       *)

\* Mutation: a registration that finds no object goes straight to its row.
TestObjectRowOnly(c) ==
  /\ pc[c] = "test"
  /\ Goto(c, "look")
  /\ SeesObjects(c)
  /\ UNCHANGED <<source, objects, rows, exposed, localVars>>
  /\ UNCHANGED <<cleanVars, edits, faults>>

TestObject(c) ==
  LET present == objects[goal[c].content] # "absent" IN
  /\ pc[c] = "test"
  /\ \/ /\ present
        /\ SeesObjects(c)
        /\ Goto(c, "look")
        /\ UNCHANGED localVars
     \/ ~present /\ ~reuse[c] /\ Goto(c, "write") /\ UNCHANGED callVars
     \/ ~present /\ reuse[c] /\ Finish(c)
  /\ UNCHANGED <<source, objects, rows, exposed, cleanVars, edits, faults>>

\* Mutation: the object is written in place, so it is seen half written.
WriteObjectInPlace(c) ==
  /\ pc[c] = "write"
  /\ objects' = [objects EXCEPT ![goal[c].content] =
                   IF @ = "partial" THEN "fresh" ELSE "partial"]
  /\ Goto(c, IF objects[goal[c].content] = "partial" THEN "look" ELSE "write")
  /\ SeesObjects(c)
  /\ UNCHANGED <<source, rows, exposed, localVars>>
  /\ UNCHANGED <<cleanVars, edits, faults>>

\* atomic_write: a temporary file, renamed.
WriteObject(c) ==
  /\ pc[c] = "write"
  /\ objects' = [objects EXCEPT ![goal[c].content] = "fresh"]
  /\ SeesObjects(c)
  /\ Goto(c, "look")
  /\ UNCHANGED <<source, rows, exposed, localVars>>
  /\ UNCHANGED <<cleanVars, edits, faults>>

\* The dataset is stored: the call returns, or goes on with the next feed.
Stored(c) ==
  IF op[c] = "spec" /\ goal[c].kind = "file"
    THEN /\ parts' = [parts EXCEPT ![c] = @ \cup {goal[c]}]
         /\ todo' = [todo EXCEPT ![c] = Tail(@)]
         /\ Goto(c, IF Len(todo[c]) = 1 THEN "align" ELSE "read")
         /\ swept' = swept \ {c}
         /\ UNCHANGED <<op, raw, reuse, goal>>
    ELSE Finish(c)

LookRow(c) ==
  /\ pc[c] = "look"
  /\ IF goal[c] \in Registered
       THEN /\ exposed' = IF c \in swept THEN exposed ELSE exposed \ {goal[c]}
            /\ Stored(c)
       ELSE Goto(c, "put") /\ UNCHANGED <<callVars, exposed>>
  /\ UNCHANGED <<source, objects, rows, cleanVars, edits, faults>>

\* INSERT: it raises Conflict when another call has been faster.
PutRow(c) ==
  /\ pc[c] = "put"
  /\ IF goal[c] \in Registered
       THEN Finish(c) /\ UNCHANGED <<rows, exposed>>
       ELSE /\ exposed' = IF c \in swept THEN exposed \cup {goal[c]} ELSE exposed
            /\ rows' = rows \cup
                 {[id |-> goal[c],
                   bytes |-> IF goal[c].kind = "file" THEN raw[c] ELSE NoBytes]}
            /\ Stored(c)
  /\ UNCHANGED <<source, objects, cleanVars, edits, faults>>

\* Mutation: feeds are combined without a look at their overlap.
AlignUnchecked(c) ==
  /\ pc[c] = "align"
  /\ goal' = [goal EXCEPT ![c] = [kind |-> "spec", parts |-> parts[c]]]
  /\ Goto(c, "size")
  /\ UNCHANGED <<op, todo, raw, reuse, parts, swept, source, objects, rows>>
  /\ UNCHANGED <<exposed, cleanVars, edits, faults>>

\* The registered feeds are opened and their overlap with the master is counted.
Align(c) ==
  LET contents == {p.content : p \in parts[c]} IN
  /\ pc[c] = "align"
  /\ IF (\A o \in contents : objects[o] # "absent") /\ contents \in Aligned
       THEN /\ goal' = [goal EXCEPT ![c] = [kind |-> "spec", parts |-> parts[c]]]
            /\ Goto(c, "size")
            /\ UNCHANGED <<op, todo, raw, reuse, parts, swept>>
       ELSE Finish(c)
  /\ UNCHANGED <<source, objects, rows, exposed, cleanVars, edits, faults>>

\* byte_size stats every feed object.
SizeOfSpec(c) ==
  /\ pc[c] = "size"
  /\ IF Readable(goal[c])
       THEN /\ SeesObjects(c)
            /\ Goto(c, "look")
            /\ UNCHANGED localVars
       ELSE Finish(c)
  /\ UNCHANGED <<source, objects, rows, exposed, cleanVars, edits, faults>>

-----------------------------------------------------------------------------
(* derive_tabular_dataset and materialization.                             *)

\* get_dataset: the row, and the object it names.  Datasets derived from derived ones
\* or from several feeds go the same way and are left out.
BeginDerive(c) ==
  /\ pc[c] = "idle"
  /\ \E d \in Registered \cap FileId :
       Readable(d) /\ goal' = [goal EXCEPT ![c] = d]
  /\ op' = [op EXCEPT ![c] = "derive"]
  /\ Goto(c, "load")
  /\ UNCHANGED <<source, objects, rows, exposed, todo, raw, reuse, parts>>
  /\ UNCHANGED <<swept, cleanVars, edits, faults>>

\* _stream_derived opens the object anew.
LoadContent(c) ==
  LET derived == Transformed[goal[c].content] IN
  /\ pc[c] = "load"
  /\ IF Readable(goal[c]) /\ derived # Malformed
       THEN /\ goal' = [goal EXCEPT ![c] =
                          [kind |-> "derived", from |-> @, content |-> derived]]
            /\ Goto(c, "test")
            /\ UNCHANGED <<op, todo, raw, reuse, parts, swept>>
       ELSE Finish(c)
  /\ UNCHANGED <<source, objects, rows, exposed, cleanVars, edits, faults>>

BeginRead(c) ==
  /\ pc[c] = "idle"
  /\ \E d \in Registered : Readable(d) /\ goal' = [goal EXCEPT ![c] = d]
  /\ op' = [op EXCEPT ![c] = "read"]
  /\ Goto(c, "open")
  /\ UNCHANGED <<source, objects, rows, exposed, todo, raw, reuse, parts>>
  /\ UNCHANGED <<swept, cleanVars, edits, faults>>

\* content_paths: returns the paths or raises; either way the call is over.
OpenPaths(c) ==
  /\ pc[c] = "open"
  /\ Finish(c)
  /\ UNCHANGED <<source, objects, rows, exposed, cleanVars, edits, faults>>

-----------------------------------------------------------------------------
(* clean_cas.                                                              *)

\* Mutation: the objects of derived datasets do not count as referenced.
GatherFilesOnly(k) ==
  /\ pc[k] = "idle"
  /\ refs' = [refs EXCEPT ![k] = UNION {ObjectsOf(d) : d \in Registered \ DerivedId}]
  /\ swept' = swept \cup HaveSeen
  /\ Goto(k, "list")
  /\ UNCHANGED <<source, objects, rows, exposed, localVars>>
  /\ UNCHANGED <<listed, victim, edits, faults>>

Gather(k) ==
  /\ pc[k] = "idle"
  /\ refs' = [refs EXCEPT ![k] = UNION {ObjectsOf(d) : d \in Registered}]
  /\ swept' = swept \cup HaveSeen
  /\ Goto(k, "list")
  /\ UNCHANGED <<source, objects, rows, exposed, localVars>>
  /\ UNCHANGED <<listed, victim, edits, faults>>

ListObjects(k) ==
  /\ pc[k] = "list"
  /\ listed' = [listed EXCEPT ![k] = {o \in Contents : objects[o] # "absent"}]
  /\ Goto(k, "scan")
  /\ UNCHANGED <<source, objects, rows, exposed, callVars, refs, victim, edits, faults>>

CleanEnds(k) ==
  /\ Goto(k, "idle")
  /\ refs' = [refs EXCEPT ![k] = {}]
  /\ listed' = [listed EXCEPT ![k] = {}]
  /\ victim' = [victim EXCEPT ![k] = {}]

\* A referenced object is skipped before its stat; a stat of an object that another
\* clean has removed raises.
StatObject(k) ==
  /\ pc[k] = "scan"
  /\ \E o \in listed[k] :
       \/ /\ o \in refs[k] \/ objects[o] = "fresh"
          /\ listed' = [listed EXCEPT ![k] = @ \ {o}]
          /\ UNCHANGED <<pc, refs, victim>>
       \/ /\ o \notin refs[k] /\ objects[o] = "old"
          /\ listed' = [listed EXCEPT ![k] = @ \ {o}]
          /\ victim' = [victim EXCEPT ![k] = {o}]
          /\ Goto(k, "unlink")
          /\ UNCHANGED refs
       \/ /\ o \notin refs[k] /\ objects[o] = "absent"
          /\ CleanEnds(k)
  /\ UNCHANGED <<source, objects, rows, exposed, callVars, edits, faults>>

UnlinkObject(k) ==
  /\ pc[k] = "unlink"
  /\ objects' = [o \in Contents |-> IF o \in victim[k] THEN "absent" ELSE objects[o]]
  /\ victim' = [victim EXCEPT ![k] = {}]
  /\ Goto(k, "scan")
  /\ UNCHANGED <<source, rows, exposed, callVars, refs, listed, edits, faults>>

EndClean(k) ==
  /\ pc[k] = "scan" /\ listed[k] = {}
  /\ CleanEnds(k)
  /\ UNCHANGED <<source, objects, rows, exposed, callVars, edits, faults>>

-----------------------------------------------------------------------------
(* The surroundings.                                                       *)

EditSource ==
  /\ edits < MaxEdits
  /\ edits' = edits + 1
  /\ \E s \in Sources, b \in Bytes : b # source[s] /\ source' = [source EXCEPT ![s] = b]
  /\ UNCHANGED <<objects, rows, exposed, pc, callVars, cleanVars, faults>>

\* The cutoff of the next clean is any date of the past.
Age(o) ==
  /\ \A k \in Cleaners : pc[k] = "idle"
  /\ objects[o] = "fresh"
  /\ objects' = [objects EXCEPT ![o] = "old"]
  /\ UNCHANGED <<source, rows, exposed, pc, callVars, cleanVars, edits, faults>>

\* A process dies between two steps; files and rows stay.
CrashCall(c) ==
  /\ pc[c] # "idle"
  /\ faults < MaxFaults
  /\ faults' = faults + 1
  /\ Finish(c)
  /\ UNCHANGED <<source, objects, rows, exposed, cleanVars, edits>>

CrashClean(k) ==
  /\ pc[k] # "idle"
  /\ faults < MaxFaults
  /\ faults' = faults + 1
  /\ CleanEnds(k)
  /\ UNCHANGED <<source, objects, rows, exposed, callVars, edits>>

CallStep(c) ==
  \/ BeginRegister(c) \/ BeginSpec(c) \/ ReadSource(c) \/ FindRegistered(c)
  \/ CheckSource(c) \/ TestObject(c) \/ WriteObject(c) \/ LookRow(c) \/ PutRow(c)
  \/ Align(c) \/ SizeOfSpec(c) \/ BeginDerive(c) \/ LoadContent(c)
  \/ BeginRead(c) \/ OpenPaths(c)

CleanStep(k) ==
  Gather(k) \/ ListObjects(k) \/ StatObject(k) \/ UnlinkObject(k) \/ EndClean(k)

Next ==
  \/ \E c \in Calls : CallStep(c) \/ CrashCall(c)
  \/ \E k \in Cleaners : CleanStep(k) \/ CrashClean(k)
  \/ \E o \in Contents : Age(o)
  \/ EditSource

Spec == Init /\ [][Next]_vars

-----------------------------------------------------------------------------
(* Properties.                                                             *)

\* "referenced objects are never deleted" (iteration 009, requirement R7): every
\* object a dataset row refers to is in the store, so a registered dataset can be
\* read (get_dataset, content_paths), whatever registrations and cleans died before
\* and whatever they do beside each other.  The code does not keep this for a row
\* whose call had a clean at work between its look at the objects and the row: that
\* clean may have gathered the rows before this one was there, and be about to unlink
\* (data.py 765-811 against 1100-1126).
RegisteredIsReadable == \A d \in Registered \ exposed : Readable(d)

\* A registration that reuses an earlier one stores what parsing its own bytes would
\* have given (data.py 170-193): the bytes in a row's provenance determine its content.
SameBytesSameContent ==
  \A r \in rows : r.id.kind = "file" => r.id.content = Canonical[r.bytes]

\* A dataset of several feeds was registered only with feeds that overlap enough
\* (data.py 578-596), whoever registered or edited them meanwhile.
SpecsAreAligned ==
  \A d \in Registered : d.kind = "spec" => ObjectsOf(d) \in Aligned

\* Registration, retention and failures together keep the promise of DatasetRecord: a
\* dataset that can be read, or could but for a clean beside its registration, is never
\* lost again, and one of several feeds has all of them.
Record == INSTANCE DatasetRecord
  WITH Files <- FileId \cup DerivedId, Specs <- SpecId,
       registered <- {d \in Registered : d \in exposed \/ Readable(d)}
ImplementsDatasetRecord == Record!Spec
=============================================================================
