--------------------------- MODULE CatalogRefresh ---------------------------
(***************************************************************************)
(* The refresh of source-attached catalogs (catalog.py).  A refresh of a   *)
(* scope scans its files, with a cache of what it found in files whose     *)
(* fingerprint is unchanged, and then writes in four transactions: the     *)
(* entries, the deletion of stale ones, the cache, the snapshot.  A scope  *)
(* is one strategy root (an entry per class of a file) or a pair of        *)
(* corpora (an entry per package, from the digests of its files).          *)
(*                                                                         *)
(* A content stands for its own digest, a stamp for mtime_ns and size, a   *)
(* snapshot for its own hash.  A refresh that a limit or its precondition  *)
(* refuses changes nothing and is left out.  Bounds: MaxEdits, MaxFaults.  *)
(***************************************************************************)
EXTENDS Naturals

CONSTANTS Scopes,
          Dual,      \* the scopes that are pairs of corpora
          Covers,    \* [Scopes -> SUBSET Scopes]: whose cache ids its prefix matches
          Files,
          ScopeFiles, \* [Scopes -> SUBSET Files]: the files of a scope
          Rank,      \* [Files -> Nat]: the order they are scanned in
          CacheName, \* [Files -> ...]: the name under which a file is cached
          Package,   \* [Files -> ...]: the package of a file of a pair
          Contents, Absent,
          Classes,   \* [Contents -> sets]: the strategies a content declares
          Broken,    \* contents with a syntax error
          Unpacked,  \* [Files -> Nat]: the stamps the files come with
          EditStamps, \* the first stamp that an edit leaves
          Calls,     \* concurrent refreshes
          MaxEdits, MaxFaults

ASSUME CatalogAssumption ==
  /\ Scopes # {} /\ Dual \subseteq Scopes /\ Covers \in [Scopes -> SUBSET Scopes]
  /\ \A s \in Scopes : s \in Covers[s]
  /\ Absent \notin Contents /\ Broken \subseteq Contents
  /\ \A b \in Broken : Classes[b] = {}
  /\ ScopeFiles \in [Scopes -> SUBSET Files] /\ Rank \in [Files -> Nat]
  /\ \A f, g \in Files : Rank[f] = Rank[g] => f = g
  /\ EditStamps \in Nat \ {0} /\ Unpacked \in [Files -> 0..(EditStamps - 1)]
  /\ MaxEdits \in Nat /\ MaxFaults \in Nat

VARIABLES
  tree, stamp,   \* content and fingerprint of each file
  rows,          \* the rows of kind catalog_entry
  cache,         \* the rows of kind catalog_file_cache
  snapshot,      \* per scope: its row of kind catalog_source, a set of at most one
  current,       \* history: no file of the scope has changed since the refresh that
                 \* made its snapshot began
  lone,          \* history: the scopes whose snapshot comes from a refresh that had
                 \* the scope to itself
  mingled,       \* history: the scopes that two refreshes have worked on at once
  pc,            \* per call
  scope,         \* per call
  previous,      \* per call: the snapshot it has read
  known,         \* per call: the cache it has read
  todo,          \* per call: files still to be scanned
  look,          \* per call: what it has found in the current file so far
  scanned,       \* per call: what it has found in each file
  moved,         \* history, per call: a file of the scope has changed since it began
  beside,        \* history: the calls beside which another one was at work in the scope
  edits, faults

store == <<rows, cache, snapshot>>
marks == <<current, lone, mingled>>
locals == <<scope, previous, known, todo, look, scanned, moved, beside>>
vars == <<tree, stamp, store, marks, pc, locals, edits, faults>>

AnyScope == CHOOSE s \in Scopes : TRUE
Nothing == [stamp |-> 0, classes |-> {}]
NoFiles == [f \in {} |-> Nothing]
Lost == [digest |-> Absent, classes |-> {}]
Found == [digest : Contents, classes : SUBSET UNION {Classes[c] : c \in Contents}]
Existing == {f \in Files : tree[f] # Absent}

\* The entries that belong to what was found in the files of a scope.
Entries(s, found) ==
  IF s \in Dual
    THEN {[scope |-> s, id |-> Package[f],
           digests |-> {<<g, found[g].digest>> :
             g \in {h \in DOMAIN found : Package[h] = Package[f] /\ found[h].digest # Absent}}]
            : f \in DOMAIN found}
    ELSE UNION {{[scope |-> s, id |-> <<f, n>>, digests |-> {<<f, found[f].digest>>}]
                   : n \in found[f].classes} : f \in DOMAIN found}

EntriesOfTree(s) ==
  Entries(s, [f \in ScopeFiles[s] \cap Existing |->
                [digest |-> tree[f], classes |-> Classes[tree[f]]]])

Ids(entries) == {e.id : e \in entries}
RowsOf(s) == {e \in rows : e.scope = s}

TypeOK ==
  /\ tree \in [Files -> Contents \cup {Absent}]
  /\ stamp \in [Files -> Nat]
  /\ \A e \in rows : /\ e.scope \in Scopes
                     /\ \A d \in e.digests : d[1] \in ScopeFiles[e.scope] /\ d[2] \in Contents
  /\ \A e, f \in rows : e.scope = f.scope /\ e.id = f.id => e = f
  /\ \A r \in cache : r.scope \in Scopes /\ r.stamp \in Nat /\ r.found \in Found
  /\ DOMAIN snapshot = Scopes
  /\ \A s \in Scopes : \A p, q \in snapshot[s] : p = q
  /\ current \in [Scopes -> BOOLEAN] /\ lone \subseteq Scopes /\ mingled \subseteq Scopes
  /\ pc \in [Calls -> {"idle", "cache", "stat", "parse", "hash", "delete", "replace", "snapshot"}]
  /\ scope \in [Calls -> Scopes]
  /\ DOMAIN previous = Calls
  /\ DOMAIN known = Calls
  /\ \A c \in Calls : \A r \in known[c] :
       r.scope = scope[c] /\ r.stamp \in Nat /\ r.found \in Found
  /\ todo \in [Calls -> SUBSET Files]
  /\ \A c \in Calls : todo[c] \subseteq ScopeFiles[scope[c]]
  /\ look \in [Calls -> [stamp : Nat, classes : SUBSET UNION {Classes[c] : c \in Contents}]]
  /\ DOMAIN scanned = Calls
  /\ \A c \in Calls :
       /\ DOMAIN scanned[c] \subseteq ScopeFiles[scope[c]]
       /\ \A f \in DOMAIN scanned[c] :
            scanned[c][f].stamp \in Nat /\ scanned[c][f].found \in Found \cup {Lost}
  /\ moved \in [Calls -> BOOLEAN] /\ beside \subseteq Calls
  /\ edits \in 0..MaxEdits /\ faults \in 0..MaxFaults

Init ==
  /\ tree \in [Files -> Contents]
  /\ stamp = Unpacked
  /\ rows = {} /\ cache = {}
  /\ snapshot = [s \in Scopes |-> {}]
  /\ current = [s \in Scopes |-> FALSE] /\ lone = {} /\ mingled = {}
  /\ pc = [c \in Calls |-> "idle"]
  /\ scope = [c \in Calls |-> AnyScope]
  /\ previous = [c \in Calls |-> {}]
  /\ known = [c \in Calls |-> {}]
  /\ todo = [c \in Calls |-> {}]
  /\ look = [c \in Calls |-> Nothing]
  /\ scanned = [c \in Calls |-> NoFiles]
  /\ moved = [c \in Calls |-> FALSE] /\ beside = {}
  /\ edits = 0 /\ faults = 0

Goto(c, s) == pc' = [pc EXCEPT ![c] = s]

Finish(c) ==
  /\ Goto(c, "idle")
  /\ scope' = [scope EXCEPT ![c] = AnyScope]
  /\ previous' = [previous EXCEPT ![c] = {}]
  /\ known' = [known EXCEPT ![c] = {}]
  /\ todo' = [todo EXCEPT ![c] = {}]
  /\ look' = [look EXCEPT ![c] = Nothing]
  /\ scanned' = [scanned EXCEPT ![c] = NoFiles]
  /\ moved' = [moved EXCEPT ![c] = FALSE]
  /\ beside' = beside \ {c}

-----------------------------------------------------------------------------
(* The scan.                                                               *)

\* Nothing in the code keeps two refreshes of one scope apart.
BeginRefresh(c, s) ==
  LET others == {b \in Calls : pc[b] # "idle" /\ scope[b] = s}
  IN
  /\ pc[c] = "idle"
  /\ IF others = {}
       THEN UNCHANGED <<beside, mingled>>
       ELSE beside' = beside \cup others \cup {c} /\ mingled' = mingled \cup {s}
  /\ scope' = [scope EXCEPT ![c] = s]
  /\ previous' = [previous EXCEPT ![c] = snapshot[s]]
  /\ Goto(c, "cache")
  /\ UNCHANGED <<tree, stamp, store, current, lone, known, todo, look, scanned, moved, edits, faults>>

ReadCache(c) ==
  /\ pc[c] = "cache"
  /\ known' = [known EXCEPT ![c] = {r \in cache : r.scope = scope[c]}]
  /\ todo' = [todo EXCEPT ![c] = ScopeFiles[scope[c]] \cap Existing]
  /\ Goto(c, "stat")
  /\ UNCHANGED <<tree, stamp, store, marks, scope, previous, look, scanned, moved, beside, edits,
                 faults>>

\* The file whose turn it is: they are scanned in the order of their paths.
First(c, f) == f \in todo[c] /\ \A g \in todo[c] : Rank[f] <= Rank[g]

\* The file is done: its cache row, and what was found in it.
Scan(c, f, when, found) ==
  /\ scanned' = [scanned EXCEPT ![c] =
       [g \in DOMAIN scanned[c] \cup {f} |->
          IF g = f THEN [stamp |-> when, found |-> found] ELSE scanned[c][g]]]
  /\ todo' = [todo EXCEPT ![c] = @ \ {f}]
  /\ look' = [look EXCEPT ![c] = Nothing]
  /\ Goto(c, "stat")

\* A file of an unchanged fingerprint is not read again.  A file that has disappeared
\* ends the refresh, unless it is one of a package: its entry goes without it.
StatFile(c, f) ==
  LET hit == {r \in known[c] : r.name = CacheName[f] /\ r.stamp = stamp[f]}
  IN
  /\ pc[c] = "stat" /\ First(c, f)
  /\ \/ tree[f] = Absent /\ Finish(c)
     \/ /\ tree[f] = Absent /\ scope[c] \in Dual
        /\ Scan(c, f, 0, Lost)
        /\ UNCHANGED <<scope, previous, known, moved, beside>>
     \/ /\ tree[f] # Absent
        /\ \E r \in hit : Scan(c, f, stamp[f], r.found)
        /\ UNCHANGED <<scope, previous, known, moved, beside>>
     \/ /\ tree[f] # Absent /\ hit = {}
        /\ look' = [look EXCEPT ![c] = [stamp |-> stamp[f], classes |-> {}]]
        /\ Goto(c, IF scope[c] \in Dual THEN "hash" ELSE "parse")
        /\ UNCHANGED <<scope, previous, known, todo, scanned, moved, beside>>
  /\ UNCHANGED <<tree, stamp, store, marks, edits, faults>>

ParseFile(c, f) ==
  /\ pc[c] = "parse" /\ First(c, f)
  /\ IF tree[f] = Absent
       THEN Finish(c)
       ELSE /\ look' = [look EXCEPT ![c] = [stamp |-> @.stamp, classes |-> Classes[tree[f]]]]
            /\ Goto(c, "hash")
            /\ UNCHANGED <<scope, previous, known, todo, scanned, moved, beside>>
  /\ UNCHANGED <<tree, stamp, store, marks, edits, faults>>

\* Mutation: the fingerprint kept is that of the file after it was read.
HashFileStatLate(c, f) ==
  /\ pc[c] = "hash" /\ First(c, f)
  /\ IF tree[f] = Absent
       THEN Finish(c)
       ELSE /\ Scan(c, f, stamp[f], [digest |-> tree[f], classes |-> look[c].classes])
            /\ UNCHANGED <<scope, previous, known, moved, beside>>
  /\ UNCHANGED <<tree, stamp, store, marks, edits, faults>>

\* file_hash reads the file a second time.
HashFile(c, f) ==
  /\ pc[c] = "hash" /\ First(c, f)
  /\ IF tree[f] = Absent
       THEN Finish(c)
       ELSE /\ Scan(c, f, look[c].stamp, [digest |-> tree[f], classes |-> look[c].classes])
            /\ UNCHANGED <<scope, previous, known, moved, beside>>
  /\ UNCHANGED <<tree, stamp, store, marks, edits, faults>>

-----------------------------------------------------------------------------
(* The transactions.                                                       *)

Mine(c) == Entries(scope[c], [f \in DOMAIN scanned[c] |-> scanned[c][f].found])

PutEntries(c) ==
  /\ pc[c] = "stat" /\ todo[c] = {}
  /\ rows' = Mine(c) \cup {e \in rows : e.scope # scope[c] \/ e.id \notin Ids(Mine(c))}
  /\ Goto(c, "delete")
  /\ UNCHANGED <<tree, stamp, cache, snapshot, marks, locals, edits, faults>>

Drop(c, stale) ==
  /\ pc[c] = "delete"
  /\ rows' = {e \in rows : e.scope # scope[c] \/ e.id \notin stale}
  /\ Goto(c, "replace")
  /\ UNCHANGED <<tree, stamp, cache, snapshot, marks, locals, edits, faults>>

Listed(c) == UNION {Ids(p.entries) : p \in previous[c]}

\* Mutation: all entries of the previous snapshot are deleted.
DeleteAllPrevious(c) == Drop(c, Listed(c))

\* Mutation: stale entries stay.
DeleteNone(c) == Drop(c, {})

DeleteStale(c) == Drop(c, Listed(c) \ Ids(Mine(c)))

\* replace_prefix; of two files with one name the last one scanned leaves the row.
ReplaceCache(c) ==
  LET read == {f \in DOMAIN scanned[c] : scanned[c][f].found.digest # Absent}
      Last(f) == \A g \in read : CacheName[g] = CacheName[f] => Rank[g] <= Rank[f]
  IN
  /\ pc[c] = "replace"
  /\ cache' = {r \in cache : r.scope \notin Covers[scope[c]]}
                \cup {[scope |-> scope[c], name |-> CacheName[f],
                       stamp |-> scanned[c][f].stamp, found |-> scanned[c][f].found]
                        : f \in {g \in read : Last(g)}}
  /\ Goto(c, "snapshot")
  /\ UNCHANGED <<tree, stamp, rows, snapshot, marks, locals, edits, faults>>

\* Diagnostics are those of the files that were read, not of a hit, and of a strategy
\* root: a pair's packages are not parsed for them.
PutSnapshot(c) ==
  LET s == scope[c]
      Read(f) == ~\E r \in known[c] : r.name = CacheName[f] /\ r.stamp = scanned[c][f].stamp
      broken == {f \in DOMAIN scanned[c] :
                   s \notin Dual /\ scanned[c][f].found.digest \in Broken /\ Read(f)}
  IN
  /\ pc[c] = "snapshot"
  /\ snapshot' = [snapshot EXCEPT ![s] = {[entries |-> Mine(c), diagnostics |-> broken]}]
  /\ current' = [current EXCEPT ![s] = ~moved[c]]
  /\ lone' = IF c \in beside THEN lone \ {s} ELSE lone \cup {s}
  /\ Finish(c)
  /\ UNCHANGED <<tree, stamp, rows, cache, mingled, edits, faults>>

-----------------------------------------------------------------------------
(* The surroundings.                                                       *)

\* A file is written, or deleted; every write leaves a fingerprint of its own.
Edit(f) ==
  /\ edits < MaxEdits
  /\ edits' = edits + 1
  /\ \E b \in Contents \cup {Absent} : b # tree[f] /\ tree' = [tree EXCEPT ![f] = b]
  /\ stamp' = [stamp EXCEPT ![f] = EditStamps + edits]
  /\ current' = [s \in Scopes |-> current[s] /\ f \notin ScopeFiles[s]]
  /\ moved' = [c \in Calls |-> pc[c] # "idle" /\ (moved[c] \/ f \in ScopeFiles[scope[c]])]
  /\ UNCHANGED <<store, lone, mingled, pc, scope, previous, known, todo, look, scanned, beside,
                 faults>>

Crash(c) ==
  /\ pc[c] # "idle"
  /\ faults < MaxFaults
  /\ faults' = faults + 1
  /\ Finish(c)
  /\ UNCHANGED <<tree, stamp, store, marks, edits>>

RefreshStep(c) ==
  \/ \E s \in Scopes : BeginRefresh(c, s)
  \/ ReadCache(c)
  \/ \E f \in todo[c] : StatFile(c, f) \/ ParseFile(c, f) \/ HashFile(c, f)
  \/ PutEntries(c) \/ DeleteStale(c) \/ ReplaceCache(c) \/ PutSnapshot(c)

Next ==
  \/ \E c \in Calls : RefreshStep(c) \/ Crash(c)
  \/ \E f \in Files : Edit(f)

Spec == Init /\ [][Next]_vars

-----------------------------------------------------------------------------
(* Properties.                                                             *)

\* A snapshot is what a scan without the cache would give, as long as no file has
\* changed since its refresh began: no entry is missing, extra or of an old digest,
\* whatever edits and crashes came before (catalog.py 422-434, 505-511).
SnapshotIsTrue ==
  \A s \in Scopes : current[s] => \A p \in snapshot[s] : p.entries = EntriesOfTree(s)

\* The entries of a current snapshot can be searched and inspected at every moment,
\* also in the middle of later refreshes, however many are at work, or after ones that
\* died, if the refresh that made it had the scope to itself (catalog.py 513-548).
CurrentSnapshotIsServed ==
  \A s \in lone : current[s] => \A p \in snapshot[s] : p.entries \subseteq RowsOf(s)

\* Search shows nothing but the entries of the last snapshot once its refresh is over,
\* unless a refresh died half way or two of them worked on the scope at once: entries of
\* deleted sources are gone.
EntriesAreTheSnapshots ==
  \A s \in Scopes \ mingled :
    faults = 0 /\ (\A c \in Calls : scope[c] = s => pc[c] \notin {"delete", "replace", "snapshot"})
      => RowsOf(s) = UNION {p.entries : p \in snapshot[s]}

\* inspect_strategy: ready as long as the files have the digests of the entry.
Ready(e) == \A d \in e.digests : tree[d[1]] = d[2]

\* inspect_strategy reports staleness when source bytes changed since the refresh, and
\* only then (docs/concepts/catalog.en.md:30-32).
ReadyUntilChanged ==
  \A s \in Scopes : current[s] => \A p \in snapshot[s] : \A e \in p.entries : Ready(e)
=============================================================================
