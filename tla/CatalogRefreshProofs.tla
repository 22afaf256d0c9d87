------------------------ MODULE CatalogRefreshProofs ------------------------
(***************************************************************************)
(* Whole, Truth and Rows are inductive for CatalogRefresh, for any scopes, *)
(* files and number of concurrent calls: Truth, what the caches and        *)
(* snapshots say of the files, if the fingerprints tell the files apart;   *)
(* Rows, what the rows of a scope are as long as no two refreshes work on  *)
(* it at once.                                                             *)
(***************************************************************************)
EXTENDS CatalogRefresh, TLAPS

-----------------------------------------------------------------------------
(* The parts of the invariants.                                            *)

\* What was found is what the file holds; only a strategy root keeps the classes.
True(s, f, found) ==
  found.digest = tree[f] /\ (s \notin Dual => found.classes = Classes[tree[f]])

Writing == {"delete", "replace", "snapshot"}
Active(c) == pc[c] # "idle"

\* Every stamp seen so far is older than the next edit's.
StampsArePast ==
  /\ \A f \in Files : stamp[f] < EditStamps + edits
  /\ \A r \in cache : r.stamp < EditStamps + edits
  /\ \A c \in Calls :
       /\ \A r \in known[c] : r.stamp < EditStamps + edits
       /\ look[c].stamp < EditStamps + edits
       /\ \A f \in DOMAIN scanned[c] : scanned[c][f].stamp < EditStamps + edits

\* Within a scope a name and a stamp are those of one file.
StampsTell ==
  \A s \in Scopes : \A f, g \in ScopeFiles[s] :
    CacheName[f] = CacheName[g] /\ stamp[f] = stamp[g] => f = g

\* A row under the name and the stamp of a file tells what that file holds, in the
\* cache and in what a call has read of it.
Tells(s, name, when, found) ==
  \A f \in ScopeFiles[s] : name = CacheName[f] /\ when = stamp[f] => True(s, f, found)

CacheTells ==
  /\ \A r \in cache : Tells(r.scope, r.name, r.stamp, r.found)
  /\ \A c \in Calls : \A r \in known[c] : Tells(r.scope, r.name, r.stamp, r.found)

\* The same of what a call has found, which is the next cache.
ScanTells ==
  \A c \in Calls : \A f \in DOMAIN scanned[c] :
    scanned[c][f].found # Lost
      => Tells(scope[c], CacheName[f], scanned[c][f].stamp, scanned[c][f].found)

\* A file whose fingerprint is still the one seen before it was read is the file that
\* is read, with the classes that were read in it.
LookTells ==
  \A c \in Calls : \A f, g \in ScopeFiles[scope[c]] :
    /\ pc[c] \in {"parse", "hash"}
    /\ First(c, f) /\ CacheName[g] = CacheName[f] /\ stamp[g] = look[c].stamp
    => /\ g = f
       /\ pc[c] = "hash" /\ scope[c] \notin Dual => look[c].classes = Classes[tree[f]]

\* A call that has not scanned has found nothing, one that writes has scanned everything.
CallsAreWhole ==
  \A c \in Calls :
    /\ ~Active(c) => moved[c] = FALSE
    /\ pc[c] \in {"idle", "cache"} => DOMAIN scanned[c] = {} /\ todo[c] = {} /\ known[c] = {}
    /\ pc[c] \in Writing => todo[c] = {}

\* The histories tell who shares a scope: a call beside which no other one has been at
\* work still has the snapshot that it has read; and as long as a scope's snapshot is that
\* of a lone refresh and current, no file has changed under any of the calls since.
CallsApart ==
  /\ \A b, c \in Calls : b # c /\ Active(b) /\ Active(c) /\ scope[b] = scope[c] => b \in beside
  /\ \A c \in beside : Active(c) /\ scope[c] \in mingled
  /\ \A c \in Calls : Active(c) =>
       /\ c \notin beside => previous[c] = snapshot[scope[c]]
       /\ scope[c] \in lone /\ current[scope[c]] => ~moved[c]

\* Unless a file of its scope has changed, a call has found what its files hold now.
ScanIsTrue ==
  \A c \in Calls : pc[c] \notin {"idle", "cache"} /\ ~moved[c] =>
    /\ \A f \in DOMAIN scanned[c] : True(scope[c], f, scanned[c][f].found)
    /\ ScopeFiles[scope[c]] \cap Existing = DOMAIN scanned[c] \cup todo[c]
    /\ pc[c] \in {"parse", "hash"} => \A f \in todo[c] : First(c, f) => stamp[f] = look[c].stamp

\* The entries a call has put stay until its snapshot lists them, if no other refresh
\* works beside it.
MineIsServed == \A c \in Calls \ beside : pc[c] \in Writing => Mine(c) \subseteq rows

\* As long as no refresh has died or met another one: the rows in the middle of a refresh.
Old(c) == UNION {p.entries : p \in previous[c]}

RowsWhileWriting ==
  faults = 0 => \A c \in Calls : scope[c] \notin mingled =>
    /\ pc[c] = "delete" =>
         RowsOf(scope[c]) = Mine(c) \cup {e \in Old(c) : e.id \notin Ids(Mine(c))}
    /\ pc[c] \in {"replace", "snapshot"} => RowsOf(scope[c]) = Mine(c)

-----------------------------------------------------------------------------
(* The steps, with the scan's taken apart by what becomes of the file.     *)

\* A call ends without its snapshot: a file it needs is gone, or it dies.
EndRefresh(c) ==
  /\ Active(c)
  /\ Finish(c)
  /\ \/ faults' = faults /\ pc[c] \notin Writing
     \/ faults' = faults + 1 /\ faults < MaxFaults
  /\ UNCHANGED <<tree, stamp, store, marks, edits>>

Scans(c, f, when, found) ==
  /\ First(c, f)
  /\ Scan(c, f, when, found)
  /\ UNCHANGED <<tree, stamp, store, marks, scope, previous, known, moved, beside, edits,
                 faults>>

LoseFile(c, f) ==
  pc[c] = "stat" /\ tree[f] = Absent /\ scope[c] \in Dual /\ Scans(c, f, 0, Lost)

HitFile(c, f, r) ==
  /\ pc[c] = "stat" /\ tree[f] # Absent
  /\ r \in known[c] /\ r.name = CacheName[f] /\ r.stamp = stamp[f]
  /\ Scans(c, f, stamp[f], r.found)

MissFile(c, f) ==
  /\ pc[c] = "stat" /\ tree[f] # Absent /\ First(c, f)
  /\ look' = [look EXCEPT ![c] = [stamp |-> stamp[f], classes |-> {}]]
  /\ Goto(c, IF scope[c] \in Dual THEN "hash" ELSE "parse")
  /\ UNCHANGED <<tree, stamp, store, marks, scope, previous, known, todo, scanned, moved,
                 beside, edits, faults>>

ReadClasses(c, f) ==
  /\ pc[c] = "parse" /\ tree[f] # Absent /\ First(c, f)
  /\ look' = [look EXCEPT ![c] = [stamp |-> @.stamp, classes |-> Classes[tree[f]]]]
  /\ Goto(c, "hash")
  /\ UNCHANGED <<tree, stamp, store, marks, scope, previous, known, todo, scanned, moved,
                 beside, edits, faults>>

ReadDigest(c, f) ==
  /\ pc[c] = "hash" /\ tree[f] # Absent
  /\ Scans(c, f, look[c].stamp, [digest |-> tree[f], classes |-> look[c].classes])

CallStep(c) ==
  \/ \E s \in Scopes : BeginRefresh(c, s)
  \/ ReadCache(c) \/ EndRefresh(c)
  \/ \E f \in todo[c] : \/ LoseFile(c, f) \/ MissFile(c, f) \/ ReadClasses(c, f)
                        \/ ReadDigest(c, f) \/ \E r \in known[c] : HitFile(c, f, r)
  \/ PutEntries(c) \/ DeleteStale(c) \/ ReplaceCache(c) \/ PutSnapshot(c)

\* Every step is of one of these kinds.
LEMMA Kinds ==
  ASSUME [Next]_vars
  PROVE  \/ \E c \in Calls : CallStep(c)
         \/ \E f \in Files : Edit(f)
         \/ UNCHANGED vars
<1> USE DEF CallStep
<1>1. ASSUME NEW c \in Calls, NEW f \in todo[c], StatFile(c, f)
      PROVE  CallStep(c)
  BY <1>1 DEF StatFile, EndRefresh, LoseFile, HitFile, MissFile, Scans, Active, Writing
<1>2. ASSUME NEW c \in Calls, NEW f \in todo[c], ParseFile(c, f)
      PROVE  CallStep(c)
  BY <1>2 DEF ParseFile, EndRefresh, ReadClasses, Active, Writing
<1>3. ASSUME NEW c \in Calls, NEW f \in todo[c], HashFile(c, f)
      PROVE  CallStep(c)
  BY <1>3 DEF HashFile, EndRefresh, ReadDigest, Scans, Active, Writing
<1>4. ASSUME NEW c \in Calls, Crash(c)
      PROVE  CallStep(c)
  BY <1>4 DEF Crash, EndRefresh, Active
<1>5. QED
  BY <1>1, <1>2, <1>3, <1>4 DEF Next, RefreshStep

-----------------------------------------------------------------------------
(* The entries of what was found.                                          *)

\* An entry is of its scope.
LEMMA EntriesAreOfTheScope ==
  ASSUME NEW s, NEW found, NEW e \in Entries(s, found)
  PROVE  e.scope = s
BY DEF Entries

\* A scope has one entry of an id: one for each package, or class of a file.
LEMMA EntriesHaveIds ==
  ASSUME NEW s, NEW found, NEW e \in Entries(s, found), NEW g \in Entries(s, found),
         e.id = g.id
  PROVE  e = g
<1>1. CASE s \in Dual
  BY <1>1 DEF Entries
<1>2. CASE s \notin Dual
  <2>1. PICK f \in DOMAIN found :
          \E n \in found[f].classes :
            e = [scope |-> s, id |-> <<f, n>>, digests |-> {<<f, found[f].digest>>}]
    BY <1>2 DEF Entries
  <2>2. PICK h \in DOMAIN found :
          \E m \in found[h].classes :
            g = [scope |-> s, id |-> <<h, m>>, digests |-> {<<h, found[h].digest>>}]
    BY <1>2 DEF Entries
  <2>3. QED
    BY <2>1, <2>2
<1>3. QED
  BY <1>1, <1>2

\* The digests of an entry are those found in files that were there.
LEMMA EntriesHaveDigests ==
  ASSUME NEW s, NEW found,
         \A f \in DOMAIN found : found[f].digest # Absent \/ found[f] = Lost,
         NEW e \in Entries(s, found), NEW d \in e.digests
  PROVE  /\ d[1] \in DOMAIN found
         /\ d[2] = found[d[1]].digest
         /\ d[2] # Absent
<1>1. CASE s \in Dual
  <2>1. PICK f \in DOMAIN found :
          e.digests = {<<g, found[g].digest>> :
             g \in {h \in DOMAIN found : Package[h] = Package[f] /\ found[h].digest # Absent}}
    BY <1>1 DEF Entries
  <2>2. QED
    BY <2>1
<1>2. CASE s \notin Dual
  <2>1. PICK f \in DOMAIN found :
          found[f].classes # {} /\ e.digests = {<<f, found[f].digest>>}
    BY <1>2 DEF Entries
  <2>2. found[f] # Lost
    BY <2>1 DEF Lost
  <2>3. QED
    BY <2>1, <2>2
<1>3. QED
  BY <1>1, <1>2

\* They depend on nothing but the digests and, in a strategy root, the classes.
LEMMA EntriesOfTheSame ==
  ASSUME NEW s, NEW a, NEW b, DOMAIN a = DOMAIN b,
         \A f \in DOMAIN a : /\ a[f].digest = b[f].digest
                             /\ s \notin Dual => a[f].classes = b[f].classes
  PROVE  Entries(s, a) = Entries(s, b)
<1>1. CASE s \in Dual
  <2> DEFINE D(x, p) == {<<g, x[g].digest>> :
               g \in {h \in DOMAIN x : Package[h] = p /\ x[h].digest # Absent}}
  <2>1. \A p : D(a, p) = D(b, p)
    OBVIOUS
  <2> HIDE DEF D
  <2>2. /\ Entries(s, a) = {[scope |-> s, id |-> Package[f],
                             digests |-> D(a, Package[f])] : f \in DOMAIN a}
        /\ Entries(s, b) = {[scope |-> s, id |-> Package[f],
                             digests |-> D(b, Package[f])] : f \in DOMAIN b}
    BY <1>1 DEF Entries, D
  <2>3. QED
    BY <2>1, <2>2
<1>2. CASE s \notin Dual
  <2> DEFINE E(x, f) == {[scope |-> s, id |-> <<f, n>>, digests |-> {<<f, x[f].digest>>}]
                           : n \in x[f].classes}
  <2>1. \A f \in DOMAIN a : E(a, f) = E(b, f)
    BY <1>2
  <2> HIDE DEF E
  <2>2. /\ Entries(s, a) = UNION {E(a, f) : f \in DOMAIN a}
        /\ Entries(s, b) = UNION {E(b, f) : f \in DOMAIN b}
    BY <1>2 DEF Entries, E
  <2>3. {E(a, f) : f \in DOMAIN a} = {E(b, f) : f \in DOMAIN b}
    BY <2>1
  <2>4. QED
    BY <2>2, <2>3
<1>3. QED
  BY <1>1, <1>2

\* The files of a call have one first.
LEMMA OneIsFirst ==
  ASSUME CatalogAssumption, NEW c \in Calls, todo[c] \subseteq Files,
         NEW f, NEW g, First(c, f), First(c, g)
  PROVE  f = g
<1>1. f \in Files /\ g \in Files /\ Rank[f] <= Rank[g] /\ Rank[g] <= Rank[f]
  BY DEF First
<1>2. Rank[f] \in Nat /\ Rank[g] \in Nat
  BY <1>1 DEF CatalogAssumption
<1>3. QED
  BY <1>1, <1>2 DEF CatalogAssumption

\* The digests of a call's entries are of files of its scope.
LEMMA MineHasDigests ==
  ASSUME TypeOK, NEW c \in Calls
  PROVE  \A e \in Mine(c) : \A d \in e.digests :
           d[1] \in ScopeFiles[scope[c]] /\ d[2] \in Contents
<1> DEFINE found == [f \in DOMAIN scanned[c] |-> scanned[c][f].found]
<1>1. \A f \in DOMAIN found : found[f] \in Found \cup {Lost} /\ f \in ScopeFiles[scope[c]]
  BY DEF TypeOK
<1>2. \A f \in DOMAIN found : found[f].digest \in Contents \/ found[f] = Lost
  BY <1>1 DEF Found
<1>3. \A f \in DOMAIN found : found[f].digest # Absent => found[f].digest \in Contents
  BY <1>2 DEF Lost
<1>4. \A f \in DOMAIN found : found[f].digest # Absent \/ found[f] = Lost
  BY <1>2, CatalogAssumption DEF CatalogAssumption
<1>5. Mine(c) = Entries(scope[c], found) /\ DOMAIN found = DOMAIN scanned[c]
  BY DEF Mine
<1> HIDE DEF found
<1>6. \A e \in Entries(scope[c], found) : \A d \in e.digests :
        d[1] \in DOMAIN found /\ d[2] = found[d[1]].digest /\ d[2] # Absent
  BY <1>4, EntriesHaveDigests
<1>7. QED
  BY <1>1, <1>3, <1>5, <1>6

-----------------------------------------------------------------------------
(* One lemma for each part of the invariant: first how files are scanned.   *)

\* The ids stay apart because a call replaces the rows whose ids its entries have.
LEMMA TypeOKKept ==
  ASSUME TypeOK, CallsAreWhole, [Next]_vars
  PROVE  TypeOK'
<1> USE CatalogAssumption DEF TypeOK, CallsAreWhole, store, marks, locals, Goto, Nothing, NoFiles,
        First
<1>1. ASSUME NEW c \in Calls, NEW s \in Scopes, BeginRefresh(c, s)
      PROVE  TypeOK'
  BY <1>1 DEF BeginRefresh
<1>2. ASSUME NEW c \in Calls, ReadCache(c)
      PROVE  TypeOK'
  BY <1>2 DEF ReadCache
<1>3. ASSUME NEW c \in Calls, EndRefresh(c)
      PROVE  TypeOK'
  <2>1. AnyScope \in Scopes
    BY DEF AnyScope
  <2>2. /\ todo' \in [Calls -> SUBSET Files]
        /\ scope' \in [Calls -> Scopes]
        /\ DOMAIN previous' = Calls /\ DOMAIN known' = Calls /\ DOMAIN scanned' = Calls
    BY <1>3, <2>1 DEF EndRefresh, Finish
  <2>3. look' \in [Calls -> [stamp : Nat, classes : SUBSET UNION {Classes[x] : x \in Contents}]]
    BY <1>3 DEF EndRefresh, Finish
  <2>4. moved' \in [Calls -> BOOLEAN]
    BY <1>3 DEF EndRefresh, Finish
  <2>5. faults' \in 0..MaxFaults
    BY <1>3 DEF EndRefresh
  <2>6. QED
    BY <1>3, <2>2, <2>3, <2>4, <2>5 DEF EndRefresh, Finish
<1>4. ASSUME NEW c \in Calls, NEW f \in todo[c], LoseFile(c, f)
      PROVE  TypeOK'
  BY <1>4 DEF LoseFile, Scans, Scan
<1>5. ASSUME NEW c \in Calls, NEW f \in todo[c], MissFile(c, f)
      PROVE  TypeOK'
  BY <1>5 DEF MissFile
<1>6. ASSUME NEW c \in Calls, NEW f \in todo[c], ReadClasses(c, f)
      PROVE  TypeOK'
  BY <1>6 DEF ReadClasses
<1>7. ASSUME NEW c \in Calls, NEW f \in todo[c], ReadDigest(c, f)
      PROVE  TypeOK'
  <2>1. tree[f] \in Contents /\ look[c].classes \in SUBSET UNION {Classes[x] : x \in Contents}
    BY <1>7 DEF ReadDigest, Scans
  <2>2. [digest |-> tree[f], classes |-> look[c].classes] \in Found
    BY <2>1 DEF Found
  <2>3. look[c].stamp \in Nat /\ f \in ScopeFiles[scope[c]] /\ c \in Calls
    BY <1>7 DEF ReadDigest, Scans
  <2>4. look' \in [Calls -> [stamp : Nat, classes : SUBSET UNION {Classes[x] : x \in Contents}]]
    BY <1>7 DEF ReadDigest, Scans, Scan
  <2>5. /\ DOMAIN scanned' = Calls
        /\ \A b \in Calls :
             /\ DOMAIN scanned'[b] \subseteq ScopeFiles[scope[b]]
             /\ \A g \in DOMAIN scanned'[b] :
                  scanned'[b][g].stamp \in Nat /\ scanned'[b][g].found \in Found \cup {Lost}
    BY <1>7, <2>2, <2>3 DEF ReadDigest, Scans, Scan
  <2>6. /\ pc' \in [Calls -> {"idle", "cache", "stat", "parse", "hash"} \cup Writing]
        /\ todo' \in [Calls -> SUBSET Files]
        /\ \A b \in Calls : todo'[b] \subseteq ScopeFiles[scope[b]]
    BY <1>7 DEF ReadDigest, Scans, Scan, Writing
  <2>7. UNCHANGED <<tree, stamp, rows, cache, snapshot, current, lone, mingled, scope,
                    previous, known, moved, beside, edits, faults>>
    BY <1>7 DEF ReadDigest, Scans
  <2>8. QED
    BY <2>4, <2>5, <2>6, <2>7 DEF Writing
<1>8. ASSUME NEW c \in Calls, NEW f \in todo[c], NEW r \in known[c], HitFile(c, f, r)
      PROVE  TypeOK'
  BY <1>8 DEF HitFile, Scans, Scan
<1>9. ASSUME NEW c \in Calls, PutEntries(c)
      PROVE  TypeOK'
  <2>1. \A e \in Mine(c) : e.scope = scope[c]
    BY EntriesAreOfTheScope DEF Mine
  <2>2. \A e, g \in Mine(c) : e.id = g.id => e = g
    BY EntriesHaveIds DEF Mine
  <2>3. \A e \in Mine(c) : \A d \in e.digests : d[1] \in ScopeFiles[scope[c]] /\ d[2] \in Contents
    BY MineHasDigests
  <2>4. \A e \in rows' : /\ e.scope \in Scopes
                         /\ \A d \in e.digests : d[1] \in ScopeFiles[e.scope] /\ d[2] \in Contents
    BY <1>9, <2>1, <2>3 DEF PutEntries
  <2>5. \A e, g \in rows' : e.scope = g.scope /\ e.id = g.id => e = g
    BY <1>9, <2>1, <2>2 DEF PutEntries, Ids
  <2>6. QED
    BY <1>9, <2>4, <2>5 DEF PutEntries
<1>10. ASSUME NEW c \in Calls, DeleteStale(c)
      PROVE  TypeOK'
  BY <1>10 DEF DeleteStale, Drop
<1>11. ASSUME NEW c \in Calls, ReplaceCache(c)
      PROVE  TypeOK'
  <2>1. \A f \in DOMAIN scanned[c] :
          scanned[c][f].found.digest # Absent => scanned[c][f].found \in Found
    BY DEF Lost
  <2>2. \A r \in cache' : r.scope \in Scopes /\ r.stamp \in Nat /\ r.found \in Found
    BY <1>11, <2>1 DEF ReplaceCache
  <2>3. QED
    BY <1>11, <2>2 DEF ReplaceCache
<1>12. ASSUME NEW c \in Calls, PutSnapshot(c)
      PROVE  TypeOK'
  <2>1. AnyScope \in Scopes
    BY DEF AnyScope
  <2>2. scope[c] \in Scopes /\ DOMAIN snapshot' = Scopes
    BY <1>12 DEF PutSnapshot
  <2>3. /\ \A s \in Scopes \ {scope[c]} : snapshot'[s] = snapshot[s]
        /\ \E p : snapshot'[scope[c]] = {p}
    BY <1>12, <2>2 DEF PutSnapshot
  <2>4. \A s \in Scopes : \A p, q \in snapshot'[s] : p = q
    BY <2>3
  <2>5. (~moved[c]) \in BOOLEAN /\ current' = [current EXCEPT ![scope[c]] = ~moved[c]]
    BY <1>12 DEF PutSnapshot
  <2>6. current' \in [Scopes -> BOOLEAN]
    BY <2>2, <2>5
  <2>7. /\ Finish(c) /\ UNCHANGED <<tree, stamp, rows, cache, mingled, edits, faults>>
        /\ lone' \subseteq Scopes
    BY <1>12, <2>2 DEF PutSnapshot
  <2>8. /\ todo' \in [Calls -> SUBSET Files]
        /\ scope' \in [Calls -> Scopes]
        /\ DOMAIN previous' = Calls /\ DOMAIN known' = Calls /\ DOMAIN scanned' = Calls
    BY <2>1, <2>7 DEF Finish
  <2>9. look' \in [Calls -> [stamp : Nat, classes : SUBSET UNION {Classes[x] : x \in Contents}]]
    BY <2>7 DEF Finish
  <2>10. moved' \in [Calls -> BOOLEAN] /\ beside' \subseteq Calls
    BY <2>7 DEF Finish
  <2>11. QED
    BY <2>2, <2>4, <2>6, <2>7, <2>8, <2>9, <2>10 DEF Finish
<1>13. ASSUME NEW f \in Files, Edit(f)
      PROVE  TypeOK'
  BY <1>13 DEF Edit
<1>14. CASE UNCHANGED vars
  BY <1>14 DEF vars
<1>15. QED
  <2> HIDE DEF TypeOK, CallsAreWhole, store, marks, locals, Goto, Nothing, NoFiles, First
  <2> QED
    BY <1>1, <1>2, <1>3, <1>4, <1>5, <1>6, <1>7, <1>8, <1>9, <1>10, <1>11, <1>12, <1>13, <1>14,
       Kinds
    DEF CallStep

\* Only an edit makes a stamp, and counts it.
LEMMA StampsArePastKept ==
  ASSUME TypeOK, StampsArePast, [Next]_vars
  PROVE  StampsArePast'
<1> USE CatalogAssumption DEF TypeOK, StampsArePast, store, marks, locals, Goto, Nothing, NoFiles
<1>1. ASSUME NEW c \in Calls, NEW s \in Scopes, BeginRefresh(c, s)
      PROVE  StampsArePast'
  BY <1>1 DEF BeginRefresh
<1>2. ASSUME NEW c \in Calls, ReadCache(c)
      PROVE  StampsArePast'
  BY <1>2 DEF ReadCache
<1>3. ASSUME NEW c \in Calls, EndRefresh(c)
      PROVE  StampsArePast'
  BY <1>3 DEF EndRefresh, Finish
<1>4. ASSUME NEW c \in Calls, NEW f \in todo[c], LoseFile(c, f)
      PROVE  StampsArePast'
  BY <1>4 DEF LoseFile, Scans, Scan
<1>5. ASSUME NEW c \in Calls, NEW f \in todo[c], MissFile(c, f)
      PROVE  StampsArePast'
  BY <1>5 DEF MissFile
<1>6. ASSUME NEW c \in Calls, NEW f \in todo[c], ReadClasses(c, f)
      PROVE  StampsArePast'
  BY <1>6 DEF ReadClasses
<1>7. ASSUME NEW c \in Calls, NEW f \in todo[c], ReadDigest(c, f)
      PROVE  StampsArePast'
  BY <1>7 DEF ReadDigest, Scans, Scan
<1>8. ASSUME NEW c \in Calls, NEW f \in todo[c], NEW r \in known[c], HitFile(c, f, r)
      PROVE  StampsArePast'
  BY <1>8 DEF HitFile, Scans, Scan
<1>9. ASSUME NEW c \in Calls, PutEntries(c)
      PROVE  StampsArePast'
  BY <1>9 DEF PutEntries
<1>10. ASSUME NEW c \in Calls, DeleteStale(c)
      PROVE  StampsArePast'
  BY <1>10 DEF DeleteStale, Drop
<1>11. ASSUME NEW c \in Calls, ReplaceCache(c)
      PROVE  StampsArePast'
  BY <1>11 DEF ReplaceCache
<1>12. ASSUME NEW c \in Calls, PutSnapshot(c)
      PROVE  StampsArePast'
  BY <1>12 DEF PutSnapshot, Finish
<1>13. ASSUME NEW f \in Files, Edit(f)
      PROVE  StampsArePast'
  BY <1>13 DEF Edit
<1>14. CASE UNCHANGED vars
  BY <1>14 DEF vars
<1>15. QED
  <2> HIDE DEF TypeOK, StampsArePast, store, marks, locals, Goto, Nothing, NoFiles
  <2> QED
    BY <1>1, <1>2, <1>3, <1>4, <1>5, <1>6, <1>7, <1>8, <1>9, <1>10, <1>11, <1>12, <1>13, <1>14,
       Kinds
    DEF CallStep

\* An edit's stamp is nobody else's.
LEMMA StampsTellKept ==
  ASSUME TypeOK, StampsArePast, StampsTell, [Next]_vars
  PROVE  StampsTell'
<1> USE CatalogAssumption DEF TypeOK, StampsArePast, StampsTell, store, marks, locals, Goto
<1>1. ASSUME NEW c \in Calls, NEW s \in Scopes, BeginRefresh(c, s)
      PROVE  StampsTell'
  BY <1>1 DEF BeginRefresh
<1>2. ASSUME NEW c \in Calls, ReadCache(c)
      PROVE  StampsTell'
  BY <1>2 DEF ReadCache
<1>3. ASSUME NEW c \in Calls, EndRefresh(c)
      PROVE  StampsTell'
  BY <1>3 DEF EndRefresh, Finish
<1>4. ASSUME NEW c \in Calls, NEW f \in todo[c], LoseFile(c, f)
      PROVE  StampsTell'
  BY <1>4 DEF LoseFile, Scans, Scan
<1>5. ASSUME NEW c \in Calls, NEW f \in todo[c], MissFile(c, f)
      PROVE  StampsTell'
  BY <1>5 DEF MissFile
<1>6. ASSUME NEW c \in Calls, NEW f \in todo[c], ReadClasses(c, f)
      PROVE  StampsTell'
  BY <1>6 DEF ReadClasses
<1>7. ASSUME NEW c \in Calls, NEW f \in todo[c], ReadDigest(c, f)
      PROVE  StampsTell'
  BY <1>7 DEF ReadDigest, Scans, Scan
<1>8. ASSUME NEW c \in Calls, NEW f \in todo[c], NEW r \in known[c], HitFile(c, f, r)
      PROVE  StampsTell'
  BY <1>8 DEF HitFile, Scans, Scan
<1>9. ASSUME NEW c \in Calls, PutEntries(c)
      PROVE  StampsTell'
  BY <1>9 DEF PutEntries
<1>10. ASSUME NEW c \in Calls, DeleteStale(c)
      PROVE  StampsTell'
  BY <1>10 DEF DeleteStale, Drop
<1>11. ASSUME NEW c \in Calls, ReplaceCache(c)
      PROVE  StampsTell'
  BY <1>11 DEF ReplaceCache
<1>12. ASSUME NEW c \in Calls, PutSnapshot(c)
      PROVE  StampsTell'
  BY <1>12 DEF PutSnapshot, Finish
<1>13. ASSUME NEW f \in Files, Edit(f)
      PROVE  StampsTell'
  BY <1>13 DEF Edit
<1>14. CASE UNCHANGED vars
  BY <1>14 DEF vars
<1>15. QED
  <2> HIDE DEF TypeOK, StampsArePast, StampsTell, store, marks, locals, Goto
  <2> QED
    BY <1>1, <1>2, <1>3, <1>4, <1>5, <1>6, <1>7, <1>8, <1>9, <1>10, <1>11, <1>12, <1>13, <1>14,
       Kinds
    DEF CallStep

\* A row of the cache comes from a scan, and an edit leaves no row for its file.
LEMMA CacheTellsKept ==
  ASSUME TypeOK, StampsArePast, CacheTells, ScanTells, [Next]_vars
  PROVE  CacheTells'
<1> USE CatalogAssumption DEF TypeOK, StampsArePast, CacheTells, ScanTells, store, marks, locals,
        Goto, Tells, True
<1>1. ASSUME NEW c \in Calls, NEW s \in Scopes, BeginRefresh(c, s)
      PROVE  CacheTells'
  BY <1>1 DEF BeginRefresh
<1>2. ASSUME NEW c \in Calls, ReadCache(c)
      PROVE  CacheTells'
  BY <1>2 DEF ReadCache
<1>3. ASSUME NEW c \in Calls, EndRefresh(c)
      PROVE  CacheTells'
  BY <1>3 DEF EndRefresh, Finish
<1>4. ASSUME NEW c \in Calls, NEW f \in todo[c], LoseFile(c, f)
      PROVE  CacheTells'
  BY <1>4 DEF LoseFile, Scans, Scan
<1>5. ASSUME NEW c \in Calls, NEW f \in todo[c], MissFile(c, f)
      PROVE  CacheTells'
  BY <1>5 DEF MissFile
<1>6. ASSUME NEW c \in Calls, NEW f \in todo[c], ReadClasses(c, f)
      PROVE  CacheTells'
  BY <1>6 DEF ReadClasses
<1>7. ASSUME NEW c \in Calls, NEW f \in todo[c], ReadDigest(c, f)
      PROVE  CacheTells'
  BY <1>7 DEF ReadDigest, Scans, Scan
<1>8. ASSUME NEW c \in Calls, NEW f \in todo[c], NEW r \in known[c], HitFile(c, f, r)
      PROVE  CacheTells'
  BY <1>8 DEF HitFile, Scans, Scan
<1>9. ASSUME NEW c \in Calls, PutEntries(c)
      PROVE  CacheTells'
  BY <1>9 DEF PutEntries
<1>10. ASSUME NEW c \in Calls, DeleteStale(c)
      PROVE  CacheTells'
  BY <1>10 DEF DeleteStale, Drop
<1>11. ASSUME NEW c \in Calls, ReplaceCache(c)
      PROVE  CacheTells'
  <2>1. \A f \in DOMAIN scanned[c] :
          scanned[c][f].found.digest # Absent => scanned[c][f].found # Lost
    BY DEF Lost
  <2>2. \A f \in DOMAIN scanned[c] : scanned[c][f].found.digest # Absent =>
          Tells(scope[c], CacheName[f], scanned[c][f].stamp, scanned[c][f].found)
    BY <2>1
  <2>3. /\ \A r \in cache' : r \in cache \/ \E f \in DOMAIN scanned[c] :
             /\ scanned[c][f].found.digest # Absent
             /\ r = [scope |-> scope[c], name |-> CacheName[f],
                     stamp |-> scanned[c][f].stamp, found |-> scanned[c][f].found]
        /\ tree' = tree /\ stamp' = stamp /\ known' = known
    BY <1>11 DEF ReplaceCache
  <2>4. ASSUME NEW r \in cache'
        PROVE  Tells(r.scope, r.name, r.stamp, r.found)
    <3>1. CASE r \in cache
      BY <3>1
    <3>2. CASE r \notin cache
      <4>1. PICK f \in DOMAIN scanned[c] :
              /\ scanned[c][f].found.digest # Absent
              /\ r = [scope |-> scope[c], name |-> CacheName[f],
                      stamp |-> scanned[c][f].stamp, found |-> scanned[c][f].found]
        BY <2>3, <3>2
      <4>2. /\ r.scope = scope[c] /\ r.name = CacheName[f]
            /\ r.stamp = scanned[c][f].stamp /\ r.found = scanned[c][f].found
        BY <4>1
      <4>3. Tells(scope[c], CacheName[f], scanned[c][f].stamp, scanned[c][f].found)
        BY <2>2, <4>1
      <4>4. QED
        BY <4>2, <4>3
    <3>3. QED
      BY <3>1, <3>2
  <2>5. QED
    BY <2>3, <2>4
<1>12. ASSUME NEW c \in Calls, PutSnapshot(c)
      PROVE  CacheTells'
  BY <1>12 DEF PutSnapshot, Finish
<1>13. ASSUME NEW f \in Files, Edit(f)
      PROVE  CacheTells'
  BY <1>13 DEF Edit
<1>14. CASE UNCHANGED vars
  BY <1>14 DEF vars
<1>15. QED
  <2> HIDE DEF TypeOK, StampsArePast, CacheTells, ScanTells, store, marks, locals, Goto, Tells,
              True
  <2> QED
    BY <1>1, <1>2, <1>3, <1>4, <1>5, <1>6, <1>7, <1>8, <1>9, <1>10, <1>11, <1>12, <1>13, <1>14,
       Kinds
    DEF CallStep

\* A file is found under the stamp it had before it was read.
LEMMA ScanTellsKept ==
  ASSUME TypeOK, CallsAreWhole, StampsArePast, StampsTell, CacheTells, ScanTells, LookTells,
         [Next]_vars
  PROVE  ScanTells'
<1> USE CatalogAssumption DEF TypeOK, CallsAreWhole, StampsArePast, StampsTell, CacheTells,
        ScanTells, LookTells, store, marks, locals, Goto, Tells, True, First, NoFiles, Lost
<1>1. ASSUME NEW c \in Calls, NEW s \in Scopes, BeginRefresh(c, s)
      PROVE  ScanTells'
  BY <1>1 DEF BeginRefresh
<1>2. ASSUME NEW c \in Calls, ReadCache(c)
      PROVE  ScanTells'
  BY <1>2 DEF ReadCache
<1>3. ASSUME NEW c \in Calls, EndRefresh(c)
      PROVE  ScanTells'
  BY <1>3 DEF EndRefresh, Finish
<1>4. ASSUME NEW c \in Calls, NEW f \in todo[c], LoseFile(c, f)
      PROVE  ScanTells'
  BY <1>4 DEF LoseFile, Scans, Scan
<1>5. ASSUME NEW c \in Calls, NEW f \in todo[c], MissFile(c, f)
      PROVE  ScanTells'
  BY <1>5 DEF MissFile
<1>6. ASSUME NEW c \in Calls, NEW f \in todo[c], ReadClasses(c, f)
      PROVE  ScanTells'
  BY <1>6 DEF ReadClasses
<1>7. ASSUME NEW c \in Calls, NEW f \in todo[c], ReadDigest(c, f)
      PROVE  ScanTells'
  BY <1>7 DEF ReadDigest, Scans, Scan
<1>8. ASSUME NEW c \in Calls, NEW f \in todo[c], NEW r \in known[c], HitFile(c, f, r)
      PROVE  ScanTells'
  <2>1. /\ f \in ScopeFiles[scope[c]] /\ r.scope = scope[c]
        /\ tree' = tree /\ stamp' = stamp /\ scope' = scope
    BY <1>8 DEF HitFile, Scans
  <2>2. Tells(scope[c], CacheName[f], stamp[f], r.found)
    BY <1>8, <2>1 DEF HitFile, Scans
  <2>3. /\ \A b \in Calls \ {c} : scanned'[b] = scanned[b]
        /\ DOMAIN scanned'[c] = DOMAIN scanned[c] \cup {f}
        /\ scanned'[c][f] = [stamp |-> stamp[f], found |-> r.found]
        /\ \A g \in DOMAIN scanned[c] \ {f} : scanned'[c][g] = scanned[c][g]
    BY <1>8 DEF HitFile, Scans, Scan
  <2>4. scanned'[c][f].stamp = stamp[f] /\ scanned'[c][f].found = r.found
    BY <2>3
  <2>5. Tells(scope[c], CacheName[f], scanned'[c][f].stamp, scanned'[c][f].found)
    BY <2>2, <2>4
  <2>6. \A g \in DOMAIN scanned'[c] : scanned'[c][g].found # Lost =>
          Tells(scope[c], CacheName[g], scanned'[c][g].stamp, scanned'[c][g].found)
    BY <2>3, <2>5
  <2>7. \A b \in Calls \ {c} : \A g \in DOMAIN scanned'[b] : scanned'[b][g].found # Lost =>
          Tells(scope[b], CacheName[g], scanned'[b][g].stamp, scanned'[b][g].found)
    BY <2>3
  <2>8. \A b \in Calls : \A g \in DOMAIN scanned'[b] : scanned'[b][g].found # Lost =>
          Tells(scope[b], CacheName[g], scanned'[b][g].stamp, scanned'[b][g].found)
    <3> HIDE DEF Tells, Lost
    <3> QED
      BY <2>6, <2>7
  <2>9. QED
    <3> HIDE DEF TypeOK, CallsAreWhole, StampsArePast, StampsTell, CacheTells, LookTells, First, Lost
    <3> QED
      BY <2>1, <2>8
<1>9. ASSUME NEW c \in Calls, PutEntries(c)
      PROVE  ScanTells'
  BY <1>9 DEF PutEntries
<1>10. ASSUME NEW c \in Calls, DeleteStale(c)
      PROVE  ScanTells'
  BY <1>10 DEF DeleteStale, Drop
<1>11. ASSUME NEW c \in Calls, ReplaceCache(c)
      PROVE  ScanTells'
  BY <1>11 DEF ReplaceCache
<1>12. ASSUME NEW c \in Calls, PutSnapshot(c)
      PROVE  ScanTells'
  BY <1>12 DEF PutSnapshot, Finish
<1>13. ASSUME NEW f \in Files, Edit(f)
      PROVE  ScanTells'
  BY <1>13 DEF Edit
<1>14. CASE UNCHANGED vars
  BY <1>14 DEF vars
<1>15. QED
  <2> HIDE DEF TypeOK, CallsAreWhole, StampsArePast, StampsTell, CacheTells, ScanTells,
              LookTells, store, marks, locals, Goto, Tells, True, First, NoFiles, Lost
  <2> QED
    BY <1>1, <1>2, <1>3, <1>4, <1>5, <1>6, <1>7, <1>8, <1>9, <1>10, <1>11, <1>12, <1>13, <1>14,
       Kinds
    DEF CallStep

\* A file whose stamp is still the one seen has not been edited in between.
LEMMA LookTellsKept ==
  ASSUME TypeOK, StampsArePast, StampsTell, LookTells, [Next]_vars
  PROVE  LookTells'
<1> USE CatalogAssumption DEF TypeOK, StampsArePast, StampsTell, LookTells, store, marks, locals,
        Goto, First
<1>1. ASSUME NEW c \in Calls, NEW s \in Scopes, BeginRefresh(c, s)
      PROVE  LookTells'
  BY <1>1 DEF BeginRefresh
<1>2. ASSUME NEW c \in Calls, ReadCache(c)
      PROVE  LookTells'
  BY <1>2 DEF ReadCache
<1>3. ASSUME NEW c \in Calls, EndRefresh(c)
      PROVE  LookTells'
  BY <1>3 DEF EndRefresh, Finish
<1>4. ASSUME NEW c \in Calls, NEW f \in todo[c], LoseFile(c, f)
      PROVE  LookTells'
  BY <1>4 DEF LoseFile, Scans, Scan
<1>5. ASSUME NEW c \in Calls, NEW f \in todo[c], MissFile(c, f)
      PROVE  LookTells'
  <2>1. /\ f \in ScopeFiles[scope[c]]
        /\ tree' = tree /\ stamp' = stamp /\ scope' = scope /\ todo' = todo
    BY <1>5 DEF MissFile
  <2>2. /\ \A b \in Calls \ {c} : look'[b] = look[b] /\ pc'[b] = pc[b]
        /\ look'[c].stamp = stamp[f]
        /\ scope[c] \notin Dual => pc'[c] = "parse"
    BY <1>5 DEF MissFile
  <2>3. \A g : First(c, g) => g = f
    BY <1>5, OneIsFirst DEF MissFile
  <2>4. QED
    BY <2>1, <2>2, <2>3, SMTT(30)
<1>6. ASSUME NEW c \in Calls, NEW f \in todo[c], ReadClasses(c, f)
      PROVE  LookTells'
  BY <1>6 DEF ReadClasses
<1>7. ASSUME NEW c \in Calls, NEW f \in todo[c], ReadDigest(c, f)
      PROVE  LookTells'
  BY <1>7 DEF ReadDigest, Scans, Scan
<1>8. ASSUME NEW c \in Calls, NEW f \in todo[c], NEW r \in known[c], HitFile(c, f, r)
      PROVE  LookTells'
  BY <1>8 DEF HitFile, Scans, Scan
<1>9. ASSUME NEW c \in Calls, PutEntries(c)
      PROVE  LookTells'
  BY <1>9 DEF PutEntries
<1>10. ASSUME NEW c \in Calls, DeleteStale(c)
      PROVE  LookTells'
  BY <1>10 DEF DeleteStale, Drop
<1>11. ASSUME NEW c \in Calls, ReplaceCache(c)
      PROVE  LookTells'
  BY <1>11 DEF ReplaceCache
<1>12. ASSUME NEW c \in Calls, PutSnapshot(c)
      PROVE  LookTells'
  BY <1>12 DEF PutSnapshot, Finish
<1>13. ASSUME NEW f \in Files, Edit(f)
      PROVE  LookTells'
  BY <1>13 DEF Edit
<1>14. CASE UNCHANGED vars
  BY <1>14 DEF vars
<1>15. QED
  <2> HIDE DEF TypeOK, StampsArePast, StampsTell, LookTells, store, marks, locals, Goto, First
  <2> QED
    BY <1>1, <1>2, <1>3, <1>4, <1>5, <1>6, <1>7, <1>8, <1>9, <1>10, <1>11, <1>12, <1>13, <1>14,
       Kinds
    DEF CallStep

\* A scan ends before the writing begins, and what it found goes with the call.
LEMMA CallsAreWholeKept ==
  ASSUME TypeOK, CallsAreWhole, [Next]_vars
  PROVE  CallsAreWhole'
<1> USE CatalogAssumption DEF TypeOK, CallsAreWhole, store, marks, locals, Goto, Active, Writing,
        NoFiles
<1>1. ASSUME NEW c \in Calls, NEW s \in Scopes, BeginRefresh(c, s)
      PROVE  CallsAreWhole'
  BY <1>1 DEF BeginRefresh
<1>2. ASSUME NEW c \in Calls, ReadCache(c)
      PROVE  CallsAreWhole'
  BY <1>2 DEF ReadCache
<1>3. ASSUME NEW c \in Calls, EndRefresh(c)
      PROVE  CallsAreWhole'
  BY <1>3 DEF EndRefresh, Finish
<1>4. ASSUME NEW c \in Calls, NEW f \in todo[c], LoseFile(c, f)
      PROVE  CallsAreWhole'
  BY <1>4 DEF LoseFile, Scans, Scan
<1>5. ASSUME NEW c \in Calls, NEW f \in todo[c], MissFile(c, f)
      PROVE  CallsAreWhole'
  BY <1>5 DEF MissFile
<1>6. ASSUME NEW c \in Calls, NEW f \in todo[c], ReadClasses(c, f)
      PROVE  CallsAreWhole'
  BY <1>6 DEF ReadClasses
<1>7. ASSUME NEW c \in Calls, NEW f \in todo[c], ReadDigest(c, f)
      PROVE  CallsAreWhole'
  BY <1>7 DEF ReadDigest, Scans, Scan
<1>8. ASSUME NEW c \in Calls, NEW f \in todo[c], NEW r \in known[c], HitFile(c, f, r)
      PROVE  CallsAreWhole'
  BY <1>8 DEF HitFile, Scans, Scan
<1>9. ASSUME NEW c \in Calls, PutEntries(c)
      PROVE  CallsAreWhole'
  BY <1>9 DEF PutEntries
<1>10. ASSUME NEW c \in Calls, DeleteStale(c)
      PROVE  CallsAreWhole'
  BY <1>10 DEF DeleteStale, Drop
<1>11. ASSUME NEW c \in Calls, ReplaceCache(c)
      PROVE  CallsAreWhole'
  BY <1>11 DEF ReplaceCache
<1>12. ASSUME NEW c \in Calls, PutSnapshot(c)
      PROVE  CallsAreWhole'
  BY <1>12 DEF PutSnapshot, Finish
<1>13. ASSUME NEW f \in Files, Edit(f)
      PROVE  CallsAreWhole'
  BY <1>13 DEF Edit
<1>14. CASE UNCHANGED vars
  BY <1>14 DEF vars
<1>15. QED
  <2> HIDE DEF TypeOK, CallsAreWhole, store, marks, locals, Goto, Active, Writing, NoFiles
  <2> QED
    BY <1>1, <1>2, <1>3, <1>4, <1>5, <1>6, <1>7, <1>8, <1>9, <1>10, <1>11, <1>12, <1>13, <1>14,
       Kinds
    DEF CallStep

\* A call that finds nobody in its scope keeps its snapshot until somebody joins it.
LEMMA CallsApartKept ==
  ASSUME TypeOK, CallsAreWhole, CallsApart, [Next]_vars
  PROVE  CallsApart'
<1> USE CatalogAssumption DEF TypeOK, CallsApart, store, marks, locals, Goto, Active, Writing,
        NoFiles
<1>1. ASSUME NEW c \in Calls, NEW s \in Scopes, BeginRefresh(c, s)
      PROVE  CallsApart'
  BY <1>1 DEF BeginRefresh, CallsAreWhole
<1>2. ASSUME NEW c \in Calls, ReadCache(c)
      PROVE  CallsApart'
  BY <1>2 DEF ReadCache
<1>3. ASSUME NEW c \in Calls, EndRefresh(c)
      PROVE  CallsApart'
  BY <1>3 DEF EndRefresh, Finish
<1>4. ASSUME NEW c \in Calls, NEW f \in todo[c], LoseFile(c, f)
      PROVE  CallsApart'
  BY <1>4 DEF LoseFile, Scans, Scan
<1>5. ASSUME NEW c \in Calls, NEW f \in todo[c], MissFile(c, f)
      PROVE  CallsApart'
  BY <1>5 DEF MissFile
<1>6. ASSUME NEW c \in Calls, NEW f \in todo[c], ReadClasses(c, f)
      PROVE  CallsApart'
  BY <1>6 DEF ReadClasses
<1>7. ASSUME NEW c \in Calls, NEW f \in todo[c], ReadDigest(c, f)
      PROVE  CallsApart'
  BY <1>7 DEF ReadDigest, Scans, Scan
<1>8. ASSUME NEW c \in Calls, NEW f \in todo[c], NEW r \in known[c], HitFile(c, f, r)
      PROVE  CallsApart'
  BY <1>8 DEF HitFile, Scans, Scan
<1>9. ASSUME NEW c \in Calls, PutEntries(c)
      PROVE  CallsApart'
  BY <1>9 DEF PutEntries
<1>10. ASSUME NEW c \in Calls, DeleteStale(c)
      PROVE  CallsApart'
  BY <1>10 DEF DeleteStale, Drop
<1>11. ASSUME NEW c \in Calls, ReplaceCache(c)
      PROVE  CallsApart'
  BY <1>11 DEF ReplaceCache
<1>12. ASSUME NEW c \in Calls, PutSnapshot(c)
      PROVE  CallsApart'
  BY <1>12 DEF PutSnapshot, Finish
<1>13. ASSUME NEW f \in Files, Edit(f)
      PROVE  CallsApart'
  BY <1>13 DEF Edit
<1>14. CASE UNCHANGED vars
  BY <1>14 DEF vars
<1>15. QED
  <2> HIDE DEF TypeOK, CallsApart, store, marks, locals, Goto, Active, Writing, NoFiles
  <2> QED
    BY <1>1, <1>2, <1>3, <1>4, <1>5, <1>6, <1>7, <1>8, <1>9, <1>10, <1>11, <1>12, <1>13, <1>14,
       Kinds
    DEF CallStep

\* A file that is done takes what was found from what is still to be scanned.
LEMMA ScansWhatIsTrue ==
  ASSUME TypeOK, ScanIsTrue, NEW c \in Calls, NEW f \in todo[c], NEW when, NEW found,
         Scans(c, f, when, found), pc[c] \notin {"idle", "cache"},
         ~moved[c] => True(scope[c], f, found)
  PROVE  ScanIsTrue'
<1>1. /\ UNCHANGED <<tree, stamp, scope, moved>> /\ pc'[c] = "stat"
      /\ \A b \in Calls \ {c} : /\ pc'[b] = pc[b] /\ todo'[b] = todo[b] /\ look'[b] = look[b]
                                /\ scanned'[b] = scanned[b]
  BY DEF Scans, Scan, Goto, TypeOK
<1>2. /\ todo'[c] = todo[c] \ {f}
      /\ DOMAIN scanned'[c] = DOMAIN scanned[c] \cup {f}
      /\ scanned'[c][f].found = found
      /\ \A g \in DOMAIN scanned[c] \ {f} : scanned'[c][g] = scanned[c][g]
  BY DEF Scans, Scan, TypeOK
<1>3. ASSUME ~moved[c]
      PROVE  /\ \A g \in DOMAIN scanned'[c] : True(scope[c], g, scanned'[c][g].found)
             /\ ScopeFiles[scope[c]] \cap Existing = DOMAIN scanned'[c] \cup todo'[c]
  BY <1>2, <1>3 DEF ScanIsTrue
<1>4. \A b \in Calls \ {c} : pc[b] \notin {"idle", "cache"} /\ ~moved[b] =>
        /\ \A g \in DOMAIN scanned[b] : True(scope[b], g, scanned[b][g].found)
        /\ ScopeFiles[scope[b]] \cap Existing = DOMAIN scanned[b] \cup todo[b]
        /\ pc[b] \in {"parse", "hash"} =>
             \A g \in todo[b] : First(b, g) => stamp[g] = look[b].stamp
  BY DEF ScanIsTrue
<1>5. /\ Existing' = Existing
      /\ \A s, g, x : True(s, g, x)' <=> True(s, g, x)
  BY <1>1 DEF Existing, True
<1>6. \A b \in Calls \ {c} : \A g : First(b, g)' <=> First(b, g)
  BY <1>1 DEF First
<1>7. QED
  BY <1>1, <1>3, <1>4, <1>5, <1>6 DEF ScanIsTrue

\* What is read is what is there; an edit makes the call one that has moved.
LEMMA ScanIsTrueKept ==
  ASSUME TypeOK, CacheTells, LookTells, CallsAreWhole, ScanIsTrue, [Next]_vars
  PROVE  ScanIsTrue'
<1> USE CatalogAssumption DEF TypeOK, CacheTells, LookTells, CallsAreWhole, ScanIsTrue,
        store, marks, locals, Goto, True, First, Existing, NoFiles, Active, Tells
<1>1. ASSUME NEW c \in Calls, NEW s \in Scopes, BeginRefresh(c, s)
      PROVE  ScanIsTrue'
  BY <1>1 DEF BeginRefresh
<1>2. ASSUME NEW c \in Calls, ReadCache(c)
      PROVE  ScanIsTrue'
  BY <1>2 DEF ReadCache
<1>3. ASSUME NEW c \in Calls, EndRefresh(c)
      PROVE  ScanIsTrue'
  BY <1>3 DEF EndRefresh, Finish
<1>4. ASSUME NEW c \in Calls, NEW f \in todo[c], LoseFile(c, f)
      PROVE  ScanIsTrue'
  BY <1>4 DEF LoseFile, Scans, Scan
<1>5. ASSUME NEW c \in Calls, NEW f \in todo[c], MissFile(c, f)
      PROVE  ScanIsTrue'
  <2>1. \A g : First(c, g) => g = f
    BY <1>5, OneIsFirst DEF MissFile
  <2>2. /\ tree' = tree /\ stamp' = stamp /\ scope' = scope /\ todo' = todo
        /\ scanned' = scanned /\ moved' = moved /\ pc[c] = "stat"
        /\ \A b \in Calls \ {c} : look'[b] = look[b] /\ pc'[b] = pc[b]
        /\ look'[c].stamp = stamp[f]
    BY <1>5 DEF MissFile
  <2>3. ASSUME NEW b \in Calls, b # c, pc[b] \notin {"idle", "cache"}, ~moved[b]
        PROVE  /\ \A g \in DOMAIN scanned[b] : True(scope[b], g, scanned[b][g].found)
               /\ ScopeFiles[scope[b]] \cap Existing = DOMAIN scanned[b] \cup todo[b]
               /\ pc'[b] \in {"parse", "hash"} =>
                    \A g \in todo[b] : First(b, g) => stamp[g] = look'[b].stamp
    <3>1. pc'[b] = pc[b] /\ look'[b] = look[b]
      BY <2>2, <2>3
    <3>2. QED
      BY <2>3, <3>1
  <2>4. ASSUME ~moved[c]
        PROVE  /\ \A g \in DOMAIN scanned[c] : True(scope[c], g, scanned[c][g].found)
               /\ ScopeFiles[scope[c]] \cap Existing = DOMAIN scanned[c] \cup todo[c]
               /\ \A g \in todo[c] : First(c, g) => stamp[g] = look'[c].stamp
    <3>1. pc[c] \notin {"idle", "cache"}
      BY <2>2
    <3>2. QED
      BY <2>1, <2>2, <2>4, <3>1
  <2>5. QED
    BY <2>2, <2>3, <2>4
<1>6. ASSUME NEW c \in Calls, NEW f \in todo[c], ReadClasses(c, f)
      PROVE  ScanIsTrue'
  BY <1>6 DEF ReadClasses
<1>7. ASSUME NEW c \in Calls, NEW f \in todo[c], ReadDigest(c, f)
      PROVE  ScanIsTrue'
  <2> DEFINE found == [digest |-> tree[f], classes |-> look[c].classes]
  <2>1. /\ pc[c] = "hash" /\ First(c, f) /\ Scans(c, f, look[c].stamp, found)
        /\ scope[c] \in Scopes /\ f \in ScopeFiles[scope[c]]
    BY <1>7 DEF ReadDigest, Scans
  <2>2. ASSUME ~moved[c]
        PROVE  stamp[f] = look[c].stamp
    <3>1. \A g \in todo[c] : First(c, g) => stamp[g] = look[c].stamp
      BY <2>1, <2>2
    <3>2. QED
      BY <2>1, <3>1
  <2>3. ~moved[c] => True(scope[c], f, found)
    BY <2>1, <2>2
  <2> HIDE DEF TypeOK, CacheTells, LookTells, CallsAreWhole, ScanIsTrue, True, First, found
  <2>4. QED
    BY <2>1, <2>3, ScansWhatIsTrue
<1>8. ASSUME NEW c \in Calls, NEW f \in todo[c], NEW r \in known[c], HitFile(c, f, r)
      PROVE  ScanIsTrue'
  <2>1. /\ pc[c] = "stat" /\ Scans(c, f, stamp[f], r.found)
        /\ r.name = CacheName[f] /\ r.stamp = stamp[f]
        /\ r.scope = scope[c] /\ f \in ScopeFiles[scope[c]]
    BY <1>8 DEF HitFile
  <2>2. True(scope[c], f, r.found)
    BY <2>1
  <2> HIDE DEF TypeOK, CacheTells, LookTells, CallsAreWhole, ScanIsTrue, True, First
  <2>3. QED
    BY <2>1, <2>2, ScansWhatIsTrue
<1>9. ASSUME NEW c \in Calls, PutEntries(c)
      PROVE  ScanIsTrue'
  BY <1>9 DEF PutEntries
<1>10. ASSUME NEW c \in Calls, DeleteStale(c)
      PROVE  ScanIsTrue'
  BY <1>10 DEF DeleteStale, Drop
<1>11. ASSUME NEW c \in Calls, ReplaceCache(c)
      PROVE  ScanIsTrue'
  BY <1>11 DEF ReplaceCache
<1>12. ASSUME NEW c \in Calls, PutSnapshot(c)
      PROVE  ScanIsTrue'
  BY <1>12 DEF PutSnapshot, Finish
<1>13. ASSUME NEW f \in Files, Edit(f)
      PROVE  ScanIsTrue'
  <2> SUFFICES ASSUME NEW c \in Calls, pc[c] \notin {"idle", "cache"}, ~moved'[c]
               PROVE  /\ \A g \in DOMAIN scanned[c] : True(scope[c], g, scanned[c][g].found)'
                      /\ ScopeFiles[scope[c]] \cap Existing' = DOMAIN scanned[c] \cup todo[c]
                      /\ pc[c] \in {"parse", "hash"} =>
                           \A g \in todo[c] : First(c, g) => stamp'[g] = look[c].stamp
    BY <1>13 DEF Edit
  <2>1. ~moved[c] /\ f \notin ScopeFiles[scope[c]]
    BY <1>13 DEF Edit
  <2>2. \A g \in ScopeFiles[scope[c]] : tree'[g] = tree[g] /\ stamp'[g] = stamp[g]
    BY <1>13, <2>1 DEF Edit
  <2>3. /\ DOMAIN scanned[c] \subseteq ScopeFiles[scope[c]]
        /\ todo[c] \subseteq ScopeFiles[scope[c]]
        /\ ScopeFiles[scope[c]] \subseteq Files
    OBVIOUS
  <2>4. \A g \in DOMAIN scanned[c] : True(scope[c], g, scanned[c][g].found)'
    <3>1. scanned' = scanned /\ scope' = scope
      BY <1>13 DEF Edit
    <3>2. \A g \in DOMAIN scanned[c] : True(scope[c], g, scanned[c][g].found)
      BY <2>1
    <3>3. QED
      BY <2>2, <2>3, <3>1, <3>2
  <2>5. ScopeFiles[scope[c]] \cap Existing' = DOMAIN scanned[c] \cup todo[c]
    <3>1. ScopeFiles[scope[c]] \cap Existing' = ScopeFiles[scope[c]] \cap Existing
      BY <2>2, <2>3
    <3>2. QED
      BY <2>1, <3>1
  <2>6. QED
    BY <2>1, <2>2, <2>3, <2>4, <2>5
<1>14. CASE UNCHANGED vars
  BY <1>14 DEF vars
<1>15. QED
  <2> HIDE DEF TypeOK, CacheTells, LookTells, CallsAreWhole, ScanIsTrue, store, marks, locals, Goto,
              True, First, Existing, NoFiles, Active, Tells
  <2> QED
    BY <1>1, <1>2, <1>3, <1>4, <1>5, <1>6, <1>7, <1>8, <1>9, <1>10, <1>11, <1>12, <1>13, <1>14,
       Kinds
    DEF CallStep

-----------------------------------------------------------------------------
(* What is put, listed and shown.                                          *)

\* The entries of a tree are those of its files.
LEMMA EntriesOfSameTree ==
  ASSUME NEW s \in Scopes, \A f \in ScopeFiles[s] : tree'[f] = tree[f]
  PROVE  EntriesOfTree(s)' = EntriesOfTree(s)
<1> DEFINE was == [f \in ScopeFiles[s] \cap Existing |->
                     [digest |-> tree[f], classes |-> Classes[tree[f]]]]
           is == [f \in ScopeFiles[s] \cap Existing' |->
                    [digest |-> tree'[f], classes |-> Classes[tree'[f]]]]
<1>1. ScopeFiles[s] \cap Existing' = ScopeFiles[s] \cap Existing
  BY DEF Existing
<1>2. is = was
  BY <1>1
<1>3. QED
  BY <1>2 DEF EntriesOfTree

\* A call that has scanned all its files, unmoved, has the entries of the tree.
LEMMA MineIsTrue ==
  ASSUME TypeOK, ScanIsTrue, NEW c \in Calls,
         pc[c] \notin {"idle", "cache"}, todo[c] = {}, ~moved[c]
  PROVE  Mine(c) = EntriesOfTree(scope[c])
<1> DEFINE mine == [f \in DOMAIN scanned[c] |-> scanned[c][f].found]
           files == [f \in ScopeFiles[scope[c]] \cap Existing |->
                       [digest |-> tree[f], classes |-> Classes[tree[f]]]]
<1>1. ScopeFiles[scope[c]] \cap Existing = DOMAIN scanned[c]
  BY DEF ScanIsTrue
<1>2. \A f \in DOMAIN scanned[c] : True(scope[c], f, scanned[c][f].found)
  BY DEF ScanIsTrue
<1>3. DOMAIN mine = DOMAIN files
  BY <1>1
<1>4. \A f \in DOMAIN mine : /\ mine[f].digest = files[f].digest
                             /\ scope[c] \notin Dual => mine[f].classes = files[f].classes
  BY <1>1, <1>2 DEF True
<1> HIDE DEF mine, files
<1>5. Entries(scope[c], mine) = Entries(scope[c], files)
  BY <1>3, <1>4, EntriesOfTheSame
<1>6. QED
  BY <1>5 DEF Mine, EntriesOfTree, mine, files

\* Only PutSnapshot makes a snapshot current, and an edit of a file of the scope ends that.
LEMMA SnapshotIsTrueKept ==
  ASSUME TypeOK, CallsAreWhole, ScanIsTrue, SnapshotIsTrue, [Next]_vars
  PROVE  SnapshotIsTrue'
<1> USE CatalogAssumption DEF SnapshotIsTrue
<1>1. CASE UNCHANGED <<tree, snapshot, current>>
  BY <1>1, EntriesOfSameTree
<1>2. ASSUME NEW c \in Calls, PutSnapshot(c)
      PROVE  SnapshotIsTrue'
  <2>1. /\ pc[c] \in Writing /\ todo[c] = {} /\ scope[c] \in Scopes /\ tree' = tree
        /\ DOMAIN snapshot = Scopes /\ current \in [Scopes -> BOOLEAN]
    BY <1>2 DEF PutSnapshot, CallsAreWhole, Writing, TypeOK
  <2>2. /\ \A p \in snapshot'[scope[c]] : p.entries = Mine(c)
        /\ current'[scope[c]] = ~moved[c]
        /\ \A s \in Scopes \ {scope[c]} : snapshot'[s] = snapshot[s] /\ current'[s] = current[s]
    BY <1>2, <2>1 DEF PutSnapshot
  <2>3. ~moved[c] => Mine(c) = EntriesOfTree(scope[c])
    BY <2>1, MineIsTrue DEF Writing
  <2>4. \A s \in Scopes : EntriesOfTree(s)' = EntriesOfTree(s)
    BY <2>1, EntriesOfSameTree
  <2>5. ASSUME NEW s \in Scopes, current'[s], NEW p \in snapshot'[s]
        PROVE  p.entries = EntriesOfTree(s)
    BY <2>2, <2>3, <2>5
  <2>6. QED
    BY <2>4, <2>5
<1>3. ASSUME NEW f \in Files, Edit(f)
      PROVE  SnapshotIsTrue'
  <2>1. \A s \in Scopes : current'[s] => current[s] /\ f \notin ScopeFiles[s]
    BY <1>3 DEF Edit
  <2>2. /\ snapshot' = snapshot
        /\ \A s \in Scopes : \A g \in ScopeFiles[s] \ {f} : tree'[g] = tree[g]
    BY <1>3 DEF Edit, TypeOK, store
  <2>3. \A s \in Scopes : current'[s] => EntriesOfTree(s)' = EntriesOfTree(s)
    BY <2>1, <2>2, EntriesOfSameTree
  <2>4. QED
    BY <2>1, <2>2, <2>3
<1>4. ASSUME NEW c \in Calls, CallStep(c), ~PutSnapshot(c)
      PROVE  UNCHANGED <<tree, snapshot, current>>
  <2>1. ASSUME NEW f \in todo[c], \/ LoseFile(c, f) \/ MissFile(c, f) \/ ReadClasses(c, f)
                                 \/ ReadDigest(c, f) \/ \E r \in known[c] : HitFile(c, f, r)
        PROVE  UNCHANGED <<tree, store, current>>
    BY <2>1 DEF LoseFile, MissFile, ReadClasses, ReadDigest, HitFile, Scans, marks
  <2>2. QED
    BY <1>4, <2>1 DEF CallStep, BeginRefresh, ReadCache, EndRefresh, PutEntries, DeleteStale,
                      Drop, ReplaceCache, store, marks
<1>5. QED
  BY <1>1, <1>2, <1>3, <1>4, Kinds DEF store, marks, vars

\* A step that changes neither the rows nor a snapshot, and takes no call into or, unless
\* it dies, out of its writing.
Quiet ==
  /\ UNCHANGED <<rows, snapshot, lone>> /\ mingled \subseteq mingled'
  /\ \A s \in Scopes : current'[s] => current[s]
  /\ faults' = 0 => faults = 0
  /\ \A b \in Calls :
       /\ pc'[b] \in Writing =>
            /\ pc[b] \in Writing /\ (pc'[b] = "delete" <=> pc[b] = "delete")
            /\ scope'[b] = scope[b] /\ scanned'[b] = scanned[b] /\ previous'[b] = previous[b]
            /\ b \in beside => b \in beside'
       /\ faults' = 0 /\ pc[b] \in Writing => pc'[b] \in Writing

\* A step is quiet, or one of the transactions on entries and snapshots.
LEMMA RowSteps ==
  ASSUME TypeOK, [Next]_vars
  PROVE  Quiet \/ \E c \in Calls : PutEntries(c) \/ DeleteStale(c) \/ PutSnapshot(c)
<1> USE DEF TypeOK, Quiet, Writing, Goto, store, marks, locals
<1>1. ASSUME NEW c \in Calls, NEW s \in Scopes, BeginRefresh(c, s)
      PROVE  Quiet
  BY <1>1 DEF BeginRefresh
<1>2. ASSUME NEW c \in Calls, ReadCache(c)
      PROVE  Quiet
  BY <1>2 DEF ReadCache
<1>3. ASSUME NEW c \in Calls, EndRefresh(c)
      PROVE  Quiet
  BY <1>3 DEF EndRefresh, Finish, Active
<1>4. ASSUME NEW c \in Calls, NEW f \in todo[c], LoseFile(c, f)
      PROVE  Quiet
  BY <1>4 DEF LoseFile, Scans, Scan
<1>5. ASSUME NEW c \in Calls, NEW f \in todo[c], MissFile(c, f)
      PROVE  Quiet
  BY <1>5 DEF MissFile
<1>6. ASSUME NEW c \in Calls, NEW f \in todo[c], ReadClasses(c, f)
      PROVE  Quiet
  BY <1>6 DEF ReadClasses
<1>7. ASSUME NEW c \in Calls, NEW f \in todo[c], ReadDigest(c, f)
      PROVE  Quiet
  BY <1>7 DEF ReadDigest, Scans, Scan
<1>8. ASSUME NEW c \in Calls, NEW f \in todo[c], NEW r \in known[c], HitFile(c, f, r)
      PROVE  Quiet
  BY <1>8 DEF HitFile, Scans, Scan
<1>9. ASSUME NEW c \in Calls, ReplaceCache(c)
      PROVE  Quiet
  BY <1>9 DEF ReplaceCache
<1>10. ASSUME NEW f \in Files, Edit(f)
      PROVE  Quiet
  BY <1>10 DEF Edit
<1>11. CASE UNCHANGED vars
  BY <1>11 DEF vars
<1>12. QED
  BY <1>1, <1>2, <1>3, <1>4, <1>5, <1>6, <1>7, <1>8, <1>9, <1>10, <1>11, Kinds
  DEF CallStep

\* Its own entries stay what they are while a call writes.
LEMMA MineStays ==
  ASSUME NEW c \in Calls, scope'[c] = scope[c], scanned'[c] = scanned[c]
  PROVE  Mine(c)' = Mine(c)
BY DEF Mine

\* The transactions of other calls are of other scopes.
LEMMA MineIsServedKept ==
  ASSUME TypeOK, CallsApart, MineIsServed, [Next]_vars
  PROVE  MineIsServed'
<1> USE CatalogAssumption DEF MineIsServed
<1>1. CASE Quiet
  BY <1>1, MineStays DEF Quiet
<1>2. ASSUME NEW c \in Calls, pc[c] # "idle", pc'[c] \in Writing, UNCHANGED locals,
             \A b \in Calls \ {c} : pc'[b] = pc[b],
             \A e \in rows : e.scope # scope[c] => e \in rows',
             c \notin beside => Mine(c) \subseteq rows'
      PROVE  MineIsServed'
  <2>1. beside' = beside /\ \A b \in Calls : Mine(b)' = Mine(b)
    BY <1>2, MineStays DEF locals
  <2>2. ASSUME NEW b \in Calls \ {c}, pc[b] \in Writing, b \notin beside
        PROVE  Mine(b) \subseteq rows'
    <3>1. scope[b] # scope[c]
      BY <1>2, <2>2 DEF CallsApart, Active, Writing
    <3>2. \A e \in Mine(b) : e \in rows /\ e.scope = scope[b]
      BY <2>2, EntriesAreOfTheScope DEF Mine
    <3>3. QED
      BY <1>2, <3>1, <3>2
  <2>3. QED
    BY <1>2, <2>1, <2>2
<1>3. ASSUME NEW c \in Calls, PutEntries(c)
      PROVE  MineIsServed'
  BY <1>2, <1>3 DEF PutEntries, Goto, TypeOK, Writing
<1>4. ASSUME NEW c \in Calls, DeleteStale(c)
      PROVE  MineIsServed'
  <2>1. c \notin beside => Mine(c) \subseteq rows'
    BY <1>4 DEF DeleteStale, Drop, Writing, Ids
  <2>2. QED
    BY <1>2, <1>4, <2>1 DEF DeleteStale, Drop, Goto, TypeOK, Writing
<1>5. ASSUME NEW c \in Calls, PutSnapshot(c)
      PROVE  MineIsServed'
  <2>1. /\ rows' = rows /\ pc'[c] = "idle"
        /\ \A b \in Calls \ {c} :
             /\ pc'[b] = pc[b] /\ scope'[b] = scope[b] /\ scanned'[b] = scanned[b]
             /\ b \in beside => b \in beside'
    BY <1>5 DEF PutSnapshot, Finish, Goto, TypeOK
  <2>2. QED
    BY <2>1, MineStays DEF Writing
<1>6. QED
  BY <1>1, <1>3, <1>4, <1>5, RowSteps

\* The current snapshot of a lone refresh is what every later one finds, so that nothing
\* of it goes.
LEMMA CurrentSnapshotIsServedKept ==
  ASSUME TypeOK, CallsAreWhole, CallsApart, ScanIsTrue, SnapshotIsTrue, MineIsServed,
         CurrentSnapshotIsServed, [Next]_vars
  PROVE  CurrentSnapshotIsServed'
<1> USE CatalogAssumption DEF CurrentSnapshotIsServed, RowsOf
<1>1. CASE Quiet
  BY <1>1 DEF Quiet, TypeOK
<1>2. ASSUME NEW c \in Calls, pc[c] \notin {"idle", "cache"}, todo[c] = {},
             UNCHANGED <<snapshot, current, lone>>,
             \A e \in rows : e.scope # scope[c] => e \in rows',
             Mine(c) \cap rows \subseteq rows'
      PROVE  CurrentSnapshotIsServed'
  <2>1. ASSUME scope[c] \in lone, current[scope[c]], NEW p \in snapshot[scope[c]]
        PROVE  p.entries \subseteq rows'
    <3>1. ~moved[c] /\ scope[c] \in Scopes
      BY <1>2, <2>1 DEF CallsApart, Active, TypeOK
    <3>2. p.entries = Mine(c)
      BY <1>2, <2>1, <3>1, MineIsTrue DEF SnapshotIsTrue
    <3>3. p.entries \subseteq rows
      BY <2>1
    <3>4. QED
      BY <1>2, <3>2, <3>3
  <2>2. QED
    BY <1>2, <2>1
<1>3. ASSUME NEW c \in Calls, PutEntries(c)
      PROVE  CurrentSnapshotIsServed'
  BY <1>2, <1>3 DEF PutEntries, marks
<1>4. ASSUME NEW c \in Calls, DeleteStale(c)
      PROVE  CurrentSnapshotIsServed'
  <2>1. todo[c] = {}
    BY <1>4 DEF DeleteStale, Drop, Writing, CallsAreWhole
  <2>2. QED
    BY <1>2, <1>4, <2>1 DEF DeleteStale, Drop, Ids, marks
<1>5. ASSUME NEW c \in Calls, PutSnapshot(c)
      PROVE  CurrentSnapshotIsServed'
  <2>1. /\ rows' = rows /\ \A e \in Mine(c) : e.scope = scope[c]
        /\ c \notin beside => Mine(c) \subseteq rows
    BY <1>5, EntriesAreOfTheScope DEF PutSnapshot, MineIsServed, Writing, Mine
  <2>2. /\ \A p \in snapshot'[scope[c]] : p.entries = Mine(c)
        /\ \A s \in Scopes \ {scope[c]} : snapshot'[s] = snapshot[s] /\ current'[s] = current[s]
        /\ \A s \in lone' \ {scope[c]} : s \in lone
        /\ scope[c] \in lone' => c \notin beside
    BY <1>5 DEF PutSnapshot, TypeOK
  <2>3. lone \subseteq Scopes
    BY DEF TypeOK
  <2>4. QED
    BY <2>1, <2>2, <2>3
<1>6. QED
  BY <1>1, <1>3, <1>4, <1>5, RowSteps

\* One refresh after the other takes the rows of a scope from one snapshot to the next.
LEMMA RowsWhileWritingKept ==
  ASSUME TypeOK, CallsApart, RowsWhileWriting, EntriesAreTheSnapshots, [Next]_vars
  PROVE  RowsWhileWriting'
<1> USE CatalogAssumption DEF RowsWhileWriting, RowsOf
<1>1. CASE Quiet
  <2>1. \A b \in Calls : pc'[b] \in Writing =>
          /\ scope'[b] \notin mingled' => scope[b] \notin mingled
          /\ Mine(b)' = Mine(b) /\ Old(b)' = Old(b) /\ scope'[b] = scope[b]
          /\ pc'[b] = "delete" <=> pc[b] = "delete"
          /\ pc[b] \in Writing
    BY <1>1, MineStays DEF Quiet, Old
  <2>2. QED
    BY <1>1, <2>1 DEF Quiet, Writing
<1>2. ASSUME NEW c \in Calls, pc[c] # "idle", UNCHANGED <<locals, mingled, faults>>,
             \A b \in Calls \ {c} : pc'[b] = pc[b],
             \A e : e.scope # scope[c] => (e \in rows' <=> e \in rows),
             faults = 0 /\ scope[c] \notin mingled =>
               /\ pc'[c] = "delete" =>
                    RowsOf(scope[c])' = Mine(c) \cup {e \in Old(c) : e.id \notin Ids(Mine(c))}
               /\ pc'[c] \in {"replace", "snapshot"} => RowsOf(scope[c])' = Mine(c)
      PROVE  RowsWhileWriting'
  <2>1. \A b \in Calls : Mine(b)' = Mine(b) /\ Old(b)' = Old(b) /\ scope'[b] = scope[b]
    BY <1>2, MineStays DEF locals, Old
  <2>2. ASSUME NEW b \in Calls \ {c}, pc[b] \in Writing, scope[b] \notin mingled
        PROVE  RowsOf(scope[b])' = RowsOf(scope[b])
    <3>1. scope[b] # scope[c] /\ scope'[b] = scope[b]
      BY <1>2, <2>1, <2>2 DEF CallsApart, Active, Writing
    <3>2. QED
      BY <1>2, <3>1
  <2>3. QED
    BY <1>2, <2>1, <2>2 DEF Writing
<1>3. ASSUME NEW c \in Calls, PutEntries(c)
      PROVE  RowsWhileWriting'
  <2>1. /\ pc[c] = "stat" /\ pc'[c] = "delete" /\ UNCHANGED <<locals, mingled, faults>>
        /\ rows' = Mine(c) \cup {e \in rows : e.scope # scope[c] \/ e.id \notin Ids(Mine(c))}
        /\ \A b \in Calls \ {c} : pc'[b] = pc[b]
    BY <1>3 DEF PutEntries, Goto, TypeOK, marks
  <2>2. \A e \in Mine(c) : e.scope = scope[c]
    BY EntriesAreOfTheScope DEF Mine
  <2>3. faults = 0 /\ scope[c] \notin mingled => RowsOf(scope[c]) = Old(c)
    <3> SUFFICES ASSUME scope[c] \notin mingled, faults = 0
                 PROVE  RowsOf(scope[c]) = Old(c)
      OBVIOUS
    <3>1. previous[c] = snapshot[scope[c]] /\ scope[c] \in Scopes
      BY <2>1 DEF CallsApart, Active, TypeOK
    <3>2. \A b \in Calls : scope[b] = scope[c] => pc[b] \notin {"delete", "replace", "snapshot"}
      BY <2>1 DEF CallsApart, Active
    <3>3. QED
      BY <3>1, <3>2 DEF EntriesAreTheSnapshots, Old
  <2>4. faults = 0 /\ scope[c] \notin mingled =>
          RowsOf(scope[c])' = Mine(c) \cup {e \in Old(c) : e.id \notin Ids(Mine(c))}
    BY <2>1, <2>2, <2>3 DEF locals
  <2>5. QED
    BY <1>2, <2>1, <2>2, <2>4
<1>4. ASSUME NEW c \in Calls, DeleteStale(c)
      PROVE  RowsWhileWriting'
  <2>1. /\ pc[c] = "delete" /\ pc'[c] = "replace" /\ UNCHANGED <<locals, mingled, faults>>
        /\ rows' = {e \in rows : e.scope # scope[c] \/ e.id \notin Listed(c) \ Ids(Mine(c))}
        /\ \A b \in Calls \ {c} : pc'[b] = pc[b]
    BY <1>4 DEF DeleteStale, Drop, Goto, TypeOK, marks
  <2>2. faults = 0 /\ scope[c] \notin mingled => RowsOf(scope[c])' = Mine(c)
    <3> SUFFICES ASSUME faults = 0, scope[c] \notin mingled
                 PROVE  RowsOf(scope[c])' = Mine(c)
      OBVIOUS
    <3>1. RowsOf(scope[c]) = Mine(c) \cup {e \in Old(c) : e.id \notin Ids(Mine(c))}
      BY <2>1
    <3>2. \A e \in Old(c) : e.id \in Listed(c)
      BY DEF Old, Listed, Ids
    <3>3. \A e \in Mine(c) : e.id \in Ids(Mine(c))
      BY DEF Ids
    <3>4. RowsOf(scope[c])' = {e \in RowsOf(scope[c]) : e.id \notin Listed(c) \ Ids(Mine(c))}
      BY <2>1 DEF locals
    <3>5. QED
      BY <3>1, <3>2, <3>3, <3>4
  <2>3. QED
    BY <1>2, <2>1, <2>2
<1>5. ASSUME NEW c \in Calls, PutSnapshot(c)
      PROVE  RowsWhileWriting'
  <2>1. /\ rows' = rows /\ pc'[c] = "idle" /\ faults' = faults /\ mingled' = mingled
        /\ \A b \in Calls \ {c} :
             /\ pc'[b] = pc[b] /\ scope'[b] = scope[b] /\ scanned'[b] = scanned[b]
             /\ previous'[b] = previous[b]
    BY <1>5 DEF PutSnapshot, Finish, Goto, TypeOK
  <2>2. \A b \in Calls \ {c} : Mine(b)' = Mine(b) /\ Old(b)' = Old(b)
    BY <2>1, MineStays DEF Old
  <2>3. QED
    BY <2>1, <2>2
<1>6. QED
  BY <1>1, <1>3, <1>4, <1>5, RowSteps

\* The refresh that is over has left its snapshot's.
LEMMA EntriesAreTheSnapshotsKept ==
  ASSUME TypeOK, RowsWhileWriting, EntriesAreTheSnapshots, [Next]_vars
  PROVE  EntriesAreTheSnapshots'
<1> USE CatalogAssumption DEF EntriesAreTheSnapshots, RowsOf
<1>1. CASE Quiet
  BY <1>1 DEF Quiet, Writing
<1>2. ASSUME NEW c \in Calls, pc'[c] \in Writing, UNCHANGED <<snapshot, scope, faults>>,
             \A b \in Calls \ {c} : pc'[b] = pc[b], scope[c] \in Scopes, mingled' = mingled,
             \A e : e.scope # scope[c] => (e \in rows' <=> e \in rows)
      PROVE  EntriesAreTheSnapshots'
  <2> SUFFICES ASSUME NEW s \in Scopes \ mingled, faults = 0,
                      \A b \in Calls : scope[b] = s => pc'[b] \notin Writing
               PROVE  {e \in rows' : e.scope = s} = UNION {p.entries : p \in snapshot[s]}
    BY <1>2 DEF Writing
  <2>1. s # scope[c]
    BY <1>2
  <2>2. \A b \in Calls : scope[b] = s => pc[b] \notin Writing
    BY <1>2, <2>1
  <2>3. {e \in rows : e.scope = s} = UNION {p.entries : p \in snapshot[s]}
    BY <2>2 DEF Writing
  <2>4. QED
    BY <1>2, <2>1, <2>3
<1>3. ASSUME NEW c \in Calls, PutEntries(c)
      PROVE  EntriesAreTheSnapshots'
  <2>1. /\ pc'[c] = "delete" /\ UNCHANGED <<snapshot, scope, mingled, faults>> /\ scope[c] \in Scopes
        /\ rows' = Mine(c) \cup {e \in rows : e.scope # scope[c] \/ e.id \notin Ids(Mine(c))}
        /\ \A b \in Calls \ {c} : pc'[b] = pc[b]
    BY <1>3 DEF PutEntries, Goto, TypeOK, marks, locals
  <2>2. \A e \in Mine(c) : e.scope = scope[c]
    BY EntriesAreOfTheScope DEF Mine
  <2>3. QED
    BY <1>2, <2>1, <2>2 DEF Writing
<1>4. ASSUME NEW c \in Calls, DeleteStale(c)
      PROVE  EntriesAreTheSnapshots'
  <2>1. /\ pc'[c] = "replace" /\ UNCHANGED <<snapshot, scope, mingled, faults>> /\ scope[c] \in Scopes
        /\ rows' = {e \in rows : e.scope # scope[c] \/ e.id \notin Listed(c) \ Ids(Mine(c))}
        /\ \A b \in Calls \ {c} : pc'[b] = pc[b]
    BY <1>4 DEF DeleteStale, Drop, Goto, TypeOK, marks, locals
  <2>2. QED
    BY <1>2, <2>1 DEF Writing
<1>5. ASSUME NEW c \in Calls, PutSnapshot(c)
      PROVE  EntriesAreTheSnapshots'
  <2> DEFINE broken == {f \in DOMAIN scanned[c] :
                 /\ scope[c] \notin Dual /\ scanned[c][f].found.digest \in Broken
                 /\ ~\E r \in known[c] : r.name = CacheName[f] /\ r.stamp = scanned[c][f].stamp}
  <2> HIDE DEF broken
  <2>1. snapshot' = [snapshot EXCEPT
                       ![scope[c]] = {[entries |-> Mine(c), diagnostics |-> broken]}]
    BY <1>5 DEF PutSnapshot, broken
  <2>2. /\ rows' = rows /\ pc[c] = "snapshot" /\ faults' = faults /\ scope[c] \in Scopes
        /\ mingled' = mingled
        /\ \A b \in Calls \ {c} : pc'[b] = pc[b] /\ scope'[b] = scope[b]
    <3>1. DOMAIN pc = Calls /\ DOMAIN scope = Calls /\ scope[c] \in Scopes
      BY DEF TypeOK
    <3>2. QED
      BY <1>5, <3>1 DEF PutSnapshot, Finish, Goto
  <2>3. /\ \A s \in Scopes \ {scope[c]} : snapshot'[s] = snapshot[s]
        /\ snapshot'[scope[c]] # {} /\ \A p \in snapshot'[scope[c]] : p.entries = Mine(c)
    <3>1. DOMAIN snapshot = Scopes
      BY DEF TypeOK
    <3>2. snapshot'[scope[c]] = {[entries |-> Mine(c), diagnostics |-> broken]}
      BY <2>1, <2>2, <3>1
    <3>3. \A s \in Scopes \ {scope[c]} : snapshot'[s] = snapshot[s]
      BY <2>1, <2>2, <3>1
    <3>4. QED
      BY <3>2, <3>3
  <2>4. faults = 0 /\ scope[c] \notin mingled => {e \in rows : e.scope = scope[c]} = Mine(c)
    BY <2>2 DEF RowsWhileWriting
  <2>5. UNION {p.entries : p \in snapshot'[scope[c]]} = Mine(c)
    BY <2>3
  <2>6. ASSUME NEW s \in Scopes \ mingled, s # scope[c], faults = 0,
               \A b \in Calls : scope'[b] = s => pc'[b] \notin Writing
        PROVE  {e \in rows : e.scope = s} = UNION {p.entries : p \in snapshot'[s]}
    <3>1. \A b \in Calls : scope[b] = s => pc[b] \notin {"delete", "replace", "snapshot"}
      BY <2>2, <2>6 DEF Writing
    <3>2. QED
      BY <2>2, <2>6, <2>3, <3>1
  <2>7. QED
    BY <2>2, <2>4, <2>5, <2>6, <2>3 DEF Writing
<1>6. QED
  BY <1>1, <1>3, <1>4, <1>5, RowSteps

-----------------------------------------------------------------------------
(* The theorems.                                                           *)

\* Of two files of a scope that share a cache name, no two come with one fingerprint: the
\* files of a strategy root have names of their own, those of a pair of corpora need not
\* (CatalogRefreshSharedNames shows what follows).
FingerprintsTell ==
  \A s \in Scopes : \A f, g \in ScopeFiles[s] :
    CacheName[f] = CacheName[g] /\ Unpacked[f] = Unpacked[g] => f = g

\* What holds whatever overlaps and whatever the fingerprints tell.
Whole == TypeOK /\ CallsAreWhole

\* What caches, calls and snapshots say of the files, also if refreshes overlap.
Truth ==
  /\ StampsArePast /\ StampsTell /\ CacheTells /\ ScanTells /\ LookTells
  /\ ScanIsTrue /\ SnapshotIsTrue

\* What the rows of a scope are, and which calls share it.
Rows == CallsApart /\ MineIsServed /\ RowsWhileWriting /\ EntriesAreTheSnapshots

\* Nothing has been refreshed to begin with.
LEMMA InitWholeAndRows == Init => Whole /\ Rows
<1> SUFFICES ASSUME Init
             PROVE  Whole /\ Rows
  OBVIOUS
<1> USE CatalogAssumption DEF Init
<1>1. AnyScope \in Scopes
  BY DEF AnyScope
<1>2. TypeOK
  <2>1. \A f \in Files : Unpacked[f] \in Nat
    OBVIOUS
  <2>2. stamp \in [Files -> Nat]
    BY <2>1
  <2>3. Nothing \in [stamp : Nat, classes : SUBSET UNION {Classes[x] : x \in Contents}]
    BY DEF Nothing
  <2>4. current \in [Scopes -> BOOLEAN] /\ moved \in [Calls -> BOOLEAN]
    OBVIOUS
  <2>5. scope \in [Calls -> Scopes] /\ edits \in 0..MaxEdits /\ faults \in 0..MaxFaults
    BY <1>1
  <2>6. \A c \in Calls : DOMAIN scanned[c] = {}
    BY DEF NoFiles
  <2>7. QED
    BY <2>2, <2>3, <2>4, <2>5, <2>6 DEF TypeOK
<1>3. CallsAreWhole /\ CallsApart
  BY DEF CallsAreWhole, CallsApart, Active, Writing, NoFiles
<1>4. MineIsServed /\ RowsWhileWriting
  BY DEF MineIsServed, RowsWhileWriting, Writing
<1>5. EntriesAreTheSnapshots
  BY DEF EntriesAreTheSnapshots, RowsOf
<1>6. QED
  BY <1>2, <1>3, <1>4, <1>5 DEF Whole, Rows

\* Files that share a name come with stamps of their own, and nothing has been found.
LEMMA InitTruth ==
  ASSUME FingerprintsTell
  PROVE  Init => Truth
<1> SUFFICES ASSUME Init
             PROVE  Truth
  OBVIOUS
<1> USE CatalogAssumption DEF Init
<1>1. \A f \in Files : Unpacked[f] < EditStamps
  OBVIOUS
<1>2. StampsArePast
  BY <1>1 DEF StampsArePast, Nothing, NoFiles
<1>3. StampsTell
  BY DEF StampsTell, FingerprintsTell
<1>4. CacheTells /\ ScanTells
  BY DEF CacheTells, ScanTells, NoFiles
<1>5. LookTells /\ ScanIsTrue
  BY DEF LookTells, ScanIsTrue
<1>6. SnapshotIsTrue
  BY DEF SnapshotIsTrue
<1>7. QED
  BY <1>2, <1>3, <1>4, <1>5, <1>6 DEF Truth

\* Every variable has its type, and a call its order.
THEOREM WholeHolds == Spec => []Whole
<1>1. Whole /\ [Next]_vars => Whole'
  BY TypeOKKept, CallsAreWholeKept DEF Whole
<1>2. QED
  BY InitWholeAndRows, <1>1, PTL DEF Spec

\* With fingerprints that tell the files apart, what is found is true.
THEOREM TruthHolds ==
  ASSUME FingerprintsTell
  PROVE  Spec => []Truth
<1>1. Whole /\ Truth /\ [Next]_vars => Truth'
  <2> SUFFICES ASSUME Whole, Truth, [Next]_vars
               PROVE  Truth'
    OBVIOUS
  <2> USE DEF Whole, Truth
  <2>1. StampsArePast' /\ StampsTell'
    BY StampsArePastKept, StampsTellKept
  <2>2. CacheTells' /\ ScanTells' /\ LookTells'
    BY CacheTellsKept, ScanTellsKept, LookTellsKept
  <2>3. ScanIsTrue' /\ SnapshotIsTrue'
    BY ScanIsTrueKept, SnapshotIsTrueKept
  <2>4. QED
    BY <2>1, <2>2, <2>3
<1>2. Init => Truth
  BY InitTruth
<1>3. QED
  BY <1>1, <1>2, WholeHolds, PTL DEF Spec

\* A refresh that meets no other one finds the rows its snapshot lists.
THEOREM RowsHolds == Spec => []Rows
<1>1. Whole /\ Rows /\ [Next]_vars => Rows'
  <2> SUFFICES ASSUME Whole, Rows, [Next]_vars
               PROVE  Rows'
    OBVIOUS
  <2> USE DEF Whole, Rows
  <2>1. CallsApart' /\ MineIsServed'
    BY CallsApartKept, MineIsServedKept
  <2>2. RowsWhileWriting' /\ EntriesAreTheSnapshots'
    BY RowsWhileWritingKept, EntriesAreTheSnapshotsKept
  <2>3. QED
    BY <2>1, <2>2
<1>2. QED
  BY InitWholeAndRows, <1>1, WholeHolds, PTL DEF Spec

\* Every variable has its type, and a scope never has two rows of one id.
THEOREM TypeCorrect == Spec => []TypeOK
<1>1. Whole => TypeOK
  BY DEF Whole
<1>2. QED
  BY <1>1, WholeHolds, PTL

\* Unless a refresh has died or two have worked on the scope at once, a scope nobody writes
\* has the rows of its snapshot and no others (catalog.py 534-540).
THEOREM EntriesCorrect == Spec => []EntriesAreTheSnapshots
<1>1. Rows => EntriesAreTheSnapshots
  BY DEF Rows
<1>2. QED
  BY <1>1, RowsHolds, PTL

\* A snapshot is what a scan without the cache would give, as long as no file of its scope
\* has changed since its refresh began, whatever other refreshes write in the meantime
\* (catalog.py 422-434, 505-511).
THEOREM SnapshotCorrect ==
  ASSUME FingerprintsTell
  PROVE  Spec => []SnapshotIsTrue
<1>1. Truth => SnapshotIsTrue
  BY DEF Truth
<1>2. QED
  BY <1>1, TruthHolds, PTL

\* The entries of the current snapshot of a lone refresh are in the rows at every moment of
\* later refreshes, however many are at work, and after ones that died (catalog.py 513-548).
THEOREM ServedCorrect ==
  ASSUME FingerprintsTell
  PROVE  Spec => []CurrentSnapshotIsServed
<1>1. Init => CurrentSnapshotIsServed
  BY DEF Init, CurrentSnapshotIsServed
<1>2. /\ Whole /\ Rows /\ Truth
      /\ CurrentSnapshotIsServed /\ [Next]_vars
      => CurrentSnapshotIsServed'
  BY CurrentSnapshotIsServedKept DEF Whole, Rows, Truth
<1>3. QED
  BY <1>1, <1>2, WholeHolds, RowsHolds, TruthHolds, PTL DEF Spec

\* What the shared names break holds without them: inspect_strategy calls an entry of a
\* snapshot stale only after a file of its scope has changed (catalog.py 683-685).
THEOREM ReadyCorrect ==
  ASSUME FingerprintsTell
  PROVE  Spec => []ReadyUntilChanged
<1>1. TypeOK /\ SnapshotIsTrue => ReadyUntilChanged
  <2> SUFFICES ASSUME TypeOK, SnapshotIsTrue, NEW s \in Scopes, current[s],
                      NEW p \in snapshot[s], NEW e \in p.entries, NEW d \in e.digests
               PROVE  tree[d[1]] = d[2]
    BY DEF ReadyUntilChanged, Ready
  <2> DEFINE files == [f \in ScopeFiles[s] \cap Existing |->
                         [digest |-> tree[f], classes |-> Classes[tree[f]]]]
  <2>1. e \in Entries(s, files)
    BY DEF SnapshotIsTrue, EntriesOfTree
  <2>2. \A f \in DOMAIN files : files[f].digest = tree[f] /\ tree[f] # Absent
    BY DEF Existing
  <2> HIDE DEF files
  <2>3. d[1] \in DOMAIN files /\ d[2] = files[d[1]].digest
    BY <2>1, <2>2, EntriesHaveDigests
  <2>4. QED
    BY <2>2, <2>3
<1>2. Whole /\ Truth => ReadyUntilChanged
  BY <1>1 DEF Whole, Truth
<1>3. QED
  BY <1>2, WholeHolds, TruthHolds, PTL
=============================================================================
