-------------------------- MODULE MCCatalogRefresh --------------------------
(* One strategy root with two files, and the pair of corpora it is one of,  *)
(* with two packages; runA and runZ are files called run.py.             *)
EXTENDS CatalogRefresh, TLC

CONSTANTS root, pair, alpha, beta, runA, runZ, one, two, bad

MCCovers == root :> {root, pair} @@ pair :> {pair}
MCScopeFiles == root :> {alpha, beta} @@ pair :> {runA, runZ}
MCRank == alpha :> 1 @@ beta :> 2 @@ runA :> 3 @@ runZ :> 4
MCCacheName == alpha :> alpha @@ beta :> beta @@ runA :> "run.py" @@ runZ :> "run.py"
MCPackage == [x \in Files |-> x]
MCClasses == one :> {"A"} @@ two :> {"A", "B"} @@ bad :> {}
MCApart == alpha :> 1 @@ beta :> 2 @@ runA :> 3 @@ runZ :> 4

\* Few contents to begin with; any may come by an edit.  Once two refreshes have worked
\* on one scope at once, the other scope is left alone, and a file is edited or a refresh
\* dies, not both.
Small ==
  /\ edits + faults = 0 => tree[beta] = one /\ tree[runZ] = one /\ tree[runA] # bad
  /\ mingled # {} => /\ mingled # Scopes /\ edits + faults <= 1
                     /\ \A c \in Calls : pc[c] # "idle" => scope[c] \in mingled

CallSymmetry == Permutations(Calls)

\* Unpacked from one archive: files of equal size have equal fingerprints.
MCTogether == [x \in Files |-> 1]
=============================================================================
