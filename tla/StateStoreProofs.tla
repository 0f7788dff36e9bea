--------------------------- MODULE StateStoreProofs ---------------------------
(***************************************************************************)
(* Proofs about StateStore, for any executions, directories, paths and     *)
(* values: the types, that a set without overwrite loses no value, and     *)
(* that loading, changing and writing the files implements the values of   *)
(* ExecutionValues.                                                        *)
(***************************************************************************)
EXTENDS StateStore, SequenceTheorems, TLAPS

(* Paths and trees. *)

\* No value lies beneath another.
Apart(tree) == \A p, q \in DOMAIN tree : ~IsStrictPrefix(p, q)

Contents == {Holding(tree) : tree \in Tree} \cup {NoFile, Truncated}

\* A path is its own prefix; concatenating nothing and cutting off everything
\* are what one expects.
LEMMA PathFacts ==
  ASSUME NEW p \in Paths
  PROVE  /\ p \in Seq(STRING) /\ Len(p) \in Nat /\ p # <<>> /\ IsPrefix(p, p)
         /\ p \o <<>> = p /\ SubSeq(p, Len(p) + 1, Len(p)) = <<>>
<1>1. p \in Seq(STRING) /\ p # <<>>
  BY StoreAssumption
<1>2. Len(p) \in Nat
  BY <1>1
<1>3. IsPrefix(p, p)
  BY <1>2 DEF IsPrefix
<1>4. p \o <<>> = p
  BY <1>1, ConcatEmptySeq
<1>5. SubSeq(p, Len(p) + 1, Len(p)) = <<>>
  BY <1>2, SubSeqEmpty
<1>. QED
  BY <1>1, <1>2, <1>3, <1>4, <1>5

\* What a file holds is a tree.
LEMMA ContentTree ==
  ASSUME NEW c \in Contents
  PROVE  /\ c.tree \in Tree /\ DOMAIN c.tree \subseteq Paths
         /\ c # Truncated /\ c # NoFile => c = Holding(c.tree)
<1>1. NoData \in [{} -> Values] /\ NoData \in Tree
  BY DEF NoData, Tree
<1>2. c.tree \in Tree
  BY <1>1 DEF Contents, Holding, NoFile, Truncated
<1>3. \A t \in Tree : DOMAIN t \subseteq Paths
  BY DEF Tree
<1>. QED
  BY <1>2, <1>3 DEF Contents, Holding

\* Putting a value into a tree gives a tree.
LEMMA PutTree ==
  ASSUME NEW tree \in Tree, NEW p \in Paths, NEW v \in Values
  PROVE  /\ Put(tree, p, v) \in Tree
         /\ Apart(Put(tree, p, v)) \/ ~Apart(tree)
<1> DEFINE others == {q \in DOMAIN tree : ~IsPrefix(p, q) /\ ~IsStrictPrefix(q, p)}
<1>1. PICK ps \in SUBSET Paths : tree \in [ps -> Values]
  BY DEF Tree
<1>2. others \cup {p} \in SUBSET Paths
  BY <1>1
<1>3. Put(tree, p, v) \in [others \cup {p} -> Values]
  BY <1>1 DEF Put
<1>4. Put(tree, p, v) \in Tree
  BY <1>2, <1>3 DEF Tree
<1>5. ASSUME Apart(tree), NEW q \in others \cup {p}, NEW s \in others \cup {p}
      PROVE ~IsStrictPrefix(q, s)
  BY <1>5 DEF Apart, IsStrictPrefix
<1>. QED
  BY <1>3, <1>4, <1>5 DEF Apart
-----------------------------------------------------------------------------
(* Types. *)

\* TypeOK with the sets it is made of by name.
LEMMA TypeFacts ==
  TypeOK <=>
    /\ made \in [Dirs -> BOOLEAN] /\ file \in [Dirs -> Contents]
    /\ \A d \in Dirs : made[d] \/ file[d] = NoFile
    /\ \A d \in Dirs : Apart(file[d].tree)
    /\ pc \in [Execs -> {"new", "ready", "loaded", "opened", "ended", "killed"}]
    /\ dir \in [Execs -> Dirs \cup {NoDir}]
    /\ actor \in [Execs -> {"outer", "inner"}]
    /\ force \in [Execs -> BOOLEAN]
    /\ data \in [Execs -> Tree]
    /\ left \in [Execs -> Contents]
BY DEF TypeOK, Contents, Apart
-----------------------------------------------------------------------------
(* The inductive invariant. *)

\* No two executions that run have the same directory.
OwnDirs ==
  /\ \A e \in Execs : Live(e) => dir[e] \in Dirs
  /\ \A e, f \in Execs : Live(e) /\ Live(f) /\ e # f => dir[e] # dir[f]

\* What a set has loaded is still what the file holds, until it is opened.
Working(e) ==
  /\ pc[e] = "loaded" =>
       /\ file[dir[e]] # Truncated
       /\ \E p \in Paths, v \in Values : data[e] = Put(file[dir[e]].tree, p, v)
  /\ pc[e] = "opened" => file[dir[e]] = Truncated
  /\ pc[e] \in {"loaded", "opened"} => Apart(data[e])

\* Only an execution that was killed, or keeps its directory, leaves a file.
Abandoned(e) == pc[e] = "killed" \/ (pc[e] = "ended" /\ e \in Debug)
Tidy(e) == ~Abandoned(e) => left[e] = NoFile
Free(d) == \A e \in Execs : Live(e) => dir[e] # d
Leftover(d) ==
  Free(d) => file[d] = NoFile \/ \E f \in Execs : Abandoned(f) /\ file[d] = left[f]

StoreInv ==
  /\ TypeOK /\ OwnDirs
  /\ \A e \in Execs : Working(e) /\ Tidy(e)
  /\ \A d \in Dirs : Leftover(d)

\* The disjuncts of Next in the form the proofs below go through.
LEMMA NextCases ==
  ASSUME [Next]_vars
  PROVE  \/ \E e \in Execs :
              \/ \E d \in Dirs : Create(e, d)
              \/ \E o \in Ops : Set(e, o)
              \/ Open(e) \/ Write(e) \/ CutShort(e) \/ Switch(e) \/ Exit(e) \/ Kill(e)
         \/ UNCHANGED vars
BY DEF Next

\* A set changes the tree that was loaded.
LEMMA SetPuts ==
  ASSUME StoreInv, NEW e \in Execs, NEW o \in Ops, Set(e, o)
  PROVE  /\ Live(e) /\ dir[e] \in Dirs /\ file[dir[e]] \in Contents
         /\ o.path \in Paths /\ o.value \in Values
         /\ data' = [data EXCEPT ![e] = Put(file[dir[e]].tree, o.path, o.value)]
         /\ Put(file[dir[e]].tree, o.path, o.value) \in Tree
         /\ Apart(Put(file[dir[e]].tree, o.path, o.value))
<1>1. Live(e) /\ data' = [data EXCEPT ![e] = Put(file[dir[e]].tree, o.path, o.value)]
  BY DEF Set, Live
<1>2. dir[e] \in Dirs /\ o.path \in Paths /\ o.value \in Values
  BY <1>1 DEF StoreInv, OwnDirs, Ops
<1>3. file[dir[e]] \in Contents /\ Apart(file[dir[e]].tree)
  BY <1>2, TypeFacts DEF StoreInv
<1>. QED
  BY <1>1, <1>2, <1>3, ContentTree, PutTree

\* The types are preserved.
LEMMA TypeStep == StoreInv /\ [Next]_vars => TypeOK'
<1> SUFFICES ASSUME StoreInv, [Next]_vars PROVE TypeOK'
  OBVIOUS
<1>0. /\ TypeOK /\ \A e \in Execs : Live(e) => dir[e] \in Dirs
      /\ NoData \in Tree /\ Apart(NoData) /\ {NoFile, Truncated} \subseteq Contents
      /\ NoFile.tree = NoData /\ Truncated.tree = NoData
      /\ \A t \in Tree : Holding(t) \in Contents /\ Holding(t).tree = t
  BY DEF StoreInv, OwnDirs, NoData, Tree, Apart, Contents, NoFile, Truncated, Holding
<1> USE StoreAssumption DEF Done, disk, call
<1>1. ASSUME NEW e \in Execs, NEW d \in Dirs, Create(e, d) PROVE TypeOK'
  BY <1>0, <1>1, TypeFacts DEF Create, TypeOK
<1>2. ASSUME NEW e \in Execs, NEW o \in Ops, Set(e, o) PROVE TypeOK'
  <2>1. data' \in [Execs -> Tree]
    BY <1>0, <1>2, SetPuts, TypeFacts
  <2>. QED
    BY <1>0, <1>2, <2>1 DEF Set, TypeOK, Ops
<1>3. ASSUME NEW e \in Execs, Open(e) PROVE TypeOK'
  <2>1. dir[e] \in Dirs
    BY <1>0, <1>3 DEF Open, Live
  <2>2. file' \in [Dirs -> Contents] /\ \A d \in Dirs : made[d] \/ file'[d] = NoFile
    BY <1>0, <1>3, <2>1, TypeFacts DEF Open
  <2>3. \A d \in Dirs : Apart(file'[d].tree)
    BY <1>0, <1>3, <2>1, TypeFacts DEF Open
  <2>4. UNCHANGED <<made, dir, actor, left>> /\ force' \in [Execs -> BOOLEAN] /\ data' \in [Execs -> Tree]
        /\ pc' \in [Execs -> {"new", "ready", "loaded", "opened", "ended", "killed"}]
    BY <1>0, <1>3, TypeFacts DEF Open
  <2>. QED
    BY <1>0, <2>2, <2>3, <2>4 DEF TypeOK, Contents, Apart
<1>4. ASSUME NEW e \in Execs, Write(e) PROVE TypeOK'
  <2>1. /\ dir[e] \in Dirs /\ file[dir[e]] = Truncated /\ Apart(data[e]) /\ data[e] \in Tree
        /\ Truncated # NoFile
    BY <1>0, <1>4, TypeFacts DEF Write, Live, StoreInv, Working, Truncated, NoFile
  <2>2. file' \in [Dirs -> Contents] /\ \A d \in Dirs : made[d] \/ file'[d] = NoFile
    BY <1>0, <1>4, <2>1, TypeFacts DEF Write
  <2>3. \A d \in Dirs : Apart(file'[d].tree)
    BY <1>0, <1>4, <2>1, TypeFacts DEF Write
  <2>4. UNCHANGED <<made, dir, actor, left>> /\ force' \in [Execs -> BOOLEAN] /\ data' \in [Execs -> Tree]
        /\ pc' \in [Execs -> {"new", "ready", "loaded", "opened", "ended", "killed"}]
    BY <1>0, <1>4, TypeFacts DEF Write
  <2>. QED
    BY <1>0, <2>2, <2>3, <2>4 DEF TypeOK, Contents, Apart
<1>5. ASSUME NEW e \in Execs, CutShort(e) PROVE TypeOK'
  BY <1>0, <1>5 DEF CutShort, TypeOK
<1>6. ASSUME NEW e \in Execs, Switch(e) PROVE TypeOK'
  BY <1>0, <1>6 DEF Switch, TypeOK
<1>7. ASSUME NEW e \in Execs, Exit(e) PROVE TypeOK'
  <2>1. dir[e] \in Dirs
    BY <1>0, <1>7 DEF Exit, Live
  <2>2. /\ made' \in [Dirs -> BOOLEAN] /\ file' \in [Dirs -> Contents]
        /\ \A d \in Dirs : made'[d] \/ file'[d] = NoFile
    <3>0. /\ made \in [Dirs -> BOOLEAN] /\ file \in [Dirs -> Contents] /\ NoFile \in Contents
          /\ \A d \in Dirs : made[d] \/ file[d] = NoFile
      BY <1>0, TypeFacts
    <3>1. CASE e \in Debug
      <4>1. UNCHANGED <<made, file>>
        BY <1>7, <3>1 DEF Exit
      <4>. QED
        BY <3>0, <4>1
    <3>2. CASE e \notin Debug
      <4>1. /\ made' = [made EXCEPT ![dir[e]] = FALSE]
            /\ file' = [file EXCEPT ![dir[e]] = NoFile]
        BY <1>7, <3>2 DEF Exit
      <4>. QED
        BY <2>1, <3>0, <4>1
    <3>. QED
      BY <3>1, <3>2
  <2>3. \A d \in Dirs : Apart(file'[d].tree)
    BY <1>0, <1>7, <2>1, TypeFacts DEF Exit
  <2>4. UNCHANGED <<dir, actor, force, data>> /\ left' \in [Execs -> Contents]
        /\ pc' \in [Execs -> {"new", "ready", "loaded", "opened", "ended", "killed"}]
    BY <1>0, <1>7, <2>1, <2>2, TypeFacts DEF Exit
  <2>. QED
    BY <1>0, <2>2, <2>3, <2>4 DEF TypeOK, Contents, Apart
<1>8. ASSUME NEW e \in Execs, Kill(e) PROVE TypeOK'
  <2>1. left' \in [Execs -> Contents]
    BY <1>0, <1>8, TypeFacts DEF Kill
  <2>. QED
    BY <1>0, <1>8, <2>1 DEF Kill, TypeOK, Contents
<1>9. CASE UNCHANGED vars
  BY <1>0, <1>9 DEF vars, TypeOK
<1>. QED
  BY <1>1, <1>2, <1>3, <1>4, <1>5, <1>6, <1>7, <1>8, <1>9, NextCases

\* An execution keeps its part of the invariant while its variables and, as long
\* as it runs, its file stay as they are.
LEMMA Elsewhere ==
  ASSUME NEW f \in Execs, Working(f) /\ Tidy(f),
         pc'[f] = pc[f], dir'[f] = dir[f], data'[f] = data[f], left'[f] = left[f],
         Live(f) => file'[dir[f]] = file[dir[f]]
  PROVE  (Working(f) /\ Tidy(f))'
BY DEF Working, Tidy, Abandoned, Live

\* The invariant is inductive.
LEMMA StoreStep == StoreInv /\ [Next]_vars => StoreInv'
<1> SUFFICES ASSUME StoreInv, [Next]_vars PROVE StoreInv'
  OBVIOUS
<1>0. /\ TypeOK /\ TypeOK' /\ OwnDirs
      /\ \A e \in Execs : Working(e) /\ Tidy(e)
      /\ \A d \in Dirs : Leftover(d)
  BY TypeStep DEF StoreInv
<1>a. /\ file \in [Dirs -> Contents] /\ dir \in [Execs -> Dirs \cup {NoDir}]
      /\ pc \in [Execs -> {"new", "ready", "loaded", "opened", "ended", "killed"}]
      /\ left \in [Execs -> Contents] /\ data \in [Execs -> Tree] /\ NoDir \notin Dirs
      /\ Truncated # NoFile
  BY <1>0, StoreAssumption, TypeFacts DEF Truncated, NoFile
<1> USE DEF Done, disk, call
\* An execution that runs only changes itself and its own file.
<1>b. ASSUME NEW e \in Execs, Live(e), UNCHANGED <<dir, left>>,
             \A f \in Execs \ {e} : pc'[f] = pc[f] /\ data'[f] = data[f],
             \A d \in Dirs : d # dir[e] => file'[d] = file[d],
             Live(e)', Working(e)'
      PROVE StoreInv'
  <2>1. OwnDirs'
    BY <1>0, <1>b DEF OwnDirs, Live
  <2>2. ASSUME NEW f \in Execs PROVE (Working(f) /\ Tidy(f))'
    <3>1. CASE f = e
      BY <1>0, <1>b, <3>1 DEF Tidy, Abandoned, Live
    <3>2. CASE f # e
      BY <1>0, <1>b, <3>2, Elsewhere DEF OwnDirs
    <3>. QED
      BY <3>1, <3>2
  <2>3. ASSUME NEW d \in Dirs PROVE Leftover(d)'
    <3> SUFFICES ASSUME Free(d)'
                 PROVE  (file[d] = NoFile \/ \E f \in Execs : Abandoned(f) /\ file[d] = left[f])'
      BY DEF Leftover
    <3>1. d # dir[e] /\ file'[d] = file[d] /\ Free(d)
      BY <1>b DEF Free, Live
    <3>2. \A f \in Execs : Abandoned(f) => Abandoned(f)'
      BY <1>b DEF Abandoned, Live
    <3>. QED
      BY <1>0, <1>b, <3>1, <3>2 DEF Leftover
  <2>. QED
    BY <1>0, <2>1, <2>2, <2>3 DEF StoreInv
\* One that ends leaves its file behind, or nothing.
<1>c. ASSUME NEW e \in Execs, Live(e), UNCHANGED <<dir, data>>,
             \A f \in Execs \ {e} : pc'[f] = pc[f] /\ left'[f] = left[f],
             \A d \in Dirs : d # dir[e] => file'[d] = file[d],
             left'[e] = file'[dir[e]], pc'[e] \in {"ended", "killed"},
             Abandoned(e)' \/ file'[dir[e]] = NoFile
      PROVE StoreInv'
  <2>1. OwnDirs'
    BY <1>0, <1>c DEF OwnDirs, Live
  <2>2. ASSUME NEW f \in Execs PROVE (Working(f) /\ Tidy(f))'
    <3>1. CASE f = e
      BY <1>c, <3>1 DEF Working, Tidy
    <3>2. CASE f # e
      BY <1>0, <1>c, <3>2, Elsewhere DEF OwnDirs
    <3>. QED
      BY <3>1, <3>2
  <2>3. ASSUME NEW d \in Dirs PROVE Leftover(d)'
    <3>1. CASE d = dir[e]
      BY <1>c, <3>1 DEF Leftover
    <3>2. CASE d # dir[e]
      <4>1. Free(d)' => Free(d)
        BY <1>c, <3>2 DEF Free, Live
      <4>2. \A f \in Execs : Abandoned(f) => Abandoned(f)' /\ left'[f] = left[f]
        BY <1>c DEF Abandoned, Live
      <4>. QED
        BY <1>0, <1>c, <3>2, <4>1, <4>2 DEF Leftover
    <3>. QED
      BY <3>1, <3>2
  <2>. QED
    BY <1>0, <2>1, <2>2, <2>3 DEF StoreInv
<1>1. ASSUME NEW e \in Execs, NEW d \in Dirs, Create(e, d) PROVE StoreInv'
  <2>1. /\ pc[e] = "new" /\ pc'[e] = "ready" /\ dir'[e] = d /\ UNCHANGED <<file, data, left>>
        /\ \A f \in Execs : Live(f) => dir[f] # d
        /\ \A f \in Execs \ {e} : pc'[f] = pc[f] /\ dir'[f] = dir[f]
    BY <1>a, <1>1 DEF Create
  <2>2. OwnDirs'
    BY <1>0, <2>1 DEF OwnDirs, Live
  <2>3. ASSUME NEW f \in Execs PROVE (Working(f) /\ Tidy(f))'
    <3>1. CASE f = e
      BY <1>0, <2>1, <3>1 DEF Working, Tidy, Abandoned
    <3>2. CASE f # e
      BY <1>0, <2>1, <3>2, Elsewhere
    <3>. QED
      BY <3>1, <3>2
  <2>4. ASSUME NEW c \in Dirs PROVE Leftover(c)'
    <3>1. Free(c)' => Free(c)
      BY <2>1 DEF Free, Live
    <3>2. \A f \in Execs : Abandoned(f) => Abandoned(f)'
      BY <2>1 DEF Abandoned
    <3>. QED
      BY <1>0, <2>1, <3>1, <3>2 DEF Leftover
  <2>. QED
    BY <1>0, <2>2, <2>3, <2>4 DEF StoreInv
<1>2. ASSUME NEW e \in Execs, NEW o \in Ops, Set(e, o) PROVE StoreInv'
  <2>1. /\ UNCHANGED <<dir, file, left>> /\ pc'[e] = "loaded" /\ file[dir[e]] # Truncated
        /\ \A f \in Execs \ {e} : pc'[f] = pc[f]
    BY <1>a, <1>2 DEF Set
  <2>2. /\ data'[e] = Put(file[dir[e]].tree, o.path, o.value) /\ Apart(data'[e])
        /\ Live(e) /\ o.path \in Paths /\ o.value \in Values
        /\ \A f \in Execs \ {e} : data'[f] = data[f]
    BY <1>2, <1>a, SetPuts
  <2>3. Working(e)'
    BY <2>1, <2>2 DEF Working
  <2>4. Live(e)'
    BY <2>1 DEF Live
  <2>. QED
    BY <1>b, <2>1, <2>2, <2>3, <2>4
<1>3. ASSUME NEW e \in Execs, Open(e) PROVE StoreInv'
  <2>1. Live(e) /\ dir[e] \in Dirs
    BY <1>0, <1>3 DEF Open, Live, OwnDirs
  <2>2. CASE made[dir[e]]
    <3>1. /\ UNCHANGED <<dir, left, data>> /\ pc[e] = "loaded" /\ pc'[e] = "opened"
          /\ file'[dir[e]] = Truncated
          /\ \A f \in Execs \ {e} : pc'[f] = pc[f]
          /\ \A d \in Dirs : d # dir[e] => file'[d] = file[d]
      BY <1>a, <1>3, <2>1, <2>2 DEF Open
    <3>2. Working(e)' /\ Live(e)'
      BY <1>0, <3>1 DEF Working, Live
    <3>. QED
      BY <1>b, <2>1, <3>1, <3>2
  <2>3. CASE ~made[dir[e]]
    <3>1. /\ UNCHANGED <<dir, left, file>> /\ pc'[e] = "ready"
          /\ \A f \in Execs \ {e} : pc'[f] = pc[f] /\ data'[f] = data[f]
      BY <1>a, <1>3, <2>3 DEF Open
    <3>2. Working(e)' /\ Live(e)'
      BY <3>1 DEF Working, Live
    <3>. QED
      BY <1>b, <2>1, <3>1, <3>2
  <2>. QED
    BY <2>2, <2>3
<1>4. ASSUME NEW e \in Execs, Write(e) PROVE StoreInv'
  <2>1. Live(e) /\ dir[e] \in Dirs
    BY <1>0, <1>4 DEF Write, Live, OwnDirs
  <2>2. /\ UNCHANGED <<dir, left>> /\ pc'[e] = "ready"
        /\ \A f \in Execs \ {e} : pc'[f] = pc[f] /\ data'[f] = data[f]
        /\ \A d \in Dirs : d # dir[e] => file'[d] = file[d]
    BY <1>a, <1>4 DEF Write
  <2>3. Working(e)' /\ Live(e)'
    BY <2>2 DEF Working, Live
  <2>. QED
    BY <1>b, <2>1, <2>2, <2>3
<1>5. ASSUME NEW e \in Execs, CutShort(e) PROVE StoreInv'
  <2>1. /\ UNCHANGED <<dir, left, file>> /\ pc'[e] = "ready" /\ Live(e)
        /\ \A f \in Execs \ {e} : pc'[f] = pc[f] /\ data'[f] = data[f]
    BY <1>a, <1>5 DEF CutShort, Live
  <2>2. Working(e)' /\ Live(e)'
    BY <2>1 DEF Working, Live
  <2>. QED
    BY <1>b, <2>1, <2>2
<1>6. ASSUME NEW e \in Execs, Switch(e) PROVE StoreInv'
  <2>1. UNCHANGED <<dir, left, file, pc, data>> /\ Live(e)
    BY <1>6 DEF Switch, Live
  <2>2. Working(e)' /\ Live(e)'
    BY <1>0, <2>1 DEF Working, Live
  <2>. QED
    BY <1>b, <2>1, <2>2
<1>7. ASSUME NEW e \in Execs, Exit(e) PROVE StoreInv'
  <2>1. Live(e) /\ dir[e] \in Dirs
    BY <1>0, <1>7 DEF Exit, Live, OwnDirs
  <2>2. /\ UNCHANGED <<dir, data>> /\ pc'[e] = "ended" /\ left'[e] = file'[dir[e]]
        /\ \A f \in Execs \ {e} : pc'[f] = pc[f] /\ left'[f] = left[f]
        /\ \A d \in Dirs : d # dir[e] => file'[d] = file[d]
    BY <1>a, <1>7 DEF Exit
  <2>3. e \in Debug \/ file'[dir[e]] = NoFile
    BY <1>a, <1>7, <2>1 DEF Exit
  <2>4. Abandoned(e)' \/ file'[dir[e]] = NoFile
    BY <2>2, <2>3 DEF Abandoned
  <2>. QED
    BY <1>c, <2>1, <2>2, <2>4
<1>8. ASSUME NEW e \in Execs, Kill(e) PROVE StoreInv'
  <2>1. /\ UNCHANGED <<dir, data, file>> /\ pc'[e] = "killed" /\ left'[e] = file'[dir[e]] /\ Live(e)
        /\ \A f \in Execs \ {e} : pc'[f] = pc[f] /\ left'[f] = left[f]
    BY <1>a, <1>8 DEF Kill
  <2>2. Abandoned(e)'
    BY <2>1 DEF Abandoned
  <2>. QED
    BY <1>c, <2>1, <2>2
<1>9. CASE UNCHANGED vars
  BY <1>9 DEF vars, StoreInv, TypeOK, OwnDirs, Live, Working, Tidy, Abandoned, Leftover, Free
<1>. QED
  BY <1>1, <1>2, <1>3, <1>4, <1>5, <1>6, <1>7, <1>8, <1>9, NextCases

\* It holds before the first execution.
LEMMA StoreStart == Init => StoreInv
<1> SUFFICES ASSUME Init PROVE StoreInv
  OBVIOUS
<1>1. NoData \in Tree /\ Apart(NoData) /\ NoFile.tree = NoData
  BY DEF NoData, Tree, Apart, NoFile
<1>2. TypeOK
  BY <1>1, TypeFacts DEF Init, Contents
<1>3. \A e \in Execs : pc[e] = "new" /\ left[e] = NoFile
  BY DEF Init
<1>4. \A d \in Dirs : file[d] = NoFile
  BY DEF Init
<1>. QED
  BY <1>2, <1>3, <1>4 DEF StoreInv, OwnDirs, Live, Working, Tidy, Leftover

\* Every reachable state of the executions and their files is well typed.
THEOREM StoreTypes == Spec => []TypeOK
<1>1. Spec => []StoreInv
  BY StoreStart, StoreStep, PTL DEF Spec
<1>2. StoreInv => TypeOK
  BY DEF StoreInv
<1>. QED
  BY <1>1, <1>2, PTL
-----------------------------------------------------------------------------
\* What a set without overwrite is about to write has every value of the file
\* but the empty dictionaries.
LEMMA SetKeeps ==
  ASSUME StoreInv, NEW e \in Execs, NEW o \in Ops, Set(e, o), ~o.overwrite,
         NEW p \in DOMAIN file[dir[e]].tree, file[dir[e]].tree[p] # Dict
  PROVE  p \in DOMAIN data'[e] /\ data'[e][p] = file[dir[e]].tree[p]
<1> DEFINE tree == file[dir[e]].tree
<1>1. ~Blocked(tree, o.path) /\ ~Taken(tree, o.path)
  BY DEF Set
<1>2. o.path \in Paths /\ IsPrefix(o.path, o.path)
  BY SetPuts, PathFacts
<1>3. p # o.path /\ ~IsPrefix(o.path, p) /\ ~IsStrictPrefix(p, o.path)
  BY <1>1, <1>2 DEF Taken, Blocked
<1>4. p \in DOMAIN Put(tree, o.path, o.value) /\ Put(tree, o.path, o.value)[p] = tree[p]
  BY <1>3 DEF Put
<1>5. data \in [Execs -> Tree]
  BY TypeFacts DEF StoreInv
<1>6. data'[e] = Put(tree, o.path, o.value)
  BY <1>5, SetPuts
<1>. QED
  BY <1>4, <1>6

\* A set that may not overwrite never loses a value, whoever works in parallel.
THEOREM ValuesKept == Spec => NoOverwrite
<1>1. Spec => []StoreInv
  BY StoreStart, StoreStep, PTL DEF Spec
<1>2. ASSUME StoreInv, [Next]_vars, NEW e \in Execs, pc[e] = "ready", pc'[e] = "loaded", ~force'[e],
             NEW p \in DOMAIN file[dir[e]].tree, file[dir[e]].tree[p] # Dict
      PROVE  p \in DOMAIN data'[e] /\ data'[e][p] = file[dir[e]].tree[p]
  <2>1. pc \in [Execs -> {"new", "ready", "loaded", "opened", "ended", "killed"}]
        /\ force \in [Execs -> BOOLEAN]
    BY <1>2, TypeFacts DEF StoreInv
  <2>2. PICK f \in Execs : \/ \E d \in Dirs : Create(f, d)
                           \/ \E o \in Ops : Set(f, o)
                           \/ Open(f) \/ Write(f) \/ CutShort(f) \/ Switch(f) \/ Exit(f) \/ Kill(f)
    BY <1>2 DEF Next, vars
  <2>3. PICK o \in Ops : Set(f, o)
    BY <1>2, <2>1, <2>2 DEF Create, Open, Write, CutShort, Switch, Exit, Kill, Done
  <2>4. f = e /\ force'[e] = o.overwrite
    BY <1>2, <2>1, <2>3 DEF Set
  <2>. QED
    BY <1>2, <2>3, <2>4, SetKeeps
<1>3. StoreInv /\ [Next]_vars =>
        [\A e \in Execs :
           pc[e] = "ready" /\ pc'[e] = "loaded" /\ ~force'[e] =>
             \A p \in DOMAIN file[dir[e]].tree :
               file[dir[e]].tree[p] # Dict =>
                 p \in DOMAIN data'[e] /\ data'[e][p] = file[dir[e]].tree[p]]_vars
  BY <1>2
<1>. QED
  BY <1>1, <1>3, PTL DEF Spec, NoOverwrite
-----------------------------------------------------------------------------
(* StateStore implements ExecutionValues. *)

\* get finds in a tree what was put there.
LEMMA SeenTree ==
  ASSUME NEW c \in Contents, c # Truncated
  PROVE  Seen(c) = c.tree
<1>1. c.tree \in Tree /\ DOMAIN c.tree \subseteq Paths
  BY ContentTree
<1>2. ASSUME NEW p \in DOMAIN c.tree PROVE Get(c.tree, p)[<<>>] = c.tree[p]
  <2>1. /\ IsPrefix(p, p) /\ p \o <<>> = p /\ SubSeq(p, Len(p) + 1, Len(p)) = <<>>
    BY <1>1, PathFacts
  <2>2. <<>> \in {SubSeq(q, Len(p) + 1, Len(q)) : q \in {r \in DOMAIN c.tree : IsPrefix(p, r)}}
    BY <2>1
  <2>. QED
    BY <2>1, <2>2 DEF Get
<1>3. Seen(c) = [p \in DOMAIN c.tree |-> c.tree[p]]
  BY <1>2 DEF Seen
<1>4. c.tree = [p \in DOMAIN c.tree |-> c.tree[p]]
  BY <1>1 DEF Tree
<1>. QED
  BY <1>3, <1>4

\* Without a file there is nothing to get, and a truncated one is unusable.
LEMMA SeenNothing ==
  /\ Seen(NoFile) = Promise!Empty /\ Seen(Truncated) = Promise!Unusable
  /\ NoFile \in Contents /\ Truncated \in Contents /\ NoFile # Truncated
<1>1. NoFile \in Contents /\ Truncated \in Contents /\ NoFile # Truncated
  BY DEF Contents, NoFile, Truncated
<1>2. Seen(NoFile) = NoFile.tree
  BY <1>1, SeenTree
<1>3. NoFile.tree = Promise!Empty
  BY DEF NoFile, NoData, Promise!Empty
<1>. QED
  BY <1>1, <1>2, <1>3 DEF Seen, Promise!Unusable

\* No values that can be got look like an unusable file.
LEMMA SeenUsable ==
  ASSUME NEW c \in Contents, c # Truncated
  PROVE  Seen(c) # Promise!Unusable
<1>1. Seen(c) = c.tree /\ DOMAIN c.tree \subseteq Paths
  BY SeenTree, ContentTree
<1>2. <<>> \notin DOMAIN c.tree
  BY <1>1, StoreAssumption
<1>3. <<>> \in DOMAIN Promise!Unusable
  BY DEF Promise!Unusable
<1>. QED
  BY <1>1, <1>2, <1>3

\* What set writes is what the specification stores.
LEMMA PutStores ==
  ASSUME NEW tree \in Tree, NEW p \in Paths, NEW v \in Values
  PROVE  Seen(Holding(Put(tree, p, v))) = Promise!Stored(tree, p, v)
<1>1. Put(tree, p, v) \in Tree
  BY PutTree
<1>2. Holding(Put(tree, p, v)) \in Contents /\ Holding(Put(tree, p, v)) # Truncated
      /\ Holding(Put(tree, p, v)).tree = Put(tree, p, v)
  BY <1>1 DEF Contents, Holding, Truncated
<1>3. IsPrefix(p, p)
  BY PathFacts
<1> DEFINE others == {q \in DOMAIN tree : ~IsPrefix(p, q) /\ ~IsStrictPrefix(q, p)}
           kept == {q \in DOMAIN tree : ~IsPrefix(p, q) /\ ~IsPrefix(q, p)}
<1>4. others = kept
  BY <1>3 DEF IsStrictPrefix
<1>5. Put(tree, p, v) = [q \in others \cup {p} |-> IF q = p THEN v ELSE tree[q]]
  BY DEF Put
<1>6. Promise!Stored(tree, p, v) = [q \in kept \cup {p} |-> IF q = p THEN v ELSE tree[q]]
  BY DEF Promise!Stored, Promise!IsPrefix, IsPrefix
<1> HIDE DEF others, kept
<1>7. Put(tree, p, v) = Promise!Stored(tree, p, v)
  BY <1>4, <1>5, <1>6
<1>. QED
  BY <1>2, <1>7, SeenTree

\* The initial states map to the initial state.
LEMMA InitImplements == Init => Promise!Init
<1> SUFFICES ASSUME Init PROVE Promise!Init
  OBVIOUS
<1>1. ASSUME NEW e \in Execs
      PROVE  Phase(e) = "new" /\ Seen(Content(e)) = Promise!Empty /\ Seen(left[e]) = Promise!Empty
  <2>1. pc[e] = "new" /\ left[e] = NoFile
    BY DEF Init
  <2>2. Phase(e) = "new" /\ Content(e) = NoFile
    BY <2>1 DEF Phase, Live, Content
  <2>. QED
    BY <2>1, <2>2, SeenNothing
<1>. QED
  BY <1>1 DEF Promise!Init

\* A step of one execution does not change what another one sees.
LEMMA OthersSee ==
  ASSUME StoreInv, NEW e \in Execs, NEW f \in Execs \ {e},
         pc'[f] = pc[f], dir'[f] = dir[f], data'[f] = data[f], left'[f] = left[f],
         Live(f) => file'[dir[f]] = file[dir[f]]
  PROVE  /\ Phase(f)' = Phase(f) /\ Seen(Content(f))' = Seen(Content(f))
         /\ Seen(left[f])' = Seen(left[f])
<1>1. Phase(f)' = Phase(f)
  BY DEF Phase, Live
<1>2. Content(f)' = Content(f)
  BY DEF Content, Live
<1>. QED
  BY <1>1, <1>2 DEF Seen, Get

\* In which phase an execution is, and what it sees, by its program counter.
LEMMA PhaseFacts ==
  ASSUME NEW e \in Execs, pc[e] \in {"new", "ready", "loaded", "opened", "ended", "killed"}
  PROVE  /\ Live(e) <=> Phase(e) = "running"
         /\ Abandoned(e) <=> Phase(e) = "abandoned"
         /\ pc[e] = "new" => Phase(e) = "new"
         /\ ~Live(e) => Content(e) = NoFile
         /\ pc[e] \in {"ready", "loaded"} => Content(e) = file[dir[e]]
         /\ pc[e] = "opened" => Content(e) = Holding(data[e])
BY DEF Live, Phase, Abandoned, Content

\* Steps of one execution, as changes of the three maps of the specification.
LEMMA MapsChange ==
  ASSUME StoreInv, NEW e \in Execs, Live(e), UNCHANGED dir,
         \A f \in Execs \ {e} : pc'[f] = pc[f] /\ data'[f] = data[f] /\ left'[f] = left[f],
         \A d \in Dirs : d # dir[e] => file'[d] = file[d]
  PROVE  \A f \in Execs \ {e} :
           /\ Phase(f)' = Phase(f) /\ Seen(Content(f))' = Seen(Content(f))
           /\ Seen(left[f])' = Seen(left[f])
<1> SUFFICES ASSUME NEW f \in Execs \ {e}
             PROVE  /\ Phase(f)' = Phase(f) /\ Seen(Content(f))' = Seen(Content(f))
                    /\ Seen(left[f])' = Seen(left[f])
  OBVIOUS
<1>1. Live(f) => dir[f] \in Dirs /\ dir[f] # dir[e]
  BY DEF StoreInv, OwnDirs
<1>. QED
  BY <1>1, OthersSee

\* Every step of the store is a step of the specification, or changes nothing
\* that it speaks of.
LEMMA StepImplements == StoreInv /\ [Next]_vars => [Promise!Next]_(Promise!vars)
<1> SUFFICES ASSUME StoreInv, [Next]_vars PROVE [Promise!Next]_(Promise!vars)
  OBVIOUS
<1>0. /\ StoreInv' /\ TypeOK /\ OwnDirs /\ \A e \in Execs : Working(e) /\ Tidy(e)
      /\ \A d \in Dirs : Leftover(d)
      /\ file \in [Dirs -> Contents] /\ dir \in [Execs -> Dirs \cup {NoDir}]
      /\ pc \in [Execs -> {"new", "ready", "loaded", "opened", "ended", "killed"}]
      /\ pc' \in [Execs -> {"new", "ready", "loaded", "opened", "ended", "killed"}]
      /\ left \in [Execs -> Contents] /\ data \in [Execs -> Tree]
  BY StoreStep, TypeFacts DEF StoreInv, TypeOK
<1> USE DEF Done, disk, call
<1> DEFINE stutter == Promise!vars' = Promise!vars
\* The execution e goes on, and sees what it saw.
<1>a. ASSUME NEW e \in Execs, Live(e), Live(e)', Seen(Content(e))' = Seen(Content(e)),
             UNCHANGED <<dir, left>>,
             \A f \in Execs \ {e} : pc'[f] = pc[f] /\ data'[f] = data[f],
             \A d \in Dirs : d # dir[e] => file'[d] = file[d]
      PROVE  stutter
  <2>1. \A f \in Execs \ {e} : Phase(f)' = Phase(f) /\ Seen(Content(f))' = Seen(Content(f))
                               /\ Seen(left[f])' = Seen(left[f])
    BY <1>a, MapsChange
  <2>2. Phase(e)' = Phase(e) /\ Seen(left[e])' = Seen(left[e])
    <3>1. Phase(e)' = Phase(e)
      BY <1>a, PhaseFacts DEF Phase, Live
    <3>2. Seen(left[e])' = Seen(left[e])
      BY <1>a DEF Seen, Get
    <3>. QED
      BY <3>1, <3>2
  <2>3. \A f \in Execs : Phase(f)' = Phase(f) /\ Seen(Content(f))' = Seen(Content(f))
                         /\ Seen(left[f])' = Seen(left[f])
    BY <1>a, <2>1, <2>2
  <2>. QED
    BY <2>3 DEF Promise!vars
\* It goes on, and sees something else.
<1>b. ASSUME NEW e \in Execs, NEW seen, Live(e), Live(e)', Seen(Content(e))' = seen,
             UNCHANGED <<dir, left>>,
             \A f \in Execs \ {e} : pc'[f] = pc[f] /\ data'[f] = data[f],
             \A d \in Dirs : d # dir[e] => file'[d] = file[d]
      PROVE  /\ [f \in Execs |-> Phase(f)]' = [f \in Execs |-> Phase(f)]
             /\ [f \in Execs |-> Seen(left[f])]' = [f \in Execs |-> Seen(left[f])]
             /\ Promise!Become(e, seen)
  <2>1. \A f \in Execs \ {e} : Phase(f)' = Phase(f) /\ Seen(Content(f))' = Seen(Content(f))
                               /\ Seen(left[f])' = Seen(left[f])
    BY <1>b, MapsChange
  <2>2. Phase(e)' = Phase(e) /\ Seen(left[e])' = Seen(left[e])
    <3>1. Phase(e)' = Phase(e)
      BY <1>b, PhaseFacts DEF Phase, Live
    <3>2. Seen(left[e])' = Seen(left[e])
      BY <1>b DEF Seen, Get
    <3>. QED
      BY <3>1, <3>2
  <2>3. \A f \in Execs : Phase(f)' = Phase(f) /\ Seen(left[f])' = Seen(left[f])
    BY <2>1, <2>2
  <2>4. Promise!Become(e, seen)
    BY <1>b, <2>1 DEF Promise!Become
  <2>. QED
    BY <2>3, <2>4
\* It ends, and leaves something behind.
<1>c. ASSUME NEW e \in Execs, NEW next, NEW rest, Live(e), ~Live(e)', Phase(e)' = next,
             Seen(left[e])' = rest, UNCHANGED <<dir, data>>,
             \A f \in Execs \ {e} : pc'[f] = pc[f] /\ left'[f] = left[f],
             \A d \in Dirs : d # dir[e] => file'[d] = file[d]
      PROVE  /\ Promise!Enter(e, next) /\ Promise!Become(e, Promise!Empty)
             /\ [f \in Execs |-> Seen(left[f])]' = [[f \in Execs |-> Seen(left[f])] EXCEPT ![e] = rest]
  <2>1. \A f \in Execs \ {e} : Phase(f)' = Phase(f) /\ Seen(Content(f))' = Seen(Content(f))
                               /\ Seen(left[f])' = Seen(left[f])
    BY <1>c, MapsChange
  <2>2. Content(e)' = NoFile
    BY <1>c DEF Content, Live
  <2>3. Seen(NoFile)' = Seen(NoFile)
    BY DEF Seen, Get, Truncated, NoFile, NoData
  <2>4. Seen(Content(e))' = Promise!Empty
    BY <2>2, <2>3, SeenNothing
  <2>. QED
    BY <1>c, <2>1, <2>4 DEF Promise!Enter, Promise!Become
<1>1. ASSUME NEW e \in Execs, NEW d \in Dirs, Create(e, d) PROVE Promise!Start(e)
  <2>1. /\ pc[e] = "new" /\ pc'[e] = "ready" /\ dir'[e] = d /\ UNCHANGED <<file, data, left>>
        /\ Free(d)
        /\ \A f \in Execs \ {e} : pc'[f] = pc[f] /\ dir'[f] = dir[f]
    BY <1>0, <1>1 DEF Create, Free
  <2>2. \A f \in Execs \ {e} : Phase(f)' = Phase(f) /\ Seen(Content(f))' = Seen(Content(f))
    BY <2>1, OthersSee
  <2>3. Phase(e) = "new" /\ Phase(e)' = "running" /\ Content(e)' = file[d]
    BY <2>1 DEF Phase, Live, Content
  <2>4. Seen(Content(e))' = Seen(file[d]) /\ UNCHANGED [f \in Execs |-> Seen(left[f])]
    BY <2>1, <2>3 DEF Seen, Get
  <2>5. Seen(file[d]) \in {Promise!Empty} \cup Promise!Found
    <3>1. CASE file[d] = NoFile
      BY <3>1, SeenNothing
    <3>2. CASE file[d] # NoFile
      <4>1. PICK f \in Execs : Abandoned(f) /\ file[d] = left[f]
        BY <1>0, <2>1, <3>2 DEF Leftover
      <4>2. Phase(f) = "abandoned"
        BY <1>0, <4>1, PhaseFacts
      <4>. QED
        BY <4>1, <4>2 DEF Promise!Found
    <3>. QED
      BY <3>1, <3>2
  <2>6. Promise!Enter(e, "running") /\ Promise!Become(e, Seen(file[d]))
    BY <2>2, <2>3, <2>4 DEF Promise!Enter, Promise!Become
  <2>. QED
    BY <2>3, <2>4, <2>5, <2>6 DEF Promise!Start
<1>2. ASSUME NEW e \in Execs, NEW o \in Ops, Set(e, o) PROVE stutter
  <2>1. /\ UNCHANGED <<dir, file, left>> /\ pc[e] = "ready" /\ pc'[e] = "loaded"
        /\ \A f \in Execs \ {e} : pc'[f] = pc[f] /\ data'[f] = data[f]
    BY <1>0, <1>2 DEF Set
  <2>2. Live(e) /\ Live(e)' /\ Content(e)' = Content(e)
    BY <2>1 DEF Live, Content
  <2>3. Seen(Content(e))' = Seen(Content(e))
    BY <2>2 DEF Seen, Get
  <2>. QED
    BY <1>a, <2>1, <2>2, <2>3
<1>3. ASSUME NEW e \in Execs, Open(e) PROVE Promise!Set(e) \/ stutter
  <2>1. Live(e) /\ dir[e] \in Dirs /\ pc[e] = "loaded"
    BY <1>0, <1>3 DEF Open, Live, OwnDirs
  <2>2. CASE made[dir[e]]
    <3>1. /\ UNCHANGED <<dir, left, data>> /\ pc'[e] = "opened"
          /\ \A f \in Execs \ {e} : pc'[f] = pc[f]
          /\ \A d \in Dirs : d # dir[e] => file'[d] = file[d]
      BY <1>0, <1>3, <2>2 DEF Open
    <3>2. Live(e)' /\ Content(e)' = Holding(data[e]) /\ Content(e) = file[dir[e]]
          /\ Phase(e) = "running"
      BY <2>1, <3>1 DEF Live, Content, Phase
    <3>3. /\ file[dir[e]] # Truncated /\ file[dir[e]] \in Contents
          /\ \E p \in Paths, v \in Values : data[e] = Put(file[dir[e]].tree, p, v)
      BY <1>0, <2>1 DEF Working
    <3>4. PICK p \in Paths, v \in Values : data[e] = Put(file[dir[e]].tree, p, v)
      BY <3>3
    <3>5. Seen(Content(e)) = file[dir[e]].tree /\ Seen(Content(e)) # Promise!Unusable
      BY <3>2, <3>3, SeenTree, SeenUsable
    <3>6. Seen(Content(e))' = Promise!Stored(Seen(Content(e)), p, v)
      <4>1. Seen(Content(e))' = Seen(Holding(data[e]))
        BY <3>2 DEF Seen, Get
      <4>. QED
        BY <3>3, <3>4, <3>5, <4>1, PutStores, ContentTree
    <3>7. Promise!Become(e, Promise!Stored(Seen(Content(e)), p, v))
          /\ UNCHANGED <<[f \in Execs |-> Phase(f)], [f \in Execs |-> Seen(left[f])]>>
      BY <1>b, <2>1, <3>1, <3>2, <3>6
    <3>. QED
      BY <3>2, <3>5, <3>7 DEF Promise!Set
  <2>3. CASE ~made[dir[e]]
    <3>1. /\ UNCHANGED <<dir, left, file>> /\ pc'[e] = "ready"
          /\ \A f \in Execs \ {e} : pc'[f] = pc[f] /\ data'[f] = data[f]
      BY <1>0, <1>3, <2>3 DEF Open
    <3>2. Live(e)' /\ Content(e)' = Content(e)
      BY <2>1, <3>1 DEF Live, Content
    <3>3. Seen(Content(e))' = Seen(Content(e))
      BY <3>2 DEF Seen, Get
    <3>. QED
      BY <1>a, <2>1, <3>1, <3>2, <3>3
  <2>. QED
    BY <2>2, <2>3
<1>4. ASSUME NEW e \in Execs, Write(e) PROVE stutter
  <2>1. Live(e) /\ dir[e] \in Dirs /\ pc[e] = "opened"
    BY <1>0, <1>4 DEF Write, Live, OwnDirs
  <2>2. /\ UNCHANGED <<dir, left>> /\ pc'[e] = "ready" /\ file'[dir[e]] = Holding(data[e])
        /\ \A f \in Execs \ {e} : pc'[f] = pc[f] /\ data'[f] = data[f]
        /\ \A d \in Dirs : d # dir[e] => file'[d] = file[d]
    BY <1>0, <1>4, <2>1 DEF Write
  <2>3. Live(e)' /\ Content(e)' = Content(e)
    BY <2>1, <2>2 DEF Live, Content
  <2>4. Seen(Content(e))' = Seen(Content(e))
    BY <2>3 DEF Seen, Get
  <2>. QED
    BY <1>a, <2>1, <2>2, <2>3, <2>4
<1>5. ASSUME NEW e \in Execs, CutShort(e) PROVE Promise!Break(e) \/ stutter
  <2>1. /\ UNCHANGED <<dir, left, file>> /\ pc'[e] = "ready" /\ pc[e] \in {"loaded", "opened"}
        /\ \A f \in Execs \ {e} : pc'[f] = pc[f] /\ data'[f] = data[f]
    BY <1>0, <1>5 DEF CutShort
  <2>2. Live(e) /\ Live(e)' /\ Phase(e) = "running" /\ Content(e)' = file[dir[e]]
    BY <2>1 DEF Live, Content, Phase
  <2>3. CASE pc[e] = "loaded"
    <3>1. Content(e)' = Content(e)
      BY <2>2, <2>3 DEF Content
    <3>2. Seen(Content(e))' = Seen(Content(e))
      BY <3>1 DEF Seen, Get
    <3>. QED
      BY <1>a, <2>1, <2>2, <3>2
  <2>4. CASE pc[e] = "opened"
    <3>1. Content(e)' = Truncated
      BY <1>0, <2>2, <2>4 DEF Working
    <3>2. Seen(Content(e))' = Promise!Unusable
      BY <3>1 DEF Seen, Truncated, NoData, Promise!Unusable
    <3>. QED
      BY <1>b, <2>1, <2>2, <3>2 DEF Promise!Break
  <2>. QED
    BY <2>1, <2>3, <2>4
<1>6. ASSUME NEW e \in Execs, Switch(e) PROVE stutter
  <2>1. UNCHANGED <<dir, left, file, pc, data>> /\ Live(e)
    BY <1>6 DEF Switch, Live
  <2>2. Live(e)' /\ Content(e)' = Content(e)
    BY <2>1 DEF Live, Content
  <2>3. Seen(Content(e))' = Seen(Content(e))
    BY <2>2 DEF Seen, Get
  <2>. QED
    BY <1>a, <2>1, <2>2, <2>3
<1>7. ASSUME NEW e \in Execs, Exit(e) PROVE Promise!End(e) \/ Promise!Abandon(e)
  <2>1. /\ pc[e] = "ready" /\ pc'[e] = "ended" /\ Live(e) /\ ~Live(e)' /\ dir[e] \in Dirs
        /\ Phase(e) = "running" /\ Content(e) = file[dir[e]]
    BY <1>0, <1>7 DEF Exit, Live, Phase, Content, OwnDirs
  <2>2. /\ UNCHANGED <<dir, data>> /\ left'[e] = file'[dir[e]]
        /\ \A f \in Execs \ {e} : pc'[f] = pc[f] /\ left'[f] = left[f]
        /\ \A d \in Dirs : d # dir[e] => file'[d] = file[d]
    BY <1>0, <1>7 DEF Exit
  <2>3. CASE e \in Debug
    <3>1. left'[e] = file[dir[e]] /\ Phase(e)' = "abandoned"
      BY <1>7, <2>1, <2>2, <2>3 DEF Exit, Phase, Live
    <3>2. Seen(left[e])' = Seen(Content(e))
      BY <2>1, <3>1 DEF Seen, Get
    <3>. QED
      BY <1>c, <2>1, <2>2, <3>1, <3>2 DEF Promise!Abandon
  <2>4. CASE e \notin Debug
    <3>1. left'[e] = NoFile /\ Phase(e)' = "ended" /\ left[e] = NoFile
      BY <1>0, <1>7, <2>1, <2>2, <2>4 DEF Exit, Phase, Live, Tidy, Abandoned
    <3>2. Seen(left[e])' = Seen(left[e])
      BY <3>1 DEF Seen, Get
    <3>3. /\ Promise!Enter(e, "ended") /\ Promise!Become(e, Promise!Empty)
          /\ [f \in Execs |-> Seen(left[f])]' =
               [[f \in Execs |-> Seen(left[f])] EXCEPT ![e] = Seen(left[e])]
      BY <1>c, <2>1, <2>2, <3>1, <3>2
    <3>4. UNCHANGED [f \in Execs |-> Seen(left[f])]
      BY <3>3
    <3>. QED
      BY <2>1, <3>3, <3>4 DEF Promise!End
  <2>. QED
    BY <2>3, <2>4
<1>8. ASSUME NEW e \in Execs, Kill(e) PROVE Promise!Abandon(e)
  <2>1. /\ UNCHANGED <<dir, data, file>> /\ pc'[e] = "killed" /\ left'[e] = file[dir[e]] /\ Live(e)
        /\ \A f \in Execs \ {e} : pc'[f] = pc[f] /\ left'[f] = left[f]
    BY <1>0, <1>8 DEF Kill
  <2>2. Phase(e) = "running" /\ Phase(e)' = "abandoned" /\ ~Live(e)'
    BY <2>1 DEF Phase, Live
  <2>3. Seen(left[e])' \in {Seen(Content(e)), Promise!Unusable}
    <3>1. CASE pc[e] = "opened"
      <4>1. left'[e] = Truncated
        BY <1>0, <2>1, <3>1 DEF Working
      <4>. QED
        BY <4>1 DEF Seen, Truncated, NoData, Promise!Unusable
    <3>2. CASE pc[e] # "opened"
      <4>1. left'[e] = Content(e)
        BY <2>1, <3>2 DEF Live, Content
      <4>. QED
        BY <4>1 DEF Seen, Get
    <3>. QED
      BY <3>1, <3>2
  <2>. QED
    BY <1>c, <2>1, <2>2, <2>3 DEF Promise!Abandon
<1>9. CASE UNCHANGED vars
  <2>1. \A e \in Execs : UNCHANGED <<Phase(e), Seen(Content(e)), Seen(left[e])>>
    BY <1>9 DEF vars, Phase, Live, Seen, Content, Get
  <2>. QED
    BY <2>1 DEF Promise!vars
<1>. QED
  BY <1>1, <1>2, <1>3, <1>4, <1>5, <1>6, <1>7, <1>8, <1>9, NextCases DEF Promise!Next

\* The store gives every execution values of its own that change at once.
THEOREM StoreImplements == Spec => KeepsValuesApart
<1>1. Spec => []StoreInv
  BY StoreStart, StoreStep, PTL DEF Spec
<1>. QED
  BY <1>1, InitImplements, StepImplements, PTL DEF Spec, KeepsValuesApart, Promise!Spec
=============================================================================
