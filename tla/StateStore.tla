----------------------------- MODULE StateStore -----------------------------
(***************************************************************************)
(* StateService: values that the processes of one execution of an          *)
(* application leave for each other in a file of the state directory.      *)
(*                                                                         *)
(* An execution is the outer process and, while it waits, the one it runs  *)
(* in a managed instance, into which the directory is mounted.  A set      *)
(* loads the file, changes what it loaded and writes the file anew; nothing*)
(* locks the file.  Executions run in parallel in directories of their own,*)
(* named by the pid; one that they share (CRAFT_STATE_DIR) is not modelled.*)
(***************************************************************************)
EXTENDS Naturals, FiniteSets, SequencesExt

CONSTANTS
  Execs,   \* executions of applications
  Dirs,    \* directories, one for every pid
  NoDir,   \* the directory of an execution that has not started
  Paths,   \* key paths; the first key also names the file
  Values,  \* values that can be saved
  Dict,    \* the empty dictionary, one of them or not
  Debug,   \* the executions with CRAFT_DEBUG set
  Limit    \* bound in place of 1 MiB: the values a file can hold

ASSUME StoreAssumption ==
  /\ Debug \subseteq Execs /\ Limit \in Nat /\ NoDir \notin Dirs
  /\ Paths \subseteq Seq(STRING) \ {<<>>}

\* The content of a file: the values by path, as in the nested dictionary. A
\* file that was opened for writing has no content until it is written.
Tree == UNION {[ps -> Values] : ps \in SUBSET Paths}
NoData == [p \in {} |-> Dict]
NoFile == [state |-> "none", tree |-> NoData]
Truncated == [state |-> "truncated", tree |-> NoData]
Holding(tree) == [state |-> "tree", tree |-> tree]

VARIABLES
  made,    \* made[d]: the directory exists
  file,    \* file[d]: the state file in it
  pc,
  dir,     \* dir[e]: StateService.__state_dir
  actor,   \* the process of the execution that is running
  force,   \* the argument overwrite of set
  data,    \* what set has loaded and changed
  left     \* history: what a killed execution, or one with CRAFT_DEBUG, has left

disk == <<made, file>>
call == <<force, data>>
vars == <<disk, pc, dir, actor, call, left>>

Ops == [path : Paths, value : Values, overwrite : BOOLEAN]
Live(e) == pc[e] \in {"ready", "loaded", "opened"}
-----------------------------------------------------------------------------
(* StateService._set on a loaded file. *)

\* A key on the way holds something that is no dictionary.
Blocked(tree, path) ==
  \E p \in DOMAIN tree : IsStrictPrefix(p, path) /\ tree[p] # Dict

\* Mutant: a dictionary of values is not taken for a value.
TakenByValue(tree, path) == path \in DOMAIN tree

\* The last key is there: with a value, or with a dictionary of values.
Taken(tree, path) == \E p \in DOMAIN tree : IsPrefix(path, p)

\* Mutant: a value is put on top of the values beneath it.
PutMerging(tree, path, value) ==
  LET others == {p \in DOMAIN tree : p # path /\ ~IsStrictPrefix(p, path)}
  IN  [p \in others \cup {path} |-> IF p = path THEN value ELSE tree[p]]

Put(tree, path, value) ==
  LET others == {p \in DOMAIN tree : ~IsPrefix(path, p) /\ ~IsStrictPrefix(p, path)}
  IN  [p \in others \cup {path} |-> IF p = path THEN value ELSE tree[p]]

\* What get returns: the values beneath a path, by the rest of their paths; none
\* if it raises, because a key is not there or not a dictionary.
Get(tree, path) ==
  LET found == {p \in DOMAIN tree : IsPrefix(path, p)}
  IN  [rest \in {SubSeq(p, Len(path) + 1, Len(p)) : p \in found} |-> tree[path \o rest]]
-----------------------------------------------------------------------------
Init ==
  /\ made = [d \in Dirs |-> FALSE] /\ file = [d \in Dirs |-> NoFile]
  /\ pc = [e \in Execs |-> "new"]
  /\ dir = [e \in Execs |-> NoDir]
  /\ actor = [e \in Execs |-> "outer"]
  /\ force = [e \in Execs |-> FALSE] /\ data = [e \in Execs |-> NoData]
  /\ left = [e \in Execs |-> NoFile]

\* Mutant: every execution uses the same directory.
CreateAnywhere(e, d) ==
  /\ pc[e] = "new"
  /\ dir' = [dir EXCEPT ![e] = d]
  /\ made' = [made EXCEPT ![d] = TRUE]
  /\ pc' = [pc EXCEPT ![e] = "ready"]
  /\ UNCHANGED <<file, actor, call, left>>

\* The outer process makes the directory, or finds one that is there.
Create(e, d) ==
  /\ pc[e] = "new"
  /\ \A f \in Execs : Live(f) => dir[f] # d
  /\ dir' = [dir EXCEPT ![e] = d]
  /\ made' = [made EXCEPT ![d] = TRUE]
  /\ pc' = [pc EXCEPT ![e] = "ready"]
  /\ UNCHANGED <<file, actor, call, left>>

\* set up to the save.  A file without content loads as None, which has no
\* keys: any call raises, and get does so too.
Set(e, o) ==
  LET tree == file[dir[e]].tree
  IN  /\ pc[e] = "ready"
      /\ file[dir[e]] # Truncated
      /\ ~Blocked(tree, o.path)
      /\ o.overwrite \/ ~Taken(tree, o.path)
      /\ LET changed == Put(tree, o.path, o.value)
         IN  /\ Cardinality(DOMAIN changed) <= Limit
             /\ data' = [data EXCEPT ![e] = changed]
      /\ force' = [force EXCEPT ![e] = o.overwrite]
      /\ pc' = [pc EXCEPT ![e] = "loaded"]
      /\ UNCHANGED <<disk, dir, actor, left>>

Done(e) ==
  /\ pc' = [pc EXCEPT ![e] = "ready"]
  /\ force' = [force EXCEPT ![e] = FALSE]
  /\ data' = [data EXCEPT ![e] = NoData]

\* _save_state_file opens the file, which fails without a directory.
Open(e) ==
  /\ pc[e] = "loaded"
  /\ IF made[dir[e]]
     THEN /\ file' = [file EXCEPT ![dir[e]] = Truncated]
          /\ pc' = [pc EXCEPT ![e] = "opened"]
          /\ UNCHANGED call
     ELSE Done(e) /\ UNCHANGED file
  /\ UNCHANGED <<made, dir, actor, left>>

Write(e) ==
  /\ pc[e] = "opened"
  /\ file' = [file EXCEPT ![dir[e]] = Holding(data[e])]
  /\ Done(e)
  /\ UNCHANGED <<made, dir, actor, left>>

\* The write raises (the disk is full), or it is the managed process that dies.
CutShort(e) ==
  /\ pc[e] \in {"loaded", "opened"}
  /\ Done(e)
  /\ \/ UNCHANGED actor
     \/ actor[e] = "inner" /\ actor' = [actor EXCEPT ![e] = "outer"]
  /\ UNCHANGED <<disk, dir, left>>

\* run_managed: the outer process waits for the one in the instance, which
\* returns between two calls.
Switch(e) ==
  /\ pc[e] = "ready"
  /\ actor' = [actor EXCEPT ![e] = IF @ = "outer" THEN "inner" ELSE "outer"]
  /\ UNCHANGED <<disk, pc, dir, call, left>>

\* The outer process removes the directory at exit.
Exit(e) ==
  /\ pc[e] = "ready" /\ actor[e] = "outer"
  /\ IF e \in Debug THEN UNCHANGED disk
     ELSE /\ made' = [made EXCEPT ![dir[e]] = FALSE]
          /\ file' = [file EXCEPT ![dir[e]] = NoFile]
  /\ left' = [left EXCEPT ![e] = file'[dir[e]]]
  /\ pc' = [pc EXCEPT ![e] = "ended"]
  /\ UNCHANGED <<dir, actor, call>>

Kill(e) ==
  /\ Live(e)
  /\ left' = [left EXCEPT ![e] = file[dir[e]]]
  /\ pc' = [pc EXCEPT ![e] = "killed"]
  /\ UNCHANGED <<disk, dir, actor, call>>

Next ==
  \E e \in Execs :
    \/ \E d \in Dirs : Create(e, d)
    \/ \E o \in Ops : Set(e, o)
    \/ Open(e) \/ Write(e) \/ CutShort(e) \/ Switch(e) \/ Exit(e) \/ Kill(e)

Spec == Init /\ [][Next]_vars
-----------------------------------------------------------------------------
\* Every variable stays in its type, and no value of a file lies beneath
\* another, or beneath a dictionary that is empty.
TypeOK ==
  /\ made \in [Dirs -> BOOLEAN]
  /\ file \in [Dirs -> {Holding(tree) : tree \in Tree} \cup {NoFile, Truncated}]
  /\ \A d \in Dirs : made[d] \/ file[d] = NoFile
  /\ \A d \in Dirs : \A p, q \in DOMAIN file[d].tree :
       ~IsStrictPrefix(p, q)
  /\ pc \in [Execs -> {"new", "ready", "loaded", "opened", "ended", "killed"}]
  /\ dir \in [Execs -> Dirs \cup {NoDir}]
  /\ actor \in [Execs -> {"outer", "inner"}]
  /\ force \in [Execs -> BOOLEAN]
  /\ data \in [Execs -> Tree]
  /\ left \in [Execs -> {Holding(tree) : tree \in Tree} \cup {NoFile, Truncated}]

\* A set that may not overwrite leaves every value in the file as it was, those
\* beneath the path it sets, too.
NoOverwrite ==
  [][\A e \in Execs :
       pc[e] = "ready" /\ pc'[e] = "loaded" /\ ~force'[e] =>
         \A p \in DOMAIN file[dir[e]].tree :
           file[dir[e]].tree[p] # Dict =>
             p \in DOMAIN data'[e] /\ data'[e][p] = file[dir[e]].tree[p]]_vars

(* What the processes of an execution see: the values get returns.  A set takes
   effect when the file is opened; a file that is left without content is
   unusable. *)
Seen(content) ==
  IF content = Truncated THEN [p \in {<<>>} |-> p]
  ELSE [p \in DOMAIN content.tree |-> Get(content.tree, p)[<<>>]]
Content(e) ==
  CASE pc[e] = "opened" -> Holding(data[e])
    [] pc[e] \in {"ready", "loaded"} -> file[dir[e]]
    [] OTHER -> NoFile

Phase(e) ==
  CASE Live(e) -> "running"
    [] pc[e] = "killed" \/ (pc[e] = "ended" /\ e \in Debug) -> "abandoned"
    [] OTHER -> pc[e]

Promise == INSTANCE ExecutionValues WITH
             phase <- [e \in Execs |-> Phase(e)],
             values <- [e \in Execs |-> Seen(Content(e))],
             left <- [e \in Execs |-> Seen(left[e])]

\* Loading, changing and writing the file, in whichever order the processes of
\* several executions do so, comes down to values that every execution has for
\* itself, that change at once, and that only an execution which was killed, or
\* told to keep its directory, leaves to a later one.
KeepsValuesApart == Promise!Spec
=============================================================================
