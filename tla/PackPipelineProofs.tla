------------------------- MODULE PackPipelineProofs -------------------------
(***************************************************************************)
(* Proofs about PackPipeline, for any parts, artifacts, contents, generated *)
(* files and command lines: the types, that a skipped artifact is current   *)
(* unless an earlier command orphaned it, and that what pack reports was    *)
(* made from the sources.                                                   *)
(***************************************************************************)
EXTENDS PackPipeline, TLAPS

\* The disjuncts of Next in the form the proofs below go through.
LEMMA NextCases ==
  ASSUME [Next]_vars
  PROVE  \/ \E p \in Parts : EditSource(p)
         \/ EditMetadata \/ EditAsset
         \/ \E a \in Artifacts : Tamper(a) \/ RemoveArtifact(a)
         \/ \E ps \in SUBSET Parts : Clean(ps)
         \/ \E c \in Used, ps \in SUBSET Parts \ {{}}, sh \in BOOLEAN : Start(c, ps, sh)
         \/ \E p \in Parts, n \in Levels : Execute(p, n)
         \/ LifecycleDone \/ UpdateProject \/ WriteMetadata
         \/ \E a \in Artifacts : \/ Decide(a) \/ WritePackageFiles(a)
                                 \/ ReadExtraAssets(a) \/ WriteExtraAssets(a)
                                 \/ PackArtifact(a)
         \/ Finish \/ Report \/ Return \/ Abort
         \/ UNCHANGED vars
BY DEF Next, User, Program

\* The actions planned for parts ps up to a step are pairs of a part and a step.
LEMMA PlannedType ==
  ASSUME NEW ps \in SUBSET Parts, NEW target \in Levels
  PROVE  Planned(ps, target) \in SUBSET (Parts \X Levels)
<1>1. ASSUME NEW n \in 1..target PROVE n \in Levels
  BY DEF Levels, Prime
<1>2. \A t \in ps \X (1..target) : t[1] \in Parts /\ t[2] \in Levels /\ t = <<t[1], t[2]>>
  BY <1>1
<1>. QED
  BY <1>2 DEF Planned

\* Type correctness is inductive.
LEMMA TypeStep == TypeOK /\ [Next]_vars => TypeOK'
<1> SUFFICES ASSUME TypeOK, [Next]_vars PROVE TypeOK'
  OBVIOUS
<1> USE PipelineAssumption DEF TypeOK, PCs, Outcomes, Levels, Commands, tree, process, history
<1>1. ASSUME NEW p \in Parts, EditSource(p) PROVE TypeOK'
  BY <1>1 DEF EditSource
<1>2. CASE EditMetadata
  BY <1>2 DEF EditMetadata
<1>3. CASE EditAsset
  <2>1. newer' \in [Artifacts -> BOOLEAN] /\ torn' \in [Artifacts -> BOOLEAN]
    BY <1>3 DEF EditAsset
  <2>. QED
    BY <1>3, <2>1 DEF EditAsset
<1>4. ASSUME NEW a \in Artifacts, Tamper(a) PROVE TypeOK'
  BY <1>4 DEF Tamper
<1>5. ASSUME NEW a \in Artifacts, RemoveArtifact(a) PROVE TypeOK'
  BY <1>5 DEF RemoveArtifact
<1>6. ASSUME NEW ps \in SUBSET Parts, Clean(ps) PROVE TypeOK'
  BY <1>6 DEF Clean, Prime
<1>7. ASSUME NEW c \in Used, NEW ps \in SUBSET Parts, NEW sh \in BOOLEAN, Start(c, ps, sh)
      PROVE TypeOK'
  <2>1. Target(c, sh) \in Levels
    BY DEF Target, Pull, Build, Stage, Prime
  <2>3. todo' \in SUBSET (Parts \X Levels)
    BY <1>7, <2>1, PlannedType DEF Start
  <2>4. UNCHANGED tree /\ UNCHANGED <<copied, orphaned, torn>>
    BY <1>7 DEF Start
  <2>5. /\ pc' \in PCs /\ cmd' \in Commands /\ shell' \in BOOLEAN
        /\ loaded' \in Versions \cup {Absent}
        /\ requires' \in BOOLEAN /\ updated' \in BOOLEAN
        /\ outcome' \in [Artifacts -> Outcomes] /\ worked' \in BOOLEAN
        /\ quiet' \in {"no", "run", "yes"}
    BY <1>7 DEF Start
  <2>. QED
    BY <2>3, <2>4, <2>5
<1>8. ASSUME NEW p \in Parts, NEW n \in Levels, Execute(p, n) PROVE TypeOK'
  <2>1. level' \in [Parts -> Levels] /\ todo' \in SUBSET (Parts \X Levels)
    BY <1>8 DEF Execute, Effect
  <2>2. pulled' \in [Parts -> Versions] /\ outdated' \in [Parts -> BOOLEAN]
    BY <1>8 DEF Execute, Effect
  <2>3. primed' \in [Parts -> Versions \cup {Absent, Partial}]
    BY <1>8 DEF Execute, Effect
  <2>. QED
    BY <1>8, <2>1, <2>2, <2>3 DEF Execute
<1>9. CASE LifecycleDone
  BY <1>9 DEF LifecycleDone
<1>10. CASE UpdateProject
  BY <1>10 DEF UpdateProject
<1>11. CASE WriteMetadata
  <2>1. loaded \in Versions \cup {Absent}
    OBVIOUS
  <2>2. files' \in [Artifacts -> [Files -> Versions \cup {Absent, Partial, Tampered}]]
    BY <1>11 DEF WriteMetadata
  <2>. QED
    BY <1>11, <2>2 DEF WriteMetadata
<1>12. ASSUME NEW a \in Artifacts, Decide(a) PROVE TypeOK'
  BY <1>12 DEF Decide, Packing
<1>13. ASSUME NEW a \in Artifacts, WritePackageFiles(a) PROVE TypeOK'
  <2>1. [f \in Files |-> IF f \in Generated[a] \ {Asset} THEN loaded ELSE files[a][f]]
          \in [Files -> Versions \cup {Absent, Partial, Tampered}]
    OBVIOUS
  <2>2. files' \in [Artifacts -> [Files -> Versions \cup {Absent, Partial, Tampered}]]
    BY <1>13, <2>1 DEF WritePackageFiles
  <2>3. outcome' \in [Artifacts -> Outcomes]
    BY <1>13 DEF WritePackageFiles
  <2>. QED
    BY <1>13, <2>2, <2>3 DEF WritePackageFiles
<1>21. ASSUME NEW a \in Artifacts, ReadExtraAssets(a) PROVE TypeOK'
  BY <1>21 DEF ReadExtraAssets
<1>14. ASSUME NEW a \in Artifacts, WriteExtraAssets(a) PROVE TypeOK'
  <2>1. files' \in [Artifacts -> [Files -> Versions \cup {Absent, Partial, Tampered}]]
    <3>1. CASE Asset \in Generated[a]
      <4>1. files' = [files EXCEPT ![a] = [files[a] EXCEPT ![Asset] = copied[a]]]
        BY <1>14, <3>1 DEF WriteExtraAssets
      <4>2. [files[a] EXCEPT ![Asset] = copied[a]] \in [Files -> Versions \cup {Absent, Partial, Tampered}]
        OBVIOUS
      <4>. QED
        BY <4>1, <4>2
    <3>2. CASE Asset \notin Generated[a]
      BY <1>14, <3>2 DEF WriteExtraAssets
    <3>. QED
      BY <3>1, <3>2
  <2>2. /\ newer' \in [Artifacts -> BOOLEAN] /\ outcome' \in [Artifacts -> Outcomes]
        /\ torn' \in [Artifacts -> BOOLEAN] /\ copied' \in [Artifacts -> Versions \cup {Absent}]
    BY <1>14 DEF WriteExtraAssets
  <2>3. UNCHANGED <<src, metadata, asset, outdated, pulled, level, primed, artifact,
                    pc, cmd, shell, loaded, todo, requires, updated, worked, orphaned, quiet>>
    BY <1>14 DEF WriteExtraAssets
  <2>. QED
    BY <2>1, <2>2, <2>3
<1>15. ASSUME NEW a \in Artifacts, PackArtifact(a) PROVE TypeOK'
  <2>1. Content(a) \in PrimeContent
    BY DEF Content, PrimeContent
  <2>. QED
    BY <1>15, <2>1 DEF PackArtifact
<1>16. CASE Finish
  BY <1>16 DEF Finish, Packing
<1>17. CASE Report
  BY <1>17 DEF Report, Exit, Orphan, Touched
<1>18. CASE Return
  BY <1>18 DEF Return, Exit, Orphan, Touched
<1>19. CASE Abort
  <2>1. /\ pc' \in PCs /\ cmd' \in Commands /\ shell' \in BOOLEAN
        /\ loaded' \in Versions \cup {Absent} /\ todo' = {}
        /\ requires' \in BOOLEAN /\ updated' \in BOOLEAN
        /\ outcome' \in [Artifacts -> Outcomes] /\ worked' \in BOOLEAN
        /\ copied' \in [Artifacts -> Versions \cup {Absent}]
        /\ quiet' \in {"no", "run", "yes"}
    BY <1>19 DEF Abort, Exit
  <2>2. /\ orphaned' \in [Artifacts -> BOOLEAN] /\ torn' \in [Artifacts -> BOOLEAN]
        /\ newer' \in [Artifacts -> BOOLEAN]
    BY <1>19 DEF Abort, Orphan, Touched
  <2>5. files' \in [Artifacts -> [Files -> Versions \cup {Absent, Partial, Tampered}]]
    <3>1. ASSUME NEW a \in Artifacts, files' = [files EXCEPT ![a][Asset] = Partial]
          PROVE  files' \in [Artifacts -> [Files -> Versions \cup {Absent, Partial, Tampered}]]
      <4>1. files' = [files EXCEPT ![a] = [files[a] EXCEPT ![Asset] = Partial]]
        BY <3>1
      <4>2. [files[a] EXCEPT ![Asset] = Partial] \in [Files -> Versions \cup {Absent, Partial, Tampered}]
        OBVIOUS
      <4>. QED
        BY <4>1, <4>2
    <3>. QED
      BY <1>19, <3>1 DEF Abort
  <2>3. primed' \in [Parts -> Versions \cup {Absent, Partial}]
    BY <1>19 DEF Abort
  <2>4. artifact' \in [Artifacts -> PrimeContent \cup {NotAFile, HalfWritten}]
    BY <1>19 DEF Abort
  <2>. QED
    BY <1>19, <2>1, <2>2, <2>3, <2>4, <2>5 DEF Abort
<1>20. CASE UNCHANGED vars
  BY <1>20 DEF vars
<1> HIDE DEF TypeOK
<1>. QED
  BY <1>1, <1>2, <1>3, <1>4, <1>5, <1>6, <1>7, <1>8, <1>9, <1>10, <1>11, <1>12, <1>13,
     <1>14, <1>15, <1>16, <1>17, <1>18, <1>19, <1>20, <1>21, NextCases

\* Every variable is in its type before the first command.
LEMMA InitTypes == Init => TypeOK
<1> SUFFICES ASSUME Init PROVE TypeOK
  OBVIOUS
<1>1. pulled \in [Parts -> Versions] /\ src \in [Parts -> Versions]
  BY DEF Init
<1>2. files \in [Artifacts -> [Files -> Versions \cup {Absent, Partial, Tampered}]]
  BY DEF Init
<1>3. /\ pc \in PCs /\ cmd \in Commands /\ shell \in BOOLEAN
      /\ outcome \in [Artifacts -> Outcomes] /\ worked \in BOOLEAN
      /\ orphaned \in [Artifacts -> BOOLEAN] /\ torn \in [Artifacts -> BOOLEAN]
      /\ copied \in [Artifacts -> Versions \cup {Absent}] /\ quiet \in {"no", "run", "yes"}
      /\ requires \in BOOLEAN /\ updated \in BOOLEAN
  BY DEF Init, PCs, Outcomes, Commands
<1>4. level \in [Parts -> Levels] /\ todo \in SUBSET (Parts \X Levels)
  BY DEF Init, Levels, Prime
<1>5. /\ metadata \in Versions /\ asset \in Versions
      /\ outdated \in [Parts -> BOOLEAN] /\ newer \in [Artifacts -> BOOLEAN]
      /\ primed \in [Parts -> Versions \cup {Absent, Partial}]
      /\ artifact \in [Artifacts -> PrimeContent \cup {NotAFile, HalfWritten}]
      /\ loaded \in Versions \cup {Absent}
  BY DEF Init
<1>. QED
  BY <1>1, <1>2, <1>3, <1>4, <1>5 DEF TypeOK

\* Every reachable state of the pipeline is well typed.
THEOREM PipelineTypes == Spec => []TypeOK
BY InitTypes, TypeStep, PTL DEF Spec
-----------------------------------------------------------------------------
(* The inductive invariant behind SkipIsSound. *)

\* What the process holds agrees with the phase it is in.
Phases ==
  /\ ~requires => todo = {}
  /\ worked => requires
  /\ pc = "idle" => ~worked
  /\ pc # "idle" => loaded \in Versions
  /\ pc # "idle" /\ cmd = "pack" /\ ~requires => \A p \in Parts : level[p] = Prime
  /\ pc \in {"idle", "exec", "update", "metadata"} =>
       \A a \in Artifacts : outcome[a] = "undecided"

\* An artifact file is whole unless it is orphaned, and what a command packed
\* is current until the command ends.
Whole(a) ==
  /\ artifact[a] \in PrimeContent \/ artifact[a] = NotAFile \/ orphaned[a]
  /\ outcome[a] = "packed" => artifact[a] = Content(a)

\* A part that differs between an artifact and its prime directory is the work
\* of the running command, or was cleaned and still has to be primed.
PartsKept(a) ==
  artifact[a] \in PrimeContent /\ ~orphaned[a] /\ ~worked =>
    \A p \in Parts : artifact[a].parts[p] = primed[p] \/ level[p] < Prime

\* Only package files are edited by hand; what is not generated is not there.
FilesSane(a) ==
  /\ files[a][Asset] # Tampered
  /\ \A f \in Files \ Generated[a] :
       f # Metadata \/ a # Default => files[a][f] = Absent

\* Outside the steps that write them, generated files are as they were packed,
\* or missing, or edited by hand.  metadata.yaml is rewritten by every run.
FilesKept(a) ==
  Conditional /\ artifact[a] \in PrimeContent /\ ~orphaned[a] /\ ~Touched(a) =>
    \A f \in Files :
      \/ f = Metadata /\ a = Default
      \/ files[a][f] = artifact[a].files[f]
      \/ f \in Generated[a] /\ files[a][f] \in {Absent, Tampered}

\* Before an artifact is packed its generated text files are as generated.
Materialized(a) ==
  Conditional /\ Touched(a) =>
    \A f \in Generated[a] \ {Asset} : files[a][f] = loaded

\* metadata.yaml is the one this run wrote, and every packed artifact of the
\* default prime directory has the package file generated with it.
MetadataKept ==
  /\ pc \in {"decide", "record"} => files[Default][Metadata] = loaded
  /\ Conditional /\ artifact[Default] \in PrimeContent /\ ~orphaned[Default] =>
       artifact[Default].files[Metadata] = artifact[Default].files[PackageFile]

Kept(a) == Whole(a) /\ PartsKept(a) /\ FilesSane(a) /\ FilesKept(a) /\ Materialized(a)

PackInv == TypeOK /\ Phases /\ MetadataKept /\ \A a \in Artifacts : Kept(a)

\* A missing or half written file is not the content of a prime directory.
LEMMA NotContent == NotAFile \notin PrimeContent /\ HalfWritten \notin PrimeContent
<1>1. \A c \in PrimeContent : "parts" \in DOMAIN c
  BY DEF PrimeContent
<1>2. "parts" \notin DOMAIN NotAFile /\ "parts" \notin DOMAIN HalfWritten
  BY DEF NotAFile, HalfWritten
<1>. QED
  BY <1>1, <1>2

\* The part of the invariant about an artifact depends on these variables only.
LEMMA Frame ==
  ASSUME NEW a \in Artifacts, Kept(a),
         UNCHANGED <<level, primed, files, artifact, loaded, outcome, worked, orphaned>>
  PROVE  Kept(a)'
BY DEF Kept, Whole, PartsKept, FilesSane, FilesKept, Materialized, Content, Touched

\* The invariant is preserved by every step, if the application generates a
\* package file of its own for the default artifact.
LEMMA PackStep ==
  ASSUME PackageFile \in Generated[Default], PackInv, [Next]_vars
  PROVE  PackInv'
<1>0. TypeOK /\ TypeOK'
  BY TypeStep DEF PackInv
<1> USE PipelineAssumption, VersionAssumption DEF tree, process, history
<1>1. ASSUME NEW p \in Parts, EditSource(p)
      PROVE PackInv'
  <2>1. Phases'
    BY <1>0, <1>1 DEF EditSource, PackInv, Phases, TypeOK
  <2>2. MetadataKept'
    BY <1>0, <1>1 DEF EditSource, PackInv, MetadataKept, TypeOK
  <2>3. ASSUME NEW b \in Artifacts PROVE Kept(b)'
    <3>1. UNCHANGED <<level, primed, files, artifact, loaded, outcome, worked, orphaned>>
      BY <1>1 DEF EditSource
    <3>. QED
      BY <3>1, Frame DEF PackInv
  <2>. QED
    BY <1>0, <2>1, <2>2, <2>3 DEF PackInv
<1>2. CASE EditMetadata
  <2>1. Phases'
    BY <1>0, <1>2 DEF EditMetadata, PackInv, Phases, TypeOK
  <2>2. MetadataKept'
    BY <1>0, <1>2 DEF EditMetadata, PackInv, MetadataKept, TypeOK
  <2>3. ASSUME NEW b \in Artifacts PROVE Kept(b)'
    <3>1. UNCHANGED <<level, primed, files, artifact, loaded, outcome, worked, orphaned>>
      BY <1>2 DEF EditMetadata
    <3>. QED
      BY <3>1, Frame DEF PackInv
  <2>. QED
    BY <1>0, <2>1, <2>2, <2>3 DEF PackInv
<1>3. CASE EditAsset
  <2>1. Phases'
    BY <1>0, <1>3 DEF EditAsset, PackInv, Phases, TypeOK
  <2>2. MetadataKept'
    BY <1>0, <1>3 DEF EditAsset, PackInv, MetadataKept, TypeOK
  <2>3. ASSUME NEW b \in Artifacts PROVE Kept(b)'
    <3>1. UNCHANGED <<level, primed, files, artifact, loaded, outcome, worked, orphaned>>
      BY <1>3 DEF EditAsset
    <3>. QED
      BY <3>1, Frame DEF PackInv
  <2>. QED
    BY <1>0, <2>1, <2>2, <2>3 DEF PackInv
<1>4. ASSUME NEW a \in Artifacts, Tamper(a)
      PROVE PackInv'
  <2>1. Phases'
    BY <1>0, <1>4 DEF Tamper, PackInv, Phases, TypeOK
  <2>2. MetadataKept'
    BY <1>0, <1>4 DEF Tamper, PackInv, MetadataKept, TypeOK
  <2>3. ASSUME NEW b \in Artifacts PROVE Kept(b)'
    <3>1. Whole(b)'
      BY <1>0, <1>4 DEF Tamper, PackInv, Kept, Phases, Whole, Content, Touched, TypeOK
    <3>2. PartsKept(b)'
      BY <1>0, <1>4 DEF Tamper, PackInv, Kept, Phases, Whole, PartsKept, Content, TypeOK
    <3>3. FilesSane(b)'
      <4>1. CASE b = a
        <5>1. /\ files'[a][Asset] = files[a][Asset] /\ files'[a][Metadata] = files[a][Metadata]
              /\ \A f \in Files : f = PackageFile \/ files'[a][f] = files[a][f]
          <6>1. files'[a] = [files[a] EXCEPT ![PackageFile] = Tampered]
            BY <1>0, <1>4 DEF Tamper, TypeOK
          <6>2. DOMAIN files[a] = Files
            BY <1>0 DEF TypeOK
          <6>. QED
            BY <6>1, <6>2 DEF Files, Metadata, PackageFile, Asset
        <5>2. PackageFile \in Generated[a]
          BY <1>4 DEF Tamper, PackInv, Kept, FilesSane, Files, Metadata, PackageFile
        <5>. QED
          BY <4>1, <5>1, <5>2 DEF PackInv, Kept, FilesSane
      <4>2. CASE b # a
        <5>1. files'[b] = files[b]
          BY <1>0, <1>4, <4>2 DEF Tamper, TypeOK
        <5>. QED
          BY <5>1 DEF PackInv, Kept, FilesSane
      <4>. QED
        BY <4>1, <4>2
    <3>4. FilesKept(b)'
      BY <1>0, <1>4 DEF Tamper, PackInv, Kept, Phases, Whole, FilesSane, FilesKept, Content, Touched, TypeOK
    <3>5. Materialized(b)'
      BY <1>0, <1>4 DEF Tamper, PackInv, Kept, Phases, Materialized, Touched, TypeOK
    <3>. QED
      BY <3>1, <3>2, <3>3, <3>4, <3>5 DEF Kept
  <2>. QED
    BY <1>0, <2>1, <2>2, <2>3 DEF PackInv
<1>5. ASSUME NEW a \in Artifacts, RemoveArtifact(a)
      PROVE PackInv'
  <2>1. Phases'
    BY <1>0, <1>5 DEF RemoveArtifact, PackInv, Phases, TypeOK
  <2>2. MetadataKept'
    BY <1>0, <1>5, NotContent DEF RemoveArtifact, PackInv, MetadataKept, TypeOK
  <2>3. ASSUME NEW b \in Artifacts PROVE Kept(b)'
    <3>1. Whole(b)'
      BY <1>0, <1>5 DEF RemoveArtifact, PackInv, Kept, Phases, Whole, Content, Touched, TypeOK
    <3>2. PartsKept(b)'
      BY <1>0, <1>5, NotContent DEF RemoveArtifact, PackInv, Kept, PartsKept, TypeOK
    <3>3. FilesSane(b)'
      BY <1>0, <1>5 DEF RemoveArtifact, PackInv, Kept, Phases, FilesSane, TypeOK
    <3>4. FilesKept(b)'
      BY <1>0, <1>5, NotContent DEF RemoveArtifact, PackInv, Kept, FilesKept, Touched, TypeOK
    <3>5. Materialized(b)'
      BY <1>0, <1>5 DEF RemoveArtifact, PackInv, Kept, Phases, Materialized, Touched, TypeOK
    <3>. QED
      BY <3>1, <3>2, <3>3, <3>4, <3>5 DEF Kept
  <2>. QED
    BY <1>0, <2>1, <2>2, <2>3 DEF PackInv
<1>6. ASSUME NEW ps \in SUBSET Parts, Clean(ps)
      PROVE PackInv'
  <2>1. Phases'
    BY <1>0, <1>6 DEF Clean, PackInv, Phases, TypeOK
  <2>2. MetadataKept'
    BY <1>0, <1>6 DEF Clean, PackInv, MetadataKept, TypeOK
  <2>3. ASSUME NEW b \in Artifacts PROVE Kept(b)'
    <3>1. Whole(b)'
      BY <1>0, <1>6 DEF Clean, PackInv, Kept, Phases, Whole, Content, Touched, TypeOK
    <3>2. PartsKept(b)'
      <4>1. artifact' = artifact /\ orphaned' = orphaned /\ worked' = worked
        BY <1>6 DEF Clean
      <4>2. \A p \in Parts : (primed'[p] = primed[p] /\ level'[p] = level[p]) \/ level'[p] < Prime
        BY <1>6 DEF Clean, Prime
      <4>. QED
        BY <4>1, <4>2 DEF PackInv, Kept, PartsKept
    <3>3. FilesSane(b)'
      BY <1>0, <1>6 DEF Clean, PackInv, Kept, Phases, FilesSane, TypeOK, Files, Metadata, PackageFile, Asset, Absent, Tampered
    <3>4. FilesKept(b)'
      BY <1>0, <1>6 DEF Clean, PackInv, Kept, Phases, Whole, FilesSane, FilesKept, Content, Touched, TypeOK
    <3>5. Materialized(b)'
      BY <1>0, <1>6 DEF Clean, PackInv, Kept, Phases, Materialized, Touched, TypeOK
    <3>. QED
      BY <3>1, <3>2, <3>3, <3>4, <3>5 DEF Kept
  <2>. QED
    BY <1>0, <2>1, <2>2, <2>3 DEF PackInv
<1>7. ASSUME NEW c \in Used, NEW ps \in SUBSET Parts, NEW sh \in BOOLEAN, Start(c, ps, sh)
      PROVE PackInv'
  <2>1. Phases'
    <3>1. c = "pack" => Target(c, sh) = Prime
      BY DEF Target
    <3>2. ASSUME c = "pack", todo' = {}, NEW p \in Parts PROVE level'[p] = Prime
      <4>1. Planned(Parts, Prime) = {}
        BY <1>7, <3>1, <3>2 DEF Start, Names
      <4>2. <<p, Prime>> \in Parts \X (1..Prime)
        BY DEF Prime
      <4>4. level[p] \in 0..4
        BY <1>0 DEF TypeOK, Levels, Prime
      <4>5. level' = level
        BY <1>7 DEF Start
      <4>3. ~(Prime > level[p])
        BY <4>1, <4>2 DEF Planned
      <4>. QED
        BY <4>4, <4>3, <4>5 DEF Prime
    <3>3. /\ requires' = (todo' # {}) /\ worked' = FALSE /\ pc' = "exec" /\ cmd' = c
          /\ loaded' = metadata /\ outcome' = [a \in Artifacts |-> "undecided"]
      BY <1>7 DEF Start
    <3>. QED
      BY <1>0, <3>2, <3>3 DEF Phases, TypeOK
  <2>2. MetadataKept'
    BY <1>0, <1>7 DEF Start, PackInv, MetadataKept, TypeOK
  <2>3. ASSUME NEW b \in Artifacts PROVE Kept(b)'
    <3>1. Whole(b)'
      BY <1>0, <1>7 DEF Start, PackInv, Kept, Phases, Whole, Content, Touched, TypeOK
    <3>2. PartsKept(b)'
      BY <1>0, <1>7 DEF Start, PackInv, Kept, Phases, Whole, PartsKept, Content, TypeOK
    <3>3. FilesSane(b)'
      BY <1>0, <1>7 DEF Start, PackInv, Kept, Phases, FilesSane, TypeOK
    <3>4. FilesKept(b)'
      BY <1>0, <1>7 DEF Start, PackInv, Kept, Phases, Whole, FilesSane, FilesKept, Content, Touched, TypeOK
    <3>5. Materialized(b)'
      BY <1>0, <1>7 DEF Start, PackInv, Kept, Phases, Materialized, Touched, TypeOK
    <3>. QED
      BY <3>1, <3>2, <3>3, <3>4, <3>5 DEF Kept
  <2>. QED
    BY <1>0, <2>1, <2>2, <2>3 DEF PackInv
<1>8. ASSUME NEW p \in Parts, NEW n \in Levels, Execute(p, n)
      PROVE PackInv'
  <2>1. Phases'
    BY <1>0, <1>8 DEF Execute, Effect, PackInv, Phases, TypeOK
  <2>2. MetadataKept'
    BY <1>0, <1>8 DEF Execute, Effect, PackInv, MetadataKept, TypeOK
  <2>3. ASSUME NEW b \in Artifacts PROVE Kept(b)'
    <3>1. Whole(b)'
      BY <1>0, <1>8 DEF Execute, Effect, PackInv, Kept, Phases, Whole, Content, Touched, TypeOK
    <3>2. PartsKept(b)'
      BY <1>0, <1>8 DEF Execute, Effect, PackInv, Kept, Phases, Whole, PartsKept, Content, TypeOK
    <3>3. FilesSane(b)'
      BY <1>0, <1>8 DEF Execute, Effect, PackInv, Kept, Phases, FilesSane, TypeOK
    <3>4. FilesKept(b)'
      BY <1>0, <1>8 DEF Execute, Effect, PackInv, Kept, Phases, Whole, FilesSane, FilesKept, Content, Touched, TypeOK
    <3>5. Materialized(b)'
      BY <1>0, <1>8 DEF Execute, Effect, PackInv, Kept, Phases, Materialized, Touched, TypeOK
    <3>. QED
      BY <3>1, <3>2, <3>3, <3>4, <3>5 DEF Kept
  <2>. QED
    BY <1>0, <2>1, <2>2, <2>3 DEF PackInv
<1>9. CASE LifecycleDone
  <2>1. Phases'
    BY <1>0, <1>9 DEF LifecycleDone, PackInv, Phases, TypeOK
  <2>2. MetadataKept'
    BY <1>0, <1>9 DEF LifecycleDone, PackInv, MetadataKept, TypeOK
  <2>3. ASSUME NEW b \in Artifacts PROVE Kept(b)'
    <3>1. UNCHANGED <<level, primed, files, artifact, loaded, outcome, worked, orphaned>>
      BY <1>9 DEF LifecycleDone
    <3>. QED
      BY <3>1, Frame DEF PackInv
  <2>. QED
    BY <1>0, <2>1, <2>2, <2>3 DEF PackInv
<1>10. CASE UpdateProject
  <2>1. Phases'
    BY <1>0, <1>10 DEF UpdateProject, PackInv, Phases, TypeOK
  <2>2. MetadataKept'
    BY <1>0, <1>10 DEF UpdateProject, PackInv, MetadataKept, TypeOK
  <2>3. ASSUME NEW b \in Artifacts PROVE Kept(b)'
    <3>1. Whole(b)'
      BY <1>0, <1>10 DEF UpdateProject, PackInv, Kept, Phases, Whole, Content, Touched, TypeOK
    <3>2. PartsKept(b)'
      BY <1>0, <1>10 DEF UpdateProject, PackInv, Kept, Phases, Whole, PartsKept, Content, TypeOK
    <3>3. FilesSane(b)'
      BY <1>0, <1>10 DEF UpdateProject, PackInv, Kept, Phases, FilesSane, TypeOK
    <3>4. FilesKept(b)'
      BY <1>0, <1>10 DEF UpdateProject, PackInv, Kept, Phases, Whole, FilesSane, FilesKept, Content, Touched, TypeOK
    <3>5. Materialized(b)'
      BY <1>0, <1>10 DEF UpdateProject, PackInv, Kept, Phases, Materialized, Touched, TypeOK
    <3>. QED
      BY <3>1, <3>2, <3>3, <3>4, <3>5 DEF Kept
  <2>. QED
    BY <1>0, <2>1, <2>2, <2>3 DEF PackInv
<1>11. CASE WriteMetadata
  <2>1. Phases'
    BY <1>0, <1>11 DEF WriteMetadata, PackInv, Phases, TypeOK
  <2>2. MetadataKept'
    BY <1>0, <1>11 DEF WriteMetadata, PackInv, MetadataKept, TypeOK
  <2>3. ASSUME NEW b \in Artifacts PROVE Kept(b)'
    <3>1. Whole(b)'
      BY <1>0, <1>11 DEF WriteMetadata, PackInv, Kept, Phases, Whole, Content, Touched, TypeOK
    <3>2. PartsKept(b)'
      BY <1>0, <1>11 DEF WriteMetadata, PackInv, Kept, Phases, Whole, PartsKept, Content, TypeOK
    <3>3. FilesSane(b)'
      BY <1>0, <1>11 DEF WriteMetadata, PackInv, Kept, Phases, FilesSane, TypeOK
    <3>4. FilesKept(b)'
      BY <1>0, <1>11 DEF WriteMetadata, PackInv, Kept, Phases, Whole, FilesSane, FilesKept, Content, Touched, TypeOK
    <3>5. Materialized(b)'
      BY <1>0, <1>11 DEF WriteMetadata, PackInv, Kept, Phases, Materialized, Touched, TypeOK
    <3>. QED
      BY <3>1, <3>2, <3>3, <3>4, <3>5 DEF Kept
  <2>. QED
    BY <1>0, <2>1, <2>2, <2>3 DEF PackInv
<1>12. ASSUME NEW a \in Artifacts, Decide(a)
      PROVE PackInv'
  <2>1. Phases'
    BY <1>0, <1>12 DEF Decide, Packing, PackInv, Phases, TypeOK
  <2>2. MetadataKept'
    BY <1>0, <1>12 DEF Decide, Packing, PackInv, MetadataKept, TypeOK
  <2>3. ASSUME NEW b \in Artifacts PROVE Kept(b)'
    <3>1. Whole(b)'
      BY <1>0, <1>12 DEF Decide, Packing, PackInv, Kept, Phases, Whole, Content, Touched, TypeOK
    <3>2. PartsKept(b)'
      BY <1>0, <1>12 DEF Decide, Packing, PackInv, Kept, Phases, Whole, PartsKept, Content, TypeOK
    <3>3. FilesSane(b)'
      BY <1>0, <1>12 DEF Decide, Packing, PackInv, Kept, Phases, FilesSane, TypeOK
    <3>4. FilesKept(b)'
      BY <1>0, <1>12 DEF Decide, Packing, PackInv, Kept, Phases, Whole, FilesSane, FilesKept, Content, Touched, TypeOK
    <3>5. Materialized(b)'
      BY <1>0, <1>12 DEF Decide, Packing, PackInv, Kept, Phases, Materialized, Touched, TypeOK
    <3>. QED
      BY <3>1, <3>2, <3>3, <3>4, <3>5 DEF Kept
  <2>. QED
    BY <1>0, <2>1, <2>2, <2>3 DEF PackInv
<1>13. ASSUME NEW a \in Artifacts, WritePackageFiles(a)
      PROVE PackInv'
  <2>1. Phases'
    BY <1>0, <1>13 DEF WritePackageFiles, PackInv, Phases, TypeOK
  <2>2. MetadataKept'
    <3>1. /\ files'[Default][Metadata] = files[Default][Metadata]
             \/ files'[Default][Metadata] = loaded
          /\ UNCHANGED <<pc, loaded, artifact, orphaned>>
      BY <1>0, <1>13 DEF WritePackageFiles, TypeOK, Files
    <3>. QED
      BY <3>1 DEF PackInv, MetadataKept, WritePackageFiles
  <2>3. ASSUME NEW b \in Artifacts PROVE Kept(b)'
    <3>1. Whole(b)'
      BY <1>0, <1>13 DEF WritePackageFiles, PackInv, Kept, Phases, Whole, Content, Touched, TypeOK
    <3>2. PartsKept(b)'
      BY <1>0, <1>13 DEF WritePackageFiles, PackInv, Kept, Phases, Whole, PartsKept, Content, TypeOK
    <3>3. FilesSane(b)'
      BY <1>0, <1>13, ZenonT(60) DEF WritePackageFiles, PackInv, Kept, Phases, FilesSane, TypeOK, Files, Metadata, PackageFile, Asset, Absent, Tampered
    <3>4. FilesKept(b)'
      BY <1>0, <1>13 DEF WritePackageFiles, PackInv, Kept, Phases, Whole, FilesSane, FilesKept, Content, Touched, TypeOK
    <3>5. Materialized(b)'
      BY <1>0, <1>13 DEF WritePackageFiles, PackInv, Kept, Phases, Materialized, Touched, TypeOK
    <3>. QED
      BY <3>1, <3>2, <3>3, <3>4, <3>5 DEF Kept
  <2>. QED
    BY <1>0, <2>1, <2>2, <2>3 DEF PackInv
<1>21. ASSUME NEW a \in Artifacts, ReadExtraAssets(a)
      PROVE PackInv'
  <2>1. Phases'
    BY <1>0, <1>21 DEF ReadExtraAssets, PackInv, Phases, TypeOK
  <2>2. MetadataKept'
    BY <1>0, <1>21 DEF ReadExtraAssets, PackInv, MetadataKept, TypeOK
  <2>3. ASSUME NEW b \in Artifacts PROVE Kept(b)'
    <3>1. UNCHANGED <<level, primed, files, artifact, loaded, outcome, worked, orphaned>>
      BY <1>21 DEF ReadExtraAssets
    <3>. QED
      BY <3>1, Frame DEF PackInv
  <2>. QED
    BY <1>0, <2>1, <2>2, <2>3 DEF PackInv
<1>14. ASSUME NEW a \in Artifacts, WriteExtraAssets(a)
      PROVE PackInv'
  <2>1. Phases'
    BY <1>0, <1>14 DEF WriteExtraAssets, PackInv, Phases, TypeOK
  <2>2. MetadataKept'
    <3>1. /\ files'[Default][Metadata] = files[Default][Metadata]
          /\ UNCHANGED <<pc, loaded, artifact, orphaned>>
      BY <1>0, <1>14, SMTT(40) DEF WriteExtraAssets, TypeOK, Files, Asset, Metadata
    <3>. QED
      BY <3>1 DEF PackInv, MetadataKept
  <2>3. ASSUME NEW b \in Artifacts PROVE Kept(b)'
    <3>1. Whole(b)'
      BY <1>0, <1>14 DEF WriteExtraAssets, PackInv, Kept, Phases, Whole, Content, Touched, TypeOK
    <3>2. PartsKept(b)'
      BY <1>0, <1>14 DEF WriteExtraAssets, PackInv, Kept, Phases, Whole, PartsKept, Content, TypeOK
    <3>3. FilesSane(b)'
      <4>1. CASE b = a /\ Asset \in Generated[a]
        <5>1. /\ files'[a][Asset] = copied[a]
              /\ \A f \in Files : f = Asset \/ files'[a][f] = files[a][f]
          <6>1. files'[a] = [files[a] EXCEPT ![Asset] = copied[a]]
            BY <1>0, <1>14, <4>1 DEF WriteExtraAssets, TypeOK
          <6>2. DOMAIN files[a] = Files
            BY <1>0 DEF TypeOK
          <6>. QED
            BY <6>1, <6>2 DEF Files, Metadata, PackageFile, Asset
        <5>2. copied[a] # Tampered
          BY <1>0 DEF TypeOK, Absent, Tampered
        <5>. QED
          BY <4>1, <5>1, <5>2 DEF PackInv, Kept, FilesSane
      <4>2. CASE ~(b = a /\ Asset \in Generated[a])
        <5>1. files'[b] = files[b]
          BY <1>0, <1>14, <4>2 DEF WriteExtraAssets, TypeOK
        <5>. QED
          BY <5>1 DEF PackInv, Kept, FilesSane
      <4>. QED
        BY <4>1, <4>2
    <3>4. FilesKept(b)'
      BY <1>0, <1>14 DEF WriteExtraAssets, PackInv, Kept, Phases, Whole, FilesSane, FilesKept, Content, Touched, TypeOK
    <3>5. Materialized(b)'
      BY <1>0, <1>14 DEF WriteExtraAssets, PackInv, Kept, Phases, Materialized, Touched, TypeOK
    <3>. QED
      BY <3>1, <3>2, <3>3, <3>4, <3>5 DEF Kept
  <2>. QED
    BY <1>0, <2>1, <2>2, <2>3 DEF PackInv
<1>15. ASSUME NEW a \in Artifacts, PackArtifact(a)
      PROVE PackInv'
  <2>1. Phases'
    BY <1>0, <1>15 DEF PackArtifact, PackInv, Phases, TypeOK
  <2>2. MetadataKept'
    <3>1. UNCHANGED <<pc, loaded, files>>
      BY <1>15 DEF PackArtifact
    <3>2. CASE a # Default
      <4>1. artifact'[Default] = artifact[Default] /\ orphaned'[Default] = orphaned[Default]
        BY <1>0, <1>15, <3>2 DEF PackArtifact, TypeOK
      <4>. QED
        BY <3>1, <4>1 DEF PackInv, MetadataKept
    <3>3. CASE a = Default
      <4>1. artifact'[Default].files = files[Default]
        BY <1>0, <1>15, <3>3 DEF PackArtifact, TypeOK, Content
      <4>2. Touched(Default) /\ pc = "decide"
        BY <1>15, <3>3 DEF PackArtifact, Touched
      <4>3. Conditional => files[Default][PackageFile] = loaded
        BY <4>2 DEF PackInv, Kept, Materialized, PackageFile, Asset
      <4>4. files[Default][Metadata] = loaded
        BY <4>2 DEF PackInv, MetadataKept
      <4>. QED
        BY <3>1, <4>1, <4>3, <4>4 DEF PackInv, MetadataKept
    <3>. QED
      BY <3>2, <3>3
  <2>3. ASSUME NEW b \in Artifacts PROVE Kept(b)'
    <3>1. Whole(b)'
      <4>1. Content(a) \in PrimeContent /\ UNCHANGED <<primed, files>>
        BY <1>0, <1>15 DEF PackArtifact, Content, PrimeContent, TypeOK
      <4>2. CASE b = a
        <5>1. artifact'[a] = Content(a)
          BY <1>0, <1>15 DEF PackArtifact, TypeOK
        <5>. QED
          BY <4>1, <4>2, <5>1 DEF Whole, Content
      <4>3. CASE b # a
        <5>1. artifact'[b] = artifact[b] /\ orphaned'[b] = orphaned[b] /\ outcome'[b] = outcome[b]
          BY <1>0, <1>15, <4>3 DEF PackArtifact, TypeOK
        <5>. QED
          BY <4>1, <5>1 DEF PackInv, Kept, Whole, Content
      <4>. QED
        BY <4>2, <4>3
    <3>2. PartsKept(b)'
      BY <1>0, <1>15 DEF PackArtifact, PackInv, Kept, Phases, Whole, PartsKept, Content, TypeOK
    <3>3. FilesSane(b)'
      BY <1>0, <1>15 DEF PackArtifact, PackInv, Kept, Phases, FilesSane, TypeOK
    <3>4. FilesKept(b)'
      BY <1>0, <1>15 DEF PackArtifact, PackInv, Kept, Phases, Whole, FilesSane, FilesKept, Content, Touched, TypeOK
    <3>5. Materialized(b)'
      BY <1>0, <1>15 DEF PackArtifact, PackInv, Kept, Phases, Materialized, Touched, TypeOK
    <3>. QED
      BY <3>1, <3>2, <3>3, <3>4, <3>5 DEF Kept
  <2>. QED
    BY <1>0, <2>1, <2>2, <2>3 DEF PackInv
<1>16. CASE Finish
  <2>1. Phases'
    BY <1>0, <1>16 DEF Finish, Packing, PackInv, Phases, TypeOK
  <2>2. MetadataKept'
    BY <1>0, <1>16 DEF Finish, Packing, PackInv, MetadataKept, TypeOK
  <2>3. ASSUME NEW b \in Artifacts PROVE Kept(b)'
    <3>1. UNCHANGED <<level, primed, files, artifact, loaded, outcome, worked, orphaned>>
      BY <1>16 DEF Finish, Packing
    <3>. QED
      BY <3>1, Frame DEF PackInv
  <2>. QED
    BY <1>0, <2>1, <2>2, <2>3 DEF PackInv
<1>17. CASE Report
  <2>1. Phases'
    BY <1>0, <1>17 DEF Report, Exit, Orphan, PackInv, Phases, TypeOK
  <2>2. MetadataKept'
    BY <1>0, <1>17 DEF Report, Exit, Orphan, PackInv, MetadataKept, TypeOK
  <2>3. ASSUME NEW b \in Artifacts PROVE Kept(b)'
    <3>1. Whole(b)'
      BY <1>0, <1>17 DEF Report, Exit, Orphan, PackInv, Kept, Phases, Whole, Content, Touched, TypeOK
    <3>2. PartsKept(b)'
      BY <1>0, <1>17 DEF Report, Exit, Orphan, PackInv, Kept, Phases, Whole, PartsKept, Content, TypeOK
    <3>3. FilesSane(b)'
      BY <1>0, <1>17 DEF Report, Exit, Orphan, PackInv, Kept, Phases, FilesSane, TypeOK
    <3>4. FilesKept(b)'
      BY <1>0, <1>17 DEF Report, Exit, Orphan, PackInv, Kept, Phases, Whole, FilesSane, FilesKept, Content, Touched, TypeOK
    <3>5. Materialized(b)'
      BY <1>0, <1>17 DEF Report, Exit, Orphan, PackInv, Kept, Phases, Materialized, Touched, TypeOK
    <3>. QED
      BY <3>1, <3>2, <3>3, <3>4, <3>5 DEF Kept
  <2>. QED
    BY <1>0, <2>1, <2>2, <2>3 DEF PackInv
<1>18. CASE Return
  <2>1. Phases'
    BY <1>0, <1>18 DEF Return, Exit, Orphan, PackInv, Phases, TypeOK
  <2>2. MetadataKept'
    BY <1>0, <1>18 DEF Return, Exit, Orphan, PackInv, MetadataKept, TypeOK
  <2>3. ASSUME NEW b \in Artifacts PROVE Kept(b)'
    <3>1. Whole(b)'
      BY <1>0, <1>18 DEF Return, Exit, Orphan, PackInv, Kept, Phases, Whole, Content, Touched, TypeOK
    <3>2. PartsKept(b)'
      BY <1>0, <1>18 DEF Return, Exit, Orphan, PackInv, Kept, Phases, Whole, PartsKept, Content, TypeOK
    <3>3. FilesSane(b)'
      BY <1>0, <1>18 DEF Return, Exit, Orphan, PackInv, Kept, Phases, FilesSane, TypeOK
    <3>4. FilesKept(b)'
      BY <1>0, <1>18 DEF Return, Exit, Orphan, PackInv, Kept, Phases, Whole, FilesSane, FilesKept, Content, Touched, TypeOK
    <3>5. Materialized(b)'
      BY <1>0, <1>18 DEF Return, Exit, Orphan, PackInv, Kept, Phases, Materialized, Touched, TypeOK
    <3>. QED
      BY <3>1, <3>2, <3>3, <3>4, <3>5 DEF Kept
  <2>. QED
    BY <1>0, <2>1, <2>2, <2>3 DEF PackInv
<1>19. CASE Abort
  <2>0. /\ pc' = "idle" /\ worked' = FALSE /\ UNCHANGED level
        /\ outcome' = [a \in Artifacts |-> "undecided"]
    BY <1>19 DEF Abort, Exit
  <2>4. ASSUME NEW b \in Artifacts, ~orphaned'[b]
        PROVE  /\ artifact'[b] = artifact[b] /\ ~orphaned[b] /\ ~Touched(b)
               /\ files'[b] = files[b]
               /\ outcome[b] # "packed" => ~worked /\ primed' = primed
    <3>1. CASE UNCHANGED <<primed, files, artifact>> /\ Orphan(worked)
      BY <1>0, <3>1, <2>4 DEF Orphan, TypeOK, Touched
    <3>2. CASE pc = "exec" /\ UNCHANGED <<files, artifact>> /\ Orphan(TRUE)
      BY <1>0, <3>2, <2>4 DEF Orphan, TypeOK, Touched, PackInv, Phases
    <3>4. CASE /\ pc = "decide" /\ UNCHANGED <<primed, artifact>> /\ Orphan(worked)
               /\ \E a \in Artifacts : /\ outcome[a] = "written"
                                       /\ files' = [files EXCEPT ![a][Asset] = Partial]
      BY <1>0, <3>4, <2>4 DEF Orphan, TypeOK, Touched
    <3>3. CASE /\ pc = "decide" /\ UNCHANGED <<primed, files>> /\ Orphan(worked)
               /\ \E a \in Artifacts : /\ outcome[a] = "ready"
                                       /\ artifact' = [artifact EXCEPT ![a] = HalfWritten]
      BY <1>0, <3>3, <2>4 DEF Orphan, TypeOK, Touched
    <3>. QED
      BY <1>19, <3>1, <3>2, <3>3, <3>4 DEF Abort
  <2>5. ASSUME NEW b \in Artifacts, ~orphaned'[b], outcome[b] = "packed" PROVE primed' = primed
    BY <1>19, <2>5 DEF Abort, PackInv, Phases
  <2>1. Phases'
    BY <1>0, <1>19 DEF Abort, Exit, Orphan, PackInv, Phases, TypeOK
  <2>2. MetadataKept'
    BY <2>0, <2>4 DEF PackInv, MetadataKept
  <2>3. ASSUME NEW b \in Artifacts PROVE Kept(b)'
    <3>1. Whole(b)'
      BY <2>0, <2>4 DEF PackInv, Kept, Whole
    <3>2. PartsKept(b)'
      <4> SUFFICES ASSUME artifact'[b] \in PrimeContent, ~orphaned'[b], NEW p \in Parts
                   PROVE  artifact'[b].parts[p] = primed'[p] \/ level'[p] < Prime
        BY DEF PartsKept
      <4>1. CASE outcome[b] = "packed"
        <5>1. primed' = primed /\ artifact'[b] = artifact[b]
          BY <2>4, <2>5, <4>1
        <5>2. artifact[b] = Content(b)
          BY <4>1 DEF PackInv, Kept, Whole
        <5>3. artifact'[b].parts = primed
          BY <5>1, <5>2 DEF Content
        <5>. QED
          BY <5>1, <5>3
      <4>2. CASE outcome[b] # "packed"
        BY <2>0, <2>4, <4>2 DEF PackInv, Kept, PartsKept
      <4>. QED
        BY <4>1, <4>2
    <3>3. FilesSane(b)'
      <4>1. files'[b] = files[b] \/ (Asset \in Generated[b] /\ files'[b] = [files[b] EXCEPT ![Asset] = Partial])
        <5>1. ASSUME NEW a \in Artifacts, Asset \in Generated[a],
                     files' = [files EXCEPT ![a][Asset] = Partial]
              PROVE  files'[b] = files[b] \/ (Asset \in Generated[b] /\ files'[b] = [files[b] EXCEPT ![Asset] = Partial])
          BY <1>0, <5>1 DEF TypeOK
        <5>. QED
          BY <1>19, <5>1 DEF Abort
      <4>2. DOMAIN files[b] = Files /\ Asset \in Files
        BY <1>0 DEF TypeOK, Files
      <4>. QED
        BY <4>1, <4>2 DEF PackInv, Kept, FilesSane, Partial, Tampered
    <3>4. FilesKept(b)'
      BY <2>0, <2>4 DEF PackInv, Kept, FilesKept
    <3>5. Materialized(b)'
      BY <2>0 DEF Materialized, Touched
    <3>. QED
      BY <3>1, <3>2, <3>3, <3>4, <3>5 DEF Kept
  <2>. QED
    BY <1>0, <2>1, <2>2, <2>3 DEF PackInv
<1>20. CASE UNCHANGED vars
  <2>1. Phases'
    BY <1>0, <1>20 DEF vars, PackInv, Phases, TypeOK
  <2>2. MetadataKept'
    BY <1>0, <1>20 DEF vars, PackInv, MetadataKept, TypeOK
  <2>3. ASSUME NEW b \in Artifacts PROVE Kept(b)'
    <3>1. UNCHANGED <<level, primed, files, artifact, loaded, outcome, worked, orphaned>>
      BY <1>20 DEF vars
    <3>. QED
      BY <3>1, Frame DEF PackInv
  <2>. QED
    BY <1>0, <2>1, <2>2, <2>3 DEF PackInv
<1>. QED
  BY <1>1, <1>2, <1>3, <1>4, <1>5, <1>6, <1>7, <1>8, <1>9, <1>10, <1>11, <1>12, <1>13, <1>14, <1>15, <1>16, <1>17, <1>18, <1>19, <1>20, <1>21, NextCases

\* The invariant holds before the first command.
LEMMA PackStart == Init => PackInv
<1> SUFFICES ASSUME Init PROVE PackInv
  OBVIOUS
<1>1. TypeOK
  BY InitTypes
<1>2. Phases
  BY DEF Init, Phases
<1>3. MetadataKept
  BY PipelineAssumption, NotContent DEF Init, MetadataKept
<1>4. ASSUME NEW a \in Artifacts PROVE Kept(a)
  <2>1. Whole(a) /\ PartsKept(a) /\ FilesKept(a) /\ Materialized(a)
    BY NotContent DEF Init, Whole, PartsKept, FilesKept, Materialized, Touched
  <2>2. FilesSane(a)
    BY DEF Init, FilesSane, Files, Asset, Absent, Tampered
  <2>. QED
    BY <2>1, <2>2 DEF Kept
<1>. QED
  BY <1>1, <1>2, <1>3, <1>4 DEF PackInv

\* Where the invariant holds, an artifact that needs no packing is current.
LEMMA SkipCurrent ==
  ASSUME PackageFile \in Generated[Default], PackInv,
         NEW a \in Artifacts, pc = "decide", cmd = "pack", Conditional,
         outcome[a] = "undecided", ~NeedsPacking(a), ~orphaned[a]
  PROVE  artifact[a] = Content(a)
<1>1. TypeOK /\ Kept(a)
  BY DEF PackInv
<1>2. artifact[a] \in PrimeContent
  BY <1>1 DEF NeedsPacking, Kept, Whole
<1>3. artifact[a].parts = primed
  <2>1. ~requires /\ ~worked
    BY DEF NeedsPacking, PackInv, Phases
  <2>2. \A p \in Parts : level[p] = Prime
    BY <2>1 DEF PackInv, Phases
  <2>3. \A p \in Parts : artifact[a].parts[p] = primed[p]
    <3>1. \A p \in Parts : artifact[a].parts[p] = primed[p] \/ level[p] < Prime
      BY <1>1, <1>2, <2>1 DEF Kept, PartsKept
    <3>2. ~(Prime < Prime)
      BY DEF Prime
    <3>. QED
      BY <2>2, <3>1, <3>2, Zenon
  <2>4. artifact[a].parts \in [Parts -> Versions \cup {Absent, Partial}]
    BY <1>2 DEF PrimeContent
  <2>5. primed \in [Parts -> Versions \cup {Absent, Partial}]
    BY <1>1 DEF TypeOK
  <2>. QED
    BY <2>3, <2>4, <2>5
<1>4. artifact[a].files = files[a]
  <2>1. loaded \in Versions /\ Absent \notin Versions /\ Tampered \notin Versions
    BY VersionAssumption DEF PackInv, Phases
  <2>2. \A f \in Generated[a] : files[a][f] \notin {Absent, Tampered}
    BY <1>1, <2>1 DEF NeedsPacking, FileChanged, Kept, FilesSane
  <2>3. ASSUME NEW f \in Files, f # Metadata \/ a # Default
        PROVE  artifact[a].files[f] = files[a][f]
    BY <1>1, <1>2, <2>2, <2>3 DEF Kept, FilesKept, Touched
  <2>4. ASSUME a = Default PROVE artifact[a].files[Metadata] = files[a][Metadata]
    <3>1. PackageFile # Asset /\ PackageFile # Metadata /\ PackageFile \in Files
      BY DEF PackageFile, Asset, Metadata, Files
    <3>2. files[a][PackageFile] = loaded
      BY <2>4, <3>1 DEF NeedsPacking, FileChanged
    <3>3. files[a][Metadata] = loaded
      BY <2>4 DEF PackInv, MetadataKept
    <3>4. artifact[a].files[Metadata] = artifact[a].files[PackageFile]
      BY <1>2, <2>4 DEF PackInv, MetadataKept
    <3>5. artifact[a].files[PackageFile] = files[a][PackageFile]
      BY <2>3, <3>1
    <3>. QED
      BY <2>4, <3>2, <3>3, <3>4, <3>5
  <2>5. \A f \in Files : artifact[a].files[f] = files[a][f]
    BY <2>3, <2>4
  <2>6. artifact[a].files \in [Files -> Versions \cup {Absent, Partial, Tampered}]
    BY <1>2 DEF PrimeContent
  <2>7. files[a] \in [Files -> Versions \cup {Absent, Partial, Tampered}]
    BY <1>1 DEF TypeOK
  <2>. QED
    BY <2>5, <2>6, <2>7
<1>. QED
  BY <1>2, <1>3, <1>4 DEF PrimeContent, Content

\* No step but Decide(a) turns an undecided artifact into a chosen or skipped one.
LEMMA OnlyDecided ==
  ASSUME TypeOK, [Next]_vars, NEW a \in Artifacts,
         outcome[a] = "undecided", outcome'[a] \in {"chosen", "skipped"}
  PROVE  Decide(a)
<1>1. outcome \in [Artifacts -> Outcomes]
  BY DEF TypeOK
<1> DEFINE Other ==
     \/ outcome' = outcome
     \/ outcome' = [b \in Artifacts |-> "undecided"]
     \/ \E b \in Artifacts : \E o \in {"written", "ready", "packed"} :
          outcome' = [outcome EXCEPT ![b] = o]
<1>2. ~Other
  BY <1>1
<1>3. (\E b \in Artifacts : Decide(b)) \/ Other
  <2>1. ASSUME NEW b \in Artifacts, WritePackageFiles(b) \/ ReadExtraAssets(b) \/ WriteExtraAssets(b) \/ PackArtifact(b)
        PROVE  Other
    BY <2>1 DEF WritePackageFiles, ReadExtraAssets, WriteExtraAssets, PackArtifact
  <2>2. ASSUME \/ EditMetadata \/ EditAsset \/ LifecycleDone \/ UpdateProject \/ WriteMetadata
               \/ Finish \/ UNCHANGED vars
        PROVE  Other
    BY <2>2 DEF EditMetadata, EditAsset, LifecycleDone, UpdateProject, WriteMetadata, Finish, vars, process
  <2>3. CASE Report \/ Return \/ Abort
    BY <2>3 DEF Report, Return, Abort, Exit
  <2>4. ASSUME NEW p \in Parts, EditSource(p) PROVE Other
    BY <2>4 DEF EditSource, process
  <2>5. ASSUME NEW b \in Artifacts, Tamper(b) \/ RemoveArtifact(b) PROVE Other
    BY <2>5 DEF Tamper, RemoveArtifact, process
  <2>6. ASSUME NEW ps \in SUBSET Parts, Clean(ps) PROVE Other
    BY <2>6 DEF Clean, process
  <2>7. ASSUME NEW c \in Used, NEW ps \in SUBSET Parts, NEW sh \in BOOLEAN, Start(c, ps, sh)
        PROVE  Other
    BY <2>7 DEF Start
  <2>8. ASSUME NEW p \in Parts, NEW n \in Levels, Execute(p, n) PROVE Other
    BY <2>8 DEF Execute
  <2> HIDE DEF Other
  <2>. QED
    BY <2>1, <2>2, <2>3, <2>4, <2>5, <2>6, <2>7, <2>8, NextCases
<1>4. ASSUME NEW b \in Artifacts, Decide(b) PROVE b = a
  BY <1>1, <1>4 DEF Decide
<1>. QED
  BY <1>2, <1>3, <1>4

\* PackageService.needs_packing is sound for any number of parts, artifacts and
\* versions: it returns False only for an artifact that holds exactly what is in
\* its prime directory, or that an earlier command left orphaned.  Required is
\* that the application generates a package file for the default artifact.
THEOREM SkipSound == PackageFile \in Generated[Default] => (Spec => SkipIsSound)
<1> SUFFICES ASSUME PackageFile \in Generated[Default] PROVE Spec => SkipIsSound
  OBVIOUS
<1>1. Init => PackInv
  BY PackStart
<1>2. PackInv /\ [Next]_vars => PackInv'
  BY PackStep
<1>3. ASSUME PackInv, [Next]_vars, NEW a \in Artifacts,
             outcome[a] = "undecided", outcome'[a] = "skipped"
      PROVE  artifact[a] = Content(a) \/ orphaned[a]
  <2>1. TypeOK
    BY <1>3 DEF PackInv
  <2>2. Decide(a)
    BY <1>3, <2>1, OnlyDecided
  <2>3. Conditional /\ ~NeedsPacking(a) /\ pc = "decide" /\ cmd = "pack"
    BY <1>3, <2>1, <2>2 DEF Decide, Packing, TypeOK
  <2>. QED
    BY <1>3, <2>3, SkipCurrent
<1> DEFINE Sound == \A a \in Artifacts :
                      outcome[a] = "undecided" /\ outcome'[a] = "skipped"
                        => artifact[a] = Content(a) \/ orphaned[a]
<1>4. PackInv /\ [Next]_vars => [Sound]_vars
  BY <1>3
<1> HIDE DEF Sound
<1>5. Spec => [][Sound]_vars
  BY <1>1, <1>2, <1>4, PTL DEF Spec
<1>. QED
  BY <1>5 DEF SkipIsSound, Sound
-----------------------------------------------------------------------------
(* PackedIsFresh: what is packed or skipped was made from the sources. *)

\* What the lifecycle left: a part at its last step is primed from what was
\* pulled, which is the source unless that was edited since; a planned action
\* is ahead of its part, or the part is pulled again first; and pack has every
\* part primed once it has executed its plan.
Lifecycle ==
  /\ \A p \in Parts : outdated[p] \/ pulled[p] = src[p]
  /\ \A p \in Parts : level[p] = Prime => primed[p] = pulled[p]
  /\ \A p \in Parts, n \in Levels :
       <<p, n>> \in todo => n # 0 /\ (level[p] < n \/ <<p, Pull>> \in todo)
  /\ pc # "idle" /\ cmd = "pack" =>
       \A p \in Parts : \/ <<p, Prime>> \in todo
                        \/ level[p] = Prime /\ <<p, Pull>> \notin todo
  /\ pc # "exec" => todo = {}

\* A skipped artifact stays current until the command ends, and only pack
\* comes to the report, with every artifact packed or skipped.
Decided ==
  /\ \A a \in Artifacts :
       outcome[a] = "skipped" /\ ~orphaned[a] =>
         artifact[a] = Content(a) /\ artifact[a] \in PrimeContent
  /\ (\E a \in Artifacts : outcome[a] # "undecided") \/ pc = "record" => cmd = "pack"
  /\ pc = "record" => \A a \in Artifacts : outcome[a] \in {"packed", "skipped"}

\* The plan of a command: every action is ahead of its part, or the part is
\* outdated and pulled first; a plan up to Prime covers what is not primed.
LEMMA PlanAhead ==
  ASSUME TypeOK, NEW ps \in SUBSET Parts, NEW target \in Levels, NEW p \in Parts, NEW n \in Levels
  PROVE  /\ <<p, n>> \in Planned(ps, target) =>
              n # 0 /\ (level[p] < n \/ <<p, Pull>> \in Planned(ps, target))
         /\ ps = Parts /\ target = Prime =>
              \/ <<p, Prime>> \in Planned(ps, target)
              \/ level[p] = Prime /\ <<p, Pull>> \notin Planned(ps, target)
<1> USE DEF Levels, Prime, Pull
<1>1. level[p] \in 0..4
  BY DEF TypeOK
<1>2. ASSUME <<p, n>> \in Planned(ps, target) PROVE n # 0 /\ (level[p] < n \/ <<p, Pull>> \in Planned(ps, target))
  <2>1. p \in ps /\ n \in 1..target /\ (outdated[p] \/ n > level[p])
    BY <1>2 DEF Planned
  <2>2. <<p, 1>> \in ps \X (1..target)
    BY <2>1
  <2>3. outdated[p] => <<p, 1>> \in Planned(ps, target)
    BY <2>2 DEF Planned
  <2>. QED
    BY <1>1, <2>1, <2>3
<1>3. ASSUME ps = Parts, target = 4, level[p] # 4 \/ <<p, 1>> \in Planned(ps, target)
      PROVE  <<p, 4>> \in Planned(ps, target)
  <2>1. <<p, 4>> \in ps \X (1..target)
    BY <1>3
  <2>2. 4 > level[p] \/ outdated[p]
    BY <1>1, <1>3 DEF Planned
  <2>. QED
    BY <2>1, <2>2 DEF Planned
<1>. QED
  BY <1>2, <1>3

\* No step but those of a command's lifecycle, edits and clean touch it.
LEMMA LifecycleFrame ==
  ASSUME Lifecycle, UNCHANGED <<src, outdated, pulled, level, primed, todo>>,
         \/ UNCHANGED <<pc, cmd>>
         \/ pc \notin {"exec", "idle"} /\ pc' \notin {"exec"} /\ cmd' = cmd
  PROVE  Lifecycle'
BY DEF Lifecycle

\* Every step preserves what the lifecycle left.
LEMMA LifecycleStep ==
  ASSUME TypeOK, Lifecycle, [Next]_vars
  PROVE  Lifecycle'
<1>0. TypeOK
  OBVIOUS
<1> USE PipelineAssumption DEF tree, process, history
<1>1. ASSUME NEW q \in Parts, EditSource(q) PROVE Lifecycle'
  <2>1. UNCHANGED <<pulled, level, primed, todo, pc, cmd>>
    BY <1>1 DEF EditSource
  <2>2. \A p \in Parts : outdated'[p] \/ (outdated'[p] = outdated[p] /\ src'[p] = src[p])
    BY <1>0, <1>1 DEF EditSource, TypeOK
  <2>. QED
    BY <2>1, <2>2 DEF Lifecycle
<1>2. CASE EditMetadata \/ EditAsset
  BY <1>2, LifecycleFrame DEF EditMetadata, EditAsset
<1>3. ASSUME NEW a \in Artifacts, Tamper(a) \/ RemoveArtifact(a) PROVE Lifecycle'
  BY <1>3, LifecycleFrame DEF Tamper, RemoveArtifact
<1>4. ASSUME NEW ps \in SUBSET Parts, Clean(ps) PROVE Lifecycle'
  <2>1. pc = "idle" /\ todo = {} /\ UNCHANGED <<src, outdated, pulled, pc, todo>>
    BY <1>4 DEF Clean, Lifecycle
  <2>2. \A p \in Parts : level'[p] = 0 \/ (level'[p] = level[p] /\ primed'[p] = primed[p])
    BY <1>4 DEF Clean
  <2>. QED
    BY <2>1, <2>2 DEF Lifecycle, Prime
<1>5. ASSUME NEW c \in Used, NEW ps \in SUBSET Parts, NEW sh \in BOOLEAN, Start(c, ps, sh)
      PROVE Lifecycle'
  <2>1. /\ UNCHANGED <<src, outdated, pulled, level, primed>> /\ pc' = "exec" /\ cmd' = c
        /\ todo' = Planned(ps, Target(c, sh))
    BY <1>5 DEF Start
  <2>2. Target(c, sh) \in Levels
    BY DEF Target, Levels, Pull, Build, Stage, Prime
  <2>3. c = "pack" => ps = Parts /\ Target(c, sh) = Prime
    BY <1>5 DEF Start, Names, Target
  <2>4. \A p \in Parts, n \in Levels :
          <<p, n>> \in todo' => n # 0 /\ (level[p] < n \/ <<p, Pull>> \in todo')
    BY <1>0, <2>1, <2>2, PlanAhead
  <2>5. c = "pack" => \A p \in Parts : \/ <<p, Prime>> \in todo'
                                       \/ level[p] = Prime /\ <<p, Pull>> \notin todo'
    <3>1. Prime \in Levels
      BY DEF Prime, Levels
    <3>. QED
      BY <1>0, <2>1, <2>2, <2>3, <3>1, PlanAhead
  <2>6. /\ \A p \in Parts : outdated'[p] \/ pulled'[p] = src'[p]
        /\ \A p \in Parts : level'[p] = Prime => primed'[p] = pulled'[p]
    BY <2>1 DEF Lifecycle
  <2>. QED
    BY <2>1, <2>4, <2>5, <2>6 DEF Lifecycle
<1>6. ASSUME NEW q \in Parts, NEW m \in Levels, Execute(q, m) PROVE Lifecycle'
  <2>0. /\ UNCHANGED <<src, pc, cmd>> /\ pc = "exec" /\ <<q, m>> \in todo
        /\ todo' = todo \ {<<q, m>>} /\ \A t \in todo : m <= t[2]
        /\ level' = [level EXCEPT ![q] = m]
    BY <1>6 DEF Execute, Effect
  <2>1. ASSUME NEW p \in Parts PROVE outdated'[p] \/ pulled'[p] = src'[p]
    <3>1. CASE m = Pull /\ p = q
      <4>1. pulled'[p] = src[p]
        BY <1>0, <1>6, <3>1 DEF Execute, Effect, TypeOK
      <4>. QED
        BY <2>0, <4>1
    <3>2. CASE ~(m = Pull /\ p = q)
      <4>1. pulled'[p] = pulled[p] /\ outdated'[p] = outdated[p]
        BY <1>0, <1>6, <3>2 DEF Execute, Effect, TypeOK
      <4>. QED
        BY <2>0, <4>1 DEF Lifecycle
    <3>. QED
      BY <3>1, <3>2
  <2>2. \A p \in Parts : level'[p] = Prime => primed'[p] = pulled'[p]
    <3>1. CASE m = Pull
      <4>1. /\ primed' = primed /\ \A p \in Parts : p # q => pulled'[p] = pulled[p] /\ level'[p] = level[p]
            /\ level'[q] # Prime
        BY <1>0, <1>6, <3>1 DEF Execute, Effect, TypeOK, Pull, Prime
      <4>. QED
        BY <4>1 DEF Lifecycle
    <3>2. CASE m # Pull
      <4>1. /\ pulled' = pulled
            /\ \A p \in Parts : p # q => primed'[p] = primed[p] /\ level'[p] = level[p]
            /\ level'[q] = Prime => primed'[q] = pulled[q]
        BY <1>0, <1>6, <3>2 DEF Execute, Effect, TypeOK
      <4>. QED
        BY <4>1 DEF Lifecycle
    <3>. QED
      BY <3>1, <3>2
  <2>3. ASSUME NEW p \in Parts, NEW n \in Levels, <<p, n>> \in todo'
        PROVE  n # 0 /\ (level'[p] < n \/ <<p, Pull>> \in todo')
    <3>1. <<p, n>> \in todo /\ <<p, n>> # <<q, m>> /\ n # 0
      BY <2>0, <2>3 DEF Lifecycle
    <3>2. CASE p # q
      BY <1>0, <2>0, <3>1, <3>2 DEF Lifecycle, TypeOK
    <3>3. CASE p = q
      <4>1. m <= n /\ m # n /\ level'[p] = m
        <5>1. m <= <<p, n>>[2]
          BY <2>0, <3>1
        <5>. QED
          BY <1>0, <2>0, <3>1, <3>3, <5>1 DEF TypeOK
      <4>. QED
        BY <3>1, <4>1 DEF Levels, Prime
    <3>. QED
      BY <3>2, <3>3
  <2>4. cmd' = "pack" => \A p \in Parts : \/ <<p, Prime>> \in todo'
                                          \/ level'[p] = Prime /\ <<p, Pull>> \notin todo'
    <3> SUFFICES ASSUME cmd = "pack", NEW p \in Parts
                 PROVE  \/ <<p, Prime>> \in todo'
                        \/ level'[p] = Prime /\ <<p, Pull>> \notin todo'
      BY <2>0
    <3>1. CASE p # q
      BY <1>0, <2>0, <3>1 DEF Lifecycle, TypeOK
    <3>2. CASE p = q /\ m = Prime
      <4>1. <<q, Pull>> \notin todo
        <5>1. <<q, Pull>> \in todo => Prime <= <<q, Pull>>[2]
          BY <2>0, <3>2
        <5>. QED
          BY <5>1 DEF Prime, Pull
      <4>. QED
        BY <1>0, <2>0, <3>2, <4>1 DEF TypeOK
    <3>3. CASE p = q /\ m # Prime
      <4>1. CASE <<q, Prime>> \in todo
        BY <2>0, <3>3, <4>1
      <4>2. CASE level[q] = Prime /\ <<q, Pull>> \notin todo
        <5>1. level[q] < m
          BY <2>0, <4>2 DEF Lifecycle
        <5>. QED
          BY <4>2, <5>1 DEF Levels, Prime
      <4>. QED
        BY <2>0, <4>1, <4>2 DEF Lifecycle
    <3>. QED
      BY <3>1, <3>2, <3>3
  <2>. QED
    BY <2>0, <2>1, <2>2, <2>3, <2>4 DEF Lifecycle
<1>7. CASE LifecycleDone
  BY <1>7, LifecycleFrame DEF LifecycleDone, Lifecycle
<1>8. CASE UpdateProject \/ WriteMetadata \/ Finish
  BY <1>8, LifecycleFrame DEF UpdateProject, WriteMetadata, Finish, Packing
<1>9. ASSUME NEW a \in Artifacts,
             Decide(a) \/ WritePackageFiles(a) \/ ReadExtraAssets(a) \/ WriteExtraAssets(a) \/ PackArtifact(a)
      PROVE  Lifecycle'
  BY <1>9, LifecycleFrame DEF Decide, WritePackageFiles, ReadExtraAssets, WriteExtraAssets, PackArtifact
<1>10. CASE Report \/ Return
  <2>1. UNCHANGED <<src, outdated, pulled, level, primed>> /\ todo' = {} /\ pc' = "idle"
    BY <1>10 DEF Report, Return, Exit
  <2>. QED
    BY <2>1 DEF Lifecycle
<1>11. CASE Abort
  <2>1. UNCHANGED <<src, outdated, pulled, level>> /\ todo' = {} /\ pc' = "idle"
    BY <1>11 DEF Abort, Exit
  <2>2. ASSUME NEW p \in Parts, level[p] = Prime PROVE primed'[p] = pulled[p]
    <3>1. CASE UNCHANGED primed
      BY <2>2, <3>1 DEF Lifecycle
    <3>2. ASSUME NEW t \in todo, \A u \in todo : u[2] = Prime,
                 primed' = [primed EXCEPT ![t[1]] = Partial]
          PROVE  primed'[p] = pulled[p]
      <4>1. PICK q \in Parts, n \in Levels : t = <<q, n>>
        BY <1>0, <3>2 DEF TypeOK
      <4>2. n = Prime /\ <<q, n>> \in todo
        BY <3>2, <4>1
      <4>3. <<q, Pull>> \notin todo
        <5>1. <<q, Pull>> \in todo => <<q, Pull>>[2] = Prime
          BY <3>2
        <5>. QED
          BY <5>1 DEF Pull, Prime
      <4>4. level[q] < Prime
        BY <4>1, <4>2, <4>3 DEF Lifecycle
      <4>5. p # q
        BY <2>2, <4>4 DEF Prime
      <4>. QED
        BY <1>0, <2>2, <3>2, <4>1, <4>5 DEF Lifecycle, TypeOK
    <3>. QED
      BY <1>11, <3>1, <3>2 DEF Abort
  <2>. QED
    BY <2>1, <2>2 DEF Lifecycle
<1>12. CASE UNCHANGED vars
  BY <1>12, LifecycleFrame DEF vars
<1>. QED
  BY <1>1, <1>2, <1>3, <1>4, <1>5, <1>6, <1>7, <1>8, <1>9, <1>10, <1>11, <1>12, NextCases

\* Nothing it speaks of changes in most steps.
LEMMA DecidedFrame ==
  ASSUME Decided, UNCHANGED <<primed, files, artifact, cmd, outcome, orphaned>>,
         pc' # "record" \/ pc' = pc
  PROVE  Decided'
BY DEF Decided, Content

\* Nor can a command be wrong that has decided nothing yet.
LEMMA Undecided ==
  ASSUME outcome' = [a \in Artifacts |-> "undecided"], pc' # "record"
  PROVE  Decided'
BY DEF Decided

\* Every step preserves what was decided, by SkipCurrent where it is decided.
LEMMA DecidedStep ==
  ASSUME PackageFile \in Generated[Default], PackInv, Decided, [Next]_vars
  PROVE  Decided'
<1>0. TypeOK
  BY DEF PackInv
<1> USE PipelineAssumption DEF tree, process, history
<1>1. ASSUME NEW p \in Parts, EditSource(p) PROVE Decided'
  BY <1>1, DecidedFrame DEF EditSource
<1>2. CASE EditMetadata \/ EditAsset \/ LifecycleDone \/ UpdateProject \/ UNCHANGED vars
  BY <1>2, DecidedFrame DEF EditMetadata, EditAsset, LifecycleDone, UpdateProject, vars
<1>3. ASSUME pc \in {"idle", "exec", "update", "metadata"}, pc' # "record",
             outcome' = outcome
      PROVE  Decided'
  <2>1. \A a \in Artifacts : outcome'[a] = "undecided"
    BY <1>3 DEF PackInv, Phases
  <2>. QED
    BY <1>3, <2>1 DEF Decided
<1>4. ASSUME NEW a \in Artifacts, Tamper(a) \/ RemoveArtifact(a) PROVE Decided'
  BY <1>3, <1>4 DEF Tamper, RemoveArtifact
<1>5. ASSUME NEW ps \in SUBSET Parts, Clean(ps) PROVE Decided'
  BY <1>3, <1>5 DEF Clean
<1>6. ASSUME NEW c \in Used, NEW ps \in SUBSET Parts, NEW sh \in BOOLEAN, Start(c, ps, sh)
      PROVE  Decided'
  BY <1>6, Undecided DEF Start
<1>7. ASSUME NEW p \in Parts, NEW n \in Levels, Execute(p, n) PROVE Decided'
  BY <1>3, <1>7 DEF Execute
<1>8. CASE WriteMetadata
  BY <1>3, <1>8 DEF WriteMetadata
<1>9. CASE Report \/ Return \/ Abort
  BY <1>9, Undecided DEF Report, Return, Abort, Exit
<1>10. ASSUME NEW a \in Artifacts, Decide(a) PROVE Decided'
  <2>1. /\ pc = "decide" /\ cmd = "pack" /\ outcome[a] = "undecided"
        /\ UNCHANGED <<primed, files, artifact, pc, cmd, orphaned>>
    BY <1>10 DEF Decide, Packing
  <2>2. ASSUME NEW b \in Artifacts, outcome'[b] = "skipped", ~orphaned'[b]
        PROVE  artifact'[b] = Content(b)' /\ artifact'[b] \in PrimeContent
    <3>1. CASE b = a
      <4>1. Conditional /\ ~NeedsPacking(a)
        BY <1>0, <1>10, <2>2, <3>1 DEF Decide, TypeOK
      <4>2. artifact[a] = Content(a)
        BY <2>1, <2>2, <3>1, <4>1, SkipCurrent
      <4>3. Content(a) \in PrimeContent
        BY <1>0 DEF Content, PrimeContent, TypeOK
      <4>. QED
        BY <2>1, <3>1, <4>2, <4>3 DEF Content
    <3>2. CASE b # a
      <4>1. outcome[b] = "skipped" /\ ~orphaned[b]
        BY <1>0, <1>10, <2>1, <2>2, <3>2 DEF Decide, TypeOK
      <4>. QED
        BY <2>1, <4>1 DEF Decided, Content
    <3>. QED
      BY <3>1, <3>2
  <2>. QED
    BY <2>1, <2>2 DEF Decided
<1>11. ASSUME NEW a \in Artifacts, WritePackageFiles(a) \/ ReadExtraAssets(a) \/ WriteExtraAssets(a) \/ PackArtifact(a)
       PROVE  Decided'
  <2>1. /\ pc = "decide" /\ outcome[a] # "undecided" /\ UNCHANGED <<primed, pc, cmd>>
        /\ outcome'[a] # "skipped"
    BY <1>0, <1>11 DEF WritePackageFiles, ReadExtraAssets, WriteExtraAssets, PackArtifact, TypeOK
  <2>2. ASSUME NEW b \in Artifacts, b # a
        PROVE  /\ outcome'[b] = outcome[b] /\ files'[b] = files[b]
               /\ artifact'[b] = artifact[b] /\ orphaned'[b] = orphaned[b]
    BY <1>0, <1>11, <2>2 DEF WritePackageFiles, ReadExtraAssets, WriteExtraAssets, PackArtifact, TypeOK
  <2>3. ASSUME NEW b \in Artifacts, outcome'[b] = "skipped", ~orphaned'[b]
        PROVE  artifact'[b] = Content(b)' /\ artifact'[b] \in PrimeContent
    BY <2>1, <2>2, <2>3 DEF Decided, Content
  <2>4. cmd' = "pack"
    BY <2>1 DEF Decided
  <2>. QED
    BY <2>1, <2>3, <2>4 DEF Decided
<1>12. CASE Finish
  <2>1. /\ UNCHANGED <<primed, files, artifact, cmd, outcome, orphaned>>
        /\ cmd = "pack" /\ \A a \in Artifacts : outcome[a] \in {"packed", "skipped"}
    BY <1>12 DEF Finish, Packing
  <2>. QED
    BY <2>1 DEF Decided, Content
<1>. QED
  BY <1>1, <1>2, <1>4, <1>5, <1>6, <1>7, <1>8, <1>9, <1>10, <1>11, <1>12, NextCases

\* In the last phase of pack the three parts of the invariant give freshness.
LEMMA FreshAtReport ==
  ASSUME PackInv, Lifecycle, Decided
  PROVE  PackedIsFresh
<1> SUFFICES ASSUME pc = "record", NEW a \in Artifacts, outcome[a] = "packed" \/ ~orphaned[a]
             PROVE  /\ artifact[a] \in PrimeContent
                    /\ \A p \in Parts : outdated[p] \/ artifact[a].parts[p] = src[p]
                    /\ a = Default => artifact[a].files[Metadata] = loaded
  BY DEF PackedIsFresh
<1>1. artifact[a] = Content(a)
  <2>1. CASE outcome[a] = "packed"
    BY <2>1 DEF PackInv, Kept, Whole
  <2>2. CASE outcome[a] # "packed"
    BY <2>2 DEF Decided
  <2>. QED
    BY <2>1, <2>2
<1>2. Content(a) \in PrimeContent
  BY DEF Content, PrimeContent, PackInv, TypeOK
<1>3. ASSUME NEW p \in Parts, ~outdated[p] PROVE primed[p] = src[p]
  BY <1>3 DEF Lifecycle, Decided
<1>4. files[Default][Metadata] = loaded
  BY DEF PackInv, MetadataKept
<1>. QED
  BY <1>1, <1>2, <1>3, <1>4 DEF Content

\* What PackCommand._run_pack reports is fresh, for any number of parts,
\* artifacts and versions and whatever commands, edits and failures came
\* before: every artifact it packed, or skipped with nothing orphaned, is made
\* from the sources and the metadata.  Required is, as in SkipSound, a package
\* file for the default artifact.
THEOREM PackFresh == PackageFile \in Generated[Default] => (Spec => []PackedIsFresh)
<1> SUFFICES ASSUME PackageFile \in Generated[Default] PROVE Spec => []PackedIsFresh
  OBVIOUS
<1> DEFINE Inv == PackInv /\ Lifecycle /\ Decided
<1>1. Init => Inv
  <2> SUFFICES ASSUME Init PROVE Lifecycle /\ Decided
    BY PackStart
  <2>1. Lifecycle
    BY DEF Init, Lifecycle, Prime
  <2>2. Decided
    BY DEF Init, Decided
  <2>. QED
    BY <2>1, <2>2
<1>2. Inv /\ [Next]_vars => Inv'
  BY PackStep, LifecycleStep, DecidedStep DEF PackInv
<1>3. Inv => PackedIsFresh
  BY FreshAtReport
<1> HIDE DEF Inv
<1>. QED
  BY <1>1, <1>2, <1>3, PTL DEF Spec
-----------------------------------------------------------------------------
(* SkippedAssetIsCurrent: the copy of an extra asset. *)

\* A copy that is not older than the asset is a copy of it, unless it is torn,
\* or an edit can leave the asset with an older time stamp.
AssetKept ==
  HonestClock =>
    \A a \in Artifacts :
      Asset \in Generated[a] /\ files[a][Asset] # Absent /\ ~newer[a] =>
        torn[a] \/ files[a][Asset] = asset

\* Every step preserves that.
LEMMA AssetStep ==
  ASSUME TypeOK, AssetKept, [Next]_vars
  PROVE  AssetKept'
<1> USE PipelineAssumption DEF tree, process, history
<1>1. ASSUME UNCHANGED <<asset, newer, torn>>,
             \A a \in Artifacts : files'[a][Asset] \in {Absent, files[a][Asset]}
      PROVE  AssetKept'
  BY <1>1 DEF AssetKept
<1>2. ASSUME UNCHANGED <<asset, newer, files, torn>> PROVE AssetKept'
  BY <1>2 DEF AssetKept
<1>3. Asset # PackageFile /\ Asset # Metadata /\ Asset \in Files
  BY DEF Asset, PackageFile, Metadata, Files
<1>4. CASE EditAsset
  BY <1>4 DEF EditAsset, AssetKept
<1>5. ASSUME NEW a \in Artifacts, Tamper(a) PROVE AssetKept'
  <2>1. \A b \in Artifacts : files'[b][Asset] = files[b][Asset]
    BY <1>3, <1>5 DEF Tamper, TypeOK
  <2>. QED
    BY <1>1, <1>5, <2>1 DEF Tamper
<1>6. ASSUME NEW ps \in SUBSET Parts, Clean(ps) PROVE AssetKept'
  <2>1. \A b \in Artifacts : files'[b][Asset] \in {Absent, files[b][Asset]}
    BY <1>3, <1>6 DEF Clean
  <2>2. CASE ps = {}
    BY <1>3, <1>6, <2>2 DEF Clean, AssetKept
  <2>3. CASE ps # {}
    <3>1. asset' = asset /\ \A b \in Artifacts : newer'[b] = newer[b] /\ torn'[b] = torn[b]
      BY <1>6, <2>3 DEF Clean, TypeOK
    <3>. QED
      BY <2>1, <3>1 DEF AssetKept
  <2>. QED
    BY <2>2, <2>3
<1>7. CASE WriteMetadata
  <2>1. \A b \in Artifacts : files'[b][Asset] = files[b][Asset]
    BY <1>3, <1>7 DEF WriteMetadata, TypeOK
  <2>. QED
    BY <1>1, <1>7, <2>1 DEF WriteMetadata
<1>8. ASSUME NEW a \in Artifacts, WritePackageFiles(a) PROVE AssetKept'
  <2>1. \A b \in Artifacts : files'[b][Asset] = files[b][Asset]
    BY <1>3, <1>8 DEF WritePackageFiles, TypeOK
  <2>. QED
    BY <1>1, <1>8, <2>1 DEF WritePackageFiles
<1>9. ASSUME NEW a \in Artifacts, WriteExtraAssets(a) PROVE AssetKept'
  <2>1. CASE Asset \notin Generated[a]
    BY <1>2, <1>9, <2>1 DEF WriteExtraAssets
  <2>2. CASE Asset \in Generated[a]
    <3>1. /\ files'[a][Asset] = copied[a] /\ asset' = asset /\ torn'[a] = (copied[a] # asset)
          /\ \A b \in Artifacts : b # a => /\ files'[b] = files[b] /\ newer'[b] = newer[b]
                                          /\ torn'[b] = torn[b]
      BY <1>3, <1>9, <2>2 DEF WriteExtraAssets, TypeOK
    <3>. QED
      BY <3>1 DEF AssetKept
  <2>. QED
    BY <2>1, <2>2
<1>10. ASSUME NEW p \in Parts, EditSource(p) \/ \E n \in Levels : Execute(p, n)
       PROVE  AssetKept'
  BY <1>2, <1>10 DEF EditSource, Execute
<1>11. ASSUME NEW a \in Artifacts, RemoveArtifact(a) \/ Decide(a) \/ ReadExtraAssets(a) \/ PackArtifact(a)
       PROVE  AssetKept'
  BY <1>2, <1>11 DEF RemoveArtifact, Decide, ReadExtraAssets, PackArtifact
<1>12. ASSUME NEW c \in Used, NEW ps \in SUBSET Parts, NEW sh \in BOOLEAN, Start(c, ps, sh)
       PROVE  AssetKept'
  BY <1>2, <1>12 DEF Start
<1>13. CASE EditMetadata \/ LifecycleDone \/ UpdateProject \/ Finish
  BY <1>2, <1>13 DEF EditMetadata, LifecycleDone, UpdateProject, Finish
<1>14. CASE Report \/ Return \/ UNCHANGED vars
  BY <1>2, <1>14 DEF Report, Return, vars
<1>15. CASE Abort
  <2>1. CASE UNCHANGED <<newer, files, torn>>
    BY <1>2, <1>15, <2>1 DEF Abort
  <2>2. ASSUME NEW a \in Artifacts, files' = [files EXCEPT ![a][Asset] = Partial],
               newer' = [newer EXCEPT ![a] = FALSE], torn' = [torn EXCEPT ![a] = TRUE]
        PROVE  AssetKept'
    <3>1. /\ asset' = asset /\ torn'[a]
          /\ \A b \in Artifacts : b # a => /\ files'[b] = files[b] /\ newer'[b] = newer[b]
                                          /\ torn'[b] = torn[b]
      BY <1>15, <2>2 DEF Abort, TypeOK
    <3>. QED
      BY <3>1 DEF AssetKept
  <2>. QED
    BY <1>15, <2>1, <2>2 DEF Abort
<1>. QED
  BY <1>4, <1>5, <1>6, <1>7, <1>8, <1>9, <1>10, <1>11, <1>12, <1>13, <1>14, <1>15, NextCases

\* An artifact that pack skips holds the extra asset that it would copy now,
\* for any parts, artifacts and contents, unless an earlier command orphaned
\* it, half wrote the copy, or wrote it while the asset was edited.  Required
\* is that an edited asset is younger than its copy (_asset_changed compares
\* nothing else), and, as in SkipSound, a package file for the default artifact.
THEOREM AssetCurrent ==
  HonestClock /\ PackageFile \in Generated[Default] => (Spec => SkippedAssetIsCurrent)
<1> SUFFICES ASSUME HonestClock, PackageFile \in Generated[Default]
             PROVE  Spec => SkippedAssetIsCurrent
  OBVIOUS
<1> DEFINE Inv == PackInv /\ AssetKept
           IsCurrent == \A a \in Artifacts :
                          /\ outcome[a] = "undecided" /\ outcome'[a] = "skipped"
                          /\ Asset \in Generated[a]
                          => orphaned[a] \/ torn[a] \/ artifact[a].files[Asset] = asset
<1>1. Init => Inv
  <2> SUFFICES ASSUME Init PROVE AssetKept
    BY PackStart
  <2>1. Asset \in Files
    BY DEF Asset, Files
  <2>. QED
    BY <2>1 DEF Init, AssetKept
<1>2. Inv /\ [Next]_vars => Inv'
  BY PackStep, AssetStep DEF PackInv
<1>3. ASSUME Inv, [Next]_vars, NEW a \in Artifacts, outcome[a] = "undecided",
             outcome'[a] = "skipped", Asset \in Generated[a], ~orphaned[a], ~torn[a]
      PROVE  artifact[a].files[Asset] = asset
  <2>1. TypeOK
    BY <1>3 DEF PackInv
  <2>2. Decide(a)
    BY <1>3, <2>1, OnlyDecided
  <2>3. Conditional /\ ~NeedsPacking(a) /\ pc = "decide" /\ cmd = "pack"
    BY <1>3, <2>1, <2>2 DEF Decide, Packing, TypeOK
  <2>4. artifact[a] = Content(a)
    BY <1>3, <2>3, SkipCurrent
  <2>5. files[a][Asset] # Absent /\ ~newer[a]
    BY <1>3, <2>3 DEF NeedsPacking, FileChanged
  <2>. QED
    BY <1>3, <2>4, <2>5 DEF AssetKept, Content
<1>4. Inv /\ [Next]_vars => [IsCurrent]_vars
  BY <1>3
<1> HIDE DEF Inv, IsCurrent
<1>5. Spec => [][IsCurrent]_vars
  BY <1>1, <1>2, <1>4, PTL DEF Spec
<1>. QED
  BY <1>5 DEF SkippedAssetIsCurrent, IsCurrent
-----------------------------------------------------------------------------
(* RepackOnlyWhenChanged: nothing is left to do after a pack. *)

\* Every part is at the last step, from a source that was not edited.
Current == \A p \in Parts : ~outdated[p] /\ level[p] = Prime

\* The generated files of an artifact are those of the project file: all of
\* them, and the text.
Fresh(a) ==
  \A f \in Generated[a] :
    IF f = Asset THEN files[a][f] # Absent /\ ~newer[a] ELSE files[a][f] = metadata
FreshText(a) == \A f \in Generated[a] \ {Asset} : files[a][f] = metadata

\* In which phase artifacts are decided, and the project model is changed.
Phased ==
  /\ pc \in {"idle", "exec", "update", "metadata"} => \A a \in Artifacts : outcome[a] = "undecided"
  /\ pc = "record" => \A a \in Artifacts : outcome[a] \in {"packed", "skipped"}
  /\ pc \in {"idle", "exec", "update"} => ~updated
  /\ quiet # "no" => IF pc = "idle" THEN quiet = "yes" ELSE cmd = "pack"

\* As long as nothing changes, the running pack does all that is left to do,
\* and the next one finds nothing.
PartsSettled ==
  quiet # "no" =>
    /\ pc = "exec" => \A p \in Parts : outdated[p] => <<p, Pull>> \in todo
    /\ pc # "exec" => Current
    /\ quiet = "yes" => todo = {} /\ ~requires /\ Current
Settled(a) ==
  quiet # "no" /\ ~updated =>
    /\ quiet = "yes" \/ outcome[a] \in {"packed", "skipped"} =>
         artifact[a] # NotAFile /\ (Conditional => Fresh(a))
    /\ Conditional /\ outcome[a] = "written" => FreshText(a)
    /\ Conditional /\ outcome[a] = "ready" => Fresh(a)

\* The project model is that of the project file, unless the application changes it.
LoadedSettled == quiet # "no" /\ ~updated /\ pc # "idle" => loaded = metadata

QuietInv ==
  /\ Phased /\ PartsSettled
  /\ LoadedSettled
  /\ \A a \in Artifacts : Settled(a)

\* What no step but those of packing changes.
LEMMA PhasedStep ==
  ASSUME TypeOK, Phased, [Next]_vars
  PROVE  Phased'
<1> USE PipelineAssumption DEF tree, process, history
<1>1. ASSUME UNCHANGED <<pc, cmd, updated, outcome>>, quiet' \in {"no", quiet} PROVE Phased'
  BY <1>1 DEF Phased
<1>2. ASSUME NEW p \in Parts, EditSource(p) \/ \E n \in Levels : Execute(p, n) PROVE Phased'
  BY <1>1, <1>2 DEF EditSource, Execute
<1>3. CASE EditMetadata \/ EditAsset \/ UNCHANGED vars
  BY <1>1, <1>3 DEF EditMetadata, EditAsset, vars
<1>4. ASSUME NEW a \in Artifacts, Tamper(a) \/ RemoveArtifact(a) PROVE Phased'
  BY <1>1, <1>4 DEF Tamper, RemoveArtifact
<1>5. ASSUME NEW ps \in SUBSET Parts, Clean(ps) PROVE Phased'
  BY <1>1, <1>5 DEF Clean
<1>6. ASSUME NEW c \in Used, NEW ps \in SUBSET Parts, NEW sh \in BOOLEAN, Start(c, ps, sh)
      PROVE Phased'
  BY <1>6 DEF Start, Phased
<1>7. CASE LifecycleDone
  BY <1>7 DEF LifecycleDone, Phased
<1>8. CASE UpdateProject
  BY <1>8 DEF UpdateProject, Phased
<1>9. CASE WriteMetadata
  BY <1>9 DEF WriteMetadata, Phased
<1>10. ASSUME NEW a \in Artifacts,
              Decide(a) \/ WritePackageFiles(a) \/ ReadExtraAssets(a) \/ WriteExtraAssets(a) \/ PackArtifact(a)
       PROVE Phased'
  <2>1. pc = "decide" /\ UNCHANGED <<pc, cmd, updated, quiet>>
    BY <1>10 DEF Decide, Packing, WritePackageFiles, ReadExtraAssets, WriteExtraAssets, PackArtifact
  <2>. QED
    BY <2>1 DEF Phased
<1>11. CASE Finish
  BY <1>11 DEF Finish, Packing, Phased
<1>12. CASE Report \/ Return \/ Abort
  <2>1. /\ pc' = "idle" /\ updated' = FALSE /\ \A a \in Artifacts : outcome'[a] = "undecided"
        /\ quiet' \in {"no", "yes"}
    BY <1>12 DEF Report, Return, Abort, Exit
  <2>. QED
    BY <2>1 DEF Phased
<1>. QED
  BY <1>2, <1>3, <1>4, <1>5, <1>6, <1>7, <1>8, <1>9, <1>10, <1>11, <1>12, NextCases

\* A pack plans every step of a part that was edited, or is not at its last
\* step; if there is none, it plans nothing.
LEMMA PlanWhole ==
  ASSUME TypeOK
  PROVE  /\ \A p \in Parts : outdated[p] => <<p, Pull>> \in Planned(Parts, Prime)
         /\ Current => Planned(Parts, Prime) = {}
<1> USE DEF Prime, Pull
<1>1. \A p \in Parts : <<p, 1>> \in Parts \X (1..4)
  OBVIOUS
<1>2. \A p \in Parts, n \in 1..4 : ~(n > 4)
  OBVIOUS
<1>. QED
  BY <1>1, <1>2 DEF Planned, Current

\* As long as nothing changes, parts are only built, and only if that is planned.
LEMMA PartsSettledStep ==
  ASSUME TypeOK, Lifecycle, Phased, PartsSettled, [Next]_vars
  PROVE  PartsSettled'
<1> USE PipelineAssumption DEF tree, process, history
<1>1. ASSUME quiet' = "no" PROVE PartsSettled'
  BY <1>1 DEF PartsSettled
<1>2. ASSUME UNCHANGED <<outdated, level, todo, requires, quiet>>,
             pc' = pc \/ (pc # "exec" /\ pc' # "exec")
      PROVE  PartsSettled'
  BY <1>2 DEF PartsSettled, Current
<1>3. ASSUME NEW p \in Parts, EditSource(p) PROVE PartsSettled'
  BY <1>1, <1>3 DEF EditSource
<1>4. CASE EditMetadata \/ EditAsset \/ Return \/ Abort
  BY <1>1, <1>4 DEF EditMetadata, EditAsset, Return, Abort
<1>5. ASSUME NEW a \in Artifacts, Tamper(a) \/ RemoveArtifact(a) PROVE PartsSettled'
  BY <1>1, <1>5 DEF Tamper, RemoveArtifact
<1>6. ASSUME NEW ps \in SUBSET Parts, Clean(ps) PROVE PartsSettled'
  BY <1>1, <1>6 DEF Clean
<1>7. ASSUME NEW c \in Used, NEW ps \in SUBSET Parts, NEW sh \in BOOLEAN, Start(c, ps, sh)
      PROVE PartsSettled'
  <2> SUFFICES ASSUME quiet' # "no" PROVE PartsSettled'
    BY <1>1
  <2>1. /\ c = "pack" /\ ps = Parts /\ Target(c, sh) = Prime /\ todo' = Planned(Parts, Prime)
        /\ requires' = (todo' # {}) /\ pc' = "exec" /\ UNCHANGED <<outdated, level>>
        /\ quiet' = "yes" => quiet = "yes"
    BY <1>7 DEF Start, Names, Target
  <2>2. quiet = "yes" => Current
    BY DEF PartsSettled
  <2>. QED
    BY <2>1, <2>2, PlanWhole DEF PartsSettled, Current
<1>8. ASSUME NEW p \in Parts, NEW n \in Levels, Execute(p, n) PROVE PartsSettled'
  <2>1. /\ pc = "exec" /\ pc' = pc /\ <<p, n>> \in todo /\ \A t \in todo : n <= t[2]
        /\ todo' = todo \ {<<p, n>>} /\ UNCHANGED <<quiet, requires>>
        /\ outdated' = IF n = Pull THEN [outdated EXCEPT ![p] = FALSE] ELSE outdated
    BY <1>8 DEF Execute, Effect
  <2>2. quiet # "yes"
    BY <2>1 DEF PartsSettled
  <2>3. ASSUME quiet # "no", NEW q \in Parts, outdated'[q] PROVE <<q, Pull>> \in todo'
    <3>1. outdated[q] /\ <<q, Pull>> # <<p, n>>
      BY <2>1, <2>3 DEF TypeOK
    <3>. QED
      BY <2>1, <2>3, <3>1 DEF PartsSettled
  <2>. QED
    BY <2>1, <2>2, <2>3 DEF PartsSettled
<1>9. CASE LifecycleDone
  <2> SUFFICES ASSUME quiet' # "no" PROVE PartsSettled'
    BY <1>1
  <2>1. /\ pc = "exec" /\ todo = {} /\ pc' = "update"
        /\ UNCHANGED <<outdated, level, todo, requires, quiet, cmd>>
    BY <1>9 DEF LifecycleDone
  <2>2. cmd = "pack"
    BY <2>1 DEF Phased
  <2>3. Current
    BY <2>1, <2>2 DEF PartsSettled, Lifecycle, Current
  <2>. QED
    BY <2>1, <2>3 DEF PartsSettled, Current
<1>10. CASE UpdateProject \/ WriteMetadata \/ Finish
  BY <1>2, <1>10 DEF UpdateProject, WriteMetadata, Finish, Packing
<1>11. ASSUME NEW a \in Artifacts,
              Decide(a) \/ WritePackageFiles(a) \/ ReadExtraAssets(a) \/ WriteExtraAssets(a) \/ PackArtifact(a)
       PROVE PartsSettled'
  BY <1>2, <1>11 DEF Decide, Packing, WritePackageFiles, ReadExtraAssets, WriteExtraAssets, PackArtifact
<1>12. CASE Report
  <2>1. /\ pc = "record" /\ pc' = "idle" /\ todo' = {} /\ requires' = FALSE
        /\ UNCHANGED <<outdated, level>>
        /\ quiet' # "no" => quiet # "no"
    BY <1>12 DEF Report, Exit
  <2>. QED
    BY <2>1 DEF PartsSettled, Current
<1>13. CASE UNCHANGED vars
  <2>1. UNCHANGED <<outdated, level, todo, requires, quiet>> /\ pc' = pc
    BY <1>13 DEF vars
  <2>. QED
    BY <1>2, <2>1
<1>. QED
  BY <1>3, <1>4, <1>5, <1>6, <1>7, <1>8, <1>9, <1>10, <1>11, <1>12, <1>13, NextCases

\* It is loaded at the start, and changed only by update_project.
LEMMA LoadedSettledStep ==
  ASSUME TypeOK, Phased, LoadedSettled, [Next]_vars
  PROVE  LoadedSettled'
<1> USE PipelineAssumption DEF tree, process, history
<1>1. ASSUME quiet' = "no" \/ pc' = "idle" PROVE LoadedSettled'
  BY <1>1 DEF LoadedSettled
<1>2. ASSUME UNCHANGED <<metadata, loaded, updated, quiet>>, pc # "idle" PROVE LoadedSettled'
  BY <1>2 DEF LoadedSettled
<1>3. ASSUME NEW p \in Parts, EditSource(p) PROVE LoadedSettled'
  BY <1>1, <1>3 DEF EditSource
<1>4. CASE EditMetadata \/ EditAsset \/ Return \/ Abort \/ Report
  BY <1>1, <1>4 DEF EditMetadata, EditAsset, Return, Abort, Report, Exit
<1>5. ASSUME NEW a \in Artifacts, Tamper(a) \/ RemoveArtifact(a) PROVE LoadedSettled'
  BY <1>1, <1>5 DEF Tamper, RemoveArtifact
<1>6. ASSUME NEW ps \in SUBSET Parts, Clean(ps) PROVE LoadedSettled'
  BY <1>1, <1>6 DEF Clean
<1>7. ASSUME NEW c \in Used, NEW ps \in SUBSET Parts, NEW sh \in BOOLEAN, Start(c, ps, sh)
      PROVE LoadedSettled'
  BY <1>7 DEF Start, LoadedSettled
<1>8. ASSUME NEW p \in Parts, NEW n \in Levels, Execute(p, n) PROVE LoadedSettled'
  BY <1>2, <1>8 DEF Execute
<1>9. CASE LifecycleDone \/ WriteMetadata \/ Finish
  BY <1>2, <1>9 DEF LifecycleDone, WriteMetadata, Finish, Packing
<1>10. CASE UpdateProject
  BY <1>10 DEF UpdateProject, LoadedSettled, Phased
<1>11. ASSUME NEW a \in Artifacts,
              Decide(a) \/ WritePackageFiles(a) \/ ReadExtraAssets(a) \/ WriteExtraAssets(a) \/ PackArtifact(a)
       PROVE LoadedSettled'
  BY <1>2, <1>11 DEF Decide, Packing, WritePackageFiles, ReadExtraAssets, WriteExtraAssets, PackArtifact
<1>12. CASE UNCHANGED vars
  BY <1>12 DEF vars, LoadedSettled
<1>. QED
  BY <1>3, <1>4, <1>5, <1>6, <1>7, <1>8, <1>9, <1>10, <1>11, <1>12, NextCases

\* While nothing changes, an artifact gets fresh and then packed, or is both.
LEMMA SettledStep ==
  ASSUME TypeOK, QuietInv, [Next]_vars, NEW a \in Artifacts
  PROVE  Settled(a)'
<1> USE PipelineAssumption DEF tree, process, history
<1>0. Settled(a) /\ LoadedSettled /\ Phased
  BY DEF QuietInv
<1>1. ASSUME quiet' = "no" PROVE Settled(a)'
  BY <1>1 DEF Settled
<1>2. ASSUME UNCHANGED <<files, newer, metadata, artifact, outcome, updated>>, quiet' \in {"no", quiet}
      PROVE  Settled(a)'
  BY <1>0, <1>2 DEF Settled, Fresh, FreshText
<1>3. ASSUME NEW p \in Parts, EditSource(p) \/ \E n \in Levels : Execute(p, n) PROVE Settled(a)'
  BY <1>1, <1>2, <1>3 DEF EditSource, Execute
<1>4. CASE EditMetadata \/ EditAsset \/ Return \/ Abort
  BY <1>1, <1>4 DEF EditMetadata, EditAsset, Return, Abort
<1>5. ASSUME NEW b \in Artifacts, Tamper(b) \/ RemoveArtifact(b) PROVE Settled(a)'
  BY <1>1, <1>5 DEF Tamper, RemoveArtifact
<1>6. ASSUME NEW ps \in SUBSET Parts, Clean(ps) PROVE Settled(a)'
  BY <1>1, <1>6 DEF Clean
<1>7. ASSUME NEW c \in Used, NEW ps \in SUBSET Parts, NEW sh \in BOOLEAN, Start(c, ps, sh)
      PROVE Settled(a)'
  <2>1. /\ UNCHANGED <<files, newer, metadata, artifact>> /\ outcome'[a] = "undecided"
        /\ pc = "idle"
        /\ quiet' = "yes" => quiet = "yes"
    BY <1>7 DEF Start
  <2>2. ~updated
    BY <1>0, <2>1 DEF Phased
  <2>. QED
    BY <1>0, <2>1, <2>2 DEF Settled, Fresh, FreshText
<1>8. CASE LifecycleDone \/ Finish
  BY <1>2, <1>8 DEF LifecycleDone, Finish
<1>9. CASE UpdateProject
  <2>1. /\ UNCHANGED <<files, newer, metadata, artifact, outcome, quiet>> /\ pc = "update"
    BY <1>9 DEF UpdateProject
  <2>2. ~updated
    BY <1>0, <2>1 DEF Phased
  <2>. QED
    BY <1>0, <2>1, <2>2 DEF Settled, Fresh, FreshText
<1>10. CASE WriteMetadata
  <2> SUFFICES ASSUME quiet # "no", ~updated PROVE Settled(a)'
    BY <1>10 DEF WriteMetadata, Settled
  <2>1. /\ UNCHANGED <<newer, metadata, artifact, outcome, updated, quiet>> /\ pc = "metadata"
        /\ files' = [files EXCEPT ![Default][Metadata] = loaded]
    BY <1>10 DEF WriteMetadata
  <2>2. loaded = metadata
    BY <1>0, <2>1 DEF LoadedSettled
  <2>3. \A f \in Files : files'[a][f] = files[a][f] \/ (f = Metadata /\ files'[a][f] = metadata)
    <3>1. files'[a] = IF a = Default THEN [files[a] EXCEPT ![Metadata] = loaded] ELSE files[a]
      BY <2>1 DEF TypeOK
    <3>2. DOMAIN files[a] = Files
      BY DEF TypeOK
    <3>. QED
      BY <2>2, <3>1, <3>2
  <2>4. Asset # Metadata /\ Generated[a] \subseteq Files
    BY DEF Asset, Metadata
  <2>5. Fresh(a) => Fresh(a)'
    BY <2>1, <2>3, <2>4 DEF Fresh
  <2>6. outcome[a] = "undecided"
    BY <1>0, <2>1 DEF Phased
  <2>. QED
    BY <1>0, <2>1, <2>5, <2>6 DEF Settled
<1>11. ASSUME NEW b \in Artifacts, Decide(b) PROVE Settled(a)'
  <2> SUFFICES ASSUME quiet # "no", ~updated PROVE Settled(a)'
    BY <1>11 DEF Decide, Settled
  <2>1. /\ UNCHANGED <<files, newer, metadata, artifact, updated, quiet, loaded>> /\ pc = "decide"
    BY <1>11 DEF Decide, Packing
  <2>2. loaded = metadata
    BY <1>0, <2>1 DEF LoadedSettled
  <2>3. CASE a # b
    <3>1. outcome'[a] = outcome[a]
      BY <1>11, <2>3 DEF Decide, TypeOK
    <3>. QED
      BY <1>0, <2>1, <3>1 DEF Settled, Fresh, FreshText
  <2>4. CASE a = b
    <3>1. /\ outcome'[a] \in {"ready", "chosen", "skipped"}
          /\ outcome'[a] = "ready" => ~Conditional
          /\ outcome'[a] = "skipped" => ~NeedsPacking(a)
      BY <1>11, <2>4 DEF Decide, TypeOK
    <3>2. ~NeedsPacking(a) => artifact[a] # NotAFile /\ Fresh(a)
      BY <2>2 DEF NeedsPacking, FileChanged, Fresh
    <3>. QED
      BY <1>0, <2>1, <3>1, <3>2 DEF Settled, Fresh
  <2>. QED
    BY <2>3, <2>4
<1>12. ASSUME NEW b \in Artifacts, b # a,
              WritePackageFiles(b) \/ ReadExtraAssets(b) \/ WriteExtraAssets(b) \/ PackArtifact(b)
       PROVE  Settled(a)'
  <2>1. /\ UNCHANGED <<metadata, updated, quiet>>
        /\ files'[a] = files[a] /\ newer'[a] = newer[a]
        /\ artifact'[a] = artifact[a] /\ outcome'[a] = outcome[a]
    BY <1>12 DEF WritePackageFiles, ReadExtraAssets, WriteExtraAssets, PackArtifact, TypeOK
  <2>. QED
    BY <1>0, <2>1 DEF Settled, Fresh, FreshText
<1>13. CASE WritePackageFiles(a)
  <2> SUFFICES ASSUME quiet # "no", ~updated PROVE Settled(a)'
    BY <1>13 DEF WritePackageFiles, Settled
  <2>1. /\ UNCHANGED <<newer, metadata, artifact, updated, quiet>> /\ pc = "decide"
        /\ outcome'[a] = "written"
    BY <1>13 DEF WritePackageFiles, TypeOK
  <2>2. loaded = metadata
    BY <1>0, <2>1 DEF LoadedSettled
  <2>3. \A f \in Files : files'[a][f] = IF f \in Generated[a] \ {Asset} THEN metadata ELSE files[a][f]
    BY <1>13, <2>2 DEF WritePackageFiles, TypeOK
  <2>4. Generated[a] \subseteq Files
    OBVIOUS
  <2>5. FreshText(a)' /\ (Fresh(a) => Fresh(a)')
    BY <2>1, <2>3, <2>4 DEF Fresh, FreshText
  <2>. QED
    BY <1>0, <2>1, <2>5 DEF Settled
<1>14. CASE WriteExtraAssets(a)
  <2> SUFFICES ASSUME quiet # "no", ~updated PROVE Settled(a)'
    BY <1>14 DEF WriteExtraAssets, Settled
  <2>1. /\ UNCHANGED <<metadata, artifact, updated, quiet>>
        /\ outcome[a] = "written" /\ outcome'[a] = "ready"
    BY <1>14 DEF WriteExtraAssets, TypeOK
  <2>2. \A f \in Files \ {Asset} : files'[a][f] = files[a][f]
    BY <1>14 DEF WriteExtraAssets, TypeOK
  <2>3. Asset \in Generated[a] => files'[a][Asset] # Absent /\ ~newer'[a]
    <3>2. Asset \in Files
      BY DEF Asset, Files
    <3>. QED
      BY <1>14, <3>2 DEF WriteExtraAssets, TypeOK
  <2>4. Generated[a] \subseteq Files
    OBVIOUS
  <2>5. FreshText(a) => Fresh(a)'
    BY <2>1, <2>2, <2>3, <2>4 DEF Fresh, FreshText
  <2>. QED
    BY <1>0, <2>1, <2>5 DEF Settled
<1>15. CASE PackArtifact(a)
  <2>1. /\ UNCHANGED <<files, newer, metadata, updated, quiet>>
        /\ outcome[a] = "ready" /\ outcome'[a] = "packed" /\ artifact'[a] = Content(a)
    BY <1>15 DEF PackArtifact, TypeOK
  <2>2. Content(a) # NotAFile
    <3>1. Content(a) \in PrimeContent
      BY DEF Content, PrimeContent, TypeOK
    <3>. QED
      BY <3>1, NotContent
  <2>. QED
    BY <1>0, <2>1, <2>2 DEF Settled, Fresh
<1>16. CASE Report
  <2>1. /\ UNCHANGED <<files, newer, metadata, artifact>> /\ pc = "record" /\ outcome'[a] = "undecided"
        /\ quiet' = IF quiet # "no" /\ ~updated THEN "yes" ELSE "no"
    BY <1>16 DEF Report, Exit
  <2>2. outcome[a] \in {"packed", "skipped"}
    BY <1>0, <2>1 DEF Phased
  <2>. QED
    BY <1>0, <2>1, <2>2 DEF Settled, Fresh
<1>17. CASE UNCHANGED vars
  <2>1. UNCHANGED <<files, newer, metadata, artifact, outcome, updated, quiet>>
    BY <1>17 DEF vars
  <2>. QED
    BY <1>2, <2>1
<1>18. CASE ReadExtraAssets(a)
  BY <1>2, <1>18 DEF ReadExtraAssets
<1>. QED
  BY <1>3, <1>4, <1>5, <1>6, <1>7, <1>8, <1>9, <1>10, <1>11, <1>12, <1>13, <1>14, <1>15,
     <1>16, <1>17, <1>18, NextCases

\* For any parts, artifacts, contents and generated files: a pack command that
\* follows a completed one, with no change in between, decides to pack nothing,
\* unless the application updates the project or always packs.
THEOREM NothingRepacked == Spec => RepackOnlyWhenChanged
<1> DEFINE Inv == TypeOK /\ Lifecycle /\ QuietInv
           Needed == \A a \in Artifacts :
                       outcome[a] = "undecided" /\ outcome'[a] = "chosen"
                         => quiet # "yes" \/ updated \/ AlwaysRepack
<1>1. Init => Inv
  <2> SUFFICES ASSUME Init PROVE Lifecycle /\ QuietInv
    BY InitTypes
  <2>1. Lifecycle
    BY DEF Init, Lifecycle, Prime
  <2>2. Phased /\ PartsSettled /\ LoadedSettled
    BY DEF Init, Phased, PartsSettled, LoadedSettled
  <2>3. \A a \in Artifacts : Settled(a)
    BY DEF Init, Settled
  <2>. QED
    BY <2>1, <2>2, <2>3 DEF QuietInv
<1>2. Inv /\ [Next]_vars => Inv'
  BY TypeStep, LifecycleStep, PhasedStep, PartsSettledStep, LoadedSettledStep, SettledStep
     DEF QuietInv
<1>3. ASSUME Inv, [Next]_vars, NEW a \in Artifacts, outcome[a] = "undecided",
             outcome'[a] = "chosen", quiet = "yes", ~updated, ~AlwaysRepack
      PROVE  FALSE
  <2>1. Decide(a)
    BY <1>3, OnlyDecided
  <2>2. Conditional /\ NeedsPacking(a) /\ pc = "decide"
    BY <1>3, <2>1 DEF Decide, Packing, TypeOK
  <2>3. ~requires /\ loaded = metadata /\ artifact[a] # NotAFile /\ Fresh(a)
    BY <1>3, <2>2 DEF QuietInv, PartsSettled, LoadedSettled, Settled
  <2>. QED
    BY <1>3, <2>2, <2>3 DEF NeedsPacking, FileChanged, Fresh
<1>4. Inv /\ [Next]_vars => [Needed]_vars
  BY <1>3
<1> HIDE DEF Inv, Needed
<1>5. Spec => [][Needed]_vars
  BY <1>1, <1>2, <1>4, PTL DEF Spec
<1>. QED
  BY <1>5 DEF RepackOnlyWhenChanged, Needed
=============================================================================
