--------------------------- MODULE MCPackPipeline ---------------------------
(***************************************************************************)
(* Instances of PackPipeline for TLC: an application in the style of        *)
(* witchcraft, which generates a package file of its own next to the        *)
(* metadata.yaml that write_metadata puts into the default prime directory. *)
(***************************************************************************)
EXTENDS PackPipeline, TLC

CONSTANTS main, extra   \* the unnamed artifact and a second one

\* Every artifact has its own package file.
OwnFiles == [a \in Artifacts |-> {PackageFile}]

\* The default artifact also takes an asset from outside the prime directory.
WithAsset == [a \in Artifacts |-> IF a = main THEN {PackageFile, Asset} ELSE {PackageFile}]

\* Parts and versions are interchangeable (used with safety properties only).
Symmetric == Permutations(Parts) \cup Permutations(Versions)
=============================================================================
