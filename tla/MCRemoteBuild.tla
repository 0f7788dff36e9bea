---------------------------- MODULE MCRemoteBuild ----------------------------
(* Small instances of RemoteBuild. *)
EXTENDS RemoteBuild, TLC

CONSTANTS j1, j2, c1, c2, c3, w1, w2

\* A snap: one build for an architecture.
OwnArch == j1 :> "amd64" @@ j2 :> "arm64"
OneJob == j1 :> "amd64"

OwnFile == [j \in Jobs |-> j]

\* c1 is committed; c2 differs from it in the name of a file, so that it is not
\* clean but has the same hash.  Git refuses c3, a shallow clone or no clone.
SameId == c1 :> "h1" @@ c2 :> "h1" @@ c3 :> "h2"
OwnId == c1 :> "h1" @@ c2 :> "h2" @@ c3 :> "h3"
Shallow == c1 :> "normal" @@ c2 :> "normal" @@ c3 :> "shallow"
NoClone == c1 :> "normal" @@ c2 :> "normal" @@ c3 :> "invalid"
Heads == c1 :> w1 @@ c2 :> w1 @@ c3 :> w1
NoHead == [Heads EXCEPT ![c3] = "unborn"]
Files == c1 :> w1 @@ c2 :> w2 @@ c3 :> w1
=============================================================================
