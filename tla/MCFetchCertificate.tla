------------------------- MODULE MCFetchCertificate -------------------------
(* Small instances of FetchCertificate. *)
EXTENDS FetchCertificate, TLC

\* Processes are interchangeable.
Symmetric == Permutations(Processes)
=============================================================================
