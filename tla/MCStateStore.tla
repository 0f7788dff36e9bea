---------------------------- MODULE MCStateStore ----------------------------
(* A small instance of StateStore. *)
EXTENDS StateStore

\* A value for each of two platforms, and the dictionary that holds them.
Flat == {<<"artifacts">>, <<"artifacts", "amd64">>, <<"artifacts", "arm64">>}

\* Directories are interchangeable.
Symmetry == Permutations(Dirs)
=============================================================================
