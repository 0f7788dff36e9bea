--------------------------- MODULE MCFetchSessions ---------------------------
(* Small instances of FetchSessions. *)
EXTENDS FetchSessions
=============================================================================
