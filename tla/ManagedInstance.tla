--------------------------- MODULE ManagedInstance ---------------------------
(***************************************************************************)
(* What ProviderService puts into a managed instance before a command runs *)
(* there: the snaps, and the directory that is mounted.                    *)
(*                                                                         *)
(* The snaps on the host are a function from names to [base, classic,      *)
(* channel].  A snap to install is [name, channel, classic]; without a     *)
(* channel it is injected from the host.  "app" is the name of the         *)
(* application.  A path is a sequence of components below the root of the  *)
(* git working tree.                                                       *)
(***************************************************************************)
EXTENDS Naturals, Sequences, SequencesExt

CONSTANT None

Injected(name, classic) == [name |-> name, channel |-> None, classic |-> classic]

\* Mutant: the base comes after the snap that needs it.
EnqueueBaseLast(snaps, name, hosted) ==
  IF name \notin DOMAIN hosted THEN snaps
  ELSE LET base == hosted[name].base
       IN snaps \o <<Injected(name, hosted[name].classic)>>
            \o IF base \in DOMAIN hosted /\ \A i \in DOMAIN snaps : snaps[i].name # base
               THEN <<Injected(base, FALSE)>> ELSE <<>>

\* enqueue_snap_injection(): the base of the snap first, unless it is to be
\* installed already.
EnqueueSnapInjection(snaps, name, hosted) ==
  IF name \notin DOMAIN hosted THEN snaps
  ELSE LET base == hosted[name].base
       IN snaps \o (IF base \in DOMAIN hosted /\ \A i \in DOMAIN snaps : snaps[i].name # base
                    THEN <<Injected(base, FALSE)>> ELSE <<>>)
            \o <<Injected(name, hosted[name].classic)>>

\* _get_snap_store_channel(): None for a snap that is not from the store.
SnapStoreChannel(name, hosted) == IF name \in DOMAIN hosted THEN hosted[name].channel ELSE None

\* The channel that was asked for, that of the snap on the host, or the default.
StoreChannel(name, channel, hosted) ==
  IF channel # None THEN channel
  ELSE IF name # None /\ SnapStoreChannel(name, hosted) # None
    THEN SnapStoreChannel(name, hosted)
  ELSE "latest/stable"

\* _setup_snaps() for an application that runs from the snap "name" (None if
\* from none) with "channel" in CRAFT_SNAP_CHANNEL.
SetupSnaps(requested, name, channel, hosted, archmatches) ==
  IF name # None /\ archmatches /\ name \in DOMAIN hosted
  THEN EnqueueSnapInjection(requested, name, hosted)
  ELSE Append(requested, [name |-> "app", channel |-> StoreChannel(name, channel, hosted),
                          classic |-> TRUE])
-----------------------------------------------------------------------------
\* _find_git_root(): None outside of a git repository.  "git" says whether the
\* project directory is in none, at its root, or below it.
WorkDir(git) == IF git = "below" THEN <<"sub">> ELSE <<>>
FindGitRoot(git) == IF git = "none" THEN None ELSE <<>>

\* _get_build_root(): what is mounted.
BuildRoot(git, usegitroot) ==
  IF ~usegitroot \/ FindGitRoot(git) = None THEN WorkDir(git) ELSE FindGitRoot(git)

\* Mutant: commands run where the mount is.
ManagedCwdAtMount(git, usegitroot) == <<>>

\* _get_managed_cwd(): where in the mount the command runs.
ManagedCwd(git, usegitroot) ==
  IF ~usegitroot \/ FindGitRoot(git) \in {None, WorkDir(git)} THEN <<>>
  ELSE SubSeq(WorkDir(git), Len(FindGitRoot(git)) + 1, Len(WorkDir(git)))
=============================================================================
