------------------------------- MODULE MCHost -------------------------------
(***************************************************************************)
(* What the daemon shares with the rest of the host, for TLC: processes,   *)
(* the repository and its lock, and the socket.  These share no state with *)
(* each other, so one run explores each on its own: the initial state      *)
(* picks the part that takes steps.                                        *)
(***************************************************************************)
EXTENDS ProcessOwnership, RepositoryLock, DaemonSupervision

VARIABLE hostPart

hostVars == <<ownVars, lockVars, supervisionVars, hostPart>>

HostInit ==
  /\ hostPart \in {"processes", "repository", "supervision"}
  /\ OwnershipInit /\ LockInit /\ SupervisionInit

HostNext ==
  /\ UNCHANGED hostPart
  /\ \/ /\ hostPart = "processes" /\ OwnershipNext
        /\ UNCHANGED <<lockVars, supervisionVars>>
     \/ /\ hostPart = "repository" /\ LockNext
        /\ UNCHANGED <<ownVars, supervisionVars>>
     \/ /\ hostPart = "supervision" /\ SupervisionNext
        /\ UNCHANGED <<ownVars, lockVars>>

HostSpec ==
  /\ HostInit /\ [][HostNext]_hostVars
  /\ OwnershipFairness /\ LockFairness /\ SupervisionFairness

=============================================================================
