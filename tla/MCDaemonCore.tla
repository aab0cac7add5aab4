---------------------------- MODULE MCDaemonCore ----------------------------
(***************************************************************************)
(* Instances of DaemonCore for TLC.  Each run has its own mix of faults    *)
(* and requests: what one fault can do to one request is independent of    *)
(* most of the others, and the mixes put together the ones that meet in    *)
(* the code.                                                               *)
(***************************************************************************)
EXTENDS DaemonCore

\* A cell is prepared and a silent harness boots: every way a boot can fail.
BootFaults   == {"exit", "hang", "crash", "prepare"}
BootRequests == {"send", "stop", "swap"}

\* The life of a bee: restarts asked for and revoked, across exits, failed starts, and
\* restarts of the daemon and of the machine.
LifeFaults   == {"exit", "start", "unnoticed", "crash", "machine"}
LifeRequests == {"send", "stop", "swap", "revive", "archive", "unarchive", "delete", "turn",
                 "reconfigure"}

\* State constraint: any three of these together.
Together == faults + requests <= 3

\* What has to happen in the end.
FairFaults   == {"exit", "crash", "hang", "start"}
FairRequests == {"send", "swap", "reconfigure", "stop"}

ExitOnly  == {"exit"}
CrashOnly == {"crash"}
NoFaults  == {}
SwapOnly  == {"swap"}
SendOnly  == {"send"}
StopAndRevive == {"stop", "revive"}
=============================================================================
