---------------------------- MODULE MCActionQueue ----------------------------
(***************************************************************************)
(* Instances of ActionQueue for TLC.  A lane is put together from work by  *)
(* the agent with a rebased landing that does not depend on it, something  *)
(* for an external executor with the landing of what it reports, and the   *)
(* archive with a later request to land what came before.  Or it is one    *)
(* landing alone.                                                          *)
(***************************************************************************)
EXTENDS ActionQueue

Make(executor, refItem, refAction, required, mode) ==
  [executor |-> executor, refItem |-> refItem, refAction |-> refAction,
   required |-> required, mode |-> mode]

Fix == Make("agent", 0, 0, FALSE, "merge")
LandIt == Make("capture", 1, 0, FALSE, "merge")
LandReported == Make("capture", 0, 1, FALSE, "merge")
Land == Make("capture", 0, 0, FALSE, "merge")
LandRebased == Make("capture", 0, 0, FALSE, "rebase")
Push == Make("external", 0, 0, TRUE, "merge")
Archive == Make("archive", 0, 0, FALSE, "merge")

Palette == {<<Fix, LandRebased>>, <<Push, LandIt>>, <<Archive>>, <<LandReported>>}

\* State constraint: two requests and a fault, or one and two.
Together == requests + faults <= 3

Landings == {<<Land>>, <<LandRebased>>}

=============================================================================
