----------------------------- MODULE CoreTypes -----------------------------
(***************************************************************************)
(* The closed lists of v2/core/src/types.ts: what a runtime can be, why it *)
(* ended, what an operator can ask for.                                    *)
(***************************************************************************)

RuntimeStates == {"booting", "running", "idle", "stopped"}

LiveStates == {"booting", "running", "idle"}

StopCauses == {"stopped_by_user", "stopped_by_system"}

ExitCauses == StopCauses \union {"clean", "crashed", "machine_restart"}

\* RUNTIME_TRANSITIONS: no transition leaves stopped.
RuntimeTransitions(state) ==
  CASE state = "booting" -> {"running", "stopped"}
    [] state = "running" -> {"idle", "stopped"}
    [] state = "idle"    -> {"running", "stopped"}
    [] state = "stopped" -> {}

Verbs == {"spawn", "send_wake", "stop", "revive", "archive", "unarchive", "delete"}

\* RUNTIME_VERBS: the verbs bound to one runtime generation.
RuntimeVerbs == {"spawn", "send_wake", "stop", "revive"}

CommandStatuses == {"queued", "running", "done", "failed"}
=============================================================================
