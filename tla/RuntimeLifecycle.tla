-------------------------- MODULE RuntimeLifecycle --------------------------
(***************************************************************************)
(* What the daemon promises about the runtimes of a bee, whatever crashes, *)
(* races and retries happen below: the generations form a log in which     *)
(* only the last entry ever moves, and only along RUNTIME_TRANSITIONS;     *)
(* stopped is final; a new generation begins only once the one before has  *)
(* stopped; and a runtime is recorded as stopped by the user, or by the    *)
(* system, only if that stop was asked for that very generation.           *)
(*                                                                         *)
(*   log     the state and exit cause of each generation; empty once the   *)
(*           bee is deleted                                                *)
(*   asked   the pairs <<generation, cause>> of the stops asked for        *)
(***************************************************************************)
EXTENDS CoreTypes, Integers, Sequences

VARIABLES log, asked

Entry(state, cause) == [state |-> state, exitCause |-> cause]

Init == log = <<Entry("booting", "none")>> /\ asked = {}

Present == log # <<>>

LastState == log[Len(log)].state

\* Somebody asks to stop the current generation.
AskStop ==
  /\ Present
  /\ \E cause \in StopCauses : asked' = asked \union {<<Len(log), cause>>}
  /\ UNCHANGED log

\* The current generation boots, opens a turn or ends one.
Work ==
  /\ Present
  /\ \E state \in RuntimeTransitions(LastState) \ {"stopped"} :
       log' = [log EXCEPT ![Len(log)] = Entry(state, "none")]
  /\ UNCHANGED asked

\* The current generation ends: by itself, with the machine, or as asked.
End ==
  /\ Present /\ "stopped" \in RuntimeTransitions(LastState)
  /\ \E cause \in ExitCauses :
       /\ cause \in StopCauses => <<Len(log), cause>> \in asked
       /\ log' = [log EXCEPT ![Len(log)] = Entry("stopped", cause)]
  /\ UNCHANGED asked

\* The next generation begins.
Begin ==
  /\ Present /\ LastState = "stopped"
  /\ log' = Append(log, Entry("booting", "none"))
  /\ UNCHANGED asked

Delete == Present /\ log' = <<>> /\ UNCHANGED asked

Next == AskStop \/ Work \/ End \/ Begin \/ Delete

Spec == Init /\ [][Next]_<<log, asked>>
=============================================================================
