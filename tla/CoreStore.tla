----------------------------- MODULE CoreStore -----------------------------
(***************************************************************************)
(* The durable state of one bee in the core store (v2/core/src/store.ts)   *)
(* and the store's methods on it.  Every table of the store is keyed by    *)
(* bee_id and no method modelled here reads another bee's rows, so one     *)
(* bee is the whole story.  A method of the store is an operator from a    *)
(* store to a store: each is one SQLite transaction, and a handler of the  *)
(* daemon composes several of them.                                        *)
(*                                                                         *)
(*   lifecycle  bees.lifecycle, and "deleted" once the row is gone         *)
(*   runtimes   the runtimes rows; generation g is runtimes[g]             *)
(*   failures   bees.spawn_failures                                        *)
(*   flagged    an uncleared spawn_failed flag                             *)
(*   commands   the commands rows; the id of a command is its index        *)
(*   mail       number of undelivered mailbox rows                         *)
(*                                                                         *)
(* A command's next_attempt_at is reduced to due (it has passed), its args *)
(* to kind and thenRevive, a runtime's pid and pid_started_at to pid (they *)
(* were recorded).                                                         *)
(***************************************************************************)
EXTENDS CoreTypes, Integers, Sequences, FiniteSets

CONSTANT MaxAttempts    \* B5 budget: store option maxAttempts

ASSUME MaxAttemptsAssumption == MaxAttempts \in Nat \ {0}

StartVerbs == {"spawn", "send_wake", "revive"}

\* What a command's args say: why a stop was asked for, who asked for a revive.
Kinds == {"plain", "user", "idle_window", "degraded", "hang", "hang_skipped",
          "swap", "model", "operator", "after_stop"}

Pending == {"queued", "running"}

Runtime == [state: RuntimeStates, exitCause: ExitCauses \union {"none"},
            evidence: {"none", "synthetic", "real"}, pid: BOOLEAN]

Command == [verb: Verbs, kind: Kinds, target: Nat, status: CommandStatuses,
            attempts: Nat, due: BOOLEAN, thenRevive: BOOLEAN]

Store == [lifecycle: {"active", "archived", "deleted"}, runtimes: Seq(Runtime),
          failures: Nat, flagged: BOOLEAN, commands: Seq(Command), mail: Nat]

-----------------------------------------------------------------------------
(* Reading. *)

Exists(s) == s.lifecycle # "deleted"

Generation(s) == Len(s.runtimes)

Current(s) == s.runtimes[Generation(s)]

Live(s) == Exists(s) /\ Current(s).state \in LiveStates

StopsOf(s, generation) ==
  {i \in DOMAIN s.commands : s.commands[i].verb = "stop"
                             /\ s.commands[i].target = generation}

\* Mutant: only a stop that is still executing asks for the restart.
HasRunningStopThenRevive(s, generation) ==
  \E i \in StopsOf(s, generation) : /\ s.commands[i].status = "running"
                                    /\ s.commands[i].thenRevive

HasStopThenReviveRequest(s, generation) ==
  \E i \in StopsOf(s, generation) : /\ s.commands[i].status \in {"done", "running"}
                                    /\ s.commands[i].thenRevive

HasPendingReviveOrWakeCommand(s, generation) ==
  \E i \in DOMAIN s.commands : /\ s.commands[i].verb \in {"revive", "send_wake"}
                               /\ s.commands[i].status \in Pending
                               /\ s.commands[i].target >= generation

HasPendingStopCommand(s, generation) ==
  \E i \in StopsOf(s, generation) : s.commands[i].status \in Pending

HasBootHangStopCommand(s, generation) ==
  \E i \in StopsOf(s, generation) :
    /\ s.commands[i].kind \in {"hang", "hang_skipped"}
    /\ s.commands[i].status # "failed"

\* running covers the synchronous transition, done the asynchronous exit.
HasExecutedBootHangStopCommand(s, generation) ==
  \E i \in StopsOf(s, generation) : /\ s.commands[i].kind = "hang"
                                    /\ s.commands[i].status \in {"running", "done"}

\* The cause that the exit of a stopped runtime will carry.
CauseOf(c) == IF c.kind = "user" THEN "stopped_by_user" ELSE "stopped_by_system"

-----------------------------------------------------------------------------
(* The command queue. *)

NewCommand(s, verb, kind, due) ==
  [verb |-> verb, kind |-> kind,
   target |-> IF verb \in RuntimeVerbs THEN Generation(s) ELSE 0,
   status |-> "queued", attempts |-> 0, due |-> due,
   thenRevive |-> kind \in {"swap", "model"}]

ApplyEnqueue(s, verb, kind, due) ==
  [s EXCEPT !.commands = Append(@, NewCommand(s, verb, kind, due))]

\* A user stop settles the starts of this generation that nobody claimed yet.
SupersedeStarts(s) ==
  [s EXCEPT !.commands = [i \in DOMAIN @ |->
     IF @[i].status = "queued" /\ @[i].verb \in StartVerbs
                               /\ @[i].target = Generation(s)
       THEN [@[i] EXCEPT !.status = "done"]
       ELSE @[i]]]

\* Mutant: a user stop is queued behind the starts and settles none of them.
EnqueueWithoutSupersede(s, verb, kind) == ApplyEnqueue(s, verb, kind, TRUE)

EnqueueCommand(s, verb, kind) ==
  ApplyEnqueue(IF kind = "user" THEN SupersedeStarts(s) ELSE s, verb, kind, TRUE)

SetCommand(s, id, status) == [s EXCEPT !.commands[id].status = status]

\* A model change waits, unclaimed, while its runtime boots or runs a turn.
WaitsForIdle(s, c) ==
  /\ c.verb = "stop" /\ c.kind = "model"
  /\ s.runtimes[c.target].state \in {"booting", "running"}

Claimable(s) ==
  {i \in DOMAIN s.commands : /\ s.commands[i].status = "queued"
                             /\ s.commands[i].due
                             /\ ~WaitsForIdle(s, s.commands[i])}

\* A claimable command that the claim settles instead of running: another
\* generation is current, the stop's runtime has stopped already, or a model
\* change outlived a runtime that somebody else ended.
Moot(s, c) ==
  /\ c.verb \in RuntimeVerbs
  /\ \/ c.target # Generation(s)
     \/ /\ c.verb = "stop" /\ Current(s).state = "stopped"
        /\ \/ c.kind # "model"
           \/ Current(s).exitCause \notin {"stopped_by_system", "machine_restart"}

ToRun(s) == {i \in Claimable(s) : ~Moot(s, s.commands[i])}

\* The lowest id to run is claimed; what is moot before it is settled.
IsNext(s, i) == i \in ToRun(s) /\ \A j \in ToRun(s) : i <= j

MootNow(s, i) ==
  /\ i \in Claimable(s) \ ToRun(s)
  /\ \A j \in ToRun(s) : i < j

\* The model change admitted for the current runtime and not yet settled.
PendingModelChange(s, i) ==
  /\ i \in StopsOf(s, Generation(s))
  /\ s.commands[i].kind = "model" /\ s.commands[i].status \in Pending

ClaimNextCommand(s) ==
  [s EXCEPT !.commands = [i \in DOMAIN @ |->
     IF IsNext(s, i) THEN [@[i] EXCEPT !.status = "running"]
     ELSE IF MootNow(s, i)
       THEN [@[i] EXCEPT !.status = "done",
                         !.thenRevive = s.commands[i].thenRevive
                                         /\ ~PendingModelChange(s, i)]
     ELSE @[i]]]

\* completeCommand: completing a settled command again is a no-op.
CompleteCommand(s, id) ==
  IF s.commands[id].status = "running" THEN SetCommand(s, id, "done") ELSE s

SkipBootHangStop(s, id) ==
  [s EXCEPT !.commands[id].status = "done", !.commands[id].kind = "hang_skipped"]

\* B5: back on the queue with a backoff, or failed and flagged at the budget.
ReportCommandFailure(s, id) ==
  LET attempts == s.commands[id].attempts + 1
      failed   == attempts >= MaxAttempts
  IN  [s EXCEPT !.commands[id] =
                  [@ EXCEPT !.attempts = attempts, !.due = FALSE,
                            !.status = IF failed THEN "failed" ELSE "queued"],
                !.flagged = @ \/ failed]

-----------------------------------------------------------------------------
(* Wakes. *)

HasPendingWake(s) ==
  \E i \in DOMAIN s.commands : /\ s.commands[i].verb = "send_wake"
                               /\ s.commands[i].status \in Pending
                               /\ s.commands[i].target = Generation(s)

\* Mutant: the pending wake is not looked for.
WakeUnconditionally(s) ==
  IF Live(s) \/ s.flagged THEN s
                          ELSE ApplyEnqueue(s, "send_wake", "plain", s.failures = 0)

\* The one place a wake is scheduled: never for a live runtime, never twice
\* for a generation, never while spawn_failed is set, later after failures.
ApplyWakeIfNeeded(s) ==
  IF Live(s) \/ HasPendingWake(s) \/ s.flagged
    THEN s
    ELSE ApplyEnqueue(s, "send_wake", "plain", s.failures = 0)

EnqueueWake(s) == IF s.mail > 0 THEN ApplyWakeIfNeeded(s) ELSE s

EnqueueBootRetry(s) == ApplyWakeIfNeeded(s)

-----------------------------------------------------------------------------
(* Runtimes and the spawn-failure budget. *)

NewRuntime == [state |-> "booting", exitCause |-> "none", evidence |-> "none",
               pid |-> FALSE]

InsertRuntime(s) == [s EXCEPT !.runtimes = Append(@, NewRuntime)]

\* Mutant: the budget is compared with > instead of >=.
SpawnFailureOffByOne(s) ==
  [s EXCEPT !.failures = @ + 1, !.flagged = @ \/ s.failures + 1 > MaxAttempts]

ApplySpawnFailure(s) ==
  [s EXCEPT !.failures = @ + 1, !.flagged = @ \/ s.failures + 1 >= MaxAttempts]

\* Mutant: the counter is reset, the flag stays.
ResetKeepsFlag(s) == [s EXCEPT !.failures = 0]

ApplySpawnFailuresReset(s) == [s EXCEPT !.failures = 0, !.flagged = FALSE]

ResetSpawnFailures(s) == ApplySpawnFailuresReset(s)

SetCurrent(s, row) == [s EXCEPT !.runtimes[Generation(s)] = row]

\* An exit of a runtime that never gave real output, by itself or by an
\* executed boot-hang stop, counts against the budget.
CountsAsSpawnFailure(s, generation, cause) ==
  /\ \/ Current(s).state = "booting"
     \/ Current(s).evidence = "synthetic"
  /\ \/ cause \in {"crashed", "clean"}
     \/ cause = "stopped_by_system" /\ HasExecutedBootHangStopCommand(s, generation)

\* updateRuntimeState, for a transition its callers have found legal.
UpdateRuntimeState(s, generation, state, cause, synthetic, pid) ==
  LET rt       == Current(s)
      evidence == IF rt.state = "booting" /\ state = "running" /\ rt.evidence # "real"
                    THEN IF synthetic THEN "synthetic" ELSE "real"
                    ELSE rt.evidence
      moved    == SetCurrent(s, [state |-> state, exitCause |-> cause,
                                 evidence |-> evidence, pid |-> rt.pid \/ pid])
  IN  IF generation # Generation(s) THEN s
      ELSE IF state = "stopped" /\ CountsAsSpawnFailure(s, generation, cause)
        THEN ApplySpawnFailure(moved)
      ELSE IF rt.state = "booting" /\ state = "running" /\ evidence = "real"
        THEN ApplySpawnFailuresReset(moved)
      ELSE moved

RecordBootEvidence(s, generation) ==
  IF generation # Generation(s) \/ Current(s).state = "stopped"
    THEN s
    ELSE ApplySpawnFailuresReset(SetCurrent(s, [Current(s) EXCEPT !.evidence = "real"]))

\* The current generation, while it is not stopped, remembers its process.
RecordRuntimeProc(s, generation) ==
  IF generation # Generation(s) \/ Current(s).state = "stopped"
    THEN s
    ELSE SetCurrent(s, [Current(s) EXCEPT !.pid = TRUE])

-----------------------------------------------------------------------------
(* Bees. *)

\* createBee and the spawn command of the same admission.
CreateBee ==
  ApplyEnqueue([lifecycle |-> "active", runtimes |-> <<NewRuntime>>, failures |-> 0,
                flagged |-> FALSE, commands |-> <<>>, mail |-> 0],
               "spawn", "plain", TRUE)

ApplyUnarchive(s) == [s EXCEPT !.lifecycle = "active"]

ExecuteArchiveCommand(s) == [s EXCEPT !.lifecycle = "archived"]

UnarchiveBee(s) == IF s.lifecycle = "archived" THEN ApplyUnarchive(s) ELSE s

\* The bee's rows go at once; its commands stay, the pending ones settled.
DeleteBee(s) ==
  [lifecycle |-> "deleted", runtimes |-> <<>>, failures |-> 0, flagged |-> FALSE,
   mail |-> 0,
   commands |-> [i \in DOMAIN s.commands |->
     IF s.commands[i].status \in Pending
       THEN [s.commands[i] EXCEPT !.status = "done"]
       ELSE s.commands[i]]]

ReviveBee(s) == InsertRuntime(UnarchiveBee(s))

\* send: mail revives an archived bee and wakes one that has no live runtime.
Send(s) == ApplyWakeIfNeeded([UnarchiveBee(s) EXCEPT !.mail = @ + 1])

MarkDelivered(s) == [s EXCEPT !.mail = @ - 1]

\* Settle a waiting model change and drop its restart intent.
MootModelChange(s) ==
  [s EXCEPT !.commands = [i \in DOMAIN @ |->
     IF PendingModelChange(s, i)
       THEN [@[i] EXCEPT !.status = "done", !.thenRevive = FALSE]
       ELSE @[i]]]

\* reconfigureBee, with the outcomes that change the queue: going back to the
\* args the runtime started with (same) only cancels a waiting change.
ReconfigureBee(s, same) ==
  IF same \/ ~Live(s)
    THEN MootModelChange(s)
    ELSE EnqueueCommand(MootModelChange(s), "stop", "model")

\* bee.swapAccount: rebind, and restart a live runtime under the new account.
SwapAccount(s) == IF Live(s) THEN EnqueueCommand(s, "stop", "swap") ELSE s

-----------------------------------------------------------------------------
(* A daemon restart. *)

\* Mutant: the update has lost its WHERE.
RequeueEverything(s) ==
  [s EXCEPT !.commands = [i \in DOMAIN @ |-> [@[i] EXCEPT !.status = "queued", !.due = TRUE]]]

\* Mutant: running commands are left as they are.
RequeueNothing(s) == s

BootRequeueRunningCommands(s) ==
  [s EXCEPT !.commands = [i \in DOMAIN @ |->
     IF @[i].status = "running" THEN [@[i] EXCEPT !.status = "queued", !.due = TRUE]
                                ELSE @[i]]]

\* Mutant: the row is stopped without an exit cause.
ReconcileWithoutCause(s, alive) ==
  IF Live(s) /\ ~(alive /\ Current(s).pid)
    THEN SetCurrent(s, [Current(s) EXCEPT !.state = "stopped"])
    ELSE s

\* Mutant: a lost process counts as a failed boot.
ReconcileBlames(s, alive) ==
  IF Live(s) /\ ~(alive /\ Current(s).pid)
    THEN ApplySpawnFailure(SetCurrent(s, [Current(s) EXCEPT !.state = "stopped",
                                            !.exitCause = "machine_restart"]))
    ELSE s

\* Mutant: a recorded pid is taken for a live process.
ReconcileTrustsPid(s, alive) ==
  IF Live(s) /\ ~Current(s).pid
    THEN SetCurrent(s, [Current(s) EXCEPT !.state = "stopped",
                                          !.exitCause = "machine_restart"])
    ELSE s

\* A runtime whose recorded process is not among the live ones was ended by
\* the machine: stopped, with no failure counted and no flag.
ReconcileAtBoot(s, alive) ==
  IF Live(s) /\ ~(alive /\ Current(s).pid)
    THEN SetCurrent(s, [Current(s) EXCEPT !.state = "stopped",
                                          !.exitCause = "machine_restart"])
    ELSE s
-----------------------------------------------------------------------------
(* The closed state model, of which DaemonCore says when it holds. *)

Closed(s) ==
  /\ Exists(s) <=> Generation(s) > 0
  /\ \A g \in DOMAIN s.runtimes :
       /\ g < Generation(s) => s.runtimes[g].state = "stopped"
       /\ s.runtimes[g].state = "stopped" <=> s.runtimes[g].exitCause # "none"

\* What the lifecycle shows of a store: the runtimes rows, and the stops.
Log(s) ==
  [g \in DOMAIN s.runtimes |->
     [state |-> s.runtimes[g].state, exitCause |-> s.runtimes[g].exitCause]]

Asked(s) ==
  {<<s.commands[i].target, CauseOf(s.commands[i])>> :
     i \in {j \in DOMAIN s.commands : s.commands[j].verb = "stop"}}
=============================================================================
