----------------------------- MODULE DaemonCore -----------------------------
(***************************************************************************)
(* The daemon's core loop (v2/daemon/src/loops.ts) over the core store and *)
(* the runtime host, with operators, processes, the clock and the machine  *)
(* around it.                                                              *)
(*                                                                         *)
(* The daemon is one thread.  A step of it is synchronous, so operator     *)
(* requests (RPC handlers) and driver callbacks run between two steps (pc  *)
(* = "rest"); a crash can fall anywhere.  Inside a step, pc says which     *)
(* transaction or driver call is next: two of them never commit together,  *)
(* and a crash between them is what recovery has to face.  The exception   *)
(* is the fold of the drained observations, one transaction of several     *)
(* folds (pc = "fold"): a crash inside it rolls back to a crash before it, *)
(* a crash after the last fold leaves it committed.                        *)
(*                                                                         *)
(*   store, host   CoreStore and RuntimeHost                               *)
(*   pc            where the step is; "down" while no daemon runs          *)
(*   cmd           the claimed command                                     *)
(*   gen           rt.generation as the delete handler read it             *)
(*   overdue       the boot deadline of the current generation has passed  *)
(*   faults        faults so far, <= MaxFaults: "exit" (a process ends by  *)
(*                 itself), "unnoticed" (stop finds it dead), "hang" (no   *)
(*                 boot by the deadline), "start" (driver.start throws),   *)
(*                 "prepare" (no cell), "crash" (the daemon), "machine"    *)
(*   requests      requests so far, <= MaxRequests: the operator's verbs,  *)
(*                 and "turn" (the agent opens a turn by itself)           *)
(***************************************************************************)
EXTENDS CoreStore, RuntimeHost

CONSTANTS
  MaxFaults, FaultKinds,        \* how many faults, and of which kinds
  MaxRequests, RequestKinds,    \* how many requests, and of which kinds
  MaxRepeats                    \* policy stops sent to a process until it is dead

ASSUME BoundsAssumption == {MaxFaults, MaxRequests, MaxRepeats} \subseteq Nat

VARIABLES store, host, pc, cmd, gen, overdue, faults, requests

vars == <<store, host, pc, cmd, gen, overdue, faults, requests>>

budgets == <<faults, requests>>

Pcs == {"down", "rest", "fold", "commands", "claimed", "reset", "minted", "started",
        "exiting", "exited", "woken", "deleting", "settle", "delivery", "accepted"}

Init == /\ store = CreateBee /\ host = InitHost
        /\ pc = "rest" /\ cmd = 0 /\ gen = 0 /\ overdue = FALSE
        /\ faults = 0 /\ requests = 0

\* A fault is spent when the condition says the step is one.
Spend(kind, isFault) == /\ isFault => kind \in FaultKinds /\ faults < MaxFaults
                        /\ faults' = IF isFault THEN faults + 1 ELSE faults
                        /\ UNCHANGED requests

Ask(kind) == /\ kind \in RequestKinds /\ requests < MaxRequests
             /\ requests' = requests + 1
             /\ UNCHANGED faults

-----------------------------------------------------------------------------
(* Rules of the loop that several handlers share. *)

\* Mutant: nothing is woken for the mail of a dead runtime.
EnsureNoWake(s) == s

EnsureWake(s) == EnqueueWake(s)

EnsureBootRetry(s) == EnqueueBootRetry(s)

\* A stop that carries thenRevive asks for the next generation.
ReviveAfterStopIfRequested(s, generation) ==
  IF /\ HasStopThenReviveRequest(s, generation)
     /\ ~HasPendingReviveOrWakeCommand(s, generation)
     /\ generation = Generation(s)
     /\ Current(s).state = "stopped"
    THEN EnqueueCommand(s, "revive", "after_stop")
    ELSE s

TargetState(kind) ==
  CASE kind = "exited" -> "stopped" [] kind = "turn_ended" -> "idle" [] OTHER -> "running"

\* The exit of the current runtime, and what the loop owes the bee after it.
ApplyExit(s, obs) ==
  LET stopped == UpdateRuntimeState(s, obs.generation, "stopped", obs.exitCause, FALSE, FALSE)
      awake   == EnsureWake(stopped)
      retried == IF stopped.failures > s.failures /\ ~stopped.flagged
                   THEN EnsureBootRetry(awake) ELSE awake
  IN  ReviveAfterStopIfRequested(retried, obs.generation)

\* Mutant: an exit is folded without asking whether the row may still move.
ApplyAnyObservation(s, obs) ==
  LET target == TargetState(obs.kind)
      proven == IF obs.kind # "exited" /\ ~obs.synthetic /\ Current(s).evidence # "real"
                  THEN RecordBootEvidence(s, obs.generation) ELSE s
  IN  IF ~Exists(s) \/ obs.generation # Generation(s) THEN s
      ELSE IF target = "stopped" THEN ApplyExit(s, obs)
      ELSE UpdateRuntimeState(proven, obs.generation, target, "none", obs.synthetic,
                              obs.kind = "booted")

\* applyObservation: evidence first, then the transition, if it is one.
ApplyObservation(s, obs) ==
  LET target == TargetState(obs.kind)
      proven == IF obs.kind # "exited" /\ ~obs.synthetic /\ Current(s).evidence # "real"
                  THEN RecordBootEvidence(s, obs.generation) ELSE s
      skip   == \/ obs.kind = "booted" /\ Current(s).state # "booting"
                \/ obs.kind = "turn_ended" /\ obs.synthetic /\ s.mail > 0
                \/ target \notin RuntimeTransitions(Current(s).state)
  IN  IF ~Exists(s) \/ obs.generation # Generation(s) THEN s
      ELSE IF skip THEN proven
      ELSE IF target = "stopped" THEN ApplyExit(s, obs)
      ELSE UpdateRuntimeState(proven, obs.generation, target, "none", obs.synthetic,
                              obs.kind = "booted")

-----------------------------------------------------------------------------
(* Operators: RPC handlers, between two steps. *)

Request(kind, changed) ==
  /\ pc = "rest" /\ Exists(store)
  /\ Ask(kind)
  /\ store' = changed
  /\ UNCHANGED <<host, pc, cmd, gen, overdue>>

RpcSend      == Request("send", Send(store))
RpcStop      == Request("stop", EnqueueCommand(store, "stop", "user"))
RpcRevive    == Request("revive", EnqueueCommand(store, "revive", "operator"))
RpcArchive   == Request("archive", EnqueueCommand(store, "archive", "plain"))
RpcUnarchive == Request("unarchive", EnqueueCommand(store, "unarchive", "plain"))
RpcDelete    == Request("delete", EnqueueCommand(store, "delete", "plain"))
RpcSwapAccount == Request("swap", SwapAccount(store))

\* bee.reconfigure folds what the driver has seen before it decides, and is
\* refused while the restart of an earlier change is executing.
RpcReconfigure ==
  /\ host.events = <<>>
  /\ ~\E i \in DOMAIN store.commands :
        PendingModelChange(store, i) /\ store.commands[i].status = "running"
  /\ \E same \in BOOLEAN : Request("reconfigure", ReconfigureBee(store, same))

Operator == \/ RpcSend \/ RpcStop \/ RpcRevive \/ RpcArchive \/ RpcUnarchive
            \/ RpcDelete \/ RpcSwapAccount \/ RpcReconfigure

-----------------------------------------------------------------------------
(* Driver callbacks and the clock, between two steps. *)

Callback(changed) == /\ pc = "rest" /\ host' = changed
                     /\ UNCHANGED <<store, pc, cmd, gen, overdue>>

Heard == Running(host) /\ ~host.proc.degraded

\* A readyAtSpawn harness says nothing before its first message.
HostBooted ==
  /\ Heard
  /\ \/ ~ReadyAtSpawn /\ host.proc.phase = "booting"
     \/ ReadyAtSpawn /\ host.proc.phase = "running" /\ ~host.proc.realEvidence
  /\ Callback(SignalBooted(host)) /\ UNCHANGED budgets

HostReady ==
  /\ Heard /\ ReadyAtSpawn /\ ~host.proc.announced
  /\ Callback(PumpStatus(host)) /\ UNCHANGED budgets

HostTurnEnded ==
  /\ Heard /\ host.proc.phase = "running"
  /\ Callback(SignalTurnEnded(host)) /\ UNCHANGED budgets

\* A turn no message of ours opened: the agent's own doing.
HostTurnStarted ==
  /\ Heard /\ host.proc.phase = "idle"
  /\ Callback(SignalTurnStarted(host)) /\ Ask("turn")

HostExit ==
  /\ Running(host)
  /\ \E code \in {"clean", "crashed"} : Callback(OnExit(host, code))
  /\ Spend("exit", ~host.proc.signalled)

HostPrepared ==
  /\ host.pending.preparing
  /\ \E ok \in BOOLEAN : Callback(Prepared(host, ok)) /\ Spend("prepare", ~ok)

OrphanExit ==
  /\ \E g \in host.orphans : Callback([host EXCEPT !.orphans = @ \ {g}])
  /\ UNCHANGED budgets

\* A backoff elapses.
CommandDue ==
  /\ pc = "rest"
  /\ \E i \in DOMAIN store.commands :
       /\ store.commands[i].status = "queued" /\ ~store.commands[i].due
       /\ store' = [store EXCEPT !.commands[i].due = TRUE]
  /\ UNCHANGED <<host, pc, cmd, gen, overdue, faults, requests>>

\* Somebody is still at work on the boot of the current generation.
BootExpected ==
  \/ host.events # <<>>
  \/ \E i \in DOMAIN store.commands :
       /\ store.commands[i].verb \in StartVerbs /\ store.commands[i].status \in Pending
       /\ store.commands[i].target = Generation(store)
  \/ /\ HasProcess(host, Generation(store))
     /\ \/ host.proc.signalled
        \/ /\ ~IsDegraded(host, Generation(store))
           /\ ~(Running(host) /\ ReadyAtSpawn /\ host.proc.announced
                /\ host.proc.phase = "booting")

\* The boot deadline passes: a fault, unless nothing could have met it.
BootDeadline ==
  /\ pc = "rest" /\ Live(store) /\ Current(store).state = "booting" /\ ~overdue
  /\ overdue' = TRUE
  /\ Spend("hang", BootExpected)
  /\ UNCHANGED <<store, host, pc, cmd, gen>>

-----------------------------------------------------------------------------
(* One step of the daemon: observe, policies, commands, delivery. *)

\* A policy repeats its stop in every step in which the process is still
\* dying: the stop before is settled, the row still live.  The kill after the
\* grace period bounds the repeats; MaxRepeats bounds them here.
MayRepeat == Cardinality({i \in StopsOf(store, Generation(store)) :
                store.commands[i].kind \in {"idle_window", "degraded"}}) < MaxRepeats

BeginStep ==
  /\ pc = "rest" /\ pc' = "fold"
  /\ Stopping(host) /\ host.proc.degraded /\ store.mail > 0 => MayRepeat
  /\ UNCHANGED <<store, host, cmd, gen, overdue, faults, requests>>

Observe ==
  /\ pc = "fold" /\ host.events # <<>>
  /\ store' = ApplyObservation(store, Head(host.events))
  /\ host' = [host EXCEPT !.events = Tail(@)]
  /\ UNCHANGED <<pc, cmd, gen, overdue, faults, requests>>

BootHangPolicy(s) ==
  IF /\ Live(s) /\ Current(s).state = "booting" /\ overdue
     /\ ~HasPendingStopCommand(s, Generation(s))
     /\ ~HasBootHangStopCommand(s, Generation(s))
    THEN EnqueueCommand(s, "stop", "hang") ELSE s

\* elapsed: the runtime has been idle for longer than the idle window.
ScaleToZeroPolicy(s, elapsed) ==
  IF /\ Live(s) /\ Current(s).state = "idle" /\ elapsed /\ s.mail = 0
     /\ ~HasPendingStopCommand(s, Generation(s))
    THEN EnqueueCommand(s, "stop", "idle_window") ELSE s

DegradedMailPolicy(s) ==
  IF /\ Live(s) /\ IsDegraded(host, Generation(s)) /\ s.mail > 0
     /\ ~HasPendingStopCommand(s, Generation(s))
    THEN EnqueueCommand(s, "stop", "degraded") ELSE s

Policies ==
  /\ pc = "fold" /\ host.events = <<>>
  /\ \E elapsed \in (IF MayRepeat THEN BOOLEAN ELSE {FALSE}) :
       store' = DegradedMailPolicy(ScaleToZeroPolicy(BootHangPolicy(store), elapsed))
  /\ pc' = "commands"
  /\ UNCHANGED <<host, cmd, gen, overdue, faults, requests>>

\* executeCommands claims until nothing is left to run (commandsPerStep is
\* taken to be at least the queue of one bee).
Claim ==
  /\ pc = "commands"
  /\ store' = ClaimNextCommand(store)
  /\ IF ToRun(store) = {}
       THEN pc' = "delivery" /\ UNCHANGED cmd
       ELSE pc' = "claimed" /\ cmd' \in {i \in ToRun(store) : IsNext(store, i)}
  /\ UNCHANGED <<host, gen, overdue, faults, requests>>

Verb == store.commands[cmd].verb

Kind == store.commands[cmd].kind

Cause == CauseOf(store.commands[cmd])

\* A transaction of the handler, and where the handler goes on.
Commit(changed, next) ==
  /\ store' = changed /\ pc' = next
  /\ UNCHANGED <<host, cmd, gen, overdue, faults, requests>>

ExecuteArchive ==
  /\ pc = "claimed" /\ Verb = "archive"
  /\ Commit(ExecuteArchiveCommand(store), "settle")

ExecuteUnarchive ==
  /\ pc = "claimed" /\ Verb = "unarchive"
  /\ Commit(UnarchiveBee(store), "settle")

\* Mutant: the process of a deleted bee is not stopped.
ExecuteDeleteOnly ==
  /\ pc = "claimed" /\ Verb = "delete"
  /\ Commit(DeleteBee(store), "settle")

\* deleteBee commits before the driver is told to stop the process.
ExecuteDelete ==
  /\ pc = "claimed" /\ Verb = "delete"
  /\ store' = DeleteBee(store)
  /\ IF Live(store) THEN pc' = "deleting" /\ gen' = Generation(store)
                    ELSE pc' = "settle" /\ UNCHANGED gen
  /\ UNCHANGED <<host, cmd, overdue, faults, requests>>

ExecuteDeleteStop ==
  /\ pc = "deleting"
  /\ host' = Stop(host, gen, "stopped_by_system", FALSE)
  /\ pc' = "settle" /\ gen' = 0
  /\ UNCHANGED <<store, cmd, overdue, faults, requests>>

\* A replayed model change finds its runtime stopped already.
ExecuteStopStopped ==
  /\ pc = "claimed" /\ Verb = "stop" /\ ~Live(store)
  /\ Commit(ReviveAfterStopIfRequested(store, Generation(store)), "settle")

\* The runtime became ready before its hang stop was executed.
ExecuteStopSkip ==
  /\ pc = "claimed" /\ Verb = "stop" /\ Live(store)
  /\ Kind = "hang" /\ Current(store).state # "booting"
  /\ Commit(SkipBootHangStop(store, cmd), "commands")

\* driver.stop may find that the process has died unnoticed.
ExecuteStop ==
  /\ pc = "claimed" /\ Verb = "stop" /\ Live(store)
  /\ Kind = "hang" => Current(store).state = "booting"
  /\ \E dead \in BOOLEAN :
       /\ dead => ProcOf(host, Generation(store))
       /\ Spend("unnoticed", dead /\ ~host.proc.signalled)
       /\ host' = Stop(host, Generation(store), Cause, dead)
       /\ pc' = IF HadProcess(host, Generation(store), dead) THEN "settle" ELSE "exiting"
  /\ UNCHANGED <<store, cmd, gen, overdue>>

\* No process: the stop is a fact now.  Three transactions.
ExecuteStopFact ==
  /\ pc = "exiting"
  /\ Commit(UpdateRuntimeState(store, Generation(store), "stopped", Cause, FALSE, FALSE),
            "exited")

ExecuteStopWake == pc = "exited" /\ Commit(EnsureWake(store), "woken")

ExecuteStopRevive ==
  /\ pc = "woken"
  /\ Commit(ReviveAfterStopIfRequested(store, Generation(store)), "settle")

\* A revive starts with a fresh spawn-failure budget.
ExecuteReviveReset ==
  /\ pc = "claimed" /\ Verb = "revive"
  /\ Commit(ResetSpawnFailures(store), "reset")

AtStart == \/ pc = "claimed" /\ Verb \in {"spawn", "send_wake"}
           \/ pc = "reset"

ExecuteStartNoop ==
  /\ AtStart /\ Live(store) /\ HasProcess(host, Generation(store))
  /\ Commit(store, "settle")

ExecuteStartMint ==
  /\ AtStart /\ ~Live(store)
  /\ store' = ReviveBee(store) /\ overdue' = FALSE /\ pc' = "minted"
  /\ UNCHANGED <<host, cmd, gen, faults, requests>>

AtLaunch == \/ pc = "minted"
            \/ AtStart /\ Live(store) /\ ~HasProcess(host, Generation(store))

ExecuteStart ==
  /\ AtLaunch /\ CanStart(host)
  /\ host' = Start(host, Generation(store)) /\ pc' = "started"
  /\ UNCHANGED <<store, cmd, gen, overdue, faults, requests>>

\* driver.start throws: by its own checks, or because the spawn fails.
ExecuteStartFails ==
  /\ AtLaunch
  /\ store' = ReportCommandFailure(store, cmd) /\ pc' = "commands"
  /\ Spend("start", CanStart(host))
  /\ UNCHANGED <<host, cmd, gen, overdue>>

RecordProcAtSpawn ==
  /\ pc = "started"
  /\ Commit(IF ProcOf(host, Generation(store)) THEN RecordRuntimeProc(store, Generation(store))
                                               ELSE store, "settle")

Settle == pc = "settle" /\ Commit(CompleteCommand(store, cmd), "commands")

\* Mutant: the mailbox is not looked at again before the delivery.
DeliverableAnyway == /\ Live(store) /\ Current(store).state # "booting"
                     /\ Accepts(host, Generation(store))

Deliverable == /\ Live(store) /\ Current(store).state # "booting" /\ store.mail > 0
               /\ Accepts(host, Generation(store))

DeliverMail ==
  /\ pc = "delivery" /\ Deliverable
  /\ host' = Deliver(host) /\ pc' = "accepted"
  /\ UNCHANGED <<store, cmd, gen, overdue, faults, requests>>

DeliverNothing == pc = "delivery" /\ ~Deliverable /\ Commit(store, "rest")

DeliverMarked == pc = "accepted" /\ Commit(MarkDelivered(store), "rest")

Step ==
  \/ BeginStep \/ Observe \/ Policies \/ Claim
  \/ ExecuteArchive \/ ExecuteUnarchive \/ ExecuteDelete \/ ExecuteDeleteStop
  \/ ExecuteStopStopped \/ ExecuteStopSkip \/ ExecuteStop
  \/ ExecuteStopFact \/ ExecuteStopWake \/ ExecuteStopRevive
  \/ ExecuteReviveReset \/ ExecuteStartNoop \/ ExecuteStartMint
  \/ ExecuteStart \/ ExecuteStartFails \/ RecordProcAtSpawn \/ Settle
  \/ DeliverMail \/ DeliverNothing \/ DeliverMarked

-----------------------------------------------------------------------------
(* The daemon dies and comes back; the machine restarts. *)

GoDown == /\ pc = "fold" => host.events = <<>>
          /\ pc' = "down" /\ cmd' = 0 /\ gen' = 0
          /\ UNCHANGED <<store, overdue>>

Crash == pc # "down" /\ GoDown /\ host' = Detach(host) /\ Spend("crash", TRUE)

MachineRestart == GoDown /\ host' = InitHost /\ Spend("machine", TRUE)

\* With no driver to hear it, a process ends without an observation.
ExitUnheard ==
  /\ pc = "down" /\ Running(host)
  /\ host' = [host EXCEPT !.proc = NoProcess]
  /\ Spend("exit", ~host.proc.signalled)
  /\ UNCHANGED <<store, pc, cmd, gen, overdue>>

\* Mutant: the process of a booting row is not adopted.
SurvivesReady(s) == /\ Live(s) /\ Current(s).pid /\ Current(s).state # "booting"
                    /\ Running(host) /\ host.proc.generation = Generation(s)

\* adoptSurvivors takes a process only for a live row that recorded its pid.
Survives(s) == /\ Live(s) /\ Current(s).pid
               /\ Running(host) /\ host.proc.generation = Generation(s)

\* The store opens (running commands requeued), survivors are adopted, the
\* rows are reconciled with them, wakes and restarts that are owed are queued.
Boot ==
  LET opened     == BootRequeueRunningCommands(store)
      reconciled == ReconcileAtBoot(opened, Survives(opened))
      awake      == EnsureWake(reconciled)
  IN  /\ pc = "down" /\ pc' = "rest"
      /\ store' = IF Exists(store)
                    THEN ReviveAfterStopIfRequested(awake, Generation(awake))
                    ELSE opened
      /\ IF Survives(opened)
           THEN \E up \in BOOLEAN, degraded \in BOOLEAN :
                  host' = Adopt(host, Current(store).state, host.proc.announced \/ up, degraded)
           ELSE host' = Abandon(host)
      /\ UNCHANGED <<cmd, gen, overdue, faults, requests>>

-----------------------------------------------------------------------------
Environment ==
  \/ Operator
  \/ HostBooted \/ HostReady \/ HostTurnEnded \/ HostTurnStarted \/ HostExit
  \/ HostPrepared \/ OrphanExit \/ CommandDue \/ BootDeadline
  \/ Crash \/ MachineRestart \/ ExitUnheard

Next == Step \/ Boot \/ Environment

Spec == Init /\ [][Next]_vars

\* What the scheduling guarantees.  The daemon's thread runs while it is up and
\* a supervisor restarts it; the event loop runs pending callbacks and timers
\* between steps (they are enabled only there, hence strong fairness); a
\* healthy process boots, ends its turns and dies when it is told to.
Fairness ==
  /\ WF_vars(Step) /\ WF_vars(Boot)
  /\ SF_vars(HostBooted) /\ SF_vars(HostReady) /\ SF_vars(HostTurnEnded)
  /\ SF_vars(host.proc.signalled /\ HostExit)
  /\ SF_vars(CanLaunch([host EXCEPT !.pending = NoStart]) /\ UNCHANGED faults /\ HostPrepared)
  /\ SF_vars(CommandDue)
  /\ SF_vars(~BootExpected /\ BootDeadline)

FairSpec == Spec /\ Fairness

-----------------------------------------------------------------------------
(* Correctness. *)

\* Every variable stays in its type: no handler indexes a row or a command
\* that is not there, and no counter goes below zero.
TypeOK ==
  /\ store \in Store /\ host \in Host /\ pc \in Pcs
  /\ cmd \in Nat /\ gen \in Nat /\ overdue \in BOOLEAN
  /\ faults \in Nat /\ requests \in Nat

\* B2 and I2, the closed state model: a bee that exists has a generation, only
\* its last runtime can be live, and exactly the stopped ones have an exit cause.
ClosedStateModel == Closed(store)

Lifecycle == INSTANCE RuntimeLifecycle WITH log <- Log(store), asked <- Asked(store)

\* Store, queue, driver and recovery together implement the runtime lifecycle:
\* every step of the daemon, also one that replays a command or folds a stale
\* observation, is a step of that log or leaves it alone.
ImplementsLifecycle == Lifecycle!Spec

\* The spawn-failure budget (B5): consecutive boot failures never pass it, and
\* a bee that has used it up is visibly flagged.
BudgetHolds ==
  /\ store.failures <= MaxAttempts
  /\ store.failures = MaxAttempts => store.flagged

\* The generations that may be held against a bee: they gave no real output
\* and ended by themselves or by an executed boot-hang stop.
FailedBoots ==
  {g \in DOMAIN store.runtimes :
     /\ store.runtimes[g].evidence # "real"
     /\ \/ store.runtimes[g].exitCause \in {"crashed", "clean"}
        \/ /\ store.runtimes[g].exitCause = "stopped_by_system"
           /\ \E i \in StopsOf(store, g) : store.commands[i].kind = "hang"}

\* I4: every counted failure is a boot that failed.  An operator's stop, a
\* daemon crash or a machine restart is never counted, a failed boot not twice.
FailuresEarned == store.failures <= Cardinality(FailedBoots)

\* A flagged bee used up its budget or has a command that failed for good.
FlagEarned ==
  store.flagged => \/ store.failures >= MaxAttempts
                   \/ \E i \in DOMAIN store.commands : store.commands[i].status = "failed"

\* Mail, retries, boot sweeps and requeues never have two wakes under way for
\* one generation: a second would start a runtime nobody asked for.
OneWakePerGeneration ==
  \A i, j \in DOMAIN store.commands :
    (/\ store.commands[i].verb = "send_wake" /\ store.commands[i].status \in Pending
     /\ store.commands[j].verb = "send_wake" /\ store.commands[j].status \in Pending
     /\ store.commands[i].target = store.commands[j].target) => i = j

\* A generation is minted only once the driver has let go of the one before:
\* driver.start is never called over a process or another start.
StartFindsNoProcess == pc = "minted" => ~Running(host) /\ ~StartPending(host)

ExitQueued(generation) ==
  \E i \in DOMAIN host.events : /\ host.events[i].kind = "exited"
                                /\ host.events[i].generation = generation

\* I3, between two steps: a runtime shown as running or idle has its process,
\* or the exit of that process is about to be folded.
NoZombie ==
  pc = "rest" /\ Live(store) /\ Current(store).state # "booting" =>
    ProcOf(host, Generation(store)) \/ ExitQueued(Generation(store))

\* Between two steps a process that nobody is stopping belongs to the live,
\* current runtime: none goes on working behind a stopped or deleted row.
NoStrayProcess ==
  pc = "rest" /\ Running(host) /\ ~Stopping(host) =>
    Live(store) /\ host.proc.generation = Generation(store)

\* A process that a restart lost track of is one whose pid was not recorded:
\* no recorded process of an existing bee is ever abandoned.
OnlyUnrecordedOrphans ==
  Exists(store) => \A g \in host.orphans : ~store.runtimes[g].pid

\* A settled command stays settled: no replay, requeue, failure report or late
\* completion reopens it or turns done into failed.
SettledIsFinal ==
  [][\A i \in DOMAIN store.commands :
       store.commands[i].status \in {"done", "failed"} =>
         store'.commands[i].status = store.commands[i].status]_vars

\* An explicit user stop supersedes the starts queued before it, for good: a
\* crash or a failed start does not bring one back.
UserStopSupersedes ==
  \A i, j \in DOMAIN store.commands :
    (/\ i < j /\ store.commands[i].verb \in StartVerbs /\ store.commands[j].kind = "user"
     /\ store.commands[i].target = store.commands[j].target)
       => store.commands[i].status \in {"done", "failed"}

\* I1: accepted mail is delivered, or the bee is visibly blocked.
MailDelivered == store.mail > 0 ~> store.mail = 0 \/ store.flagged

\* A model change waits for its runtime's turn to end, and nobody hears that
\* of a runtime that was adopted without a journal.
WaitsForDegraded(c) == c.kind = "model" /\ IsDegraded(host, Generation(store))

\* I6: the command queue drains, over and over: nothing stays queued or running.
QueueDrains ==
  []<>(\A i \in DOMAIN store.commands : \/ store.commands[i].status \notin Pending
                                        \/ WaitsForDegraded(store.commands[i]))

StoppedByUser == \E i \in StopsOf(store, Generation(store)) : store.commands[i].kind = "user"

\* A stop that carries thenRevive was executed against the current runtime.
RestartOwed ==
  /\ ~StoppedByUser
  /\ \E i \in StopsOf(store, Generation(store)) : /\ store.commands[i].thenRevive
                                                  /\ store.commands[i].status = "done"

\* An executed stop-then-revive reaches the next generation, also when the
\* daemon dies before it has heard of the exit.
RestartSurvives == Live(store) /\ RestartOwed ~> ~RestartOwed

SwapPending ==
  /\ ~StoppedByUser
  /\ \E i \in StopsOf(store, Generation(store)) : store.commands[i].kind = "swap"

\* A stop {thenRevive} command, once accepted, revives the next generation,
\* whatever ends the runtime first.
SwapHonoured == SwapPending ~> ~SwapPending

\* At most one process works for a bee, also across daemon restarts.
AtMostOneProcess ==
  host.orphans = {} \/ (~Running(host) /\ \A g, k \in host.orphans : g = k)
=============================================================================
