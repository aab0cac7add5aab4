---------------------------- MODULE RuntimeHost ----------------------------
(***************************************************************************)
(* The RuntimeHost driver (v2/driver-hsr/src/driver.ts) as one bee sees    *)
(* it: the detached process it owns, the start it holds back, the          *)
(* observations it has queued for the daemon.  A method or callback of the *)
(* driver is an operator from a host to a host; the driver is single       *)
(* threaded, so each is one step.                                          *)
(*                                                                         *)
(*   proc     procs.get(beeId); generation 0 is no process.  signalled is  *)
(*            a fact of the process, not of the driver: it was sent TERM   *)
(*   pending  pendingStarts.get(beeId): a start whose cell is being        *)
(*            prepared (preparing), or that waits for the old process      *)
(*   events   observations not yet drained by observe()                    *)
(*   orphans  generations of detached processes that no driver knows: the  *)
(*            runner host outlives the daemon, and only a recorded pid is  *)
(*            adopted again                                                *)
(***************************************************************************)
EXTENDS CoreTypes, Integers, Sequences

CONSTANTS
  Cell,            \* the bee's substrate prepares a cell before it launches
  ReadyAtSpawn,    \* the harness accepts input at spawn, before any output
  AcceptsMidTurn   \* the harness takes a message while a turn is running

ASSUME HostAssumption == {Cell, ReadyAtSpawn, AcceptsMidTurn} \subseteq BOOLEAN

Phases == {"booting", "running", "idle"}

Process == [generation: Nat, phase: Phases, stopCause: StopCauses \union {"none"},
            signalled: BOOLEAN, realEvidence: BOOLEAN, announced: BOOLEAN,
            degraded: BOOLEAN]

PendingStart == [generation: Nat, preparing: BOOLEAN]

Observation == [generation: Nat, kind: {"booted", "turn_started", "turn_ended", "exited"},
                synthetic: BOOLEAN,
                exitCause: StopCauses \union {"clean", "crashed", "none"}]

Host == [proc: Process, pending: PendingStart, events: Seq(Observation),
         orphans: SUBSET Nat]

NoProcess == [generation |-> 0, phase |-> "booting", stopCause |-> "none",
              signalled |-> FALSE, realEvidence |-> FALSE, announced |-> FALSE,
              degraded |-> FALSE]

NoStart == [generation |-> 0, preparing |-> FALSE]

InitHost == [proc |-> NoProcess, pending |-> NoStart, events |-> <<>>, orphans |-> {}]

-----------------------------------------------------------------------------
Running(h) == h.proc.generation # 0

Stopping(h) == Running(h) /\ h.proc.stopCause # "none"

StartPending(h) == h.pending.generation # 0

Saw(h, kind, synthetic) ==
  [generation |-> h.proc.generation, kind |-> kind, synthetic |-> synthetic,
   exitCause |-> "none"]

Exited(generation, cause) ==
  [generation |-> generation, kind |-> "exited", synthetic |-> FALSE, exitCause |-> cause]

Push(h, event) == [h EXCEPT !.events = Append(@, event)]

HasProcess(h, generation) ==
  \/ StartPending(h) /\ h.pending.generation = generation
  \/ Running(h) /\ h.proc.generation = generation

IsDegraded(h, generation) ==
  Running(h) /\ h.proc.generation = generation /\ h.proc.degraded

\* procOf: nothing to record while the start is still pending.
ProcOf(h, generation) == Running(h) /\ h.proc.generation = generation

-----------------------------------------------------------------------------
(* Starting. *)

NewProcess(generation) ==
  [NoProcess EXCEPT !.generation = generation,
                    !.phase = IF ReadyAtSpawn THEN "idle" ELSE "booting"]

\* launch throws over a process that is neither stopping nor waited for.
CanLaunch(h) == ~Running(h) \/ Stopping(h) \/ StartPending(h)

\* A start behind a dying process is held back until the process is gone.
Launch(h, generation) ==
  IF Running(h)
    THEN [h EXCEPT !.pending = [generation |-> generation, preparing |-> FALSE]]
    ELSE [h EXCEPT !.proc = NewProcess(generation)]

\* start throws while a cell is being prepared, or over a live process.
CanStart(h) == /\ ~h.pending.preparing
               /\ CanLaunch(h)

Start(h, generation) ==
  IF Cell
    THEN [h EXCEPT !.pending = [generation |-> generation, preparing |-> TRUE]]
    ELSE Launch(h, generation)

\* The preparation's callback: launch, or report the start as a crashed exit.
Prepared(h, ok) ==
  LET free == [h EXCEPT !.pending = NoStart]
  IN  IF ok /\ CanLaunch(free)
        THEN Launch(free, h.pending.generation)
        ELSE Push(free, Exited(h.pending.generation, "crashed"))

-----------------------------------------------------------------------------
(* The process speaks. *)

\* pumpStatus: a readyAtSpawn harness counts as booted once its agent is up.
PumpStatus(h) ==
  [h EXCEPT !.proc.announced = TRUE,
            !.events = @ \o <<Saw(h, "booted", TRUE)>>
                         \o (IF h.proc.phase = "idle" THEN <<Saw(h, "turn_ended", TRUE)>>
                                                      ELSE <<>>)]

\* onSignal: the first real line of a process past booting is boot evidence.
Evidence(h) ==
  IF h.proc.realEvidence \/ h.proc.phase = "booting" THEN <<>>
                                                     ELSE <<Saw(h, "booted", FALSE)>>

Signal(h, phase, seen) ==
  [h EXCEPT !.proc.realEvidence = TRUE, !.proc.phase = phase,
            !.events = @ \o Evidence(h) \o seen]

SignalBooted(h) ==
  IF h.proc.phase = "booting"
    THEN Signal(h, "running", <<Saw(h, "booted", FALSE)>>)
    ELSE Signal(h, h.proc.phase, <<>>)

SignalTurnStarted(h) == Signal(h, "running", <<Saw(h, "turn_started", FALSE)>>)

SignalTurnEnded(h) == Signal(h, "idle", <<Saw(h, "turn_ended", FALSE)>>)

\* onExit: the process is forgotten, its exit queued with the cause of the
\* stop if there was one, and the start that waited for it is launched.
OnExit(h, code) ==
  LET cause == IF Stopping(h) THEN h.proc.stopCause ELSE code
      gone  == Push([h EXCEPT !.proc = NoProcess], Exited(h.proc.generation, cause))
  IN  IF StartPending(h) /\ ~h.pending.preparing
        THEN Launch([gone EXCEPT !.pending = NoStart], h.pending.generation)
        ELSE gone

-----------------------------------------------------------------------------
(* The daemon asks. *)

\* Mutant: a process that was told to stop is taken to be gone.
NeverHadProcess(h, generation, dead) == FALSE

\* stop: what it returns as hadProcess.  A process that turns out to be dead
\* (dead) is finished on the spot and does not count.
HadProcess(h, generation, dead) ==
  \/ StartPending(h) /\ h.pending.generation = generation
  \/ Running(h) /\ h.proc.generation = generation /\ ~dead

\* Mutant: a cancelled start is reported as exited and still launched.
StopWithoutCancel(h, generation, cause, dead) ==
  IF StartPending(h) /\ h.pending.generation = generation
    THEN Push(h, Exited(generation, cause))
  ELSE IF ~(Running(h) /\ h.proc.generation = generation) THEN h
  ELSE IF dead THEN OnExit(h, "crashed")
  ELSE IF Stopping(h) THEN h
  ELSE [h EXCEPT !.proc.stopCause = cause, !.proc.signalled = TRUE]

\* stop: cancel a start, or signal the process and remember the first cause.
Stop(h, generation, cause, dead) ==
  IF StartPending(h) /\ h.pending.generation = generation
    THEN Push([h EXCEPT !.pending = NoStart], Exited(generation, cause))
  ELSE IF ~(Running(h) /\ h.proc.generation = generation) THEN h
  ELSE IF dead THEN OnExit(h, "crashed")
  ELSE IF Stopping(h) THEN h
  ELSE [h EXCEPT !.proc.stopCause = cause, !.proc.signalled = TRUE]

\* deliver accepts a message for this generation.
Accepts(h, generation) ==
  /\ Running(h) /\ h.proc.generation = generation
  /\ ~h.proc.degraded /\ ~Stopping(h)
  /\ \/ h.proc.phase = "idle"
     \/ h.proc.phase = "running" /\ AcceptsMidTurn

\* deliver: a message opens a turn in an idle process.
Deliver(h) ==
  IF h.proc.phase = "idle"
    THEN [Push(h, Saw(h, "turn_started", TRUE)) EXCEPT !.proc.phase = "running"]
    ELSE h

-----------------------------------------------------------------------------
(* The daemon dies and comes back. *)

\* Driver memory is lost: queued events, held starts, running preparations.
Detach(h) == [h EXCEPT !.pending = NoStart, !.events = <<>>]

\* A process nobody adopts stays alive and unknown.
Abandon(h) ==
  [h EXCEPT !.proc = NoProcess,
            !.orphans = IF Running(h) THEN @ \union {h.proc.generation} ELSE @]

\* adopt: the phase is the row's; unread journal lines will be parsed again;
\* the stop that was under way is forgotten (the signal is not).  Without a usable journal the
\* process is adopted degraded, and nothing it says is heard.
Adopt(h, state, announced, degraded) ==
  [h EXCEPT !.proc = [generation |-> h.proc.generation,
                      phase |-> IF degraded THEN "running" ELSE state,
                      stopCause |-> "none", signalled |-> h.proc.signalled,
                      realEvidence |-> FALSE,
                      announced |-> announced, degraded |-> degraded]]
=============================================================================
