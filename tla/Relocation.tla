----------------------------- MODULE Relocation -----------------------------
(***************************************************************************)
(* Cell moves and harness handoffs of one bee: the durable bee_moves and   *)
(* bee_handoffs of the store (v2/core/src/store.ts), their fences on the   *)
(* command queue, on wakes and on delivery, and the loop that drives them  *)
(* (v2/daemon/src/loops.ts).  Both stop the bee's runtime, change what the *)
(* bee is while nothing runs, and start it again; "relocation" is either.  *)
(*                                                                         *)
(* The store is CoreStore's, with five more fields:                        *)
(*   rows       the receipts of the relocations; an id is an index         *)
(*   active     bees.active_move_id or active_handoff_id, or 0             *)
(*   substrate  a move takes the bee from its cell to a checkout           *)
(*   identity   the relocation that last rewrote the bee's row: harness,   *)
(*              account and args, or working directory                     *)
(*   seeds      the context messages of handoffs not delivered yet         *)
(* The stop and the revive of relocation n are keyed by it: their kind is  *)
(* Names[n].  mail counts every undelivered message, seeds included.       *)
(*                                                                         *)
(* proc is the bee's process as the driver knows it: "gone" once it has    *)
(* exited and the exit waits to be folded.  Handlers are synchronous, so a *)
(* command is claimed, executed and settled in one action; DaemonCore has  *)
(* the crashes between its transactions, and here the one that matters to  *)
(* a relocation, between the mint of a generation and its start.           *)
(*                                                                         *)
(* unkilled is history: a process ignored SIGTERM and outlived the daemon  *)
(* whose timer would have killed it.                                       *)
(***************************************************************************)
EXTENDS CoreStore

CONSTANTS Names,         \* command keys of the relocations; as many as may be asked for
          MaxMail,       \* bound: undelivered messages
          MaxRequests,   \* bound: requests of operators
          MaxFaults      \* bound: crashes, exits, failing starts and checks

Keys == {Names[n] : n \in DOMAIN Names}

ASSUME RelocationAssumption ==
  /\ Names \in Seq(STRING)
  /\ \A m, n \in DOMAIN Names : Names[m] = Names[n] => m = n
  /\ Keys \intersect Kinds = {}
  /\ MaxMail \in Nat /\ MaxRequests \in Nat /\ MaxFaults \in Nat

VARIABLES store, proc, summarizing, up, faults, requests, unkilled

vars == <<store, proc, summarizing, up, faults, requests, unkilled>>

Fencing == {"stopping", "placing", "summarizing"}

Row == [kind: {"move", "handoff"}, source: Nat,
        phase: {"starting", "complete", "failed"} \union Fencing,
        code: {"none", "superseded", "spawn_failed", "other"},
        wasLive: BOOLEAN, atIdle: BOOLEAN]

Process == [state: {"none", "up", "dying", "gone"}, identity: Nat,
            cause: ExitCauses]

NoProc == [state |-> "none", identity |-> 0, cause |-> "crashed"]

Ids == DOMAIN store.rows

\* The fields of CoreStore have their types there.
TypeOK ==
  /\ store.lifecycle \in {"active", "archived"}
  /\ \A i \in DOMAIN store.commands : store.commands[i].kind \in Kinds \union Keys
  /\ store.mail \in 0 .. MaxMail + Len(Names)
  /\ store.rows \in Seq(Row) /\ Len(store.rows) <= Len(Names)
  /\ store.active \in {0} \union Ids /\ store.identity \in {0} \union Ids
  /\ \A id \in Ids : store.rows[id].phase \in {"starting"} \union Fencing <=> store.active = id
  /\ store.substrate \in {"cell", "checkout"}
  /\ store.seeds \in Seq(Ids) /\ Len(store.seeds) <= store.mail
  /\ proc \in Process /\ summarizing \subseteq Ids /\ up \in BOOLEAN
  /\ faults \in 0 .. MaxFaults /\ requests \in 0 .. MaxRequests /\ unkilled \in BOOLEAN

-----------------------------------------------------------------------------
(* Fences *)

Active(s) == s.rows[s.active]

\* Mutant: the fence goes up with the stop and down with the process.
FencesStopping(s) == s.active # 0 /\ Active(s).phase = "stopping"

\* The source must not start again, whatever asks for it.
Fences(s) == s.active # 0 /\ Active(s).phase \in Fencing

WakeIfNeeded(s) == IF Fences(s) THEN s ELSE ApplyWakeIfNeeded(s)

\* enqueueWake and rearmWakeIfFencedMail
WakeForMail(s) == IF s.mail > 0 THEN WakeIfNeeded(s) ELSE s

\* Mutant: the relocation's own revive is not told apart.
FencedAlways(s, c) ==
  \/ c.verb \in {"spawn", "send_wake"} /\ Fences(s)
  \/ c.verb = "revive" /\ s.active # 0

\* What claimNextCommand leaves in the queue while a relocation is active, and
\* the stop of a handoff that waits for the end of the turn.
Fenced(s, c) ==
  \/ c.verb \in {"spawn", "send_wake"} /\ Fences(s)
  \/ /\ c.verb = "revive" /\ s.active # 0
     /\ ~(Active(s).phase = "starting" /\ c.kind = Names[s.active])
  \/ /\ c.verb = "stop"
     /\ \E id \in DOMAIN s.rows : c.kind = Names[id] /\ s.rows[id].atIdle
     /\ s.runtimes[c.target].state \in {"booting", "running"}

\* A restart asked for by others does not survive a relocation.
StaleRestart(s, c) == s.active # 0 /\ c.verb = "stop" /\ c.thenRevive

Open(s) == {i \in Claimable(s) : ~Fenced(s, s.commands[i])}

Runnable(s) == {i \in Open(s) : ~Moot(s, s.commands[i]) /\ ~StaleRestart(s, s.commands[i])}

-----------------------------------------------------------------------------
(* Methods of the store *)

\* (\o <<>> gives TLC a sequence, which it can update further in the same step.)
SettleCommands(s, ids) ==
  [s EXCEPT !.commands = [i \in DOMAIN @ |->
     IF i \in ids /\ @[i].status \in Pending THEN [@[i] EXCEPT !.status = "done"] ELSE @[i]] \o <<>>]

\* claimNextCommand settles what it passes over on its way to the command it claims.
PassOver(s) ==
  SettleCommands(s, {j \in Open(s) \ Runnable(s) : \A i \in Runnable(s) : j < i})

\* mootCommandsQueuedBeforeMove
SettleStarts(s) ==
  SettleCommands(s, {i \in DOMAIN s.commands :
                       s.commands[i].verb \in StartVerbs \/ s.commands[i].thenRevive})

\* admitBeeMove and admitBeeHandoff
Admit(s, kind, atIdle) ==
  LET row == [kind |-> kind, source |-> Generation(s), phase |-> "stopping", code |-> "none",
              wasLive |-> Live(s), atIdle |-> atIdle]
      id  == Len(s.rows) + 1
  IN  ApplyEnqueue(SettleStarts([s EXCEPT !.active = id, !.rows = Append(@, row)]),
                   "stop", Names[id], TRUE)

SetPhase(s, id, phase) == [s EXCEPT !.rows[id].phase = phase]

\* Mutant: the bee stays bound to the relocation.
CompleteOnly(s, id) == SetPhase(s, id, "complete")

Complete(s, id) == [SetPhase(s, id, "complete") EXCEPT !.active = 0]

ApplyFail(s, id, code) ==
  [SetPhase(s, id, "failed") EXCEPT !.rows[id].code = code, !.active = 0]

\* Mutant: the revive of a relocation that was called off stays queued.
SupersedeKeepsRevive(s) == ApplyFail(s, s.active, "superseded")

ApplySupersede(s) ==
  SettleCommands(ApplyFail(s, s.active, "superseded"),
                 {i \in DOMAIN s.commands : s.commands[i].kind = Names[s.active]})

\* Mutant: the mail that was fenced is forgotten.
FailMoveOnly(s, id, code) == ApplyFail(s, id, code)

FailMove(s, id, code) == WakeForMail(ApplyFail(s, id, code))

\* failBeeHandoff and recoverAfterHandoffFailure: before the switch a source
\* that was live is revived on its old harness.
FailHandoff(s, id, code) ==
  LET failed == ApplyFail(s, id, code)
  IN  IF /\ s.rows[id].phase \in Fencing /\ s.mail = 0 /\ s.rows[id].wasLive
         /\ ~HasPendingReviveOrWakeCommand(s, s.rows[id].source)
         /\ Current(s).state = "stopped"
        THEN ApplyEnqueue(failed, "revive", "plain", TRUE)
        ELSE WakeForMail(failed)

FailRelocation(s, id, code) ==
  IF s.rows[id].kind = "move" THEN FailMove(s, id, code) ELSE FailHandoff(s, id, code)

\* commitBeePlacement
CommitPlacement(s, id) ==
  LET placed == [s EXCEPT !.substrate = "checkout", !.identity = id]
  IN  SetPhase(ApplyEnqueue(placed, "revive", Names[id], TRUE), id, "starting")

\* Mutant: the target inherits the spawn failures of the source.
SwitchKeepsFlag(s, id) ==
  LET switched == [s EXCEPT !.identity = id, !.mail = @ + 1, !.seeds = Append(@, id)]
  IN  SetPhase(ApplyEnqueue(switched, "revive", Names[id], TRUE), id, "starting")

\* switchBeeHandoff: the bee's row, its spawn budget, the seed, the revive.
\* The seed's own wake is fenced.
Switch(s, id) ==
  LET switched == [ResetSpawnFailures(s) EXCEPT !.identity = id, !.mail = @ + 1,
                                                !.seeds = Append(@, id)]
  IN  SetPhase(ApplyEnqueue(switched, "revive", Names[id], TRUE), id, "starting")

\* enqueueCommand: an operator's verb calls the relocation off.
Supersedes(verb, kind) == verb \in {"archive", "revive"} \/ kind = "user"

Enqueue(s, verb, kind) ==
  IF s.active # 0 /\ Supersedes(verb, kind)
    THEN WakeForMail(EnqueueCommand(ApplySupersede(s), verb, kind))
    ELSE EnqueueCommand(s, verb, kind)

ReviveAfterStop(s) ==
  IF /\ s.active = 0 /\ Current(s).state = "stopped"
     /\ HasStopThenReviveRequest(s, Generation(s))
     /\ ~HasPendingReviveOrWakeCommand(s, Generation(s))
    THEN Enqueue(s, "revive", "after_stop")
    ELSE s

-----------------------------------------------------------------------------
(* Operators *)

Ask == requests < MaxRequests /\ requests' = requests + 1

Request(changed) ==
  /\ up /\ Ask
  /\ store' = changed
  /\ UNCHANGED <<proc, summarizing, up, faults, unkilled>>

RpcSend == store.mail < MaxMail /\ Request(WakeForMail([UnarchiveBee(store) EXCEPT !.mail = @ + 1]))
RpcStop == Request(Enqueue(store, "stop", "user"))
RpcRevive == Request(Enqueue(store, "revive", "operator"))
RpcArchive == Request(Enqueue(store, "archive", "plain"))
RpcSwapAccount == Live(store) /\ Request(Enqueue(store, "stop", "swap"))

Relocate(kind, atIdle) ==
  /\ Len(store.rows) < Len(Names) /\ store.active = 0
  /\ Request(Admit(store, kind, atIdle))

RpcMove == store.substrate = "cell" /\ Relocate("move", FALSE)
RpcHandoff == store.lifecycle = "active" /\ \E atIdle \in BOOLEAN : Relocate("handoff", atIdle)

-----------------------------------------------------------------------------
(* The process and what the daemon observes of it *)

Spend(fault) == /\ fault => faults < MaxFaults
                /\ faults' = IF fault THEN faults + 1 ELSE faults

HasProcess == proc.state \in {"up", "dying"}

\* A step of the daemon starts with the fold of what the driver has seen.
Stepping == up /\ proc.state # "gone"

Observed(changed) ==
  /\ up /\ store' = changed
  /\ UNCHANGED <<proc, summarizing, up, faults, requests, unkilled>>

Booted ==
  /\ proc.state = "up" /\ Current(store).state = "booting"
  /\ Observed(UpdateRuntimeState(store, Generation(store), "running", "none", FALSE, TRUE))

TurnEnded ==
  /\ HasProcess /\ Current(store).state = "running"
  /\ Observed(UpdateRuntimeState(store, Generation(store), "idle", "none", FALSE, FALSE))

\* The process exits: a fault, unless it was asked to.
Exits ==
  /\ HasProcess
  /\ proc' = [proc EXCEPT !.state = IF up THEN "gone" ELSE "none",
                          !.cause = IF proc.state = "dying" THEN @ ELSE "crashed"]
  /\ Spend(proc.state = "up")
  /\ UNCHANGED <<store, summarizing, up, requests, unkilled>>

\* The exit is folded.
ObserveExit ==
  /\ up /\ proc.state = "gone"
  /\ \E stopped \in {UpdateRuntimeState(store, Generation(store), "stopped", proc.cause, FALSE, FALSE)} :
       LET retries == stopped.failures > store.failures /\ ~stopped.flagged
       IN  \E woken \in {IF retries THEN WakeIfNeeded(stopped) ELSE WakeForMail(stopped)} :
             store' = ReviveAfterStop(woken)
  /\ proc' = NoProc
  /\ UNCHANGED <<summarizing, up, faults, requests, unkilled>>

CommandDue ==
  /\ up
  /\ \E i \in DOMAIN store.commands :
       /\ store.commands[i].status = "queued" /\ ~store.commands[i].due
       /\ store' = [store EXCEPT !.commands[i].due = TRUE]
  /\ UNCHANGED <<proc, summarizing, up, faults, requests, unkilled>>

\* bootHangPolicy, for the boot that nobody is at work on.
BootHang ==
  /\ Current(store).state = "booting" /\ proc.state = "none"
  /\ ~HasPendingStopCommand(store, Generation(store))
  /\ ~HasBootHangStopCommand(store, Generation(store))
  /\ Observed(Enqueue(store, "stop", "hang"))

-----------------------------------------------------------------------------
(* executeCommands *)

\* A claim that finds nothing to run.
ClaimNothing ==
  /\ Stepping /\ Runnable(store) = {} /\ PassOver(store) # store
  /\ store' = PassOver(store)
  /\ UNCHANGED <<proc, summarizing, up, faults, requests, unkilled>>

\* Command i is the one claimed.
Runs(i, verbs) ==
  /\ Stepping /\ store.commands[i].verb \in verbs
  /\ i \in Runnable(store) /\ \A j \in Runnable(store) : i <= j

\* driver.stop signals the process; without one the stop is a fact now.
ExecuteStop(i) ==
  /\ Runs(i, {"stop"})
  /\ store.commands[i].kind = "hang" => Current(store).state = "booting"
  /\ \E s \in {SetCommand(PassOver(store), i, "running")}, cause \in {CauseOf(store.commands[i])} :
       IF HasProcess
         THEN /\ store' = SetCommand(s, i, "done")
              /\ proc' = IF proc.state = "dying" THEN proc
                         ELSE [proc EXCEPT !.state = "dying", !.cause = cause]
         ELSE /\ \E stopped \in {UpdateRuntimeState(s, Generation(s), "stopped", cause, FALSE, FALSE)} :
                \E woken \in {WakeForMail(stopped)} :
                  store' = SetCommand(ReviveAfterStop(woken), i, "done")
              /\ UNCHANGED proc
  /\ UNCHANGED <<summarizing, up, faults, requests, unkilled>>

SkipHangStop(i) ==
  /\ Runs(i, {"stop"})
  /\ store.commands[i].kind = "hang" /\ Current(store).state # "booting"
  /\ store' = SkipBootHangStop(PassOver(store), i)
  /\ UNCHANGED <<proc, summarizing, up, faults, requests, unkilled>>

ExecuteArchive(i) ==
  /\ Runs(i, {"archive"})
  /\ store' = SetCommand(ExecuteArchiveCommand(PassOver(store)), i, "done")
  /\ UNCHANGED <<proc, summarizing, up, faults, requests, unkilled>>

\* A start's store before driver.start: the budget of a revive, the generation.
Budgeted(s, i) == IF s.commands[i].verb = "revive" THEN ResetSpawnFailures(s) ELSE s

Minted(s) == IF Live(s) THEN s ELSE ReviveBee(s)

\* Idempotent when the process is there already.
ExecuteStart(i) ==
  /\ Runs(i, StartVerbs)
  /\ \E s \in {Budgeted(PassOver(store), i)} :
       IF HasProcess
         THEN store' = SetCommand(s, i, "done") /\ UNCHANGED proc
         ELSE /\ \E minted \in {SetCommand(Minted(s), i, "done")} :
                store' = RecordRuntimeProc(minted, Generation(minted))
              /\ proc' = [NoProc EXCEPT !.state = "up", !.identity = store.identity]
  /\ UNCHANGED <<summarizing, up, faults, requests, unkilled>>

\* driver.start throws.
StartFails(i) ==
  /\ Runs(i, StartVerbs) /\ ~HasProcess /\ Spend(TRUE)
  /\ store' = ReportCommandFailure(Minted(Budgeted(PassOver(store), i)), i)
  /\ UNCHANGED <<proc, summarizing, up, requests, unkilled>>

-----------------------------------------------------------------------------
(* reconcileMoves and reconcileHandoffs *)

Drive(changed) ==
  /\ Stepping /\ store' = changed
  /\ UNCHANGED <<proc, summarizing, up, faults, requests, unkilled>>

InPhase(id, kind, phase) == store.rows[id].kind = kind /\ store.rows[id].phase = phase

\* The source has stopped and its process is gone.
SourceGone(id) ==
  /\ Generation(store) = store.rows[id].source
  /\ Current(store).state = "stopped" /\ ~HasProcess

SourceStopped(id) ==
  /\ store.rows[id].phase = "stopping" /\ SourceGone(id)
  /\ Drive(SetPhase(store, id, IF store.rows[id].kind = "move" THEN "placing" ELSE "summarizing"))

Place(id) ==
  /\ InPhase(id, "move", "placing") /\ SourceGone(id)
  /\ Drive(CommitPlacement(store, id))

\* validatePlacement or relocateSession throws.
PlaceFails(id) ==
  /\ Stepping /\ InPhase(id, "move", "placing") /\ SourceGone(id) /\ Spend(TRUE)
  /\ store' = FailMove(store, id, "other")
  /\ UNCHANGED <<proc, summarizing, up, requests, unkilled>>

\* buildHandoffContext hands the transcript to an asynchronous summarizer.
Summarize(id) ==
  /\ Stepping /\ InPhase(id, "handoff", "summarizing") /\ SourceGone(id) /\ id \notin summarizing
  /\ summarizing' = summarizing \union {id}
  /\ UNCHANGED <<store, proc, up, faults, requests, unkilled>>

\* Mutant: the handoff's phase is not read again.
SummarizedLate(id) ==
  /\ up /\ id \in summarizing
  /\ summarizing' = summarizing \ {id}
  /\ store' = IF id \in {store.seeds[i] : i \in DOMAIN store.seeds} THEN store
              ELSE [store EXCEPT !.identity = id, !.mail = @ + 1, !.seeds = Append(@, id)]
  /\ UNCHANGED <<proc, up, faults, requests, unkilled>>

\* The summarizer answers, possibly to a handoff that was called off.
Summarized(id) ==
  /\ up /\ id \in summarizing
  /\ summarizing' = summarizing \ {id}
  /\ store' = IF store.rows[id].phase # "summarizing" THEN store
              ELSE IF store.active = id /\ Generation(store) = store.rows[id].source
                                        /\ Current(store).state = "stopped"
                THEN Switch(store, id)
                ELSE FailHandoff(store, id, "other")
  /\ UNCHANGED <<proc, up, faults, requests, unkilled>>

\* Mutant: the failure of a summarizer fails a handoff that is over already.
SummarizerFailsLate(id) ==
  /\ up /\ id \in summarizing /\ Spend(TRUE)
  /\ summarizing' = summarizing \ {id}
  /\ store' = FailHandoff(store, id, "other")
  /\ UNCHANGED <<proc, up, requests, unkilled>>

SummarizerFails(id) ==
  /\ up /\ id \in summarizing /\ Spend(TRUE)
  /\ summarizing' = summarizing \ {id}
  /\ store' = IF store.rows[id].phase \in {"complete", "failed"} THEN store
              ELSE FailHandoff(store, id, "other")
  /\ UNCHANGED <<proc, up, requests, unkilled>>

AtDestination(id) == Generation(store) # store.rows[id].source

\* The start of the destination failed for good, or is tried again.
StartingFails(id) ==
  /\ store.rows[id].phase = "starting" /\ store.flagged
  /\ Drive(FailRelocation(store, id, "spawn_failed"))

StartingRetries(id) ==
  /\ store.rows[id].phase = "starting" /\ ~store.flagged
  /\ AtDestination(id) /\ Current(store).state = "stopped"
  /\ WakeIfNeeded(store) # store
  /\ Drive(WakeIfNeeded(store))

\* A move without mail ends when its destination has booted.
MoveArrives(id) ==
  /\ InPhase(id, "move", "starting") /\ ~store.flagged /\ AtDestination(id)
  /\ Current(store).state \in {"running", "idle"} /\ store.mail = 0
  /\ Drive(Complete(store, id))

-----------------------------------------------------------------------------
(* deliveryLoop *)

\* What the delivery of the next message completes: a move, by the placement
\* instruction in front of its first message; a handoff, by its seed.
Arrival(s, delivered) ==
  IF /\ s.active # 0 /\ Active(s).phase = "starting"
     /\ \/ Active(s).kind = "move" /\ Generation(s) # Active(s).source
        \/ Active(s).kind = "handoff" /\ delivered = s.active
    THEN Complete(s, s.active) ELSE s

DeliverTo(s) ==
  LET seeded == s.seeds # <<>>
      first  == IF seeded THEN s.seeds[Len(s.seeds)] ELSE 0
      rest   == IF seeded THEN SubSeq(s.seeds, 1, Len(s.seeds) - 1) ELSE <<>>
  IN  Arrival([s EXCEPT !.mail = @ - 1, !.seeds = rest], first)

\* A message opens a turn.
Deliver ==
  /\ proc.state = "up" /\ Current(store).state \in {"running", "idle"}
  /\ store.mail > 0 /\ ~Fences(store)
  /\ Observed(UpdateRuntimeState(DeliverTo(store), Generation(store), "running", "none", FALSE, FALSE))

-----------------------------------------------------------------------------
(* Crashes *)

\* The daemon dies, between two steps or after the mint of a generation; its
\* kill timers and summarizers with it.
GoDown(s) ==
  /\ up /\ Spend(TRUE)
  /\ up' = FALSE /\ summarizing' = {} /\ store' = s
  /\ UNCHANGED requests

Crash ==
  /\ GoDown(store)
  /\ \/ proc' = (IF proc.state = "gone" THEN NoProc ELSE proc) /\ UNCHANGED unkilled
     \/ /\ proc.state = "dying"
        /\ proc' = [proc EXCEPT !.state = "up", !.cause = "crashed"] /\ unkilled' = TRUE

CrashInStart(i) ==
  /\ Runs(i, StartVerbs) /\ ~HasProcess
  /\ GoDown(SetCommand(Minted(Budgeted(PassOver(store), i)), i, "running"))
  /\ UNCHANGED <<proc, unkilled>>

\* Boot: requeue, reconcile, sweep the mailbox and the restarts.
Restart ==
  /\ ~up /\ up' = TRUE
  /\ \E s \in {ReconcileAtBoot(BootRequeueRunningCommands(store), HasProcess)} :
     \E woken \in {WakeForMail(s)} : store' = ReviveAfterStop(woken)
  /\ proc' = IF HasProcess THEN proc ELSE NoProc
  /\ UNCHANGED <<summarizing, faults, requests, unkilled>>

-----------------------------------------------------------------------------

Init ==
  /\ \E live \in BOOLEAN :
       /\ store = [lifecycle |-> "active", failures |-> 0, flagged |-> FALSE,
                   commands |-> <<>>, mail |-> 0,
                   runtimes |-> <<[state |-> IF live THEN "idle" ELSE "stopped",
                                   exitCause |-> IF live THEN "none" ELSE "stopped_by_system",
                                   evidence |-> "real", pid |-> TRUE]>>,
                   rows |-> <<>>, active |-> 0,
                   substrate |-> "cell", identity |-> 0, seeds |-> <<>>]
       /\ proc = [NoProc EXCEPT !.state = IF live THEN "up" ELSE "none"]
  /\ summarizing = {} /\ up = TRUE /\ faults = 0 /\ requests = 0 /\ unkilled = FALSE

Operator == \/ RpcSend \/ RpcStop \/ RpcRevive \/ RpcArchive \/ RpcSwapAccount
            \/ RpcMove \/ RpcHandoff

Execute == \/ ClaimNothing
           \/ \E i \in DOMAIN store.commands :
                ExecuteStop(i) \/ SkipHangStop(i) \/ ExecuteArchive(i) \/ ExecuteStart(i)

Reconcile == \E id \in Ids : \/ SourceStopped(id) \/ Place(id) \/ Summarize(id)
                             \/ StartingFails(id) \/ StartingRetries(id) \/ MoveArrives(id)

Fault == \/ \E id \in Ids : PlaceFails(id) \/ SummarizerFails(id)
         \/ \E i \in DOMAIN store.commands : StartFails(i) \/ CrashInStart(i)
         \/ Crash

Next == \/ Operator \/ Booted \/ TurnEnded \/ Exits \/ ObserveExit \/ CommandDue \/ BootHang
        \/ Execute \/ Reconcile \/ (\E id \in Ids : Summarized(id)) \/ Deliver
        \/ Fault \/ Restart

Spec == Init /\ [][Next]_vars

\* What happens by itself: the daemon takes its steps and is restarted by its
\* service manager; a process that was told to stop ends, a boot and a turn
\* end, a summarizer answers.  Weak fairness of all of it together is enough,
\* for none of it can go on for ever.
Progress == \/ ObserveExit \/ CommandDue \/ BootHang \/ Execute \/ Reconcile \/ Deliver \/ Restart
            \/ Booted \/ TurnEnded \/ (proc.state = "dying" /\ Exits)
            \/ (\E id \in Ids : Summarized(id))

FairSpec == Spec /\ WF_vars(Progress)

-----------------------------------------------------------------------------
(* Properties *)

\* While the bee's row is about to be rewritten nothing of the source runs or
\* starts: not for a wake queued before the relocation, not for mail, not
\* after a crash (claimNextCommand's fences, applyWakeIfNeeded's fences).
SourceStaysDown ==
  \A id \in Ids : store.rows[id].phase \in {"placing", "summarizing"} => SourceGone(id)

\* A process is what the bee's row says it is: neither a placement commit nor
\* a switch, nor the late answer of a summarizer, rewrites the row of a bee
\* whose process was started before it.
RunsAsRecorded == HasProcess => proc.identity = store.identity

\* Only what the operator called off keeps no command behind: neither a stop
\* that would hit the next generation nor a revive that undoes a user stop.
CalledOffIsOff ==
  \A i \in DOMAIN store.commands, id \in Ids :
    store.commands[i].kind = Names[id] /\ store.rows[id].code = "superseded"
      => store.commands[i].status \notin Pending

\* A handoff that failed with spawn_failed had tried its target: the failures
\* of the old harness are not held against the new one.
BlamesTheTarget ==
  \A id \in Ids : store.rows[id].kind = "handoff" /\ store.rows[id].code = "spawn_failed"
                    => Generation(store) > store.rows[id].source

\* A receipt that says complete or failed is final: no answer of a summarizer
\* that was overtaken, no late boot, no operator's call and no restart rewrites
\* it or its failure code (failHandoffQuietly, applyFailBeeHandoff and
\* applyFailBeeMove return early), and none is lost.
ReceiptsAreFinal ==
  [][\A id \in Ids : store.rows[id].phase \in {"complete", "failed"}
                        => id \in Ids' /\ store'.rows[id] = store.rows[id]]_vars

\* The stop of a handoff waits for the end of a turn of a runtime that never
\* boots, and keeps the boot-hang policy from ending it (hasPendingStopCommand).
Wedged == /\ store.active # 0 /\ Active(store).atIdle /\ Active(store).phase = "stopping"
          /\ Current(store).state = "booting" /\ ~HasProcess

\* Every relocation completes or fails, also over crashes at any point, with
\* two exceptions: a process that ignores SIGTERM and outlives the daemon's
\* kill timer, and a handoff at idle of a source that never boots.
RelocationSettles ==
  store.active # 0 ~> store.active = 0 \/ unkilled \/ Wedged

\* A user stop settles the wakes queued before it.
HeldByUser == \E i \in StopsOf(store, Generation(store)) : store.commands[i].kind = "user"

\* No message stays behind a fence: it reaches a runtime, unless the bee is
\* visibly blocked by spawn_failed or was stopped by its user.
MailNotStranded ==
  store.mail > 0 ~> store.mail = 0 \/ store.flagged \/ HeldByUser \/ unkilled \/ Wedged
=============================================================================
