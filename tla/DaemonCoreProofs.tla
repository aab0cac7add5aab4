-------------------------- MODULE DaemonCoreProofs --------------------------
(***************************************************************************)
(* The daemon core, for every value of its constants: its types, the       *)
(* closed state model, the finality of settled commands, and that it       *)
(* implements the runtime lifecycle.  First the driver's methods.          *)
(***************************************************************************)
EXTENDS DaemonCore, CoreStoreProofs

-----------------------------------------------------------------------------
(* What the driver's methods and callbacks preserve: the types, and that     *)
(* every exit it reports is explained.  An exit "stopped by ..." is one that *)
(* was asked for: A is the set of pairs <<generation, cause>> of the stops   *)
(* asked for so far.                                                         *)

Explained(e, A) ==
  e.kind = "exited" => /\ e.exitCause # "none"
                       /\ e.exitCause \in StopCauses => <<e.generation, e.exitCause>> \in A

ProcExplained(p, A) == p.stopCause # "none" => <<p.generation, p.stopCause>> \in A

\* Queued events of which each is explained.
Events(q, A) == q \in Seq(Observation) /\ \A i \in DOMAIN q : Explained(q[i], A)

HostInv(h, A) ==
  /\ h \in Host
  /\ ProcExplained(h.proc, A)
  /\ \A i \in DOMAIN h.events : Explained(h.events[i], A)

-----------------------------------------------------------------------------
(* The fields of a host, one at a time. *)

\* The fields of a host have their types.
LEMMA HostTypes ==
  ASSUME NEW h \in Host
  PROVE  /\ h.proc \in Process /\ h.pending \in PendingStart /\ h.events \in Seq(Observation)
         /\ h.orphans \in SUBSET Nat
         /\ h.proc.generation \in Nat /\ h.pending.generation \in Nat
         /\ h.proc.phase \in Phases /\ h.proc.stopCause \in StopCauses \union {"none"}
<1>1. /\ h.proc \in Process /\ h.pending \in PendingStart /\ h.events \in Seq(Observation)
      /\ h.orphans \in SUBSET Nat
  BY DEF Host
<1> QED BY <1>1 DEF Process, PendingStart

\* More stops asked for explain no less.
LEMMA HostMono ==
  ASSUME NEW h, NEW A, NEW B, HostInv(h, A), A \subseteq B
  PROVE  HostInv(h, B)
  BY DEF HostInv, ProcExplained, Explained

\* Another process, whose stop was asked for.
LEMMA ProcInv ==
  ASSUME NEW h, NEW A, HostInv(h, A), NEW p \in Process, ProcExplained(p, A)
  PROVE  HostInv([h EXCEPT !.proc = p], A)
<1> DEFINE r == [h EXCEPT !.proc = p]
<1>1. r \in Host /\ r.proc = p /\ r.events = h.events
  BY DEF HostInv, Host
<1> HIDE DEF r
<1>2. HostInv(r, A)
  BY <1>1 DEF HostInv
<1> QED BY <1>2 DEF r

\* Another held start.
LEMMA PendingInv ==
  ASSUME NEW h, NEW A, HostInv(h, A), NEW p \in PendingStart
  PROVE  HostInv([h EXCEPT !.pending = p], A)
<1> DEFINE r == [h EXCEPT !.pending = p]
<1>1. r \in Host /\ r.proc = h.proc /\ r.events = h.events
  BY DEF HostInv, Host
<1> HIDE DEF r
<1>2. HostInv(r, A)
  BY <1>1 DEF HostInv
<1> QED BY <1>2 DEF r

\* Other orphans.
LEMMA OrphansInv ==
  ASSUME NEW h, NEW A, HostInv(h, A), NEW o \in SUBSET Nat
  PROVE  HostInv([h EXCEPT !.orphans = o], A)
<1> DEFINE r == [h EXCEPT !.orphans = o]
<1>1. r \in Host /\ r.proc = h.proc /\ r.events = h.events
  BY DEF HostInv, Host
<1> HIDE DEF r
<1>2. HostInv(r, A)
  BY <1>1 DEF HostInv
<1> QED BY <1>2 DEF r

\* Other queued events, each explained.
LEMMA EventsInv ==
  ASSUME NEW h, NEW A, HostInv(h, A), NEW q, Events(q, A)
  PROVE  HostInv([h EXCEPT !.events = q], A)
<1> DEFINE r == [h EXCEPT !.events = q]
<1>1. r \in Host /\ r.proc = h.proc /\ r.events = q
  BY DEF HostInv, Host, Events
<1> HIDE DEF r
<1>2. HostInv(r, A)
  BY <1>1 DEF HostInv, Events
<1> QED BY <1>2 DEF r

\* Explained events behind explained events.
LEMMA ConcatEvents ==
  ASSUME NEW A, NEW q, NEW r, Events(q, A), Events(r, A)
  PROVE  Events(q \o r, A)
<1>1. q \in Seq(Observation) /\ r \in Seq(Observation)
  BY DEF Events
<1>2. q \o r \in Seq(Observation) /\ DOMAIN (q \o r) = 1..Len(q) + Len(r)
  BY <1>1
<1>3. ASSUME NEW i \in DOMAIN (q \o r) PROVE Explained((q \o r)[i], A)
  <2>1. CASE i <= Len(q)
    <3>1. i \in DOMAIN q /\ (q \o r)[i] = q[i]
      BY <1>1, <1>2, <2>1
    <3> QED BY <3>1 DEF Events
  <2>2. CASE i > Len(q)
    <3>1. i - Len(q) \in DOMAIN r /\ (q \o r)[i] = r[i - Len(q)]
      BY <1>1, <1>2, <2>2
    <3> QED BY <3>1 DEF Events
  <2> QED BY <1>1, <1>2, <2>1, <2>2
<1> QED BY <1>2, <1>3 DEF Events

\* One explained event.
LEMMA OneEvent ==
  ASSUME NEW A, NEW e \in Observation, Explained(e, A)
  PROVE  Events(<<e>>, A)
  BY DEF Events

\* No event.
LEMMA NoEvent == ASSUME NEW A PROVE Events(<<>>, A)
  BY DEF Events

\* The queued events are explained.
LEMMA HostEvents == ASSUME NEW h, NEW A, HostInv(h, A) PROVE Events(h.events, A)
  BY HostTypes DEF HostInv, Events

\* An explained event is queued.
LEMMA PushInv ==
  ASSUME NEW h, NEW A, HostInv(h, A), NEW e \in Observation, Explained(e, A)
  PROVE  HostInv(Push(h, e), A)
<1> DEFINE q == h.events \o <<e>>
<1>1. Events(q, A)
  BY HostEvents, OneEvent, ConcatEvents
<1>2. q = Append(h.events, e)
  BY HostTypes DEF HostInv
<1>3. Push(h, e) = [h EXCEPT !.events = q]
  BY <1>2 DEF Push
<1> HIDE DEF q
<1> QED BY <1>1, <1>3, EventsInv

-----------------------------------------------------------------------------
(* Observations and processes. *)

\* Output of a process is no exit, and so explained.
LEMMA SawExplained ==
  ASSUME NEW h \in Host, NEW A, NEW synthetic \in BOOLEAN,
         NEW kind \in {"booted", "turn_started", "turn_ended"}
  PROVE  Saw(h, kind, synthetic) \in Observation /\ Explained(Saw(h, kind, synthetic), A)
  BY HostTypes DEF Saw, Observation, Explained

\* An exit with a cause that was asked for, or that is the process's own.
LEMMA ExitedExplained ==
  ASSUME NEW A, NEW generation \in Nat, NEW cause \in StopCauses \union {"clean", "crashed"},
         cause \in StopCauses => <<generation, cause>> \in A
  PROVE  Exited(generation, cause) \in Observation /\ Explained(Exited(generation, cause), A)
  BY DEF Exited, Observation, Explained, StopCauses

\* Fresh processes and starts carry no stop.
LEMMA NoProcessType ==
  ASSUME NEW A
  PROVE  /\ NoProcess \in Process /\ ProcExplained(NoProcess, A) /\ NoStart \in PendingStart
         /\ \A g \in Nat : NewProcess(g) \in Process /\ ProcExplained(NewProcess(g), A)
<1>1. NoProcess \in Process /\ ProcExplained(NoProcess, A) /\ NoStart \in PendingStart
  BY DEF NoProcess, NoStart, Process, PendingStart, ProcExplained, Phases
<1>2. ASSUME NEW g \in Nat PROVE NewProcess(g) \in Process /\ ProcExplained(NewProcess(g), A)
  <2> DEFINE phase == IF ReadyAtSpawn THEN "idle" ELSE "booting"
  <2>1. phase \in Phases
    BY DEF Phases
  <2>2. NewProcess(g) = [NoProcess EXCEPT !.generation = g, !.phase = phase]
    BY DEF NewProcess
  <2> HIDE DEF phase
  <2> QED BY <2>1, <2>2 DEF NoProcess, Process, ProcExplained
<1> QED BY <1>1, <1>2

\* A driver that just started has nothing to explain.
LEMMA InitHostInv == ASSUME NEW A PROVE HostInv(InitHost, A)
<1>1. InitHost \in Host
  BY NoProcessType DEF InitHost, Host
<1> QED BY <1>1, NoProcessType DEF InitHost, HostInv

-----------------------------------------------------------------------------
(* Methods and callbacks. *)

\* launch keeps the driver's invariant.
LEMMA LaunchInv ==
  ASSUME NEW h, NEW A, HostInv(h, A), NEW g \in Nat
  PROVE  HostInv(Launch(h, g), A)
<1>1. [generation |-> g, preparing |-> FALSE] \in PendingStart
  BY DEF PendingStart
<1> QED BY <1>1, PendingInv, ProcInv, NoProcessType DEF Launch

\* start keeps the driver's invariant.
LEMMA StartInv ==
  ASSUME NEW h, NEW A, HostInv(h, A), NEW g \in Nat
  PROVE  HostInv(Start(h, g), A)
<1>1. [generation |-> g, preparing |-> TRUE] \in PendingStart
  BY DEF PendingStart
<1> QED BY <1>1, PendingInv, LaunchInv DEF Start

\* The end of a preparation launches, or reports a crash.
LEMMA PreparedInv ==
  ASSUME NEW h, NEW A, HostInv(h, A), NEW ok \in BOOLEAN
  PROVE  HostInv(Prepared(h, ok), A)
<1> DEFINE free == [h EXCEPT !.pending = NoStart]
<1>1. HostInv(free, A) /\ h.pending.generation \in Nat
  BY PendingInv, NoProcessType, HostTypes DEF HostInv
<1>2. \/ Prepared(h, ok) = Launch(free, h.pending.generation)
      \/ Prepared(h, ok) = Push(free, Exited(h.pending.generation, "crashed"))
  BY DEF Prepared
<1> HIDE DEF free
<1>3. LET e == Exited(h.pending.generation, "crashed") IN e \in Observation /\ Explained(e, A)
  BY <1>1, ExitedExplained DEF StopCauses
<1> QED BY <1>1, <1>2, <1>3, LaunchInv, PushInv

\* pumpStatus keeps the driver's invariant.
LEMMA PumpInv ==
  ASSUME NEW h, NEW A, HostInv(h, A)
  PROVE  HostInv(PumpStatus(h), A)
<1> DEFINE more == IF h.proc.phase = "idle" THEN <<Saw(h, "turn_ended", TRUE)>> ELSE <<>>
           q == h.events \o <<Saw(h, "booted", TRUE)>> \o more
           p == [h.proc EXCEPT !.announced = TRUE]
<1>1. Events(<<Saw(h, "booted", TRUE)>>, A) /\ Events(more, A)
  BY SawExplained, OneEvent, NoEvent DEF HostInv
<1>2. Events(q, A)
  BY <1>1, HostEvents, ConcatEvents
<1>3. p \in Process /\ ProcExplained(p, A)
  BY HostTypes DEF Process, ProcExplained, HostInv
<1>4. PumpStatus(h) = [[h EXCEPT !.events = q] EXCEPT !.proc = p]
  BY DEF PumpStatus, HostInv, Host
<1> HIDE DEF q, p
<1>5. HostInv([h EXCEPT !.events = q], A)
  BY <1>2, EventsInv
<1> QED BY <1>3, <1>4, <1>5, ProcInv

\* A parsed line keeps the driver's invariant.
LEMMA SignalInv ==
  ASSUME NEW h, NEW A, HostInv(h, A), NEW phase \in Phases, NEW seen, Events(seen, A)
  PROVE  HostInv(Signal(h, phase, seen), A)
<1> DEFINE q == h.events \o Evidence(h) \o seen
           p == [h.proc EXCEPT !.realEvidence = TRUE, !.phase = phase]
<1>1. Events(Evidence(h), A)
  BY SawExplained, OneEvent, NoEvent DEF HostInv, Evidence
<1>2. Events(q, A)
  BY <1>1, HostEvents, ConcatEvents
<1>3. p \in Process /\ ProcExplained(p, A)
  BY HostTypes DEF Process, ProcExplained, HostInv
<1>4. Signal(h, phase, seen) = [[h EXCEPT !.events = q] EXCEPT !.proc = p]
  BY DEF Signal, HostInv, Host
<1> HIDE DEF q, p
<1>5. HostInv([h EXCEPT !.events = q], A)
  BY <1>2, EventsInv
<1> QED BY <1>3, <1>4, <1>5, ProcInv

\* Each kind of signal keeps the driver's invariant.
LEMMA SignalsInv ==
  ASSUME NEW h, NEW A, HostInv(h, A)
  PROVE  /\ HostInv(SignalBooted(h), A) /\ HostInv(SignalTurnStarted(h), A)
         /\ HostInv(SignalTurnEnded(h), A)
<1>1. /\ Events(<<Saw(h, "booted", FALSE)>>, A) /\ Events(<<Saw(h, "turn_started", FALSE)>>, A)
      /\ Events(<<Saw(h, "turn_ended", FALSE)>>, A) /\ Events(<<>>, A)
  BY SawExplained, OneEvent, NoEvent DEF HostInv
<1>2. h.proc.phase \in Phases /\ "running" \in Phases /\ "idle" \in Phases
  BY HostTypes DEF HostInv, Phases
<1> QED BY <1>1, <1>2, SignalInv DEF SignalBooted, SignalTurnStarted, SignalTurnEnded

\* The reported cause is the one of the stop, if there was one.
LEMMA OnExitInv ==
  ASSUME NEW h, NEW A, HostInv(h, A), NEW code \in {"clean", "crashed"}
  PROVE  HostInv(OnExit(h, code), A)
<1> DEFINE cause == IF Stopping(h) THEN h.proc.stopCause ELSE code
           e == Exited(h.proc.generation, cause)
           none == [h EXCEPT !.proc = NoProcess]
           gone == Push(none, e)
           free == [gone EXCEPT !.pending = NoStart]
<1>1. h.proc.generation \in Nat /\ h.pending.generation \in Nat
      /\ h.proc.stopCause \in StopCauses \union {"none"}
  BY HostTypes DEF HostInv
<1>2. /\ cause \in StopCauses \union {"clean", "crashed"}
      /\ cause \in StopCauses => <<h.proc.generation, cause>> \in A
  BY <1>1 DEF Stopping, StopCauses, HostInv, ProcExplained
<1> HIDE DEF cause
<1>3. e \in Observation /\ Explained(e, A)
  BY <1>1, <1>2, ExitedExplained
<1> HIDE DEF e
<1>4. HostInv(gone, A)
  BY <1>3, ProcInv, NoProcessType, PushInv
<1>5. OnExit(h, code) = Launch(free, h.pending.generation) \/ OnExit(h, code) = gone
  BY DEF OnExit, cause, e
<1> HIDE DEF gone
<1>6. HostInv(free, A)
  BY <1>4, PendingInv, NoProcessType
<1> HIDE DEF free
<1> QED BY <1>1, <1>4, <1>5, <1>6, LaunchInv

\* A stop is remembered, or reported, with a cause that was asked for.
LEMMA StopInv ==
  ASSUME NEW h, NEW A, HostInv(h, A), NEW g \in Nat, NEW cause \in StopCauses,
         NEW dead \in BOOLEAN, <<g, cause>> \in A
  PROVE  HostInv(Stop(h, g, cause, dead), A)
<1> DEFINE p == [h.proc EXCEPT !.stopCause = cause, !.signalled = TRUE]
           e == Exited(g, cause)
           free == [h EXCEPT !.pending = NoStart]
<1>1. e \in Observation /\ Explained(e, A)
  BY ExitedExplained
<1>2. HostInv(Push(free, e), A)
  BY <1>1, PendingInv, NoProcessType, PushInv
<1>3. HostInv(OnExit(h, "crashed"), A)
  BY OnExitInv
<1>4. ASSUME h.proc.generation = g PROVE HostInv([h EXCEPT !.proc = p], A)
  <2>1. p \in Process /\ ProcExplained(p, A)
    BY <1>4, HostTypes DEF Process, ProcExplained, HostInv
  <2> HIDE DEF p
  <2> QED BY <2>1, ProcInv
<1>5. \/ Stop(h, g, cause, dead) = Push(free, e)
      \/ Stop(h, g, cause, dead) = h
      \/ Stop(h, g, cause, dead) = OnExit(h, "crashed")
      \/ h.proc.generation = g /\ Stop(h, g, cause, dead) = [h EXCEPT !.proc = p]
  BY DEF Stop
<1> QED BY <1>2, <1>3, <1>4, <1>5

\* deliver keeps the driver's invariant.
LEMMA DeliverInv ==
  ASSUME NEW h, NEW A, HostInv(h, A)
  PROVE  HostInv(Deliver(h), A)
<1> DEFINE r == Push(h, Saw(h, "turn_started", TRUE))
           p == [r.proc EXCEPT !.phase = "running"]
<1>1. HostInv(r, A)
  BY SawExplained, PushInv DEF HostInv
<1>2. Deliver(h) = [r EXCEPT !.proc = p] \/ Deliver(h) = h
  BY DEF Deliver
<1> HIDE DEF r
<1>3. p \in Process /\ ProcExplained(p, A)
  BY <1>1, HostTypes DEF Process, ProcExplained, HostInv, Phases
<1> HIDE DEF p
<1> QED BY <1>1, <1>2, <1>3, ProcInv

\* A daemon crash loses events and starts, and explains no less.
LEMMA DetachInv ==
  ASSUME NEW h, NEW A, HostInv(h, A)
  PROVE  HostInv(Detach(h), A)
<1>1. HostInv([h EXCEPT !.pending = NoStart], A)
  BY PendingInv, NoProcessType
<1>2. HostInv([[h EXCEPT !.pending = NoStart] EXCEPT !.events = <<>>], A)
  BY <1>1, EventsInv, NoEvent
<1> QED BY <1>2 DEF Detach

\* An abandoned process has nothing to explain.
LEMMA AbandonInv ==
  ASSUME NEW h, NEW A, HostInv(h, A)
  PROVE  HostInv(Abandon(h), A)
<1> DEFINE o == IF Running(h) THEN h.orphans \union {h.proc.generation} ELSE h.orphans
           r == [h EXCEPT !.proc = NoProcess]
<1>1. o \in SUBSET Nat
  BY HostTypes DEF HostInv
<1>2. Abandon(h) = [r EXCEPT !.orphans = o]
  BY DEF Abandon, HostInv, Host
<1>3. HostInv(r, A)
  BY ProcInv, NoProcessType
<1> HIDE DEF o, r
<1> QED BY <1>1, <1>2, <1>3, OrphansInv

\* An adopted process has forgotten its stop.
LEMMA AdoptInv ==
  ASSUME NEW h, NEW A, HostInv(h, A), NEW state \in Phases, NEW announced \in BOOLEAN,
         NEW degraded \in BOOLEAN
  PROVE  HostInv(Adopt(h, state, announced, degraded), A)
<1> DEFINE phase == IF degraded THEN "running" ELSE state
           p == [generation |-> h.proc.generation, phase |-> phase,
                 stopCause |-> "none", signalled |-> h.proc.signalled,
                 realEvidence |-> FALSE,
                 announced |-> announced, degraded |-> degraded]
<1>1. phase \in Phases
  BY DEF Phases
<1>2. Adopt(h, state, announced, degraded) = [h EXCEPT !.proc = p]
  BY DEF Adopt
<1> HIDE DEF phase
<1>3. p \in Process /\ ProcExplained(p, A)
  BY <1>1, HostTypes DEF Process, ProcExplained, HostInv
<1> HIDE DEF p
<1> QED BY <1>2, <1>3, ProcInv

\* observe() drains the oldest event.
LEMMA PopInv ==
  ASSUME NEW h, NEW A, HostInv(h, A), h.events # <<>>
  PROVE  /\ HostInv([h EXCEPT !.events = Tail(@)], A)
         /\ Head(h.events) \in Observation /\ Explained(Head(h.events), A)
<1> DEFINE q == Tail(h.events)
<1>1. h.events \in Seq(Observation) /\ 1 \in DOMAIN h.events
  BY HostTypes DEF HostInv
<1>2. /\ q \in Seq(Observation) /\ DOMAIN q = 1..Len(h.events) - 1
      /\ \A i \in DOMAIN q : q[i] = h.events[i + 1] /\ i + 1 \in DOMAIN h.events
  BY <1>1
<1>3. Head(h.events) = h.events[1] /\ Head(h.events) \in Observation
  BY <1>1
<1>4. Events(q, A)
  BY <1>2 DEF HostInv, Events
<1>5. HostInv([h EXCEPT !.events = q], A)
  <2> HIDE DEF q
  <2> QED BY <1>4, EventsInv
<1> QED BY <1>1, <1>3, <1>5 DEF HostInv

-----------------------------------------------------------------------------
(* The inductive invariant of the daemon core. *)

\* The stops that explain an exit.  Once the bee is deleted nobody asks.
Reasons(s) == IF Exists(s) THEN Asked(s) ELSE Nat \X StopCauses

Executing == {"claimed", "reset", "minted", "started", "exiting", "exited", "woken",
              "settle", "deleting"}

OnBee == {"claimed", "reset", "minted", "started", "exiting", "exited", "woken", "accepted"}

Scalars ==
  /\ pc \in Pcs /\ cmd \in Nat /\ gen \in Nat /\ overdue \in BOOLEAN
  /\ faults \in Nat /\ requests \in Nat

\* What a handler of the daemon may rely on between two of its transactions.
Control ==
  /\ pc \in Executing => cmd \in DOMAIN store.commands
  /\ pc \in OnBee => Exists(store)
  /\ pc \in {"claimed", "reset", "minted"} => store.commands[cmd].status = "running"
  /\ pc = "claimed" /\ Verb \in RuntimeVerbs => store.commands[cmd].target = Generation(store)
  /\ pc = "exiting" => /\ Verb = "stop" /\ Live(store)
                       /\ store.commands[cmd].target = Generation(store)
  /\ pc = "accepted" => store.mail > 0
  /\ pc = "deleting" => ~Exists(store)

\* The inductive invariant.
IInv ==
  /\ StoreInv(store)
  /\ HostInv(host, Reasons(store))
  /\ Scalars
  /\ Control

-----------------------------------------------------------------------------
(* Rules of the loop. *)

\* The restart after a stop is a revive; it asks for no stop.
LEMMA ReviveAfterStopGrows ==
  ASSUME NEW s \in Store, NEW generation
  PROVE  Grows(s, ReviveAfterStopIfRequested(s, generation), {})
<1>1. Grows(s, EnqueueCommand(s, "revive", "after_stop"), {})
  BY EnqueueGrows DEF Verbs, Kinds
<1> QED BY <1>1, GrowsRefl DEF ReviveAfterStopIfRequested

\* What a fold does to a bee: nothing, or one move of the current row along
\* RUNTIME_TRANSITIONS, and then at most commands that ask for no stop.
Folds(s, r, obs) ==
  \/ r = s
  \/ Exists(s) /\ SetsCurrent(s, r, Current(s).state, Current(s).exitCause)
  \/ \E t, state, cause :
       /\ Exists(s) /\ obs.generation = Generation(s)
       /\ state \in RuntimeTransitions(Current(s).state)
       /\ SetsCurrent(s, t, state, cause) /\ Grows(t, r, {})
       /\ IF state = "stopped" THEN obs.kind = "exited" /\ cause = obs.exitCause
                               ELSE cause = "none"

\* The exit of the current runtime: stopped, then whatever is owed.
LEMMA ApplyExitFolds ==
  ASSUME NEW s, StoreInv(s), Exists(s), NEW obs \in Observation, NEW A, Explained(obs, A),
         obs.kind = "exited", obs.generation = Generation(s)
  PROVE  \E t : /\ SetsCurrent(s, t, "stopped", obs.exitCause)
                /\ Grows(t, ApplyExit(s, obs), {})
<1> DEFINE stopped == UpdateRuntimeState(s, obs.generation, "stopped", obs.exitCause, FALSE, FALSE)
           awake   == EnsureWake(stopped)
           retried == IF stopped.failures > s.failures /\ ~stopped.flagged
                        THEN EnsureBootRetry(awake) ELSE awake
<1>1. obs.exitCause \in ExitCauses
  BY DEF Observation, Explained, ExitCauses
<1>2. SetsCurrent(s, stopped, "stopped", obs.exitCause)
  BY <1>1, UpdateSets DEF RuntimeStates
<1>3. ApplyExit(s, obs) = ReviveAfterStopIfRequested(retried, obs.generation)
  BY DEF ApplyExit
<1>4. stopped \in Store
  BY <1>2 DEF SetsCurrent
<1> HIDE DEF stopped
<1>5. Grows(stopped, awake, {}) /\ awake \in Store
  BY <1>4, EnqueueWakeGrows DEF EnsureWake, Grows
<1> HIDE DEF awake
<1>6. Grows(stopped, retried, {}) /\ retried \in Store
  <2>1. Grows(awake, EnsureBootRetry(awake), {})
    BY <1>5, EnqueueBootRetryGrows DEF EnsureBootRetry
  <2>2. Grows(stopped, EnsureBootRetry(awake), {})
    BY <1>4, <1>5, <2>1, GrowsTrans
  <2> QED BY <1>5, <2>2 DEF Grows
<1> HIDE DEF retried
<1>7. Grows(stopped, ApplyExit(s, obs), {})
  BY <1>3, <1>4, <1>6, ReviveAfterStopGrows, GrowsTrans
<1> QED BY <1>2, <1>7

\* applyObservation folds one observation.
LEMMA ApplyObservationFolds ==
  ASSUME NEW s, StoreInv(s), NEW obs \in Observation, NEW A, Explained(obs, A)
  PROVE  Folds(s, ApplyObservation(s, obs), obs)
<1> DEFINE target == TargetState(obs.kind)
           proven == IF obs.kind # "exited" /\ ~obs.synthetic /\ Current(s).evidence # "real"
                       THEN RecordBootEvidence(s, obs.generation) ELSE s
           skip   == \/ obs.kind = "booted" /\ Current(s).state # "booting"
                     \/ obs.kind = "turn_ended" /\ obs.synthetic /\ s.mail > 0
                     \/ target \notin RuntimeTransitions(Current(s).state)
           r == ApplyObservation(s, obs)
<1>1. CASE ~Exists(s) \/ obs.generation # Generation(s)
  BY <1>1 DEF ApplyObservation, Folds
<1>2. CASE Exists(s) /\ obs.generation = Generation(s) /\ skip
  <2>1. r = proven
    BY <1>2 DEF ApplyObservation
  <2>2. r = s \/ SetsCurrent(s, r, Current(s).state, Current(s).exitCause)
    BY <1>2, <2>1, EvidenceSets
  <2> QED BY <1>2, <2>2 DEF Folds
<1>3. CASE Exists(s) /\ obs.generation = Generation(s) /\ ~skip /\ target = "stopped"
  <2>1. r = ApplyExit(s, obs)
    BY <1>3 DEF ApplyObservation
  <2>2. obs.kind = "exited"
    BY <1>3 DEF TargetState
  <2>3. PICK t : SetsCurrent(s, t, "stopped", obs.exitCause) /\ Grows(t, r, {})
    BY <1>3, <2>1, <2>2, ApplyExitFolds
  <2> HIDE DEF r
  <2>4. Folds(s, r, obs)
    BY <1>3, <2>2, <2>3 DEF Folds
  <2> QED BY <2>4 DEF r
<1>4. CASE Exists(s) /\ obs.generation = Generation(s) /\ ~skip /\ target # "stopped"
  <2>1. r = UpdateRuntimeState(proven, obs.generation, target, "none", obs.synthetic,
                               obs.kind = "booted")
    BY <1>4 DEF ApplyObservation
  <2>2. target \in RuntimeStates /\ obs.synthetic \in BOOLEAN
    BY DEF TargetState, RuntimeStates, Observation
  <2>3. SetsCurrent(s, proven, Current(s).state, Current(s).exitCause)
    <3>1. SetsCurrent(s, s, Current(s).state, Current(s).exitCause)
      BY <1>4, CurrentType DEF SetsCurrent
    <3> QED BY <1>4, <3>1, EvidenceSets
  <2>4. Current(s).state = "stopped" <=> Current(s).exitCause # "none"
    BY <1>4, CurrentType
  <2>5. target \in RuntimeTransitions(Current(s).state)
    BY <1>4
  <2> HIDE DEF proven, r, target, skip
  <2>6. StoreInv(proven) /\ Exists(proven) /\ Generation(proven) = Generation(s)
    BY <1>4, <2>3, <2>4, SetsCurrentInv DEF SetsCurrent
  <2>7. SetsCurrent(proven, r, target, "none")
    BY <1>4, <2>1, <2>2, <2>6, UpdateSets
  <2>8. SetsCurrent(s, r, target, "none")
    BY <2>3, <2>7 DEF SetsCurrent
  <2>9. Grows(r, r, {})
    BY <2>7, GrowsRefl DEF SetsCurrent
  <2>10. Folds(s, r, obs)
    BY <1>4, <2>5, <2>8, <2>9 DEF Folds
  <2> QED BY <2>10 DEF r
<1> QED BY <1>1, <1>2, <1>3, <1>4

\* The policies enqueue stops of the system, all for the current generation.
LEMMA PoliciesGrow ==
  ASSUME NEW s \in Store, NEW elapsed
  PROVE  Grows(s, DegradedMailPolicy(ScaleToZeroPolicy(BootHangPolicy(s), elapsed)), SystemStop(s))
<1>1. ASSUME NEW t \in Store, NEW kind \in {"hang", "idle_window", "degraded"}
      PROVE  Grows(t, EnqueueCommand(t, "stop", kind), SystemStop(t)) /\ Grows(t, t, SystemStop(t))
  BY SystemStopGrows, GrowsRefl DEF Kinds
<1> DEFINE a == BootHangPolicy(s)
           b == ScaleToZeroPolicy(a, elapsed)
           c == DegradedMailPolicy(b)
<1>2. Grows(s, a, SystemStop(s))
  BY <1>1 DEF BootHangPolicy
<1> HIDE DEF a
<1>3. a \in Store /\ SystemStop(a) = SystemStop(s)
  BY <1>2 DEF Grows, SameRows, SystemStop, Generation
<1>4. Grows(a, b, SystemStop(a))
  BY <1>1, <1>3 DEF ScaleToZeroPolicy
<1> HIDE DEF b
<1>5. Grows(s, b, SystemStop(s))
  BY <1>2, <1>3, <1>4, GrowsTrans
<1>6. b \in Store /\ SystemStop(b) = SystemStop(s)
  BY <1>5 DEF Grows, SameRows, SystemStop, Generation
<1>7. Grows(b, c, SystemStop(b))
  BY <1>1, <1>6 DEF DegradedMailPolicy
<1> HIDE DEF c
<1>8. Grows(s, c, SystemStop(s))
  BY <1>5, <1>6, <1>7, GrowsTrans
<1> QED BY <1>8 DEF a, b, c

-----------------------------------------------------------------------------
(* What one step may do to the store. *)

Row(state, cause) == [state |-> state, exitCause |-> cause]

\* A stop of this cause may end the current runtime.
MayEnd(s, cause) ==
  /\ cause \in ExitCauses
  /\ cause \in StopCauses => <<Generation(s), cause>> \in Asked(s)

\* The lifecycle's view of a change: what happens to the log and to the stops.
LogStep(s, r) ==
  \/ Log(r) = Log(s) /\ Asked(r) = Asked(s)
  \/ /\ Exists(s) /\ Log(r) = Log(s)
     /\ \E c \in StopCauses : Asked(r) = Asked(s) \union {<<Generation(s), c>>}
  \/ /\ Exists(s) /\ Asked(r) = Asked(s)
     /\ \/ \E state \in RuntimeTransitions(Current(s).state),
             cause \in ExitCauses \union {"none"} :
             /\ IF state = "stopped" THEN MayEnd(s, cause) ELSE cause = "none"
             /\ Log(r) = [Log(s) EXCEPT ![Generation(s)] = Row(state, cause)]
        \/ Current(s).state = "stopped" /\ Log(r) = Append(Log(s), Row("booting", "none"))
        \/ Log(r) = <<>>

\* A change that keeps the store's invariant, forgets no command and no stop,
\* and is a step of the lifecycle.
Change(s, r) ==
  /\ StoreInv(r) /\ Evolves(s, r)
  /\ Asked(s) \subseteq Asked(r)
  /\ Exists(r) => Exists(s)
  /\ LogStep(s, r)

\* The log has one entry for each generation.
LEMMA LogType ==
  ASSUME NEW s \in Store
  PROVE  /\ Log(s) \in Seq([state: RuntimeStates, exitCause: ExitCauses \union {"none"}])
         /\ Len(Log(s)) = Generation(s) /\ DOMAIN Log(s) = 1..Generation(s)
         /\ \A g \in 1..Generation(s) :
              Log(s)[g] = Row(s.runtimes[g].state, s.runtimes[g].exitCause)
<1> DEFINE T == [state: RuntimeStates, exitCause: ExitCauses \union {"none"}]
<1>1. Generation(s) \in Nat /\ DOMAIN s.runtimes = 1..Generation(s)
  BY FieldTypes
<1>2. \A g \in 1..Generation(s) : Row(s.runtimes[g].state, s.runtimes[g].exitCause) \in T
  BY <1>1, FieldTypes DEF Runtime, Row
<1>3. Log(s) = [g \in 1..Generation(s) |-> Row(s.runtimes[g].state, s.runtimes[g].exitCause)]
  BY <1>1 DEF Log, Row
<1> HIDE DEF T
<1>4. Log(s) \in Seq(T) /\ Len(Log(s)) = Generation(s) /\ DOMAIN Log(s) = 1..Generation(s)
  BY <1>1, <1>2, <1>3
<1> QED BY <1>3, <1>4 DEF T

\* Every stop asked for has a generation and a cause.
LEMMA AskedType == ASSUME NEW s \in Store PROVE Asked(s) \subseteq Nat \X StopCauses
<1>1. ASSUME NEW i \in DOMAIN s.commands
      PROVE  <<s.commands[i].target, CauseOf(s.commands[i])>> \in Nat \X StopCauses
  <2>1. s.commands[i] \in Command
    BY FieldTypes
  <2>2. s.commands[i].target \in Nat
    BY <2>1 DEF Command
  <2> QED BY <2>2 DEF CauseOf, StopCauses
<1> QED BY <1>1 DEF Asked

\* An exit that was explained before the change is explained after it.
LEMMA ReasonsGrow ==
  ASSUME NEW s \in Store, NEW r, Change(s, r)
  PROVE  Reasons(s) \subseteq Reasons(r)
  BY AskedType DEF Reasons, Change

\* A step that leaves the store alone.
LEMMA ChangeRefl == ASSUME NEW s, StoreInv(s) PROVE Change(s, s)
<1>1. Evolves(s, s)
  BY GrowsRefl DEF StoreInv, Grows
<1> QED BY <1>1 DEF Change, LogStep

\* The queue of a bee that exists, with at most one kind of stop added.
LEMMA ChangeGrows ==
  ASSUME NEW s, NEW r, StoreInv(s), Exists(s), NEW c \in StopCauses,
         Grows(s, r, {<<Generation(s), c>>})
  PROVE  Change(s, r)
<1>1. StoreInv(r) /\ Exists(r)
  BY GrowsInv
<1>2. Log(r) = Log(s)
  BY DEF Grows, SameRows, Log
<1>3. /\ Asked(s) \subseteq Asked(r) /\ Asked(r) \subseteq Asked(s) \union {<<Generation(s), c>>}
  BY GrowsAsked DEF StoreInv
<1>4. Asked(r) = Asked(s) \/ Asked(r) = Asked(s) \union {<<Generation(s), c>>}
  BY <1>3
<1>5. LogStep(s, r)
  BY <1>2, <1>4 DEF LogStep
<1> QED BY <1>1, <1>3, <1>5 DEF Change, Grows

\* Commands that ask for no stop.
LEMMA ChangeQuietly ==
  ASSUME NEW s, NEW r, StoreInv(s), Exists(s), Grows(s, r, {})
  PROVE  Change(s, r)
<1>1. Grows(s, r, {<<Generation(s), "stopped_by_user">>}) /\ "stopped_by_user" \in StopCauses
  BY GrowsMono DEF StopCauses
<1> QED BY <1>1, ChangeGrows

\* Commands are claimed, settled or requeued, also those of a deleted bee.
LEMMA ChangeRewrites ==
  ASSUME NEW s, NEW r, StoreInv(s), Rewrites(s, r)
  PROVE  Change(s, r) /\ (Exists(r) <=> Exists(s))
<1>1. StoreInv(r) /\ (Exists(r) <=> Exists(s))
  BY RewritesInv
<1>2. Grows(s, r, {}) /\ Log(r) = Log(s)
  BY DEF Rewrites, Grows, SameRows, Log
<1>3. Asked(r) = Asked(s)
  BY <1>2, GrowsAsked DEF StoreInv
<1> QED BY <1>1, <1>2, <1>3 DEF Change, LogStep, Grows

\* Lifecycle or mail changes, commands and runtimes stay.
LEMMA ChangeBee ==
  ASSUME NEW s, NEW r, StoreInv(s), StoreInv(r), Exists(r) => Exists(s),
         r.commands = s.commands, r.runtimes = s.runtimes
  PROVE  Change(s, r)
<1>1. Evolves(s, r)
  BY FieldTypes, FollowsRefl DEF StoreInv, Evolves
<1>2. Log(r) = Log(s) /\ Asked(r) = Asked(s)
  BY DEF Log, Asked
<1> QED BY <1>1, <1>2 DEF Change, LogStep

\* The log of a store whose current row moved.
LEMMA SetsCurrentLog ==
  ASSUME NEW s, NEW r, NEW state, NEW cause, StoreInv(s), Exists(s),
         SetsCurrent(s, r, state, cause)
  PROVE  /\ Log(r) = [Log(s) EXCEPT ![Generation(s)] = Row(state, cause)]
         /\ Asked(r) = Asked(s)
         /\ state = Current(s).state /\ cause = Current(s).exitCause => Log(r) = Log(s)
<1>1. s \in Store /\ r \in Store /\ Generation(r) = Generation(s) /\ Generation(s) \in Nat \ {0}
  BY CurrentType DEF SetsCurrent
<1>2. /\ DOMAIN Log(r) = 1..Generation(s) /\ DOMAIN Log(s) = 1..Generation(s)
      /\ \A g \in 1..Generation(s) : g # Generation(s) => Log(r)[g] = Log(s)[g]
      /\ Log(r)[Generation(s)] = Row(state, cause)
      /\ Log(s)[Generation(s)] = Row(Current(s).state, Current(s).exitCause)
  BY <1>1, LogType DEF SetsCurrent, Current
<1>3. /\ Log(r) = [g \in 1..Generation(s) |-> Log(r)[g]]
      /\ Log(s) = [g \in 1..Generation(s) |-> Log(s)[g]]
  BY <1>1, <1>2, LogType DEF Log
<1>4. Log(r) = [Log(s) EXCEPT ![Generation(s)] = Row(state, cause)]
  BY <1>1, <1>2, <1>3
<1>5. state = Current(s).state /\ cause = Current(s).exitCause => Log(r) = Log(s)
  BY <1>1, <1>2, <1>3
<1>6. Asked(r) = Asked(s)
  BY DEF SetsCurrent, Asked
<1> QED BY <1>4, <1>5, <1>6

\* The current row is touched and stays where it is.
LEMMA ChangeInPlace ==
  ASSUME NEW s, NEW r, StoreInv(s), Exists(s),
         SetsCurrent(s, r, Current(s).state, Current(s).exitCause)
  PROVE  Change(s, r) /\ Exists(r)
<1>1. StoreInv(r) /\ Exists(r) /\ Evolves(s, r)
  BY CurrentType, SetsCurrentInv
<1>2. Log(r) = Log(s) /\ Asked(r) = Asked(s)
  BY SetsCurrentLog
<1> QED BY <1>1, <1>2 DEF Change, LogStep

\* The current row moves along RUNTIME_TRANSITIONS, and commands may follow.
LEMMA ChangeMoves ==
  ASSUME NEW s, NEW t, NEW r, NEW cause, StoreInv(s), Exists(s),
         NEW state \in RuntimeTransitions(Current(s).state),
         SetsCurrent(s, t, state, cause), Grows(t, r, {}),
         IF state = "stopped" THEN MayEnd(s, cause) ELSE cause = "none"
  PROVE  Change(s, r) /\ Exists(r)
<1>1. state = "stopped" <=> cause # "none"
  BY DEF MayEnd, ExitCauses, StopCauses
<1>2. StoreInv(t) /\ Exists(t) /\ Evolves(s, t)
  BY <1>1, SetsCurrentInv
<1>3. StoreInv(r) /\ Exists(r) /\ Evolves(t, r)
  BY <1>2, GrowsInv DEF Grows
<1>4. Evolves(s, r)
  BY <1>2, <1>3, EvolvesTrans DEF StoreInv
<1>5. Log(r) = Log(t) /\ Asked(r) = Asked(t)
  <2>1. Log(r) = Log(t)
    BY DEF Grows, SameRows, Log
  <2>2. t \in Store
    BY <1>2 DEF StoreInv
  <2> QED BY <2>1, <2>2, GrowsAsked
<1>6. Log(r) = [Log(s) EXCEPT ![Generation(s)] = Row(state, cause)] /\ Asked(r) = Asked(s)
  BY <1>5, SetsCurrentLog
<1>7. cause \in ExitCauses \union {"none"}
  BY DEF MayEnd
<1>8. LogStep(s, r)
  BY <1>6, <1>7 DEF LogStep
<1> QED BY <1>3, <1>4, <1>6, <1>8 DEF Change

\* The next generation is minted.
LEMMA ChangeRevive ==
  ASSUME NEW s, StoreInv(s), Exists(s), ~Live(s)
  PROVE  Change(s, ReviveBee(s)) /\ Exists(ReviveBee(s))
<1> DEFINE r == ReviveBee(s)
<1>1. /\ StoreInv(r) /\ Exists(r) /\ r.commands = s.commands
      /\ r.runtimes = Append(s.runtimes, NewRuntime)
  BY ReviveInv
<1> HIDE DEF r
<1>2. s \in Store /\ r \in Store /\ Generation(s) \in Nat /\ Current(s).state = "stopped"
      /\ s.runtimes \in Seq(Runtime)
  BY <1>1, CurrentType, FieldTypes DEF StoreInv
<1>3. /\ Generation(r) = Generation(s) + 1
      /\ \A g \in 1..Generation(s) : r.runtimes[g] = s.runtimes[g]
      /\ r.runtimes[Generation(s) + 1] = NewRuntime
  BY <1>1, <1>2 DEF Generation
<1>4. Log(r) = Append(Log(s), Row("booting", "none"))
  <2> DEFINE n == Generation(s)
             T == [state: RuntimeStates, exitCause: ExitCauses \union {"none"}]
             l == Log(s)
             q == Append(l, Row("booting", "none"))
  <2>1. DOMAIN Log(r) = 1..n + 1
    BY <1>2, <1>3, LogType
  <2>2. ASSUME NEW g \in 1..n PROVE Log(r)[g] = l[g]
    <3>1. g \in 1..n + 1
      BY <1>2
    <3> QED BY <1>2, <1>3, <3>1, LogType
  <2>3. Log(r)[n + 1] = Row("booting", "none")
    <3>1. n + 1 \in 1..n + 1
      BY <1>2
    <3>2. NewRuntime.state = "booting" /\ NewRuntime.exitCause = "none"
      BY DEF NewRuntime
    <3> QED BY <1>2, <1>3, <3>1, <3>2, LogType
  <2>4. Log(r) = [g \in 1..n + 1 |-> Log(r)[g]]
    BY <2>1 DEF Log
  <2>5. l \in Seq(T) /\ Len(l) = n /\ n \in Nat /\ Row("booting", "none") \in T
    BY <1>2, LogType DEF Row, RuntimeStates
  <2> HIDE DEF n, T, l
  <2>6. /\ DOMAIN q = 1..n + 1 /\ q = [g \in 1..n + 1 |-> q[g]]
        /\ \A g \in 1..n : q[g] = l[g]
        /\ q[n + 1] = Row("booting", "none")
    <3>1. q \in Seq(T) /\ Len(q) = n + 1
      BY <2>5
    <3>2. \A g \in 1..n : q[g] = l[g]
      BY <2>5
    <3>3. q[n + 1] = Row("booting", "none")
      BY <2>5
    <3> HIDE DEF q
    <3>4. DOMAIN q = 1..n + 1 /\ q = [g \in 1..n + 1 |-> q[g]]
      BY <3>1, <2>5
    <3> QED BY <3>2, <3>3, <3>4
  <2> HIDE DEF q
  <2>7. \A g \in 1..n + 1 : Log(r)[g] = q[g]
    <3> TAKE g \in 1..n + 1
    <3>1. g \in 1..n \/ g = n + 1
      BY <2>5
    <3> QED BY <2>2, <2>3, <2>6, <3>1
  <2>8. Log(r) = q
    BY <2>4, <2>6, <2>7
  <2> QED BY <2>8 DEF q, l
<1>5. Evolves(s, r) /\ Asked(r) = Asked(s)
  BY <1>1, <1>2, FieldTypes, FollowsRefl DEF Evolves, Asked
<1>6. LogStep(s, r)
  BY <1>2, <1>4, <1>5 DEF LogStep
<1> QED BY <1>1, <1>5, <1>6 DEF Change, r

\* The bee is deleted.
LEMMA ChangeDelete ==
  ASSUME NEW s, StoreInv(s), Exists(s)
  PROVE  Change(s, DeleteBee(s))
<1> DEFINE r == DeleteBee(s)
<1>1. /\ StoreInv(r) /\ ~Exists(r) /\ Evolves(s, r) /\ r.runtimes = <<>>
      /\ Asked(r) = Asked(s)
  BY DeleteInv DEF StoreInv
<1> HIDE DEF r
<1>2. Log(r) = <<>>
  BY <1>1 DEF Log
<1> QED BY <1>1, <1>2 DEF Change, LogStep, r

\* Commands are requeued, and then something happens to the bee.
LEMMA ChangeAfterRewrite ==
  ASSUME NEW s, NEW t, NEW r, StoreInv(s), Rewrites(s, t), Change(t, r)
  PROVE  Change(s, r)
<1>1. Change(s, t) /\ (Exists(t) <=> Exists(s)) /\ s \in Store /\ t \in Store /\ r \in Store
  BY ChangeRewrites DEF StoreInv, Rewrites, Grows, Change
<1>2. Evolves(s, r)
  BY <1>1, EvolvesTrans DEF Change
<1>3. Grows(s, t, {}) /\ t.runtimes = s.runtimes
  BY DEF Rewrites, Grows, SameRows
<1>4. Log(t) = Log(s) /\ Asked(t) = Asked(s) /\ Generation(t) = Generation(s)
      /\ Current(t) = Current(s)
  BY <1>1, <1>3, GrowsAsked DEF Log, Generation, Current
<1>5. LogStep(s, r)
  BY <1>1, <1>4 DEF Change, LogStep, MayEnd
<1> QED BY <1>1, <1>2, <1>4, <1>5 DEF Change

-----------------------------------------------------------------------------
(* A step preserves the invariant. *)

\* What is shown of every action.
Preserved == IInv' /\ Change(store, store')

Idle == {"down", "rest", "fold", "commands", "delivery"}

\* The obligations of an action: the store, the driver, the rest.
LEMMA Preserves ==
  ASSUME IInv, Change(store, store'), HostInv(host', Reasons(store)), Scalars', Control'
  PROVE  Preserved
<1>1. store \in Store /\ StoreInv(store')
  BY DEF IInv, StoreInv, Change
<1>2. HostInv(host', Reasons(store'))
  BY <1>1, ReasonsGrow, HostMono
<1>3. Reasons(store)' = Reasons(store')
  BY DEF Reasons
<1> QED BY <1>1, <1>2, <1>3 DEF Preserved, IInv

\* A daemon that executes no command relies on nothing.
LEMMA ControlIdle == ASSUME pc' \in Idle PROVE Control'
  BY DEF Idle, Control, Executing, OnBee

\* The claimed command does not go away.
LEMMA CommandStays ==
  ASSUME IInv, Change(store, store'), pc \in Executing, cmd' = cmd
  PROVE  cmd' \in DOMAIN store'.commands
<1>1. store \in Store /\ store' \in Store /\ Evolves(store, store')
  BY DEF IInv, StoreInv, Change
<1>2. cmd \in 1..Len(store.commands) /\ Len(store.commands) <= Len(store'.commands)
  BY <1>1, FieldTypes DEF IInv, Control, Evolves
<1> QED BY <1>1, <1>2, FieldTypes

\* A handler that is done relies on its command alone.
LEMMA ControlSettle ==
  ASSUME IInv, Change(store, store'), pc \in Executing, cmd' = cmd, pc' = "settle"
  PROVE  Control'
  BY CommandStays DEF Control, Executing, OnBee

\* A transaction of a handler that leaves the driver alone.
LEMMA CommitPreserves ==
  ASSUME IInv, NEW r, NEW next \in Pcs, Commit(r, next), Change(store, r), Control'
  PROVE  Preserved
  BY Preserves DEF Commit, IInv, Scalars

\* The last transaction of a handler.
LEMMA CommitSettles ==
  ASSUME IInv, NEW r, Commit(r, "settle"), Change(store, r), pc \in Executing
  PROVE  Preserved
  BY CommitPreserves, ControlSettle DEF Commit, Pcs

\* A transaction after which no handler is under way.
LEMMA CommitRests ==
  ASSUME IInv, NEW r, NEW next \in Idle, Commit(r, next), Change(store, r)
  PROVE  Preserved
  BY CommitPreserves, ControlIdle DEF Commit, Pcs, Idle

-----------------------------------------------------------------------------
(* Operators. *)

\* An operator's request is one change of the store.
LEMMA RequestPreserves ==
  ASSUME IInv, NEW kind, NEW r, Request(kind, r), Change(store, r)
  PROVE  Preserved
<1>1. HostInv(host', Reasons(store)) /\ Change(store, store')
  BY DEF Request, IInv
<1>2. Scalars'
  BY DEF Request, Ask, IInv, Scalars
<1>3. Control'
  BY ControlIdle DEF Request, Idle
<1> QED BY <1>1, <1>2, <1>3, Preserves

\* send changes mailbox, lifecycle and queue, not the log.
LEMMA SendChange == ASSUME NEW s, StoreInv(s), Exists(s) PROVE Change(s, Send(s))
<1>1. Log(Send(s)) = Log(s)
  BY SendInv DEF Log
<1> QED BY <1>1, SendInv DEF Change, LogStep

\* A stop by the system is a stop asked for.
LEMMA SystemStopChange ==
  ASSUME NEW s, NEW r, StoreInv(s), Exists(s), Grows(s, r, SystemStop(s))
  PROVE  Change(s, r)
  BY ChangeGrows DEF SystemStop, StopCauses

\* Every RPC handler preserves the invariant.
LEMMA OperatorPreserves == ASSUME IInv, Operator PROVE Preserved
<1>1. StoreInv(store) /\ Exists(store) /\ store \in Store
  BY DEF IInv, StoreInv, Operator, Request, RpcSend, RpcStop, RpcRevive, RpcArchive,
         RpcUnarchive, RpcDelete, RpcSwapAccount, RpcReconfigure
<1>2. ASSUME NEW verb \in {"revive", "archive", "unarchive", "delete"},
             NEW kind \in {"operator", "plain"}
      PROVE  Change(store, EnqueueCommand(store, verb, kind))
  <2>1. Grows(store, EnqueueCommand(store, verb, kind), {})
    BY <1>1, EnqueueGrows DEF Verbs, Kinds
  <2> QED BY <1>1, <2>1, ChangeQuietly
<1>3. CASE RpcSend
  BY <1>1, <1>3, SendChange, RequestPreserves DEF RpcSend
<1>4. CASE RpcStop
  BY <1>1, <1>4, UserStopGrows, ChangeGrows, RequestPreserves DEF RpcStop, StopCauses
<1>5. CASE RpcRevive
  BY <1>2, <1>5, RequestPreserves DEF RpcRevive
<1>6. CASE RpcArchive
  BY <1>2, <1>6, RequestPreserves DEF RpcArchive
<1>7. CASE RpcUnarchive
  BY <1>2, <1>7, RequestPreserves DEF RpcUnarchive
<1>8. CASE RpcDelete
  BY <1>2, <1>8, RequestPreserves DEF RpcDelete
<1>9. CASE RpcSwapAccount
  BY <1>1, <1>9, SwapGrows, SystemStopChange, RequestPreserves DEF RpcSwapAccount
<1>10. CASE RpcReconfigure
  <2>1. PICK same \in BOOLEAN : Request("reconfigure", ReconfigureBee(store, same))
    BY <1>10 DEF RpcReconfigure
  <2> QED BY <1>1, <2>1, ReconfigureGrows, SystemStopChange, RequestPreserves
<1> QED BY <1>3, <1>4, <1>5, <1>6, <1>7, <1>8, <1>9, <1>10 DEF Operator

-----------------------------------------------------------------------------
(* Driver callbacks and the clock. *)

\* A driver callback leaves the store alone.
LEMMA CallbackPreserves ==
  ASSUME IInv, NEW h, Callback(h), HostInv(h, Reasons(store)),
         faults' \in Nat, requests' \in Nat
  PROVE  Preserved
<1>1. Change(store, store')
  BY ChangeRefl DEF Callback, IInv
<1>2. Scalars'
  BY DEF Callback, IInv, Scalars
<1>3. Control'
  BY ControlIdle DEF Callback, Idle
<1> QED BY <1>1, <1>2, <1>3, Preserves DEF Callback

\* The fault and request counters stay natural numbers.
LEMMA BudgetTypes ==
  ASSUME IInv
  PROVE  /\ \A kind, fault : Spend(kind, fault) => faults' \in Nat /\ requests' \in Nat
         /\ \A kind : Ask(kind) => faults' \in Nat /\ requests' \in Nat
         /\ UNCHANGED budgets => faults' \in Nat /\ requests' \in Nat
  BY DEF IInv, Scalars, Spend, Ask, budgets

HostCallback == \/ HostBooted \/ HostReady \/ HostTurnEnded \/ HostTurnStarted \/ HostExit
                \/ HostPrepared \/ OrphanExit

\* Every driver callback preserves the invariant.
LEMMA HostPreserves == ASSUME IInv, HostCallback PROVE Preserved
<1> DEFINE A == Reasons(store)
<1>1. HostInv(host, A) /\ host \in Host
  BY DEF IInv, HostInv
<1> HIDE DEF A
<1>2. CASE HostBooted
  BY <1>1, <1>2, SignalsInv, BudgetTypes, CallbackPreserves DEF HostBooted, A
<1>3. CASE HostReady
  BY <1>1, <1>3, PumpInv, BudgetTypes, CallbackPreserves DEF HostReady, A
<1>4. CASE HostTurnEnded
  BY <1>1, <1>4, SignalsInv, BudgetTypes, CallbackPreserves DEF HostTurnEnded, A
<1>5. CASE HostTurnStarted
  BY <1>1, <1>5, SignalsInv, BudgetTypes, CallbackPreserves DEF HostTurnStarted, A
<1>6. CASE HostExit
  <2>1. PICK code \in {"clean", "crashed"} : Callback(OnExit(host, code))
    BY <1>6 DEF HostExit
  <2>2. faults' \in Nat /\ requests' \in Nat
    BY <1>6, BudgetTypes DEF HostExit
  <2> QED BY <1>1, <2>1, <2>2, OnExitInv, CallbackPreserves DEF A
<1>7. CASE HostPrepared
  <2>1. PICK ok \in BOOLEAN : Callback(Prepared(host, ok)) /\ Spend("prepare", ~ok)
    BY <1>7 DEF HostPrepared
  <2>2. faults' \in Nat /\ requests' \in Nat
    BY <2>1, BudgetTypes
  <2> QED BY <1>1, <2>1, <2>2, PreparedInv, CallbackPreserves DEF A
<1>8. CASE OrphanExit
  <2>1. PICK g \in host.orphans : Callback([host EXCEPT !.orphans = @ \ {g}])
    BY <1>8 DEF OrphanExit
  <2> DEFINE o == host.orphans \ {g}
  <2>2. o \in SUBSET Nat
    BY <1>1, HostTypes
  <2>3. Callback([host EXCEPT !.orphans = o])
    BY <2>1
  <2> HIDE DEF o
  <2>4. HostInv([host EXCEPT !.orphans = o], A)
    BY <1>1, <2>2, OrphansInv
  <2>5. faults' \in Nat /\ requests' \in Nat
    BY <1>8, BudgetTypes DEF OrphanExit
  <2> QED BY <2>3, <2>4, <2>5, CallbackPreserves DEF A
<1> QED BY <1>2, <1>3, <1>4, <1>5, <1>6, <1>7, <1>8 DEF HostCallback

\* A backoff or a boot deadline that elapses preserves the invariant.
LEMMA ClockPreserves == ASSUME IInv, CommandDue \/ BootDeadline PROVE Preserved
<1>1. CASE CommandDue
  <2>1. PICK i \in DOMAIN store.commands : store' = [store EXCEPT !.commands[i].due = TRUE]
    BY <1>1 DEF CommandDue
  <2>2. Rewrites(store, store')
    BY <2>1, DueRewrites DEF IInv, StoreInv
  <2>3. Change(store, store')
    BY <2>2, ChangeRewrites DEF IInv
  <2>4. Scalars' /\ HostInv(host', Reasons(store)) /\ pc' \in Idle
    BY <1>1 DEF CommandDue, IInv, Scalars, Idle
  <2> QED BY <2>3, <2>4, ControlIdle, Preserves
<1>2. CASE BootDeadline
  <2>1. Change(store, store')
    BY <1>2, ChangeRefl DEF IInv, BootDeadline
  <2>2. faults' \in Nat /\ requests' \in Nat
    BY <1>2, BudgetTypes DEF BootDeadline
  <2>3. Scalars' /\ HostInv(host', Reasons(store)) /\ pc' \in Idle
    BY <1>2, <2>2 DEF BootDeadline, IInv, Scalars, Idle
  <2> QED BY <2>1, <2>3, ControlIdle, Preserves
<1> QED BY <1>1, <1>2

-----------------------------------------------------------------------------
(* One step of the daemon. *)

\* The beginning of a daemon step preserves the invariant.
LEMMA BeginPreserves == ASSUME IInv, BeginStep PROVE Preserved
<1>1. Change(store, store')
  BY ChangeRefl DEF IInv, BeginStep
<1>2. Scalars' /\ HostInv(host', Reasons(store)) /\ pc' \in Idle
  BY DEF BeginStep, IInv, Scalars, Idle, Pcs
<1> QED BY <1>1, <1>2, ControlIdle, Preserves

\* A folded exit has a cause that was asked for, if it is a stop.
LEMMA FoldChange ==
  ASSUME NEW s, NEW r, NEW obs \in Observation, StoreInv(s), Explained(obs, Reasons(s)),
         Folds(s, r, obs)
  PROVE  Change(s, r)
<1>1. CASE r = s
  BY <1>1, ChangeRefl
<1>2. CASE Exists(s) /\ SetsCurrent(s, r, Current(s).state, Current(s).exitCause)
  BY <1>2, ChangeInPlace
<1>3. CASE \E t, state, cause :
             /\ Exists(s) /\ obs.generation = Generation(s)
             /\ state \in RuntimeTransitions(Current(s).state)
             /\ SetsCurrent(s, t, state, cause) /\ Grows(t, r, {})
             /\ IF state = "stopped" THEN obs.kind = "exited" /\ cause = obs.exitCause
                                     ELSE cause = "none"
  <2>1. PICK t, state, cause :
             /\ Exists(s) /\ obs.generation = Generation(s)
             /\ state \in RuntimeTransitions(Current(s).state)
             /\ SetsCurrent(s, t, state, cause) /\ Grows(t, r, {})
             /\ IF state = "stopped" THEN obs.kind = "exited" /\ cause = obs.exitCause
                                     ELSE cause = "none"
    BY <1>3
  <2>2. state = "stopped" => MayEnd(s, cause)
    <3> SUFFICES ASSUME state = "stopped" PROVE MayEnd(s, cause)
      OBVIOUS
    <3>1. cause = obs.exitCause /\ obs.kind = "exited"
      BY <2>1
    <3>2. cause \in ExitCauses
      BY <3>1 DEF Observation, Explained, ExitCauses
    <3>3. cause \in StopCauses => <<Generation(s), cause>> \in Asked(s)
      BY <2>1, <3>1 DEF Explained, Reasons
    <3> QED BY <3>2, <3>3 DEF MayEnd
  <2> QED BY <2>1, <2>2, ChangeMoves
<1> QED BY <1>1, <1>2, <1>3 DEF Folds

\* Folding an observation preserves the invariant.
LEMMA ObservePreserves == ASSUME IInv, Observe PROVE Preserved
<1> DEFINE obs == Head(host.events)
<1>1. /\ HostInv(host', Reasons(store)) /\ obs \in Observation /\ Explained(obs, Reasons(store))
  BY PopInv DEF IInv, Observe
<1>2. Folds(store, store', obs)
  BY <1>1, ApplyObservationFolds DEF IInv, Observe
<1> HIDE DEF obs
<1>3. Change(store, store')
  BY <1>1, <1>2, FoldChange DEF IInv
<1>4. Scalars' /\ pc' \in Idle
  BY DEF Observe, IInv, Scalars, Idle
<1> QED BY <1>1, <1>3, <1>4, ControlIdle, Preserves

\* The policies preserve the invariant; a deleted bee has none.
LEMMA PoliciesPreserves == ASSUME IInv, Policies PROVE Preserved
<1>1. PICK elapsed :
        store' = DegradedMailPolicy(ScaleToZeroPolicy(BootHangPolicy(store), elapsed))
  BY DEF Policies
<1>2. Grows(store, store', SystemStop(store))
  BY <1>1, PoliciesGrow DEF IInv, StoreInv
<1>3. Change(store, store')
  <2>1. CASE Exists(store)
    BY <1>2, <2>1, SystemStopChange DEF IInv
  <2>2. CASE ~Exists(store)
    <3>1. store' = store
      BY <1>1, <2>2 DEF BootHangPolicy, ScaleToZeroPolicy, DegradedMailPolicy, Live
    <3> QED BY <3>1, ChangeRefl DEF IInv
  <2> QED BY <2>1, <2>2
<1>4. Scalars' /\ HostInv(host', Reasons(store)) /\ pc' \in Idle
  BY DEF Policies, IInv, Scalars, Idle, Pcs
<1> QED BY <1>3, <1>4, ControlIdle, Preserves

\* The claimed command exists, runs, and aims at the current generation.
LEMMA ClaimPreserves == ASSUME IInv, Claim PROVE Preserved
<1>1. store \in Store /\ StoreInv(store) /\ HostInv(host', Reasons(store))
      /\ store' = ClaimNextCommand(store)
  BY DEF Claim, IInv, StoreInv
<1>2. Rewrites(store, store')
  BY <1>1, ClaimRewrites
<1>3. Change(store, store') /\ (Exists(store') <=> Exists(store))
  BY <1>1, <1>2, ChangeRewrites
<1>4. CASE ToRun(store) = {}
  <2>1. Scalars' /\ pc' \in Idle
    BY <1>4 DEF Claim, IInv, Scalars, Idle, Pcs
  <2> QED BY <1>1, <1>3, <2>1, ControlIdle, Preserves
<1>5. CASE ToRun(store) # {}
  <2>1. pc' = "claimed" /\ cmd' \in ToRun(store) /\ IsNext(store, cmd')
    BY <1>5 DEF Claim
  <2> DEFINE c == store.commands[cmd']
  <2>2. /\ cmd' \in DOMAIN store.commands
        /\ store'.commands[cmd'] = [c EXCEPT !.status = "running"]
        /\ c.status \in Pending
        /\ c.verb \in RuntimeVerbs => c.target = Generation(store)
    BY <1>1, <2>1, ClaimedRuns
  <2>3. c \in Command /\ "running" \in CommandStatuses
    BY <1>1, <2>2, FieldTypes DEF CommandStatuses
  <2>4. /\ store'.commands[cmd'].status = "running"
        /\ store'.commands[cmd'].verb = c.verb /\ store'.commands[cmd'].target = c.target
    BY <2>2, <2>3, WithStatus
  <2>5. Exists(store) /\ Generation(store') = Generation(store)
    BY <1>1, <1>2, <2>2 DEF StoreInv, NothingPending, Rewrites, Grows, SameRows, Generation
  <2>6. cmd' \in Nat /\ cmd' \in DOMAIN store'.commands
    BY <1>1, <1>2, <2>2, FieldTypes DEF Rewrites, Grows
  <2>7. Control'
    BY <1>3, <2>1, <2>2, <2>4, <2>5, <2>6 DEF Control, Executing, OnBee, Verb
  <2>8. Scalars'
    BY <2>1, <2>6 DEF Claim, IInv, Scalars, Pcs
  <2> QED BY <1>1, <1>3, <2>7, <2>8, Preserves
<1> QED BY <1>4, <1>5

\* Archive, unarchive and delete.
LEMMA BeeCommandsPreserve ==
  ASSUME IInv, ExecuteArchive \/ ExecuteUnarchive \/ ExecuteDelete \/ ExecuteDeleteStop
  PROVE  Preserved
<1>1. StoreInv(store) /\ store \in Store /\ HostInv(host, Reasons(store))
  BY DEF IInv, StoreInv
<1>2. CASE ExecuteArchive
  <2>1. Exists(store) /\ pc \in Executing
    BY <1>2 DEF ExecuteArchive, IInv, Control, OnBee, Executing
  <2>2. Change(store, ExecuteArchiveCommand(store))
    BY <1>1, <2>1, LifecycleInv, ChangeBee DEF ExecuteArchiveCommand
  <2> QED BY <1>2, <2>1, <2>2, CommitSettles DEF ExecuteArchive
<1>3. CASE ExecuteUnarchive
  <2>1. Exists(store) /\ pc \in Executing
    BY <1>3 DEF ExecuteUnarchive, IInv, Control, OnBee, Executing
  <2>2. Change(store, UnarchiveBee(store))
    BY <1>1, <2>1, UnarchiveInv, ChangeBee
  <2> QED BY <1>3, <2>1, <2>2, CommitSettles DEF ExecuteUnarchive
<1>4. CASE ExecuteDelete
  <2>1. Exists(store) /\ pc \in Executing /\ store' = DeleteBee(store) /\ cmd' = cmd
    BY <1>4 DEF ExecuteDelete, IInv, Control, OnBee, Executing
  <2>2. Change(store, store') /\ ~Exists(store')
    BY <1>1, <2>1, ChangeDelete, DeleteInv
  <2>3. pc' \in {"deleting", "settle"} /\ gen' \in Nat
    BY <1>1, <1>4, FieldTypes DEF ExecuteDelete, IInv, Scalars
  <2>4. Scalars' /\ HostInv(host', Reasons(store))
    BY <1>1, <1>4, <2>3 DEF ExecuteDelete, IInv, Scalars, Pcs
  <2>5. Control'
    BY <2>1, <2>2, <2>3, CommandStays DEF Control, Executing, OnBee
  <2> QED BY <2>2, <2>4, <2>5, Preserves
<1>5. CASE ExecuteDeleteStop
  <2>1. Change(store, store') /\ cmd' = cmd /\ pc' = "settle" /\ pc \in Executing
    BY <1>1, <1>5, ChangeRefl DEF ExecuteDeleteStop, Executing
  <2>2. <<gen, "stopped_by_system">> \in Reasons(store) /\ gen \in Nat
    BY <1>5 DEF ExecuteDeleteStop, IInv, Control, Scalars, Reasons, StopCauses
  <2>3. HostInv(host', Reasons(store))
    BY <1>1, <1>5, <2>2, StopInv DEF ExecuteDeleteStop, StopCauses
  <2>4. Scalars'
    BY <1>5 DEF ExecuteDeleteStop, IInv, Scalars, Pcs
  <2> QED BY <2>1, <2>3, <2>4, ControlSettle, Preserves
<1> QED BY <1>2, <1>3, <1>4, <1>5

\* The stop that is being executed was asked for.
LEMMA StopAsked ==
  ASSUME IInv, pc \in {"claimed", "exiting"}, Verb = "stop"
  PROVE  <<Generation(store), Cause>> \in Asked(store) /\ Cause \in StopCauses
<1>1. cmd \in DOMAIN store.commands /\ store.commands[cmd].target = Generation(store)
  BY DEF IInv, Control, Executing, RuntimeVerbs
<1> QED BY <1>1 DEF Asked, Verb, Cause, CauseOf, StopCauses

\* The handler of stop.
LEMMA StopPreserves ==
  ASSUME IInv, \/ ExecuteStopStopped \/ ExecuteStopSkip \/ ExecuteStop
               \/ ExecuteStopFact \/ ExecuteStopWake \/ ExecuteStopRevive
  PROVE  Preserved
<1>1. StoreInv(store) /\ store \in Store /\ HostInv(host, Reasons(store))
  BY DEF IInv, StoreInv
<1>2. Exists(store) /\ pc \in Executing /\ cmd \in DOMAIN store.commands
  BY DEF IInv, Control, OnBee, Executing, ExecuteStopStopped, ExecuteStopSkip, ExecuteStop,
         ExecuteStopFact, ExecuteStopWake, ExecuteStopRevive
<1>3. Change(store, ReviveAfterStopIfRequested(store, Generation(store)))
  BY <1>1, <1>2, ReviveAfterStopGrows, ChangeQuietly
<1>4. CASE ExecuteStopStopped
  BY <1>2, <1>3, <1>4, CommitSettles DEF ExecuteStopStopped
<1>5. CASE ExecuteStopSkip
  <2>1. Rewrites(store, SkipBootHangStop(store, cmd))
    BY <1>1, <1>2, <1>5, SkipRewrites DEF ExecuteStopSkip, Kind, IInv, Control
  <2> QED BY <1>1, <1>5, <2>1, ChangeRewrites, CommitRests DEF ExecuteStopSkip, Idle
<1>6. CASE ExecuteStop
  <2>1. PICK dead \in BOOLEAN :
          /\ Spend("unnoticed", dead /\ ~host.proc.signalled)
          /\ host' = Stop(host, Generation(store), Cause, dead)
          /\ pc' = IF HadProcess(host, Generation(store), dead) THEN "settle" ELSE "exiting"
    BY <1>6 DEF ExecuteStop
  <2>2. /\ pc = "claimed" /\ Verb = "stop" /\ Live(store) /\ store' = store /\ cmd' = cmd
        /\ pc' \in {"settle", "exiting"}
    BY <1>6, <2>1 DEF ExecuteStop
  <2>3. HostInv(host', Reasons(store))
    <3>1. <<Generation(store), Cause>> \in Reasons(store) /\ Cause \in StopCauses
      BY <1>2, <2>2, StopAsked DEF Reasons
    <3> QED BY <1>1, <2>1, <3>1, FieldTypes, StopInv
  <2>4. Change(store, store')
    BY <1>1, <2>2, ChangeRefl
  <2>5. Scalars'
    <3>1. faults' \in Nat /\ requests' \in Nat
      BY <2>1, BudgetTypes
    <3> QED BY <1>6, <2>2, <3>1 DEF ExecuteStop, IInv, Scalars, Pcs
  <2>6. Control'
    BY <1>2, <2>2 DEF IInv, Control, Executing, OnBee, Verb, RuntimeVerbs
  <2> QED BY <2>3, <2>4, <2>5, <2>6, Preserves
<1>7. CASE ExecuteStopFact
  <2> DEFINE r == UpdateRuntimeState(store, Generation(store), "stopped", Cause, FALSE, FALSE)
  <2>1. pc = "exiting" /\ Verb = "stop" /\ Live(store) /\ Commit(r, "exited")
    BY <1>7 DEF ExecuteStopFact, IInv, Control
  <2>2. MayEnd(store, Cause)
    BY <2>1, StopAsked DEF MayEnd, ExitCauses
  <2>3. SetsCurrent(store, r, "stopped", Cause)
    BY <1>1, <1>2, <2>2, UpdateSets DEF MayEnd, RuntimeStates
  <2> HIDE DEF r
  <2>4. "stopped" \in RuntimeTransitions(Current(store).state)
    BY <2>1 DEF Live, LiveStates, RuntimeTransitions
  <2>5. Grows(r, r, {})
    BY <2>3, GrowsRefl DEF SetsCurrent
  <2>6. Change(store, r) /\ Exists(r)
    BY <1>1, <1>2, <2>2, <2>3, <2>4, <2>5, ChangeMoves
  <2>7. Control'
    BY <1>2, <2>1, <2>6, CommandStays DEF Commit, Control, Executing, OnBee
  <2> QED BY <2>1, <2>6, <2>7, CommitPreserves DEF Pcs
<1>8. CASE ExecuteStopWake
  <2>1. Grows(store, EnsureWake(store), {})
    BY <1>1, EnqueueWakeGrows DEF EnsureWake
  <2>2. Change(store, EnsureWake(store)) /\ Exists(EnsureWake(store))
    BY <1>1, <1>2, <2>1, ChangeQuietly, GrowsInv
  <2>3. Control'
    BY <1>2, <1>8, <2>2, CommandStays DEF ExecuteStopWake, Commit, Control, Executing, OnBee
  <2> QED BY <1>8, <2>2, <2>3, CommitPreserves DEF ExecuteStopWake, Pcs
<1>9. CASE ExecuteStopRevive
  BY <1>2, <1>3, <1>9, CommitSettles DEF ExecuteStopRevive
<1> QED BY <1>4, <1>5, <1>6, <1>7, <1>8, <1>9

\* The handler of spawn, send_wake and revive.
LEMMA StartPreserves ==
  ASSUME IInv, \/ ExecuteReviveReset \/ ExecuteStartNoop \/ ExecuteStartMint
               \/ ExecuteStart \/ ExecuteStartFails \/ RecordProcAtSpawn
  PROVE  Preserved
<1>1. StoreInv(store) /\ store \in Store /\ HostInv(host, Reasons(store))
  BY DEF IInv, StoreInv
<1>2. Exists(store) /\ pc \in Executing /\ cmd \in DOMAIN store.commands
  BY DEF IInv, Control, OnBee, Executing, ExecuteReviveReset, ExecuteStartNoop,
         ExecuteStartMint, ExecuteStart, ExecuteStartFails, RecordProcAtSpawn, AtStart, AtLaunch
<1>3. CASE ExecuteReviveReset
  <2> DEFINE r == ResetSpawnFailures(store)
  <2>1. Change(store, r) /\ Exists(r) /\ r.commands = store.commands
    BY <1>1, <1>2, ResetGrows, CountersKeep, ChangeRewrites DEF ResetSpawnFailures
  <2>2. Commit(r, "reset") /\ pc = "claimed"
    BY <1>3 DEF ExecuteReviveReset
  <2> HIDE DEF r
  <2>3. Control'
    BY <1>2, <2>1, <2>2 DEF Commit, IInv, Control, Executing, OnBee
  <2> QED BY <2>1, <2>2, <2>3, CommitPreserves DEF Pcs
<1>4. CASE ExecuteStartNoop
  BY <1>1, <1>2, <1>4, ChangeRefl, CommitSettles DEF ExecuteStartNoop
<1>5. CASE ExecuteStartMint
  <2>1. Change(store, store') /\ Exists(store') /\ store'.commands = store.commands
    BY <1>1, <1>2, <1>5, ChangeRevive, ReviveInv DEF ExecuteStartMint
  <2>2. /\ pc' = "minted" /\ cmd' = cmd /\ host' = host
        /\ pc \in {"claimed", "reset"}
    BY <1>5 DEF ExecuteStartMint, AtStart
  <2>3. Control'
    BY <1>2, <2>1, <2>2 DEF IInv, Control, Executing, OnBee
  <2>4. Scalars'
    BY <1>5 DEF ExecuteStartMint, IInv, Scalars, Pcs
  <2> QED BY <1>1, <2>1, <2>2, <2>3, <2>4, Preserves
<1>6. CASE ExecuteStart
  <2>1. HostInv(host', Reasons(store))
    BY <1>1, <1>6, FieldTypes, StartInv DEF ExecuteStart
  <2>2. Change(store, store')
    BY <1>1, <1>6, ChangeRefl DEF ExecuteStart
  <2>3. Control'
    BY <1>2, <1>6 DEF ExecuteStart, Control, Executing, OnBee
  <2>4. Scalars'
    BY <1>6 DEF ExecuteStart, IInv, Scalars, Pcs
  <2> QED BY <2>1, <2>2, <2>3, <2>4, Preserves
<1>7. CASE ExecuteStartFails
  <2>1. pc \in {"claimed", "reset", "minted"}
    BY <1>7 DEF ExecuteStartFails, AtLaunch, AtStart
  <2>2. Rewrites(store, store')
    BY <1>1, <1>2, <1>7, <2>1, ReportFailureGrows DEF ExecuteStartFails, IInv, Control
  <2>3. Change(store, store')
    BY <1>1, <2>2, ChangeRewrites
  <2>4. faults' \in Nat /\ requests' \in Nat
    BY <1>7, BudgetTypes DEF ExecuteStartFails
  <2>5. Scalars' /\ HostInv(host', Reasons(store)) /\ pc' \in Idle
    BY <1>1, <1>7, <2>4 DEF ExecuteStartFails, IInv, Scalars, Idle, Pcs
  <2> QED BY <2>3, <2>5, ControlIdle, Preserves
<1>8. CASE RecordProcAtSpawn
  <2> DEFINE r == IF ProcOf(host, Generation(store)) THEN RecordRuntimeProc(store, Generation(store))
                                                     ELSE store
  <2>1. Change(store, r)
    BY <1>1, <1>2, ProcSets, ChangeInPlace, ChangeRefl
  <2>2. Commit(r, "settle")
    BY <1>8 DEF RecordProcAtSpawn
  <2> HIDE DEF r
  <2> QED BY <1>2, <2>1, <2>2, CommitSettles
<1> QED BY <1>3, <1>4, <1>5, <1>6, <1>7, <1>8

\* The end of a command, and the delivery of mail.
LEMMA SettlePreserves ==
  ASSUME IInv, Settle \/ DeliverMail \/ DeliverNothing \/ DeliverMarked
  PROVE  Preserved
<1>1. StoreInv(store) /\ store \in Store /\ HostInv(host, Reasons(store))
  BY DEF IInv, StoreInv
<1>2. CASE Settle
  <2>1. cmd \in DOMAIN store.commands
    BY <1>2 DEF Settle, IInv, Control, Executing
  <2>2. Change(store, CompleteCommand(store, cmd))
    BY <1>1, <2>1, CompleteRewrites, ChangeRewrites
  <2> QED BY <1>2, <2>2, CommitRests DEF Settle, Idle
<1>3. CASE DeliverMail
  <2>1. HostInv(host', Reasons(store)) /\ Change(store, store')
    BY <1>1, <1>3, DeliverInv, ChangeRefl DEF DeliverMail
  <2>2. Control'
    BY <1>3 DEF DeliverMail, Deliverable, Live, Control, Executing, OnBee
  <2>3. Scalars'
    BY <1>3 DEF DeliverMail, IInv, Scalars, Pcs
  <2> QED BY <2>1, <2>2, <2>3, Preserves
<1>4. CASE DeliverNothing
  BY <1>1, <1>4, ChangeRefl, CommitRests DEF DeliverNothing, Idle
<1>5. CASE DeliverMarked
  <2>1. store.mail > 0
    BY <1>5 DEF DeliverMarked, IInv, Control
  <2>2. Change(store, MarkDelivered(store))
    BY <1>1, <2>1, MarkInv, ChangeBee
  <2> QED BY <1>5, <2>2, CommitRests DEF DeliverMarked, Idle
<1> QED BY <1>2, <1>3, <1>4, <1>5

\* Every transaction and driver call of the loop preserves the invariant.
LEMMA StepPreserves == ASSUME IInv, Step PROVE Preserved
  BY BeginPreserves, ObservePreserves, PoliciesPreserves, ClaimPreserves, BeeCommandsPreserve,
     StopPreserves, StartPreserves, SettlePreserves DEF Step

-----------------------------------------------------------------------------
(* The daemon dies and comes back. *)

\* A daemon crash, a machine restart and an unheard exit preserve the invariant.
LEMMA DownPreserves == ASSUME IInv, Crash \/ MachineRestart \/ ExitUnheard PROVE Preserved
<1>1. StoreInv(store) /\ HostInv(host, Reasons(store))
  BY DEF IInv
<1>2. Change(store, store')
  BY <1>1, ChangeRefl DEF Crash, MachineRestart, ExitUnheard, GoDown
<1>3. HostInv(host', Reasons(store))
  <2>1. CASE Crash
    BY <1>1, <2>1, DetachInv DEF Crash
  <2>2. CASE MachineRestart
    BY <2>2, InitHostInv DEF MachineRestart
  <2>3. CASE ExitUnheard
    BY <1>1, <2>3, ProcInv, NoProcessType DEF ExitUnheard
  <2> QED BY <2>1, <2>2, <2>3
<1>4. faults' \in Nat /\ requests' \in Nat
  BY BudgetTypes DEF Crash, MachineRestart, ExitUnheard
<1>5. Scalars' /\ pc' \in Idle
  <2>1. CASE GoDown
    BY <1>4, <2>1 DEF GoDown, IInv, Scalars, Idle, Pcs
  <2>2. CASE ExitUnheard
    BY <1>4, <2>2 DEF ExitUnheard, IInv, Scalars, Idle
  <2> QED BY <2>1, <2>2 DEF Crash, MachineRestart
<1> QED BY <1>2, <1>3, <1>5, ControlIdle, Preserves

\* Recovery preserves the invariant, whatever survived.
LEMMA BootPreserves == ASSUME IInv, Boot PROVE Preserved
<1> DEFINE opened     == BootRequeueRunningCommands(store)
           reconciled == ReconcileAtBoot(opened, Survives(opened))
           awake      == EnsureWake(reconciled)
           revived    == ReviveAfterStopIfRequested(awake, Generation(awake))
<1>1. StoreInv(store) /\ store \in Store /\ HostInv(host, Reasons(store))
  BY DEF IInv, StoreInv
<1>2. store' = IF Exists(store) THEN revived ELSE opened
  BY DEF Boot
<1>3. Rewrites(store, opened) /\ (Exists(opened) <=> Exists(store)) /\ StoreInv(opened)
      /\ opened.runtimes = store.runtimes
  BY <1>1, RequeueRewrites, RewritesInv DEF Rewrites, Grows, SameRows
<1>4. HostInv(host', Reasons(store))
  <2>1. CASE Survives(opened)
    <3>1. PICK up \in BOOLEAN, degraded \in BOOLEAN :
            host' = Adopt(host, Current(store).state, host.proc.announced \/ up, degraded)
      BY <2>1 DEF Boot
    <3>2. Current(store).state \in Phases
      BY <1>3, <2>1 DEF Survives, Live, Current, Generation, LiveStates, Phases
    <3>3. (host.proc.announced \/ up) \in BOOLEAN
      OBVIOUS
    <3> QED BY <1>1, <3>1, <3>2, <3>3, AdoptInv
  <2>2. CASE ~Survives(opened)
    BY <1>1, <2>2, AbandonInv DEF Boot
  <2> QED BY <2>1, <2>2
<1> HIDE DEF opened
<1>5. CASE ~Exists(store)
  <2>1. Change(store, store')
    BY <1>1, <1>2, <1>3, <1>5, ChangeRewrites
  <2>2. Scalars' /\ pc' \in Idle
    BY DEF Boot, IInv, Scalars, Idle, Pcs
  <2> QED BY <1>4, <2>1, <2>2, ControlIdle, Preserves
<1>6. CASE Exists(store)
  <2>1. reconciled = opened \/
        (Live(opened) /\ SetsCurrent(opened, reconciled, "stopped", "machine_restart"))
    BY <1>3, <1>6, ReconcileSets
  <2>2. reconciled \in Store
    BY <1>3, <2>1 DEF StoreInv, SetsCurrent
  <2> HIDE DEF reconciled
  <2>3. Grows(reconciled, awake, {}) /\ awake \in Store
    BY <2>2, EnqueueWakeGrows DEF EnsureWake, Grows
  <2> HIDE DEF awake
  <2>4. Grows(reconciled, revived, {})
    BY <2>2, <2>3, ReviveAfterStopGrows, GrowsTrans
  <2> HIDE DEF revived
  <2>5. Change(opened, revived)
    <3>1. CASE reconciled = opened
      BY <1>3, <1>6, <2>4, <3>1, ChangeQuietly
    <3>2. CASE Live(opened) /\ SetsCurrent(opened, reconciled, "stopped", "machine_restart")
      <4>1. "stopped" \in RuntimeTransitions(Current(opened).state)
        BY <3>2 DEF Live, LiveStates, RuntimeTransitions
      <4>2. MayEnd(opened, "machine_restart")
        BY DEF MayEnd, ExitCauses, StopCauses
      <4> QED BY <1>3, <1>6, <2>4, <3>2, <4>1, <4>2, ChangeMoves
    <3> QED BY <2>1, <3>1, <3>2
  <2>6. Change(store, store')
    BY <1>1, <1>2, <1>3, <1>6, <2>5, ChangeAfterRewrite
  <2>7. Scalars' /\ pc' \in Idle
    BY DEF Boot, IInv, Scalars, Idle, Pcs
  <2> QED BY <1>4, <2>6, <2>7, ControlIdle, Preserves
<1> QED BY <1>5, <1>6

-----------------------------------------------------------------------------
(* The theorems. *)

\* The invariant holds initially.
LEMMA InitInv == Init => IInv
<1> SUFFICES ASSUME Init PROVE IInv
  OBVIOUS
<1>1. StoreInv(store) /\ Exists(store)
  BY CreateInv DEF Init
<1>2. HostInv(host, Reasons(store))
  BY InitHostInv DEF Init
<1>3. Scalars /\ Control
  BY DEF Init, Scalars, Pcs, Control, Executing, OnBee
<1> QED BY <1>1, <1>2, <1>3 DEF IInv

\* Every step preserves it, and changes the store as the lifecycle allows.
LEMMA NextPreserves == IInv /\ [Next]_vars => Preserved
<1> SUFFICES ASSUME IInv, [Next]_vars PROVE Preserved
  OBVIOUS
<1>1. CASE Step
  BY <1>1, StepPreserves
<1>2. CASE Boot
  BY <1>2, BootPreserves
<1>3. CASE Environment
  BY <1>3, OperatorPreserves, HostPreserves, ClockPreserves, DownPreserves
     DEF Environment, HostCallback
<1>4. CASE UNCHANGED vars
  <2>1. IInv'
    BY <1>4 DEF vars, IInv, StoreInv, Closed, HostInv, Scalars, Control, Verb, Reasons
  <2>2. Change(store, store')
    BY <1>4, ChangeRefl DEF vars, IInv
  <2> QED BY <2>1, <2>2 DEF Preserved
<1> QED BY <1>1, <1>2, <1>3, <1>4 DEF Next

\* The inductive invariant holds in every reachable state.
LEMMA InvHolds == Spec => []IInv
<1>1. IInv /\ [Next]_vars => IInv'
  BY NextPreserves DEF Preserved
<1> QED BY <1>1, InitInv, PTL DEF Spec

\* Whatever crashes, races and requests happen, every variable keeps its type:
\* no handler indexes a command or a runtime that is not there.
THEOREM TypeCorrect == Spec => []TypeOK
<1>1. IInv => TypeOK
  BY DEF IInv, StoreInv, HostInv, Scalars, TypeOK
<1> QED BY <1>1, InvHolds, PTL

\* B2 and I2 for every bound: at most the last runtime of a bee is live, and
\* exactly the stopped ones have an exit cause.
THEOREM ClosedCorrect == Spec => []ClosedStateModel
<1>1. IInv => ClosedStateModel
  BY DEF IInv, StoreInv, ClosedStateModel
<1> QED BY <1>1, InvHolds, PTL

\* No step of any handler, and no restart, reopens a settled command.
THEOREM SettledCorrect == Spec => SettledIsFinal
<1> DEFINE Final == \A i \in DOMAIN store.commands :
                      store.commands[i].status \in {"done", "failed"} =>
                        store'.commands[i].status = store.commands[i].status
<1>1. IInv /\ [Next]_vars => Final
  <2> SUFFICES ASSUME IInv, [Next]_vars, NEW i \in DOMAIN store.commands,
                      store.commands[i].status \in {"done", "failed"}
               PROVE  store'.commands[i].status = store.commands[i].status
    OBVIOUS
  <2>1. Evolves(store, store') /\ store \in Store
    BY NextPreserves DEF Preserved, Change, IInv, StoreInv
  <2>2. Follows(store.commands[i], store'.commands[i])
    BY <2>1, FieldTypes DEF Evolves
  <2> QED BY <2>2 DEF Follows
<1>2. IInv /\ [Next]_vars => [Final]_vars
  BY <1>1
<1> QED BY <1>2, InvHolds, PTL DEF Spec, SettledIsFinal

\* Store, queue, driver and recovery implement the runtime lifecycle: only the
\* last generation moves, along RUNTIME_TRANSITIONS, stopped is final, and no
\* runtime is recorded as stopped by somebody who did not ask for it.
THEOREM Refinement == Spec => ImplementsLifecycle
<1>1. Init => Lifecycle!Init
  <2> SUFFICES ASSUME Init PROVE Lifecycle!Init
    OBVIOUS
  <2>1. store.runtimes = <<NewRuntime>> /\ Asked(store) = {}
    BY CreateInv DEF Init
  <2>2. Log(store) = <<Row("booting", "none")>>
    BY <2>1 DEF Log, NewRuntime, Row
  <2> QED BY <2>1, <2>2 DEF Lifecycle!Init, Lifecycle!Entry, Row
<1>2. IInv /\ [Next]_vars => [Lifecycle!Next]_<<Log(store), Asked(store)>>
  <2> SUFFICES ASSUME IInv, [Next]_vars
               PROVE  [Lifecycle!Next]_<<Log(store), Asked(store)>>
    OBVIOUS
  <2>1. LogStep(store, store') /\ StoreInv(store) /\ store \in Store
    BY NextPreserves DEF Preserved, Change, IInv, StoreInv
  <2>2. Len(Log(store)) = Generation(store) /\ DOMAIN Log(store) = 1..Generation(store)
    BY <2>1, LogType
  <2>3. Log(store)' = Log(store') /\ Asked(store)' = Asked(store')
    BY DEF Log, Asked
  <2>4. ASSUME Exists(store)
        PROVE  Lifecycle!Present /\ Lifecycle!LastState = Current(store).state
    <3>1. Generation(store) \in Nat \ {0}
      BY <2>1, <2>4, CurrentType
    <3>2. Log(store)[Generation(store)] = Row(Current(store).state, Current(store).exitCause)
      BY <2>1, <3>1, LogType DEF Current
    <3>3. Log(store) # <<>>
      BY <2>2, <3>1
    <3> QED BY <2>2, <3>2, <3>3 DEF Lifecycle!Present, Lifecycle!LastState, Row
  <2>4a. /\ Lifecycle!StopCauses = StopCauses /\ Lifecycle!ExitCauses = ExitCauses
            /\ \A state : Lifecycle!RuntimeTransitions(state) = RuntimeTransitions(state)
    BY DEF Lifecycle!StopCauses, Lifecycle!ExitCauses, Lifecycle!RuntimeTransitions,
           StopCauses, ExitCauses, RuntimeTransitions
  <2>5. CASE Log(store') = Log(store) /\ Asked(store') = Asked(store)
    BY <2>3, <2>5
  <2>6. CASE /\ Exists(store) /\ Log(store') = Log(store)
             /\ \E c \in StopCauses :
                  Asked(store') = Asked(store) \union {<<Generation(store), c>>}
    <3>1. Lifecycle!AskStop
      BY <2>4a, <2>2, <2>3, <2>4, <2>6 DEF Lifecycle!AskStop
    <3> QED BY <3>1 DEF Lifecycle!Next
  <2>7. ASSUME Exists(store), Asked(store') = Asked(store),
               NEW state \in RuntimeTransitions(Current(store).state), NEW cause,
               IF state = "stopped" THEN MayEnd(store, cause) ELSE cause = "none",
               Log(store') = [Log(store) EXCEPT ![Generation(store)] = Row(state, cause)]
        PROVE  Lifecycle!Next
    <3>1. CASE state = "stopped"
      <4>1. Lifecycle!End
        BY <2>4a, <2>2, <2>3, <2>4, <2>7, <3>1 DEF Lifecycle!End, Lifecycle!Entry, MayEnd, Row
      <4> QED BY <4>1 DEF Lifecycle!Next
    <3>2. CASE state # "stopped"
      <4>1. Lifecycle!Work
        BY <2>4a, <2>2, <2>3, <2>4, <2>7, <3>2 DEF Lifecycle!Work, Lifecycle!Entry, Row
      <4> QED BY <4>1 DEF Lifecycle!Next
    <3> QED BY <3>1, <3>2
  <2>8. CASE /\ Exists(store) /\ Asked(store') = Asked(store) /\ Current(store).state = "stopped"
             /\ Log(store') = Append(Log(store), Row("booting", "none"))
    <3>1. Lifecycle!Begin
      BY <2>3, <2>4, <2>8 DEF Lifecycle!Begin, Lifecycle!Entry, Row
    <3> QED BY <3>1 DEF Lifecycle!Next
  <2>9. CASE Exists(store) /\ Asked(store') = Asked(store) /\ Log(store') = <<>>
    <3>1. Lifecycle!Delete
      BY <2>3, <2>4, <2>9 DEF Lifecycle!Delete
    <3> QED BY <3>1 DEF Lifecycle!Next
  <2> QED BY <2>1, <2>5, <2>6, <2>7, <2>8, <2>9 DEF LogStep
<1> QED BY <1>1, <1>2, InvHolds, PTL DEF Spec, ImplementsLifecycle, Lifecycle!Spec
=============================================================================
