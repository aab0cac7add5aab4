------------------------ MODULE DaemonProcessProofs ------------------------
(***************************************************************************)
(* The processes behind the rows, for every value of the constants: a      *)
(* counted failure is a boot that failed, a runtime shown as working has   *)
(* its process or an exit to fold, a start finds no process, none works    *)
(* behind a stopped row and only unrecorded processes are lost.            *)
(*                                                                         *)
(* The last three are about the bees that run in place (~Cell), and about  *)
(* cells whose operators send no revive.  A revive of a bee whose start    *)
(* was cancelled in the same step finds the row live and the exit still    *)
(* queued, starts the generation again, and the fold of that exit leaves   *)
(* the new process behind a stopped row.                                   *)
(***************************************************************************)
EXTENDS DaemonQueueProofs, FiniteSetTheorems, SequenceTheorems

-----------------------------------------------------------------------------
(* What the queued observations say of a generation g. *)

Spoke(e, g) == e.generation = g /\ e.kind \in {"booted", "turn_started"}

Left(e, g) == e.generation = g /\ e.kind = "exited"

ExitOf(h, g) == \E i \in DOMAIN h.events : Left(h.events[i], g)

RealTurnEnd(e, g) == e.generation = g /\ e.kind = "turn_ended" /\ ~e.synthetic

\* The process of g is in a turn that somebody will hear the end of.
InTurn(h, g) == ProcOf(h, g) /\ ~h.proc.degraded /\ h.proc.phase = "running"

\* What g did before its exit is followed by the exit, or g still runs.
Ends(h, g) ==
  \A i \in DOMAIN h.events :
    h.events[i].generation = g /\ h.events[i].kind # "exited" =>
      \/ ProcOf(h, g)
      \/ \E j \in DOMAIN h.events : j > i /\ Left(h.events[j], g)

\* g runs, or its exit is queued.
Present(h, g) == ProcOf(h, g) \/ ExitOf(h, g)

\* g has said that it booted before it ends a turn, and before it runs one.
Proves(h, g) ==
  /\ \A i \in DOMAIN h.events :
       RealTurnEnd(h.events[i], g) => \E j \in DOMAIN h.events : j < i /\ Spoke(h.events[j], g)
  /\ InTurn(h, g) => \E j \in DOMAIN h.events : Spoke(h.events[j], g)

\* The driver knows no generation that is not minted.
Bounded(h, n) ==
  /\ h.proc.generation <= n /\ h.pending.generation <= n
  /\ \A i \in DOMAIN h.events : h.events[i].generation <= n

\* What a method of the driver keeps while the current generation is n.
HostStep(h, k, n) ==
  /\ \A g \in Nat : /\ Ends(h, g) => Ends(k, g)
                    /\ Present(h, g) => Present(k, g)
                    /\ Proves(h, g) => Proves(k, g)
  /\ Bounded(h, n) => Bounded(k, n)

\* The fields that the methods of the driver set.
LEMMA HostFields ==
  ASSUME NEW h \in Host, NEW p, NEW q, NEW x
  PROVE  /\ [h EXCEPT !.proc = p].proc = p /\ [h EXCEPT !.proc = p].pending = h.pending
         /\ [h EXCEPT !.proc = p].events = h.events /\ [h EXCEPT !.proc = p].orphans = h.orphans
         /\ [h EXCEPT !.pending = p].proc = h.proc /\ [h EXCEPT !.pending = p].pending = p
         /\ [h EXCEPT !.pending = p].events = h.events
         /\ [h EXCEPT !.pending = p].orphans = h.orphans
         /\ Push(h, q).proc = h.proc /\ Push(h, q).pending = h.pending
         /\ Push(h, q).orphans = h.orphans /\ Push(h, q).events = Append(h.events, q)
         /\ [h EXCEPT !.orphans = x].proc = h.proc /\ [h EXCEPT !.orphans = x].orphans = x
         /\ [h EXCEPT !.orphans = x].pending = h.pending
         /\ [h EXCEPT !.orphans = x].events = h.events
         /\ [h EXCEPT !.events = q].proc = h.proc /\ [h EXCEPT !.events = q].events = q
         /\ [h EXCEPT !.events = q].pending = h.pending
         /\ [h EXCEPT !.events = q].orphans = h.orphans
  BY DEF Host, Push

\* Observations queued behind others.
LEMMA QueuedBehind ==
  ASSUME NEW a \in Seq(Observation), NEW q \in Seq(Observation)
  PROVE  /\ a \o q \in Seq(Observation)
         /\ \A i \in DOMAIN a : i \in DOMAIN (a \o q) /\ (a \o q)[i] = a[i] /\ i \in Nat
         /\ \A i \in DOMAIN q : Len(a) + i \in DOMAIN (a \o q) /\ (a \o q)[Len(a) + i] = q[i]
         /\ \A i \in DOMAIN (a \o q) :
              \/ i \in DOMAIN a
              \/ \E j \in DOMAIN q : i = Len(a) + j
         /\ \A i \in DOMAIN a, j \in DOMAIN q : i < Len(a) + j
<1>1. /\ Len(a) \in Nat /\ Len(q) \in Nat /\ DOMAIN a = 1..Len(a) /\ DOMAIN q = 1..Len(q)
      /\ a \o q \in Seq(Observation) /\ DOMAIN (a \o q) = 1..(Len(a) + Len(q))
  OBVIOUS
<1>2. \A i \in DOMAIN a : i \in DOMAIN (a \o q) /\ (a \o q)[i] = a[i] /\ i \in Nat
  BY <1>1
<1>3. \A i \in DOMAIN q : Len(a) + i \in DOMAIN (a \o q) /\ (a \o q)[Len(a) + i] = q[i]
  BY <1>1
<1>4. ASSUME NEW i \in DOMAIN (a \o q), i \notin DOMAIN a
      PROVE  \E j \in DOMAIN q : i = Len(a) + j
  <2>1. i - Len(a) \in DOMAIN q /\ i = Len(a) + (i - Len(a))
    BY <1>1, <1>4
  <2> QED BY <2>1
<1>5. \A i \in DOMAIN a, j \in DOMAIN q : i < Len(a) + j
  BY <1>1
<1> QED BY <1>1, <1>2, <1>3, <1>4, <1>5

\* A method of the driver queues q and changes the process: what it owes.
Owes(h, k, q, n) ==
  /\ k.events = h.events \o q
  /\ \A g \in Nat : ProcOf(h, g) => ProcOf(k, g) \/ \E j \in DOMAIN q : Left(q[j], g)
  /\ \A i \in DOMAIN q : q[i].kind # "exited" => ProcOf(k, q[i].generation)
  /\ \A g \in Nat : InTurn(k, g) => InTurn(h, g) \/ \E j \in DOMAIN q : Spoke(q[j], g)
  /\ \A g \in Nat, i \in DOMAIN q : RealTurnEnd(q[i], g) => InTurn(h, g)
  /\ Bounded(h, n) => /\ k.proc.generation <= n /\ k.pending.generation <= n
                      /\ \A i \in DOMAIN q : q[i].generation <= n

\* A method that pays what it owes keeps what is known of every generation.
LEMMA OwesKeeps ==
  ASSUME NEW h \in Host, NEW k \in Host, NEW q \in Seq(Observation), NEW n, Owes(h, k, q, n)
  PROVE  HostStep(h, k, n)
<1> DEFINE a == h.events
           b == a \o q
<1>1. a \in Seq(Observation) /\ k.events = b
  BY HostTypes DEF Owes
<1>2. /\ \A i \in DOMAIN a : i \in DOMAIN b /\ b[i] = a[i] /\ i \in Nat
      /\ \A i \in DOMAIN q : Len(a) + i \in DOMAIN b /\ b[Len(a) + i] = q[i]
      /\ \A i \in DOMAIN b : i \in DOMAIN a \/ \E j \in DOMAIN q : i = Len(a) + j
      /\ \A i \in DOMAIN a, j \in DOMAIN q : i < Len(a) + j
  BY <1>1, QueuedBehind
<1> HIDE DEF a, b
<1>3. ASSUME NEW g \in Nat, Ends(h, g) PROVE Ends(k, g)
  <2> SUFFICES ASSUME NEW i \in DOMAIN b, b[i].generation = g, b[i].kind # "exited", ~ProcOf(k, g)
               PROVE  \E j \in DOMAIN b : j > i /\ Left(b[j], g)
    BY <1>1 DEF Ends
  <2>1. CASE i \in DOMAIN a
    <3>1. CASE \E j \in DOMAIN a : j > i /\ Left(a[j], g)
      BY <1>2, <3>1
    <3>2. CASE ProcOf(h, g)
      <4>1. PICK j \in DOMAIN q : Left(q[j], g)
        BY <3>2 DEF Owes
      <4>2. Len(a) + j \in DOMAIN b /\ b[Len(a) + j] = q[j] /\ i < Len(a) + j
        BY <1>2, <2>1
      <4>3. Len(a) + j > i
        BY <1>1, <1>2, <2>1, <4>2 DEF a
      <4> QED BY <4>1, <4>2, <4>3
    <3>3. a[i].generation = g /\ a[i].kind # "exited"
      BY <1>2, <2>1
    <3> QED BY <1>3, <2>1, <3>1, <3>2, <3>3 DEF Ends, a
  <2>2. CASE \E j \in DOMAIN q : i = Len(a) + j
    BY <1>2, <2>2 DEF Owes
  <2> QED BY <1>2, <2>1, <2>2
<1>4. ASSUME NEW g \in Nat, Present(h, g) PROVE Present(k, g)
  <2>1. CASE ProcOf(h, g)
    <3>1. CASE ProcOf(k, g)
      BY <3>1 DEF Present
    <3>2. CASE \E j \in DOMAIN q : Left(q[j], g)
      BY <1>1, <1>2, <3>2 DEF Present, ExitOf
    <3> QED BY <2>1, <3>1, <3>2 DEF Owes
  <2>2. CASE ExitOf(h, g)
    BY <1>1, <1>2, <2>2 DEF Present, ExitOf, a
  <2> QED BY <1>4, <2>1, <2>2 DEF Present
<1>5. ASSUME NEW g \in Nat, Proves(h, g) PROVE Proves(k, g)
  <2>1. ASSUME NEW j \in DOMAIN a, Spoke(a[j], g)
        PROVE  j \in DOMAIN b /\ Spoke(b[j], g)
    BY <1>2, <2>1
  <2>2. ASSUME InTurn(k, g) PROVE \E j \in DOMAIN b : Spoke(b[j], g)
    <3>1. CASE InTurn(h, g)
      BY <1>5, <2>1, <3>1 DEF Proves, a
    <3>2. CASE \E j \in DOMAIN q : Spoke(q[j], g)
      BY <1>2, <3>2
    <3> QED BY <2>2, <3>1, <3>2 DEF Owes
  <2>3. ASSUME NEW i \in DOMAIN b, RealTurnEnd(b[i], g)
        PROVE  \E j \in DOMAIN b : j < i /\ Spoke(b[j], g)
    <3>1. CASE i \in DOMAIN a
      <4>1. RealTurnEnd(a[i], g)
        BY <1>2, <2>3, <3>1
      <4>2. PICK j \in DOMAIN a : j < i /\ Spoke(a[j], g)
        BY <1>5, <3>1, <4>1 DEF Proves, a
      <4> QED BY <2>1, <4>2
    <3>2. CASE \E m \in DOMAIN q : i = Len(a) + m
      <4>1. PICK m \in DOMAIN q : i = Len(a) + m
        BY <3>2
      <4>2. InTurn(h, g)
        BY <1>2, <2>3, <4>1 DEF Owes
      <4>3. PICK j \in DOMAIN a : Spoke(a[j], g)
        BY <1>5, <4>2 DEF Proves, a
      <4>4. j < i
        BY <1>2, <4>1
      <4> QED BY <2>1, <4>3, <4>4
    <3> QED BY <1>2, <3>1, <3>2
  <2> QED BY <1>1, <2>2, <2>3 DEF Proves
<1>6. ASSUME Bounded(h, n) PROVE Bounded(k, n)
  <2>1. \A i \in DOMAIN b : b[i].generation <= n
    BY <1>2, <1>6 DEF Owes, Bounded, a
  <2> QED BY <1>1, <1>6, <2>1 DEF Owes, Bounded
<1> QED BY <1>3, <1>4, <1>5, <1>6 DEF HostStep

\* A method that queues nothing.
LEMMA QueuesNothing ==
  ASSUME NEW h \in Host, NEW k \in Host, NEW n, k.events = h.events,
         \A g \in Nat : ProcOf(h, g) => ProcOf(k, g),
         \A g \in Nat : InTurn(k, g) => InTurn(h, g),
         Bounded(h, n) => k.proc.generation <= n /\ k.pending.generation <= n
  PROVE  HostStep(h, k, n)
<1> DEFINE q == <<>>
<1>1. q \in Seq(Observation) /\ DOMAIN q = {} /\ k.events = h.events \o q
  BY HostTypes
<1> HIDE DEF q
<1>2. Owes(h, k, q, n)
  BY <1>1 DEF Owes
<1> QED BY <1>1, <1>2, OwesKeeps

\* A method that queues one observation.
LEMMA QueuesOne ==
  ASSUME NEW h \in Host, NEW k \in Host, NEW n, NEW e \in Observation,
         k.events = Append(h.events, e),
         \A g \in Nat : ProcOf(h, g) => ProcOf(k, g) \/ Left(e, g),
         e.kind # "exited" => ProcOf(k, e.generation),
         \A g \in Nat : InTurn(k, g) => InTurn(h, g) \/ Spoke(e, g),
         \A g \in Nat : RealTurnEnd(e, g) => InTurn(h, g),
         Bounded(h, n) => k.proc.generation <= n /\ k.pending.generation <= n
                          /\ e.generation <= n
  PROVE  HostStep(h, k, n)
<1> DEFINE q == <<e>>
<1>1. q \in Seq(Observation) /\ DOMAIN q = {1} /\ q[1] = e /\ k.events = h.events \o q
  BY HostTypes
<1> HIDE DEF q
<1>2. Owes(h, k, q, n)
  BY <1>1 DEF Owes
<1> QED BY <1>1, <1>2, OwesKeeps

\* One method after the other.
LEMMA HostStepTrans ==
  ASSUME NEW h, NEW k, NEW l, NEW n, HostStep(h, k, n), HostStep(k, l, n)
  PROVE  HostStep(h, l, n)
  BY DEF HostStep

\* The process goes on, perhaps in another phase.
SameProc(p, q) == q.generation = p.generation /\ q.degraded = p.degraded

\* What a process says.
LEMMA SawFields ==
  ASSUME NEW h \in Host, NEW kind \in {"booted", "turn_started", "turn_ended"},
         NEW synthetic \in BOOLEAN
  PROVE  LET e == Saw(h, kind, synthetic)
         IN  /\ e \in Observation /\ e.generation = h.proc.generation /\ e.kind = kind
             /\ e.synthetic = synthetic
  BY SawExplained DEF Saw

\* A running process says something, and perhaps changes its phase: it runs a
\* turn only if it says so, and ends one only if it was in one.
LEMMA Speaks ==
  ASSUME NEW h \in Host, NEW k \in Host, NEW n, Running(h),
         NEW kind \in {"booted", "turn_started", "turn_ended"}, NEW synthetic \in BOOLEAN,
         k.events = Append(h.events, Saw(h, kind, synthetic)), k.pending = h.pending,
         SameProc(h.proc, k.proc),
         k.proc.phase = "running" => h.proc.phase = "running" \/ kind # "turn_ended",
         kind = "turn_ended" /\ ~synthetic => h.proc.phase = "running" /\ ~h.proc.degraded
  PROVE  HostStep(h, k, n)
<1> DEFINE e == Saw(h, kind, synthetic)
<1>1. /\ e \in Observation /\ e.generation = h.proc.generation /\ e.kind = kind
      /\ e.synthetic = synthetic
  BY SawFields
<1> HIDE DEF e
<1>2. \A g \in Nat : ProcOf(h, g) <=> ProcOf(k, g)
  BY DEF ProcOf, Running, SameProc
<1>3. ProcOf(k, e.generation)
  BY <1>1 DEF ProcOf, Running, SameProc
<1>4. \A g \in Nat : InTurn(k, g) => InTurn(h, g) \/ Spoke(e, g)
  BY <1>1 DEF InTurn, Spoke, ProcOf, Running, SameProc
<1>5. \A g \in Nat : RealTurnEnd(e, g) => InTurn(h, g)
  BY <1>1 DEF InTurn, RealTurnEnd, ProcOf
<1>6. Bounded(h, n) => k.proc.generation <= n /\ k.pending.generation <= n /\ e.generation <= n
  BY <1>1 DEF Bounded, SameProc
<1>7. k.events = Append(h.events, e)
  BY DEF e
<1> QED BY <1>1, <1>2, <1>3, <1>4, <1>5, <1>6, <1>7, QueuesOne

\* A phase or a note about the process changes, nothing is queued.
LEMMA Notes ==
  ASSUME NEW h \in Host, NEW k \in Host, NEW n, k.events = h.events, k.pending = h.pending,
         SameProc(h.proc, k.proc), k.proc.phase = "running" => h.proc.phase = "running"
  PROVE  HostStep(h, k, n)
<1>1. \A g \in Nat : ProcOf(h, g) => ProcOf(k, g)
  BY DEF ProcOf, Running, SameProc
<1>2. \A g \in Nat : InTurn(k, g) => InTurn(h, g)
  BY DEF InTurn, ProcOf, Running, SameProc
<1>3. Bounded(h, n) => k.proc.generation <= n /\ k.pending.generation <= n
  BY DEF Bounded, SameProc
<1> QED BY <1>1, <1>2, <1>3, QueuesNothing

-----------------------------------------------------------------------------
(* The methods and callbacks of the driver. *)

\* A process with another phase, or another note about it.
LEMMA ProcFields ==
  ASSUME NEW p \in Process
  PROVE  /\ \A phase \in Phases :
              LET q == [p EXCEPT !.realEvidence = TRUE, !.phase = phase]
              IN  q \in Process /\ SameProc(p, q) /\ q.phase = phase
         /\ \A phase \in Phases :
              LET q == [p EXCEPT !.phase = phase]
              IN  q \in Process /\ SameProc(p, q) /\ q.phase = phase
         /\ LET q == [p EXCEPT !.announced = TRUE]
            IN  q \in Process /\ SameProc(p, q) /\ q.phase = p.phase
         /\ \A cause \in StopCauses :
              LET q == [p EXCEPT !.stopCause = cause, !.signalled = TRUE]
              IN  q \in Process /\ SameProc(p, q) /\ q.phase = p.phase
  BY DEF Process, SameProc

\* A host with another process and one more observation.
LEMMA SpeakingHost ==
  ASSUME NEW h \in Host, NEW p \in Process, NEW e \in Observation
  PROVE  LET k == [[h EXCEPT !.events = Append(@, e)] EXCEPT !.proc = p]
         IN  /\ k \in Host /\ k.events = Append(h.events, e) /\ k.pending = h.pending
             /\ k.proc = p /\ k.orphans = h.orphans
<1>1. Append(h.events, e) \in Seq(Observation)
  BY HostTypes
<1> QED BY <1>1 DEF Host

\* One observation, or two.
LEMMA QueuedTwice ==
  ASSUME NEW a \in Seq(Observation), NEW b \in Observation, NEW c \in Observation
  PROVE  /\ a \o <<b>> \o <<>> = Append(a, b)
         /\ a \o <<>> \o <<b>> = Append(a, b)
         /\ a \o <<>> \o <<>> = a
         /\ a \o <<b>> \o <<c>> = Append(Append(a, b), c)
<1>1. Append(a, b) \in Seq(Observation) /\ a \o <<b>> \in Seq(Observation)
  OBVIOUS
<1>2. Append(a, b) = a \o <<b>> /\ Append(Append(a, b), c) = Append(a, b) \o <<c>>
  BY <1>1, AppendIsConcat
<1>3. a \o <<>> = a /\ a \o <<b>> \o <<>> = a \o <<b>>
  BY <1>1, ConcatEmptySeq
<1> QED BY <1>2, <1>3

\* pumpStatus.
LEMMA PumpHost ==
  ASSUME NEW h \in Host, NEW n, Running(h)
  PROVE  HostStep(h, PumpStatus(h), n)
<1> DEFINE p == [h.proc EXCEPT !.announced = TRUE]
           b == Saw(h, "booted", TRUE)
           k == [[h EXCEPT !.events = Append(@, b)] EXCEPT !.proc = p]
           e == Saw(k, "turn_ended", TRUE)
           l == [[k EXCEPT !.events = Append(@, e)] EXCEPT !.proc = p]
<1>1. p \in Process /\ SameProc(h.proc, p) /\ p.phase = h.proc.phase /\ b \in Observation
      /\ h.events \in Seq(Observation)
  BY HostTypes, ProcFields, SawFields
<1>2. b = Saw(h, "booted", TRUE)
  OBVIOUS
<1>3. /\ k \in Host /\ k.events = Append(h.events, b) /\ k.pending = h.pending /\ k.proc = p
  <2>1. p \in Process /\ b \in Observation
    BY <1>1
  <2> HIDE DEF p, b
  <2> QED BY <2>1, SpeakingHost
<1>4. HostStep(h, k, n)
  <2> HIDE DEF p, b, k
  <2> QED BY <1>1, <1>2, <1>3, Speaks
<1>5. e \in Observation /\ e = Saw(h, "turn_ended", TRUE)
  <2> HIDE DEF k
  <2>1. e \in Observation
    BY <1>3, SawFields
  <2> QED BY <1>1, <1>3, <2>1 DEF Saw, SameProc
<1>6. /\ l \in Host /\ l.events = Append(k.events, e) /\ l.pending = k.pending /\ l.proc = p
  <2>1. p \in Process /\ k \in Host /\ e \in Observation
    BY <1>1, <1>3, <1>5
  <2> HIDE DEF p, e, k
  <2> QED BY <2>1, SpeakingHost
<1>7. HostStep(k, l, n)
  <2>1. Running(k) /\ SameProc(k.proc, l.proc) /\ l.proc.phase = k.proc.phase
    <3> HIDE DEF p, k, l
    <3> QED BY <1>1, <1>3, <1>6 DEF Running, SameProc
  <2>2. e = Saw(k, "turn_ended", TRUE)
    OBVIOUS
  <2> HIDE DEF p, e, k, l
  <2> QED BY <1>3, <1>6, <2>1, <2>2, Speaks
<1>8. PumpStatus(h) = IF h.proc.phase = "idle" THEN l ELSE k
  <2>1. /\ Append(h.events, b) = h.events \o <<b>> \o <<>>
        /\ Append(Append(h.events, b), e) = h.events \o <<b>> \o <<e>>
    <3> HIDE DEF b, e
    <3> QED BY <1>1, <1>5, QueuedTwice
  <2>2. k = [h EXCEPT !.proc.announced = TRUE, !.events = h.events \o <<b>> \o <<>>]
    BY <1>1, <2>1 DEF Host
  <2>3. l = [h EXCEPT !.proc.announced = TRUE, !.events = h.events \o <<b>> \o <<e>>]
    BY <1>1, <2>1 DEF Host
  <2> HIDE DEF k, l
  <2> QED BY <1>5, <2>2, <2>3 DEF PumpStatus
<1> QED BY <1>4, <1>7, <1>8, HostStepTrans

\* A parsed line: perhaps boot evidence, and then at most one observation.
LEMMA SignalHost ==
  ASSUME NEW h \in Host, NEW n, Running(h), NEW phase \in Phases, NEW seen,
         \/ seen = <<>> /\ (phase = "running" => h.proc.phase = "running")
         \/ \E kind \in {"booted", "turn_started", "turn_ended"} :
              /\ seen = <<Saw(h, kind, FALSE)>>
              /\ phase = "running" => kind # "turn_ended"
              /\ kind = "turn_ended" => h.proc.phase = "running" /\ ~h.proc.degraded
  PROVE  HostStep(h, Signal(h, phase, seen), n)
<1> DEFINE p == [h.proc EXCEPT !.realEvidence = TRUE, !.phase = phase]
           b == Saw(h, "booted", FALSE)
           k == IF Evidence(h) = <<>> THEN h ELSE Push(h, b)
           a == h.events \o Evidence(h)
<1>1. p \in Process /\ SameProc(h.proc, p) /\ p.phase = phase /\ b \in Observation
      /\ h.events \in Seq(Observation) /\ h.proc \in Process
  BY HostTypes, ProcFields, SawFields
<1>2. /\ k \in Host /\ k.proc = h.proc /\ k.pending = h.pending /\ HostStep(h, k, n)
      /\ k.events = a /\ a \in Seq(Observation)
  <2>1. CASE Evidence(h) = <<>>
    <3>1. k = h /\ a = h.events
      BY <1>1, <2>1, ConcatEmptySeq
    <3>2. HostStep(h, h, n)
      BY DEF HostStep
    <3> QED BY <1>1, <3>1, <3>2
  <2>2. CASE Evidence(h) # <<>>
    <3>1. k = Push(h, b) /\ Evidence(h) = <<b>>
      BY <2>2 DEF Evidence
    <3>2. b = Saw(h, "booted", FALSE)
      OBVIOUS
    <3>3. /\ Push(h, b).proc = h.proc /\ Push(h, b).pending = h.pending
          /\ Push(h, b).events = Append(h.events, b) /\ Push(h, b) \in Host
      <4> HIDE DEF b
      <4>1. Append(h.events, b) \in Seq(Observation)
        BY <1>1
      <4> QED BY <4>1 DEF Push, Host
    <3>4. Append(h.events, b) = a /\ a \in Seq(Observation)
      <4> HIDE DEF b
      <4> QED BY <1>1, <3>1, AppendIsConcat
    <3>5. SameProc(h.proc, h.proc)
      BY DEF SameProc
    <3> HIDE DEF b, k, a
    <3> QED BY <1>1, <3>1, <3>2, <3>3, <3>4, <3>5, Speaks
  <2> QED BY <2>1, <2>2
<1>3. Signal(h, phase, seen) = [h EXCEPT !.events = a \o seen, !.proc = p]
  BY DEF Signal, Host
<1>4. k = [h EXCEPT !.events = a]
  BY <1>2 DEF Push, Host
<1> HIDE DEF k, a, p
<1>5. Running(k)
  BY <1>2 DEF Running
<1>6. CASE seen = <<>> /\ (phase = "running" => h.proc.phase = "running")
  <2>1. a \o seen = a
    BY <1>2, <1>6, ConcatEmptySeq
  <2> DEFINE l == [h EXCEPT !.events = a, !.proc = p]
  <2>2. l \in Host /\ l.events = a /\ l.proc = p /\ l.pending = h.pending
    BY <1>1, <1>2 DEF Host
  <2> HIDE DEF l
  <2>3. HostStep(k, l, n)
    BY <1>1, <1>2, <1>6, <2>2, Notes
  <2>4. Signal(h, phase, seen) = l
    BY <1>3, <2>1 DEF l
  <2> QED BY <1>2, <2>3, <2>4, HostStepTrans
<1>7. ASSUME NEW kind \in {"booted", "turn_started", "turn_ended"},
             seen = <<Saw(h, kind, FALSE)>>,
             phase = "running" => kind # "turn_ended",
             kind = "turn_ended" => h.proc.phase = "running" /\ ~h.proc.degraded
      PROVE  HostStep(h, Signal(h, phase, seen), n)
  <2> DEFINE e == Saw(h, kind, FALSE)
             q == Append(a, e)
             l == [h EXCEPT !.events = q, !.proc = p]
  <2>1. e \in Observation /\ e = Saw(k, kind, FALSE)
    BY <1>2, SawFields DEF Saw
  <2>2. q = a \o seen /\ q \in Seq(Observation)
    <3>1. seen = <<e>>
      BY <1>7
    <3>2. a \in Seq(Observation) /\ e \in Observation
      BY <1>2, <2>1
    <3> HIDE DEF e
    <3>3. Append(a, e) = a \o <<e>> /\ Append(a, e) \in Seq(Observation)
      BY <3>2, AppendIsConcat
    <3> QED BY <3>1, <3>3
  <2> HIDE DEF q
  <2>3. l \in Host /\ l.events = q /\ l.proc = p /\ l.pending = h.pending
    BY <1>1, <2>2 DEF Host
  <2>4. Signal(h, phase, seen) = l
    BY <1>3, <2>2
  <2>5. l.events = Append(k.events, Saw(k, kind, FALSE))
    BY <1>2, <2>1, <2>3 DEF q
  <2> HIDE DEF l, e
  <2>6. HostStep(k, l, n)
    BY <1>1, <1>2, <1>5, <1>7, <2>3, <2>5, Speaks
  <2> QED BY <1>2, <2>4, <2>6, HostStepTrans
<1> QED BY <1>6, <1>7

\* onSignal.  A turn that ends was running.
LEMMA SignalsHost ==
  ASSUME NEW h \in Host, NEW n, Running(h)
  PROVE  /\ HostStep(h, SignalBooted(h), n) /\ HostStep(h, SignalTurnStarted(h), n)
         /\ h.proc.phase = "running" /\ ~h.proc.degraded => HostStep(h, SignalTurnEnded(h), n)
<1>1. h.proc.phase \in Phases /\ "running" \in Phases /\ "idle" \in Phases
  BY HostTypes DEF Phases
<1>2. HostStep(h, SignalBooted(h), n)
  <2>1. CASE h.proc.phase = "booting"
    <3>1. HostStep(h, Signal(h, "running", <<Saw(h, "booted", FALSE)>>), n)
      BY <1>1, SignalHost
    <3> QED BY <2>1, <3>1 DEF SignalBooted
  <2>2. CASE h.proc.phase # "booting"
    <3>1. HostStep(h, Signal(h, h.proc.phase, <<>>), n)
      BY <1>1, SignalHost
    <3> QED BY <2>2, <3>1 DEF SignalBooted
  <2> QED BY <2>1, <2>2
<1>3. HostStep(h, SignalTurnStarted(h), n)
  BY <1>1, SignalHost DEF SignalTurnStarted
<1>4. ASSUME h.proc.phase = "running", ~h.proc.degraded
      PROVE  HostStep(h, SignalTurnEnded(h), n)
  BY <1>1, <1>4, SignalHost DEF SignalTurnEnded
<1> QED BY <1>2, <1>3, <1>4

\* deliver.
LEMMA DeliverHost ==
  ASSUME NEW h \in Host, NEW n, Running(h)
  PROVE  HostStep(h, Deliver(h), n)
<1>1. CASE h.proc.phase # "idle"
  <2>1. HostStep(h, h, n)
    BY DEF HostStep
  <2> QED BY <1>1, <2>1 DEF Deliver
<1>2. CASE h.proc.phase = "idle"
  <2> DEFINE e == Saw(h, "turn_started", TRUE)
             p == [h.proc EXCEPT !.phase = "running"]
             k == [[h EXCEPT !.events = Append(@, e)] EXCEPT !.proc = p]
  <2>1. p \in Process /\ SameProc(h.proc, p) /\ p.phase = "running" /\ e \in Observation
    BY HostTypes, ProcFields, SawFields DEF Phases
  <2>2. k \in Host /\ k.events = Append(h.events, e) /\ k.pending = h.pending /\ k.proc = p
    <3> HIDE DEF p, e
    <3> QED BY <2>1, SpeakingHost
  <2>3. Deliver(h) = k
    BY <1>2 DEF Deliver, Push, Host
  <2>4. k.events = Append(h.events, Saw(h, "turn_started", TRUE))
    BY <2>2
  <2> HIDE DEF k, p, e
  <2> QED BY <2>1, <2>2, <2>3, <2>4, Speaks
<1> QED BY <1>1, <1>2

\* A fresh process is in no turn.
LEMMA FreshProcess ==
  ASSUME NEW k, NEW g \in Nat
  PROVE  /\ NewProcess(g).generation = g /\ NewProcess(g).phase # "running"
         /\ NoProcess.generation = 0 /\ NoStart.generation = 0
         /\ k.proc = NewProcess(g) \/ k.proc = NoProcess => \A m \in Nat : ~InTurn(k, m)
<1>1. NewProcess(g).generation = g /\ NewProcess(g).phase # "running"
  BY DEF NewProcess, NoProcess
<1>2. NoProcess.generation = 0 /\ NoProcess.phase # "running" /\ NoStart.generation = 0
  BY DEF NoProcess, NoStart
<1> QED BY <1>1, <1>2 DEF InTurn

\* launch.
LEMMA LaunchHost ==
  ASSUME NEW h \in Host, NEW n, NEW g \in Nat, Bounded(h, n) => g <= n
  PROVE  Launch(h, g) \in Host /\ HostStep(h, Launch(h, g), n)
<1> DEFINE w == [generation |-> g, preparing |-> FALSE]
<1>2. w \in PendingStart /\ w.generation = g
  BY DEF PendingStart
<1>3. NewProcess(g) \in Process /\ NewProcess(g).generation = g
  BY NoProcessType, FreshProcess
<1> HIDE DEF w
<1>4. CASE Running(h)
  <2> DEFINE k == [h EXCEPT !.pending = w]
  <2>1. k \in Host /\ k.events = h.events /\ k.proc = h.proc /\ k.pending = w
    BY <1>2 DEF Host
  <2>2. Launch(h, g) = k
    BY <1>4 DEF Launch, w
  <2> HIDE DEF k
  <2>3. \A m \in Nat : (ProcOf(h, m) => ProcOf(k, m)) /\ (InTurn(k, m) => InTurn(h, m))
    BY <2>1 DEF ProcOf, Running, InTurn
  <2>4. Bounded(h, n) => k.proc.generation <= n /\ k.pending.generation <= n
    BY <1>2, <2>1 DEF Bounded
  <2> QED BY <2>1, <2>2, <2>3, <2>4, QueuesNothing
<1>5. CASE ~Running(h)
  <2> DEFINE k == [h EXCEPT !.proc = NewProcess(g)]
  <2>1. k \in Host /\ k.events = h.events /\ k.proc = NewProcess(g) /\ k.pending = h.pending
    BY <1>3 DEF Host
  <2>2. Launch(h, g) = k
    BY <1>5 DEF Launch
  <2> HIDE DEF k
  <2>3. \A m \in Nat : ~ProcOf(h, m) /\ ~InTurn(k, m)
    BY <1>5, <2>1, FreshProcess DEF ProcOf
  <2>4. Bounded(h, n) => k.proc.generation <= n /\ k.pending.generation <= n
    BY <1>3, <2>1 DEF Bounded
  <2> QED BY <2>1, <2>2, <2>3, <2>4, QueuesNothing
<1> QED BY <1>4, <1>5

\* start.
LEMMA StartHost ==
  ASSUME NEW h \in Host, NEW n, NEW g \in Nat, Bounded(h, n) => g <= n
  PROVE  HostStep(h, Start(h, g), n)
<1> DEFINE w == [generation |-> g, preparing |-> TRUE]
           k == [h EXCEPT !.pending = w]
<1>1. w \in PendingStart /\ w.generation = g
  BY DEF PendingStart
<1>2. Start(h, g) = k \/ Start(h, g) = Launch(h, g)
  BY DEF Start
<1> HIDE DEF w
<1>3. k \in Host /\ k.events = h.events /\ k.proc = h.proc /\ k.pending = w
  BY <1>1 DEF Host
<1> HIDE DEF k
<1>4. \A m \in Nat : (ProcOf(h, m) => ProcOf(k, m)) /\ (InTurn(k, m) => InTurn(h, m))
  BY <1>3 DEF ProcOf, Running, InTurn
<1>5. Bounded(h, n) => k.proc.generation <= n /\ k.pending.generation <= n
  BY <1>1, <1>3 DEF Bounded
<1>6. HostStep(h, k, n)
  BY <1>3, <1>4, <1>5, QueuesNothing
<1> QED BY <1>2, <1>6, LaunchHost

\* An exit that is reported.
LEMMA ExitFields ==
  ASSUME NEW g \in Nat, NEW cause \in StopCauses \union {"clean", "crashed"}
  PROVE  /\ Exited(g, cause) \in Observation /\ Exited(g, cause).generation = g
         /\ Exited(g, cause).kind = "exited" /\ Left(Exited(g, cause), g)
         /\ \A m \in Nat : ~RealTurnEnd(Exited(g, cause), m) /\ ~Spoke(Exited(g, cause), m)
<1>1. Exited(g, cause) \in Observation
  BY DEF Exited, Observation, StopCauses
<1> QED BY <1>1 DEF Exited, Left, RealTurnEnd, Spoke

\* The process is forgotten, its exit reported.
Gone(h, cause) == Push([h EXCEPT !.proc = NoProcess], Exited(h.proc.generation, cause))

\* It is gone, and its exit is queued.
LEMMA GoneHost ==
  ASSUME NEW h \in Host, NEW n \in Nat, NEW cause \in StopCauses \union {"clean", "crashed"}
  PROVE  /\ Gone(h, cause) \in Host /\ HostStep(h, Gone(h, cause), n)
         /\ Gone(h, cause).proc = NoProcess /\ Gone(h, cause).pending = h.pending
         /\ Gone(h, cause).events = Append(h.events, Exited(h.proc.generation, cause))
         /\ Gone(h, cause).orphans = h.orphans
<1> DEFINE e == Exited(h.proc.generation, cause)
           k == Gone(h, cause)
           q == Append(h.events, e)
<1>1. h.proc.generation \in Nat /\ h.events \in Seq(Observation) /\ NoProcess \in Process
  BY HostTypes, NoProcessType
<1>2. /\ e \in Observation /\ e.generation = h.proc.generation /\ e.kind = "exited"
      /\ \A m \in Nat : ~RealTurnEnd(e, m)
  BY <1>1, ExitFields
<1> HIDE DEF e
<1>3. q \in Seq(Observation)
  BY <1>1, <1>2
<1>4. k = [[h EXCEPT !.proc = NoProcess] EXCEPT !.events = q]
  BY DEF Gone, Push, Host, e
<1> HIDE DEF q
<1>5. k \in Host /\ k.proc = NoProcess /\ k.pending = h.pending /\ k.events = q
      /\ k.orphans = h.orphans
  BY <1>1, <1>3, <1>4 DEF Host
<1> HIDE DEF k
<1>6. \A m \in Nat : /\ ProcOf(h, m) => Left(e, m)
                     /\ ~InTurn(k, m)
  BY <1>2, <1>5, FreshProcess DEF ProcOf, Left
<1>7. Bounded(h, n) => k.proc.generation <= n /\ k.pending.generation <= n /\ e.generation <= n
  BY <1>2, <1>5, FreshProcess DEF Bounded
<1>8. HostStep(h, k, n)
  BY <1>2, <1>5, <1>6, <1>7, QueuesOne DEF q
<1> QED BY <1>5, <1>8 DEF k, q, e

\* A start is forgotten.
LEMMA FreeHost ==
  ASSUME NEW h \in Host, NEW n \in Nat
  PROVE  LET k == [h EXCEPT !.pending = NoStart]
         IN  /\ k \in Host /\ HostStep(h, k, n) /\ k.proc = h.proc /\ k.pending = NoStart
             /\ k.events = h.events /\ k.orphans = h.orphans
             /\ \A g \in Nat : ProcOf(k, g) <=> ProcOf(h, g)
<1> DEFINE k == [h EXCEPT !.pending = NoStart]
<1>1. /\ k \in Host /\ k.proc = h.proc /\ k.pending = NoStart /\ k.events = h.events
      /\ k.orphans = h.orphans
  BY NoProcessType DEF Host
<1> HIDE DEF k
<1>2. \A g \in Nat : (ProcOf(k, g) <=> ProcOf(h, g)) /\ (InTurn(k, g) => InTurn(h, g))
  BY <1>1 DEF ProcOf, Running, InTurn
<1>3. Bounded(h, n) => k.proc.generation <= n /\ k.pending.generation <= n
  BY <1>1, FreshProcess DEF Bounded
<1>4. HostStep(h, k, n)
  BY <1>1, <1>2, <1>3, QueuesNothing
<1> QED BY <1>1, <1>2, <1>4 DEF k

\* A start that will not happen is reported as an exit.
LEMMA FailedStart ==
  ASSUME NEW h \in Host, NEW n \in Nat, NEW cause \in StopCauses \union {"clean", "crashed"},
         NEW g \in Nat, Bounded(h, n), g <= n
  PROVE  LET k == Push([h EXCEPT !.pending = NoStart], Exited(g, cause))
         IN  /\ k \in Host /\ HostStep(h, k, n) /\ k.proc = h.proc /\ k.pending = NoStart
             /\ k.events = Append(h.events, Exited(g, cause)) /\ k.orphans = h.orphans
<1> DEFINE f == [h EXCEPT !.pending = NoStart]
           e == Exited(g, cause)
           k == Push(f, e)
           q == Append(f.events, e)
<1>1. /\ f \in Host /\ HostStep(h, f, n) /\ f.proc = h.proc /\ f.pending = NoStart
      /\ f.events = h.events /\ f.orphans = h.orphans
  BY FreeHost
<1>2. /\ e \in Observation /\ e.generation = g /\ e.kind = "exited"
      /\ \A m \in Nat : ~RealTurnEnd(e, m)
  BY ExitFields
<1> HIDE DEF f, e
<1>3. q \in Seq(Observation)
  BY <1>1, <1>2, HostTypes
<1>4. k = [f EXCEPT !.events = q]
  BY DEF Push
<1> HIDE DEF q
<1>5. k \in Host /\ k.proc = f.proc /\ k.pending = f.pending /\ k.events = q
      /\ k.orphans = f.orphans
  BY <1>1, <1>3, <1>4 DEF Host
<1> HIDE DEF k
<1>6. \A m \in Nat : (ProcOf(f, m) => ProcOf(k, m)) /\ (InTurn(k, m) => InTurn(f, m))
  BY <1>5 DEF ProcOf, Running, InTurn
<1>7. Bounded(f, n)
  BY <1>1 DEF HostStep
<1>8. k.proc.generation <= n /\ k.pending.generation <= n /\ e.generation <= n
  BY <1>2, <1>5, <1>7 DEF Bounded
<1>9. HostStep(f, k, n)
  BY <1>1, <1>2, <1>5, <1>6, <1>8, QueuesOne DEF q
<1>10. HostStep(h, k, n)
  BY <1>1, <1>9, HostStepTrans
<1> QED BY <1>1, <1>5, <1>10 DEF k, q, f, e

\* onExit: gone, and the start that waited is launched.
LEMMA OnExitCases ==
  ASSUME NEW h \in Host, NEW code \in {"clean", "crashed"}
  PROVE  \E cause \in StopCauses \union {"clean", "crashed"} :
           /\ \/ cause = code
              \/ Stopping(h) /\ cause = h.proc.stopCause
           /\ OnExit(h, code) =
                IF StartPending(h) /\ ~h.pending.preparing
                  THEN Launch([Gone(h, cause) EXCEPT !.pending = NoStart], h.pending.generation)
                  ELSE Gone(h, cause)
<1> DEFINE cause == IF Stopping(h) THEN h.proc.stopCause ELSE code
<1>1. cause \in StopCauses \union {"clean", "crashed"}
  BY HostTypes DEF Stopping
<1>2. OnExit(h, code) =
        IF StartPending(h) /\ ~h.pending.preparing
          THEN Launch([Gone(h, cause) EXCEPT !.pending = NoStart], h.pending.generation)
          ELSE Gone(h, cause)
  BY DEF OnExit, Gone
<1>3. cause = code \/ (Stopping(h) /\ cause = h.proc.stopCause)
  OBVIOUS
<1> QED BY <1>1, <1>2, <1>3

\* onExit keeps what is known.
LEMMA OnExitHost ==
  ASSUME NEW h \in Host, NEW n \in Nat, NEW code \in {"clean", "crashed"}, Bounded(h, n)
  PROVE  HostStep(h, OnExit(h, code), n)
<1>1. PICK cause \in StopCauses \union {"clean", "crashed"} :
        OnExit(h, code) =
          IF StartPending(h) /\ ~h.pending.preparing
            THEN Launch([Gone(h, cause) EXCEPT !.pending = NoStart], h.pending.generation)
            ELSE Gone(h, cause)
  BY OnExitCases
<1> DEFINE k == Gone(h, cause)
           f == [k EXCEPT !.pending = NoStart]
<1>2. k \in Host /\ HostStep(h, k, n) /\ k.pending = h.pending
  BY GoneHost
<1> HIDE DEF k
<1>3. f \in Host /\ HostStep(k, f, n)
  BY <1>2, FreeHost
<1> HIDE DEF f
<1>4. h.pending.generation \in Nat /\ HostStep(h, f, n)
  BY <1>2, <1>3, HostTypes, HostStepTrans
<1>5. HostStep(f, Launch(f, h.pending.generation), n)
  BY <1>3, <1>4, LaunchHost DEF Bounded
<1>6. HostStep(h, Launch(f, h.pending.generation), n)
  BY <1>4, <1>5, HostStepTrans
<1> QED BY <1>1, <1>2, <1>6 DEF f, k

\* stop.
LEMMA StopHost ==
  ASSUME NEW h \in Host, NEW n \in Nat, NEW g \in Nat, NEW cause \in StopCauses,
         NEW dead \in BOOLEAN, Bounded(h, n)
  PROVE  HostStep(h, Stop(h, g, cause, dead), n)
<1> DEFINE p == [h.proc EXCEPT !.stopCause = cause, !.signalled = TRUE]
           k == [h EXCEPT !.proc = p]
           f == Push([h EXCEPT !.pending = NoStart], Exited(g, cause))
<1>1. p \in Process /\ SameProc(h.proc, p) /\ p.phase = h.proc.phase
  BY HostTypes, ProcFields
<1>2. \/ Stop(h, g, cause, dead) = f /\ h.pending.generation = g
      \/ Stop(h, g, cause, dead) = h
      \/ Stop(h, g, cause, dead) = OnExit(h, "crashed")
      \/ Stop(h, g, cause, dead) = k
  BY DEF Stop
<1> HIDE DEF p
<1>3. k \in Host /\ k.proc = p /\ k.pending = h.pending /\ k.events = h.events
  BY <1>1 DEF Host
<1> HIDE DEF k
<1>4. HostStep(h, k, n)
  BY <1>1, <1>3, Notes
<1>5. h.pending.generation = g => HostStep(h, f, n)
  BY FailedStart DEF Bounded
<1>6. HostStep(h, h, n)
  BY DEF HostStep
<1> HIDE DEF f
<1> QED BY <1>2, <1>4, <1>5, <1>6, OnExitHost

\* The end of a preparation.
LEMMA PreparedHost ==
  ASSUME NEW h \in Host, NEW n \in Nat, NEW ok \in BOOLEAN, Bounded(h, n)
  PROVE  HostStep(h, Prepared(h, ok), n)
<1> DEFINE f == [h EXCEPT !.pending = NoStart]
           e == Push(f, Exited(h.pending.generation, "crashed"))
<1>1. Prepared(h, ok) = Launch(f, h.pending.generation) \/ Prepared(h, ok) = e
  BY DEF Prepared
<1>2. h.pending.generation \in Nat /\ h.pending.generation <= n
  BY HostTypes DEF Bounded
<1>3. HostStep(h, e, n)
  BY <1>2, FailedStart
<1>4. f \in Host /\ HostStep(h, f, n)
  BY FreeHost
<1> HIDE DEF f, e
<1>5. HostStep(h, Launch(f, h.pending.generation), n)
  BY <1>2, <1>4, LaunchHost, HostStepTrans
<1> QED BY <1>1, <1>3, <1>5

\* The end of an orphan.
LEMMA OrphanHost ==
  ASSUME NEW h \in Host, NEW n, NEW o \in SUBSET Nat
  PROVE  HostStep(h, [h EXCEPT !.orphans = o], n)
<1> DEFINE k == [h EXCEPT !.orphans = o]
<1>1. k \in Host /\ k.proc = h.proc /\ k.pending = h.pending /\ k.events = h.events
  BY DEF Host
<1>2. SameProc(h.proc, h.proc)
  BY DEF SameProc
<1> HIDE DEF k
<1>3. HostStep(h, k, n)
  BY <1>1, <1>2, Notes
<1> QED BY <1>3 DEF k

\* Every callback of the driver keeps what is known of every generation.
LEMMA CallbackHost ==
  ASSUME NEW n \in Nat, host \in Host, Bounded(host, n), HostCallback
  PROVE  HostStep(host, host', n)
<1>1. CASE HostBooted
  BY <1>1, SignalsHost DEF HostBooted, Heard, Callback
<1>2. CASE HostReady
  BY <1>2, PumpHost DEF HostReady, Heard, Callback
<1>3. CASE HostTurnEnded
  BY <1>3, SignalsHost DEF HostTurnEnded, Heard, Callback
<1>4. CASE HostTurnStarted
  BY <1>4, SignalsHost DEF HostTurnStarted, Heard, Callback
<1>5. CASE HostExit
  BY <1>5, OnExitHost DEF HostExit, Callback
<1>6. CASE HostPrepared
  BY <1>6, PreparedHost DEF HostPrepared, Callback
<1>7. CASE OrphanExit
  <2>1. PICK g \in host.orphans : host' = [host EXCEPT !.orphans = host.orphans \ {g}]
    BY <1>7 DEF OrphanExit, Callback
  <2>2. host.orphans \ {g} \in SUBSET Nat
    BY HostTypes
  <2> QED BY <2>1, <2>2, OrphanHost
<1> QED BY <1>1, <1>2, <1>3, <1>4, <1>5, <1>6, <1>7 DEF HostCallback

-----------------------------------------------------------------------------
(* The fold of an observation. *)

\* observe() takes the oldest observation off the queue.
LEMMA Popped ==
  ASSUME NEW h \in Host, h.events # <<>>, NEW n, NEW g \in Nat
  PROVE  LET k == [h EXCEPT !.events = Tail(@)]
             e == Head(h.events)
         IN  /\ k \in Host /\ k.proc = h.proc /\ k.pending = h.pending /\ k.orphans = h.orphans
             /\ Bounded(h, n) => Bounded(k, n) /\ e.generation <= n
             /\ Ends(h, g) => Ends(k, g)
             /\ Ends(h, g) /\ e.generation = g /\ e.kind # "exited" => Present(k, g)
             /\ Present(h, g) /\ ~Left(e, g) => Present(k, g)
             /\ Proves(h, g) => ~RealTurnEnd(e, g)
             /\ Proves(h, g) /\ ~Spoke(e, g) => Proves(k, g)
             /\ \A m \in Nat : ExitOf(k, m) => ExitOf(h, m)
<1> DEFINE a == h.events
           q == Tail(a)
           e == Head(a)
           k == [h EXCEPT !.events = q]
<1>1. a \in Seq(Observation) /\ a # <<>>
  BY HostTypes
<1> HIDE DEF a
<1>2. /\ q \in Seq(Observation) /\ 1 \in DOMAIN a /\ e = a[1]
      /\ \A i \in DOMAIN q : i \in Nat \ {0} /\ i + 1 \in DOMAIN a /\ q[i] = a[i + 1]
      /\ \A i \in DOMAIN a : i \in Nat \ {0} /\ (i = 1 \/ (i - 1 \in DOMAIN q /\ q[i - 1] = a[i]))
  BY <1>1
<1> HIDE DEF q, e
<1>3. k \in Host /\ k.proc = h.proc /\ k.pending = h.pending /\ k.orphans = h.orphans
      /\ k.events = q
  BY <1>2 DEF Host
<1> HIDE DEF k
<1>4. /\ ProcOf(k, g) <=> ProcOf(h, g)
      /\ InTurn(k, g) <=> InTurn(h, g)
  BY <1>3 DEF ProcOf, Running, InTurn
<1>5. Bounded(h, n) => Bounded(k, n) /\ e.generation <= n
  BY <1>2, <1>3 DEF Bounded, a
<1>6. ASSUME Ends(h, g) PROVE Ends(k, g)
  <2> SUFFICES ASSUME NEW i \in DOMAIN q, q[i].generation = g, q[i].kind # "exited", ~ProcOf(k, g)
               PROVE  \E j \in DOMAIN q : j > i /\ Left(q[j], g)
    BY <1>3 DEF Ends
  <2>1. PICK j \in DOMAIN a : j > i + 1 /\ Left(a[j], g)
    BY <1>2, <1>4, <1>6 DEF Ends, a
  <2>2. j - 1 \in DOMAIN q /\ q[j - 1] = a[j] /\ j - 1 > i
    BY <1>2, <2>1
  <2> QED BY <2>1, <2>2
<1>7. ASSUME Ends(h, g), e.generation = g, e.kind # "exited" PROVE Present(k, g)
  <2>1. CASE ProcOf(h, g)
    BY <1>4, <2>1 DEF Present
  <2>2. CASE \E j \in DOMAIN a : j > 1 /\ Left(a[j], g)
    <3>1. PICK j \in DOMAIN a : j > 1 /\ Left(a[j], g)
      BY <2>2
    <3>2. j - 1 \in DOMAIN q /\ q[j - 1] = a[j]
      BY <1>2, <3>1
    <3> QED BY <1>3, <3>1, <3>2 DEF Present, ExitOf
  <2> QED BY <1>2, <1>7, <2>1, <2>2 DEF Ends, a
<1>8. ASSUME Present(h, g), ~Left(e, g) PROVE Present(k, g)
  <2>1. CASE ProcOf(h, g)
    BY <1>4, <2>1 DEF Present
  <2>2. CASE \E j \in DOMAIN a : Left(a[j], g)
    <3>1. PICK j \in DOMAIN a : Left(a[j], g)
      BY <2>2
    <3>2. j - 1 \in DOMAIN q /\ q[j - 1] = a[j]
      BY <1>2, <1>8, <3>1
    <3> QED BY <1>3, <3>1, <3>2 DEF Present, ExitOf
  <2> QED BY <1>8, <2>1, <2>2 DEF Present, ExitOf, a
<1>9. ASSUME Proves(h, g) PROVE ~RealTurnEnd(e, g)
  <2>1. \A j \in DOMAIN a : ~(j < 1)
    BY <1>2
  <2> QED BY <1>2, <1>9, <2>1 DEF Proves, a
<1>10. ASSUME Proves(h, g), ~Spoke(e, g) PROVE Proves(k, g)
  <2>1. ASSUME NEW j \in DOMAIN a, Spoke(a[j], g)
        PROVE  j - 1 \in DOMAIN q /\ Spoke(q[j - 1], g)
    BY <1>2, <1>10, <2>1
  <2>2. InTurn(k, g) => \E j \in DOMAIN q : Spoke(q[j], g)
    BY <1>4, <1>10, <2>1 DEF Proves, a
  <2>3. ASSUME NEW i \in DOMAIN q, RealTurnEnd(q[i], g)
        PROVE  \E j \in DOMAIN q : j < i /\ Spoke(q[j], g)
    <3>1. i + 1 \in DOMAIN a /\ RealTurnEnd(a[i + 1], g) /\ i \in Nat
      BY <1>2, <2>3
    <3>2. PICK j \in DOMAIN a : j < i + 1 /\ Spoke(a[j], g)
      BY <1>10, <3>1 DEF Proves, a
    <3>3. j - 1 \in DOMAIN q /\ Spoke(q[j - 1], g) /\ j - 1 < i
      BY <1>2, <2>1, <3>1, <3>2
    <3> QED BY <3>3
  <2> QED BY <1>3, <2>2, <2>3 DEF Proves
<1>11. \A m \in Nat : ExitOf(k, m) => ExitOf(h, m)
  BY <1>2, <1>3 DEF ExitOf, a
<1> QED BY <1>3, <1>5, <1>6, <1>7, <1>8, <1>9, <1>10, <1>11 DEF k, q, e, a

-----------------------------------------------------------------------------
(* Counted failures. *)

\* The generations of a store that may be held against the bee.
Blamed(s) ==
  {g \in DOMAIN s.runtimes :
     /\ s.runtimes[g].evidence # "real"
     /\ \/ s.runtimes[g].exitCause \in {"crashed", "clean"}
        \/ /\ s.runtimes[g].exitCause = "stopped_by_system"
           /\ \E i \in StopsOf(s, g) : s.commands[i].kind = "hang"}

\* A runtime that is still booting has not proven itself.
Unproven(s) == Current(s).state = "booting" => Current(s).evidence # "real"

\* What is known of a stopped runtime stays: its row, and its boot-hang stop.
\* (A stop that is skipped aims at a live one.)
Remembers(s, r) ==
  /\ \A g \in DOMAIN s.runtimes :
       s.runtimes[g].state = "stopped" =>
         g \in DOMAIN r.runtimes /\ r.runtimes[g] = s.runtimes[g]
  /\ \A i \in DOMAIN s.commands :
       s.commands[i].kind = "hang" /\ ~(Live(s) /\ s.commands[i].target = Generation(s)) =>
         r.commands[i].kind = "hang"

\* The counter starts again, stays, or counts the current runtime.
Earned(s, r) ==
  /\ Remembers(s, r)
  /\ \/ r.failures = 0
     \/ r.failures = s.failures
     \/ r.failures = s.failures + 1 /\ Live(s) /\ Generation(s) \in Blamed(r)

\* What is held against the bee is not forgotten.
LEMMA BlamedGrows ==
  ASSUME NEW s, NEW r, StoreInv(s), r \in Store, Evolves(s, r), Remembers(s, r)
  PROVE  Blamed(s) \subseteq Blamed(r)
<1> SUFFICES ASSUME NEW g \in Blamed(s) PROVE g \in Blamed(r)
  OBVIOUS
<1>1. s \in Store /\ g \in DOMAIN s.runtimes
  BY DEF StoreInv, Blamed
<1>2. s.runtimes[g].state = "stopped"
  BY <1>1 DEF Blamed, StoreInv, Closed
<1>3. g \in DOMAIN r.runtimes /\ r.runtimes[g] = s.runtimes[g]
  BY <1>1, <1>2 DEF Remembers
<1>4. ASSUME NEW i \in StopsOf(s, g), s.commands[i].kind = "hang"
      PROVE  i \in StopsOf(r, g) /\ r.commands[i].kind = "hang"
  <2>1. i \in DOMAIN s.commands /\ s.commands[i].verb = "stop" /\ s.commands[i].target = g
    BY DEF StopsOf
  <2>2. ~(Live(s) /\ s.commands[i].target = Generation(s))
    BY <1>2, <2>1 DEF Live, Current, LiveStates
  <2>3. r.commands[i].kind = "hang"
    BY <1>4, <2>1, <2>2 DEF Remembers
  <2> QED BY <1>1, <2>1, <2>3, EvolvesBack DEF StopsOf
<1> QED BY <1>3, <1>4 DEF Blamed

\* A generation is held against the bee only once.
LEMMA EarnedKeeps ==
  ASSUME NEW s, NEW r, StoreInv(s), StoreInv(r), Evolves(s, r), Earned(s, r),
         s.failures <= Cardinality(Blamed(s))
  PROVE  r.failures <= Cardinality(Blamed(r))
<1>1. s \in Store /\ r \in Store /\ Generation(r) \in Nat /\ s.failures \in Nat
      /\ DOMAIN r.runtimes = 1..Generation(r)
  BY FieldTypes DEF StoreInv
<1>2. Blamed(s) \subseteq Blamed(r) /\ Blamed(r) \subseteq 1..Generation(r)
  <2>1. Blamed(s) \subseteq Blamed(r)
    BY <1>1, BlamedGrows DEF Earned
  <2> QED BY <1>1, <2>1 DEF Blamed
<1>3. IsFiniteSet(1..Generation(r))
  BY <1>1, FS_Interval
<1>4. IsFiniteSet(Blamed(r)) /\ IsFiniteSet(Blamed(s))
  BY <1>2, <1>3, FS_Subset
<1>5. Cardinality(Blamed(r)) \in Nat /\ Cardinality(Blamed(s)) \in Nat
      /\ Cardinality(Blamed(s)) <= Cardinality(Blamed(r))
  BY <1>2, <1>4, FS_CardinalityType, FS_Subset
<1>6. CASE r.failures = 0 \/ r.failures = s.failures
  BY <1>1, <1>5, <1>6
<1>7. CASE r.failures = s.failures + 1 /\ Live(s) /\ Generation(s) \in Blamed(r)
  <2> DEFINE g == Generation(s)
             B == Blamed(s) \union {g}
  <2>1. g \notin Blamed(s)
    <3>1. Current(s).exitCause = "none"
      BY <1>7, CurrentType DEF Live
    <3> QED BY <3>1 DEF Blamed, Current
  <2>2. Cardinality(B) = Cardinality(Blamed(s)) + 1
    <3> HIDE DEF g
    <3> QED BY <1>4, <2>1, FS_AddElement
  <2>3. B \subseteq Blamed(r)
    BY <1>2, <1>7
  <2> HIDE DEF B
  <2>4. Cardinality(B) <= Cardinality(Blamed(r))
    BY <1>4, <2>3, FS_Subset
  <2> QED BY <1>1, <1>5, <1>7, <2>2, <2>4
<1> QED BY <1>6, <1>7 DEF Earned

\* updateRuntimeState counts a boot that failed.
LEMMA UpdateEarns ==
  ASSUME NEW s, BeeInv(s), Exists(s), Live(s),
         NEW state \in RuntimeStates, NEW cause \in ExitCauses \union {"none"},
         state = "stopped" => Unproven(s),
         state = "stopped" <=> cause # "none", NEW synthetic \in BOOLEAN, NEW pid \in BOOLEAN
  PROVE  Earned(s, UpdateRuntimeState(s, Generation(s), state, cause, synthetic, pid))
<1> DEFINE r == UpdateRuntimeState(s, Generation(s), state, cause, synthetic, pid)
           rt == Current(s)
           evidence == IF rt.state = "booting" /\ state = "running" /\ rt.evidence # "real"
                         THEN IF synthetic THEN "synthetic" ELSE "real"
                         ELSE rt.evidence
           row == [state |-> state, exitCause |-> cause, evidence |-> evidence,
                   pid |-> rt.pid \/ pid]
           moved == SetCurrent(s, row)
           counts == state = "stopped" /\ CountsAsSpawnFailure(s, Generation(s), cause)
<1>1. s \in Store /\ StoreInv(s) /\ Generation(s) \in Nat \ {0} /\ rt \in Runtime
      /\ Generation(s) \in DOMAIN s.runtimes /\ DOMAIN s.runtimes = 1..Generation(s)
  BY CurrentType, FieldTypes DEF BeeInv, StoreInv
<1>2. SetsCurrent(s, r, state, cause)
  BY <1>1, UpdateSets
<1>3. \/ r = moved
      \/ counts /\ r = ApplySpawnFailure(moved)
      \/ r = ApplySpawnFailuresReset(moved)
  BY DEF UpdateRuntimeState
<1>4. Remembers(s, r)
  <2> HIDE DEF r
  <2>1. ASSUME NEW g \in DOMAIN s.runtimes, s.runtimes[g].state = "stopped"
        PROVE  g \in DOMAIN r.runtimes /\ r.runtimes[g] = s.runtimes[g]
    <3>1. g # Generation(s)
      BY <2>1 DEF Live, Current, LiveStates
    <3>2. DOMAIN r.runtimes = 1..Generation(s)
      BY <1>2, FieldTypes DEF SetsCurrent
    <3> QED BY <1>1, <1>2, <3>1, <3>2 DEF SetsCurrent
  <2> QED BY <1>2, <2>1 DEF Remembers, SetsCurrent
<1>5. counts => evidence # "real"
  BY DEF CountsAsSpawnFailure, Unproven
<1>6. evidence \in {"none", "synthetic", "real"} /\ (rt.pid \/ pid) \in BOOLEAN
  BY <1>1 DEF Runtime
<1>7. row \in Runtime /\ row.evidence = evidence
  <2> HIDE DEF evidence
  <2> QED BY <1>6 DEF Runtime
<1> HIDE DEF row, evidence
<1>8. moved \in Store /\ Generation(moved) = Generation(s) /\ Current(moved) = row
      /\ moved.failures = s.failures
  <2>1. SetsCurrent(s, moved, row.state, row.exitCause)
    BY <1>1, <1>7, SetCurrentSets
  <2>2. moved = [s EXCEPT !.runtimes[Generation(s)] = row]
    BY DEF SetCurrent
  <2>3. moved.runtimes = [s.runtimes EXCEPT ![Generation(s)] = row] /\ moved.failures = s.failures
    BY <1>1, <2>2 DEF Store
  <2>4. moved \in Store /\ Generation(moved) = Generation(s)
    BY <2>1 DEF SetsCurrent
  <2> HIDE DEF moved
  <2> QED BY <1>1, <2>3, <2>4 DEF Current
<1> HIDE DEF moved
<1>9. /\ ApplySpawnFailure(moved).failures = s.failures + 1
      /\ ApplySpawnFailuresReset(moved).failures = 0
  BY <1>8 DEF ApplySpawnFailure, ApplySpawnFailuresReset, Store
<1>10. ASSUME counts, r = ApplySpawnFailure(moved) PROVE Generation(s) \in Blamed(r)
  <2>1. SameRows(moved, r)
    BY <1>8, <1>10, CountersKeep
  <2> HIDE DEF r
  <2>2. r.runtimes[Generation(s)] = row /\ Generation(s) \in DOMAIN r.runtimes
    BY <1>1, <1>2, <1>8, <2>1, FieldTypes DEF SameRows, Current, SetsCurrent
  <2>3. r.runtimes[Generation(s)].exitCause = cause
    BY <1>2 DEF SetsCurrent, Current
  <2>4. \/ cause \in {"crashed", "clean"}
        \/ cause = "stopped_by_system" /\ \E i \in StopsOf(s, Generation(s)) : s.commands[i].kind = "hang"
    BY <1>10 DEF CountsAsSpawnFailure, HasExecutedBootHangStopCommand
  <2>5. r.commands = s.commands /\ StopsOf(r, Generation(s)) = StopsOf(s, Generation(s))
    BY <1>2 DEF SetsCurrent, StopsOf
  <2> HIDE DEF counts
  <2> QED BY <1>5, <1>7, <1>10, <2>2, <2>3, <2>4, <2>5 DEF Blamed
<1> HIDE DEF counts
<1>11. r.failures = 0 \/ r.failures = s.failures
       \/ (r.failures = s.failures + 1 /\ Live(s) /\ Generation(s) \in Blamed(r))
  <2>1. CASE r = moved
    BY <1>8, <2>1
  <2>2. CASE counts /\ r = ApplySpawnFailure(moved)
    <3>1. Generation(s) \in Blamed(r)
      BY <1>10, <2>2
    <3>2. r.failures = s.failures + 1
      BY <1>9, <2>2
    <3> QED BY <3>1, <3>2
  <2>3. CASE r = ApplySpawnFailuresReset(moved)
    BY <1>9, <2>3
  <2> QED BY <1>3, <2>1, <2>2, <2>3
<1> HIDE DEF r
<1>12. Earned(s, r)
  BY <1>4, <1>11 DEF Earned
<1> QED BY <1>12 DEF r

\* recordBootEvidence counts nothing.
LEMMA EvidenceEarns ==
  ASSUME NEW s, BeeInv(s), Exists(s), NEW generation
  PROVE  LET r == RecordBootEvidence(s, generation)
         IN  /\ Remembers(s, r) /\ r.commands = s.commands /\ Generation(r) = Generation(s)
             /\ r.failures = 0 \/ r.failures = s.failures
             /\ Current(r).state = Current(s).state
             /\ \A g \in 1..Generation(s) : g # Generation(s) => r.runtimes[g] = s.runtimes[g]
<1> DEFINE r == RecordBootEvidence(s, generation)
           moved == SetCurrent(s, [Current(s) EXCEPT !.evidence = "real"])
<1>1. s \in Store /\ StoreInv(s) /\ DOMAIN s.runtimes = 1..Generation(s)
  BY FieldTypes DEF BeeInv, StoreInv
<1>2. SetsCurrent(s, r, Current(s).state, Current(s).exitCause)
  BY <1>1, EvidenceSets
<1>3. r = s \/ (Current(s).state # "stopped" /\ r = ApplySpawnFailuresReset(moved))
  BY DEF RecordBootEvidence
<1>4. DOMAIN moved = {"lifecycle", "runtimes", "failures", "flagged", "commands", "mail"}
  BY <1>1 DEF Store, SetCurrent
<1> HIDE DEF moved
<1>5. r = s \/ (Current(s).state # "stopped" /\ r.failures = 0)
  BY <1>3, <1>4 DEF ApplySpawnFailuresReset
<1> HIDE DEF r
<1>6. DOMAIN r.runtimes = 1..Generation(s)
  BY <1>2, FieldTypes DEF SetsCurrent
<1>7. Remembers(s, r)
  <2>1. CASE r = s
    BY <2>1 DEF Remembers
  <2>2. CASE Current(s).state # "stopped"
    BY <1>1, <1>2, <1>6, <2>2 DEF Remembers, SetsCurrent, Current
  <2> QED BY <1>5, <2>1, <2>2
<1> QED BY <1>2, <1>5, <1>7 DEF SetsCurrent, r

\* What the queue does afterwards is of no concern.
LEMMA QuietEarns ==
  ASSUME NEW s, NEW t, NEW r, StoreInv(s), StoreInv(t), r \in Store, Earned(s, t), Quiet(t, r),
         Evolves(s, t), Evolves(t, r), Generation(t) = Generation(s), Live(t) => Live(s)
  PROVE  Earned(s, r)
<1>1. r.runtimes = t.runtimes /\ r.failures = t.failures
      /\ \A i \in DOMAIN t.commands : r.commands[i].kind = t.commands[i].kind
  BY DEF Quiet, SameCounters, Tame
<1>2. Remembers(t, r)
  BY <1>1 DEF Remembers
<1>3. Blamed(t) \subseteq Blamed(r)
  BY <1>2, BlamedGrows
<1>4. DOMAIN s.commands \subseteq DOMAIN t.commands
  BY EvolvesBack DEF StoreInv
<1>5. Remembers(s, r)
  BY <1>1, <1>4 DEF Earned, Remembers
<1> QED BY <1>1, <1>3, <1>5 DEF Earned

\* The exit of the current runtime stops its row for good.
LEMMA ExitRow ==
  ASSUME NEW s, BeeInv(s), Exists(s), Live(s), Unproven(s), NEW obs \in Observation,
         obs.generation = Generation(s), obs.exitCause \in ExitCauses
  PROVE  LET r == ApplyExit(s, obs)
         IN  /\ Earned(s, r) /\ Exists(r) /\ Generation(r) = Generation(s)
             /\ Current(r).state = "stopped"
<1> DEFINE stopped == UpdateRuntimeState(s, obs.generation, "stopped", obs.exitCause, FALSE, FALSE)
           awake   == EnsureWake(stopped)
           retried == IF stopped.failures > s.failures /\ ~stopped.flagged
                        THEN EnsureBootRetry(awake) ELSE awake
           r == ApplyExit(s, obs)
<1>1. "none" \notin ExitCauses /\ "stopped" \in RuntimeStates
  BY DEF ExitCauses, StopCauses, RuntimeStates
<1>2. /\ BeeInv(stopped) /\ Exists(stopped) /\ SetsCurrent(s, stopped, "stopped", obs.exitCause)
      /\ Earned(s, stopped)
  BY <1>1, UpdateBee, UpdateEarns
<1>3. r = ReviveAfterStopIfRequested(retried, obs.generation)
  BY DEF ApplyExit
<1> HIDE DEF stopped
<1>4. Schedules(stopped, awake)
  BY <1>2, WakesSchedule
<1> HIDE DEF awake
<1>5. Schedules(awake, EnsureBootRetry(awake)) /\ Schedules(awake, awake)
  BY <1>4, WakesSchedule, SchedulesRefl DEF Schedules
<1>6. Schedules(awake, retried)
  BY <1>5
<1>7. BeeInv(retried) /\ Exists(retried) /\ Schedules(stopped, retried)
  BY <1>4, <1>6, SchedulesTrans DEF Schedules
<1>8. Grows(awake, retried, {}) /\ Grows(stopped, awake, {})
  <2>1. stopped \in Store /\ awake \in Store
    BY <1>2, <1>4 DEF Schedules, BeeInv, StoreInv
  <2>2. Grows(stopped, awake, {}) /\ Grows(awake, EnsureBootRetry(awake), {})
    BY <2>1, EnqueueWakeGrows, EnqueueBootRetryGrows DEF EnsureWake, EnsureBootRetry, awake
  <2> QED BY <2>1, <2>2, GrowsRefl
<1> HIDE DEF retried
<1>9. Schedules(retried, r) /\ Grows(retried, r, {})
  BY <1>3, <1>7, ReviveSchedules, ReviveAfterStopGrows DEF BeeInv, StoreInv
<1>10. Schedules(stopped, r)
  BY <1>7, <1>9, SchedulesTrans DEF Schedules
<1> HIDE DEF r
<1>11. Evolves(stopped, r) /\ r \in Store
  <2>1. stopped \in Store /\ awake \in Store /\ retried \in Store
    BY <1>2, <1>4, <1>7 DEF Schedules, BeeInv, StoreInv
  <2> QED BY <1>8, <1>9, <2>1, GrowsTrans DEF Grows
<1>12. /\ StoreInv(s) /\ StoreInv(stopped) /\ Generation(stopped) = Generation(s)
       /\ Evolves(s, stopped) /\ Current(stopped).state = "stopped"
  <2>1. StoreInv(s) /\ StoreInv(stopped) /\ s \in Store
    BY <1>2 DEF BeeInv, StoreInv
  <2> QED BY <1>1, <1>2, <2>1, SetsCurrentInv DEF SetsCurrent
<1>13. Earned(s, r)
  BY <1>2, <1>10, <1>11, <1>12, QuietEarns DEF Schedules
<1>14. Generation(r) = Generation(s) /\ Current(r).state = "stopped"
  BY <1>10, <1>12 DEF Schedules, Quiet, Generation, Current
<1> QED BY <1>10, <1>13, <1>14 DEF Schedules, r

\* What the fold of an observation of the current runtime does to its row.
LEMMA ObservationRow ==
  ASSUME NEW s, BeeInv(s), Exists(s), Unproven(s), NEW obs \in Observation, NEW A,
         Explained(obs, A), obs.generation = Generation(s)
  PROVE  LET r == ApplyObservation(s, obs)
         IN  /\ Exists(r) /\ Generation(r) = Generation(s) /\ Earned(s, r)
             /\ obs.kind = "exited" => Current(r).state = "stopped" /\ (~Live(s) => r = s)
             /\ obs.kind # "exited" => r.commands = s.commands /\ (Live(r) <=> Live(s))
             /\ obs.kind \in {"booted", "turn_started"} => Current(r).state # "booting"
             /\ obs.kind = "turn_ended" =>
                  \/ Current(s).state # "booting" /\ Current(r).state # "booting"
                  \/ ~obs.synthetic
                  \/ r = s
             /\ Current(s).state # "booting" => Current(r).state # "booting"
<1> DEFINE target == TargetState(obs.kind)
           proven == IF obs.kind # "exited" /\ ~obs.synthetic /\ Current(s).evidence # "real"
                       THEN RecordBootEvidence(s, obs.generation) ELSE s
           skip   == \/ obs.kind = "booted" /\ Current(s).state # "booting"
                     \/ obs.kind = "turn_ended" /\ obs.synthetic /\ s.mail > 0
                     \/ target \notin RuntimeTransitions(Current(s).state)
           r == ApplyObservation(s, obs)
           state == Current(s).state
<1>1. s \in Store /\ StoreInv(s) /\ state \in RuntimeStates /\ (Live(s) <=> state # "stopped")
      /\ Generation(s) \in Nat \ {0} /\ DOMAIN s.runtimes = 1..Generation(s)
  BY CurrentType, FieldTypes DEF BeeInv, StoreInv
<1>2. obs.kind \in {"booted", "turn_started", "turn_ended", "exited"} /\ obs.synthetic \in BOOLEAN
  BY DEF Observation
<1>3. /\ Remembers(s, proven) /\ proven.commands = s.commands
      /\ Generation(proven) = Generation(s)
      /\ proven.failures = 0 \/ proven.failures = s.failures
      /\ Current(proven).state = state
      /\ BeeInv(proven) /\ Exists(proven)
  <2>1. CASE proven = s
    <3>1. Remembers(s, s)
      BY DEF Remembers
    <3> HIDE DEF proven
    <3> QED BY <2>1, <3>1
  <2>2. CASE proven = RecordBootEvidence(s, obs.generation)
    <3> HIDE DEF proven
    <3> QED BY <2>2, EvidenceEarns, EvidenceBee
  <2> QED BY <2>1, <2>2
<1>4. obs.kind = "exited" \/ obs.synthetic => proven = s
  OBVIOUS
<1>5. CASE skip
  <2>1. r = proven
    BY <1>5 DEF ApplyObservation
  <2>2. obs.kind = "exited" => state = "stopped"
    BY <1>1, <1>5 DEF TargetState, RuntimeTransitions, RuntimeStates
  <2>3. obs.kind \in {"booted", "turn_started"} => state # "booting"
    BY <1>1, <1>5 DEF TargetState, RuntimeTransitions, RuntimeStates
  <2>4. StoreInv(proven)
    BY <1>3 DEF BeeInv
  <2> HIDE DEF proven, skip, target, r
  <2>5. Live(r) <=> Live(s)
    BY <1>1, <1>3, <2>1, <2>4, CurrentType
  <2>6. Earned(s, r)
    BY <1>3, <2>1 DEF Earned
  <2>7. obs.kind = "turn_ended" /\ obs.synthetic => r = s
    BY <1>4, <2>1
  <2>8. obs.kind = "exited" => Current(r).state = "stopped" /\ r = s
    BY <1>3, <1>4, <2>1, <2>2
  <2>9. obs.kind \in {"booted", "turn_started"} => Current(r).state # "booting"
    BY <1>3, <2>1, <2>3
  <2>10. Exists(r) /\ Generation(r) = Generation(s) /\ r.commands = s.commands
         /\ Current(r).state = state
    BY <1>3, <2>1
  <2> QED BY <1>2, <2>5, <2>6, <2>7, <2>8, <2>9, <2>10 DEF r
<1>6. CASE ~skip /\ target = "stopped"
  <2>1. obs.kind = "exited" /\ obs.exitCause \in ExitCauses
    BY <1>2, <1>6 DEF TargetState, Observation, Explained, ExitCauses
  <2>2. state # "stopped"
    BY <1>6 DEF RuntimeTransitions
  <2>3. r = ApplyExit(s, obs)
    BY <1>6 DEF ApplyObservation
  <2> HIDE DEF skip, proven, target, r, state
  <2> QED BY <1>1, <2>1, <2>2, <2>3, ExitRow DEF r
<1>7. CASE ~skip /\ target # "stopped"
  <2>1. r = UpdateRuntimeState(proven, obs.generation, target, "none", obs.synthetic,
                               obs.kind = "booted")
    BY <1>7 DEF ApplyObservation
  <2>2. /\ target \in {"running", "idle"} /\ target \in RuntimeStates /\ obs.kind # "exited"
        /\ (obs.kind = "booted") \in BOOLEAN /\ target # "stopped"
    BY <1>2, <1>7 DEF TargetState, RuntimeStates
  <2>3. state # "stopped" /\ (obs.kind = "turn_ended" => state # "booting")
    BY <1>7 DEF RuntimeTransitions, TargetState
  <2> HIDE DEF skip, proven, target, r
  <2>4. Live(proven) /\ StoreInv(proven)
    BY <1>3, <2>3, CurrentType DEF BeeInv
  <2>5. Earned(proven, r) /\ SetsCurrent(proven, r, target, "none") /\ Exists(r) /\ BeeInv(r)
    BY <1>2, <1>3, <2>1, <2>2, <2>4, UpdateEarns, UpdateBee
  <2>6. Generation(r) = Generation(s) /\ r.commands = s.commands /\ Current(r).state = target
    BY <1>3, <2>5 DEF SetsCurrent
  <2>7. Live(r) /\ Live(s)
    BY <1>1, <2>2, <2>3, <2>5, <2>6 DEF Live, LiveStates
  <2>8. Remembers(s, r)
    BY <1>3, <2>4, <2>5, <2>7 DEF Earned, Remembers
  <2>9. r.failures = 0 \/ r.failures = s.failures
    <3>1. Current(r).exitCause = "none"
      BY <2>5 DEF SetsCurrent
    <3>2. Generation(s) \notin Blamed(r)
      BY <2>6, <3>1 DEF Blamed, Current
    <3> QED BY <1>3, <2>5, <3>2 DEF Earned
  <2>10. Earned(s, r)
    BY <2>8, <2>9 DEF Earned
  <2> QED BY <2>2, <2>3, <2>5, <2>6, <2>7, <2>10 DEF r
<1> QED BY <1>5, <1>6, <1>7

-----------------------------------------------------------------------------
(* What the daemon may rely on about the current generation.               *)
(*                                                                         *)
(* A booting row has no proof of life, and the driver has not seen a turn  *)
(* of it that it has not reported; a row past booting has its process or   *)
(* the exit of it to come.  While no daemon runs nobody queues anything,   *)
(* so a process may then die or open a turn unseen.                        *)

Known(s, h, down) ==
  /\ Bounded(h, Generation(s)) /\ Ends(h, Generation(s)) /\ Unproven(s)
  /\ ~down /\ Current(s).state = "booting" => Proves(h, Generation(s))
  /\ ~down /\ Current(s).state \in {"running", "idle"} => Present(h, Generation(s))

\* The invariant of rows and processes.
PInv ==
  /\ Exists(store) => Known(store, host, pc = "down")
  /\ pc = "down" => host.events = <<>> /\ ~StartPending(host)
  /\ store.failures <= Cardinality(Blamed(store))

\* A method that leaves the rows alone and counts nothing.
Calm(s, r) == r.runtimes = s.runtimes /\ (Exists(r) <=> Exists(s)) /\ Earned(s, r)

\* A method that works on the queue alone is calm.
LEMMA QuietCalm ==
  ASSUME NEW s, NEW r, Quiet(s, r), Exists(r) <=> Exists(s)
  PROVE  Calm(s, r)
<1>1. r.runtimes = s.runtimes /\ r.failures = s.failures
      /\ \A i \in DOMAIN s.commands : r.commands[i].kind = s.commands[i].kind
  BY DEF Quiet, SameCounters, Tame
<1>2. Remembers(s, r)
  BY <1>1 DEF Remembers
<1> QED BY <1>1, <1>2 DEF Calm, Earned

\* Nothing happens.
LEMMA CalmRefl == ASSUME NEW s PROVE Calm(s, s)
  BY DEF Calm, Earned, Remembers

\* The claim renames no command.
LEMMA ClaimCalm ==
  ASSUME NEW s, BeeInv(s)
  PROVE  Calm(s, ClaimNextCommand(s))
<1> DEFINE r == ClaimNextCommand(s)
           claimed(i) == [s.commands[i] EXCEPT !.status = "running"]
           settled(i) == [s.commands[i] EXCEPT !.status = "done",
                                               !.thenRevive = s.commands[i].thenRevive
                                                              /\ ~PendingModelChange(s, i)]
<1>1. s \in Store /\ StoreInv(s)
  BY DEF BeeInv, StoreInv
<1>2. r.runtimes = s.runtimes /\ r.failures = s.failures /\ (Exists(r) <=> Exists(s))
  BY <1>1 DEF ClaimNextCommand, Store, Exists
<1>3. \A i \in DOMAIN s.commands :
        r.commands[i] = IF IsNext(s, i) THEN claimed(i)
                        ELSE IF MootNow(s, i) THEN settled(i) ELSE s.commands[i]
  BY <1>1 DEF ClaimNextCommand, Store
<1> HIDE DEF r
<1>4. ASSUME NEW i \in DOMAIN s.commands
      PROVE  r.commands[i].kind = s.commands[i].kind
  <2>1. s.commands[i] \in Command
    BY <1>1, FieldTypes
  <2>2. claimed(i).kind = s.commands[i].kind /\ settled(i).kind = s.commands[i].kind
    BY <2>1 DEF Command
  <2> HIDE DEF claimed, settled
  <2> QED BY <1>3, <2>2
<1>5. Remembers(s, r)
  BY <1>2, <1>4 DEF Remembers
<1> QED BY <1>2, <1>5 DEF Calm, Earned, r

\* A boot-hang stop is skipped only while its runtime is live.
LEMMA SkipCalm ==
  ASSUME NEW s, BeeInv(s), NEW id \in DOMAIN s.commands, Live(s),
         s.commands[id].target = Generation(s)
  PROVE  Calm(s, SkipBootHangStop(s, id))
<1> DEFINE r == SkipBootHangStop(s, id)
<1>1. s \in Store
  BY DEF BeeInv, StoreInv
<1>2. r.runtimes = s.runtimes /\ r.failures = s.failures /\ (Exists(r) <=> Exists(s))
  BY <1>1 DEF SkipBootHangStop, Store, Exists
<1>3. \A i \in DOMAIN s.commands : i # id => r.commands[i] = s.commands[i]
  BY <1>1 DEF SkipBootHangStop, Store
<1> HIDE DEF r
<1>4. Remembers(s, r)
  BY <1>2, <1>3 DEF Remembers
<1> QED BY <1>2, <1>4 DEF Calm, Earned, r

\* The steps that leave both the rows and the driver alone.
Bookkeeping ==
  \/ Operator \/ CommandDue \/ BootDeadline \/ BeginStep \/ Policies \/ Claim
  \/ ExecuteArchive \/ ExecuteUnarchive \/ ExecuteStopStopped \/ ExecuteStopSkip
  \/ ExecuteStopWake \/ ExecuteStopRevive \/ ExecuteReviveReset \/ ExecuteStartNoop
  \/ ExecuteStartFails \/ Settle \/ DeliverNothing \/ DeliverMarked \/ UNCHANGED vars

\* The requests of operators and the clock.
LEMMA OperatorCalm ==
  ASSUME IInv, QInv, Operator \/ CommandDue \/ BootDeadline
  PROVE  Calm(store, store')
<1>1. BeeInv(store)
  BY DEF QInv
<1>2. CASE Operator
  <2>1. Exists(store) /\ pc = "rest"
    BY <1>2 DEF Operator, Request, RpcSend, RpcStop, RpcRevive, RpcArchive,
           RpcUnarchive, RpcDelete, RpcSwapAccount, RpcReconfigure
  <2>2. NoneRuns(store)
    BY <2>1, RestRuns DEF Executing
  <2>3. Schedules(store, store')
    <3>1. CASE RpcSend
      BY <1>1, <2>1, <3>1, SendSchedules DEF RpcSend, Request
    <3>2. CASE RpcStop
      BY <1>1, <2>1, <2>2, <3>2, UserStopSchedules DEF RpcStop, Request, NoneRuns
    <3>3. CASE RpcRevive \/ RpcArchive \/ RpcUnarchive \/ RpcDelete
      BY <1>1, <2>1, <3>3, EnqueueSchedules
         DEF RpcRevive, RpcArchive, RpcUnarchive, RpcDelete, Request, Verbs, Kinds
    <3>4. CASE RpcSwapAccount
      BY <1>1, <2>1, <3>4, SwapSchedules DEF RpcSwapAccount, Request
    <3>5. CASE RpcReconfigure
      BY <1>1, <2>1, <3>5, ReconfigureSchedules DEF RpcReconfigure, Request
    <3> QED BY <1>2, <3>1, <3>2, <3>3, <3>4, <3>5 DEF Operator
  <2> QED BY <2>1, <2>3, QuietCalm DEF Schedules
<1>3. CASE CommandDue
  <2>1. PICK i \in DOMAIN store.commands : store' = [store EXCEPT !.commands[i].due = TRUE]
    BY <1>3 DEF CommandDue
  <2>2. Quiet(store, store')
    BY <1>1, <2>1, DueBee
  <2>3. Exists(store') <=> Exists(store)
    BY <1>1, <2>1 DEF Exists, BeeInv, StoreInv, Store
  <2> QED BY <2>2, <2>3, QuietCalm
<1>4. CASE BootDeadline
  BY <1>4, CalmRefl DEF BootDeadline
<1> QED BY <1>2, <1>3, <1>4

\* Everything else of that kind.
LEMMA BookkeepingCalm ==
  ASSUME IInv, QInv, Bookkeeping
  PROVE  Calm(store, store')
<1>1. BeeInv(store) /\ StoreInv(store) /\ store \in Store
  BY DEF QInv, BeeInv, StoreInv
<1>2. CASE Operator \/ CommandDue \/ BootDeadline
  BY <1>2, OperatorCalm
<1>3. CASE BeginStep \/ ExecuteStartNoop \/ DeliverNothing \/ UNCHANGED vars
  BY <1>3, CalmRefl DEF BeginStep, ExecuteStartNoop, DeliverNothing, Commit, vars
<1>4. CASE Policies
  <2>1. PICK elapsed :
          store' = DegradedMailPolicy(ScaleToZeroPolicy(BootHangPolicy(store), elapsed))
    BY <1>4 DEF Policies
  <2>2. CASE Exists(store)
    <3>1. Schedules(store, store')
      BY <1>1, <2>1, <2>2, PoliciesSchedule
    <3> QED BY <2>2, <3>1, QuietCalm DEF Schedules
  <2>3. CASE ~Exists(store)
    <3>1. store' = store
      BY <2>1, <2>3 DEF BootHangPolicy, ScaleToZeroPolicy, DegradedMailPolicy, Live
    <3> QED BY <3>1, CalmRefl
  <2> QED BY <2>2, <2>3
<1>5. CASE Claim
  BY <1>1, <1>5, ClaimCalm DEF Claim
<1>6. CASE ExecuteArchive
  <2>1. Exists(store) /\ store' = [store EXCEPT !.lifecycle = "archived"]
    BY <1>6 DEF ExecuteArchive, Commit, ExecuteArchiveCommand, IInv, Control, OnBee
  <2>2. /\ store'.failures = store.failures /\ store'.commands = store.commands
        /\ store'.runtimes = store.runtimes /\ Exists(store')
    BY <1>1, <2>1 DEF Store, Exists
  <2> QED BY <2>1, <2>2 DEF Calm, Earned, Remembers
<1>7. CASE ExecuteUnarchive
  <2>1. Exists(store) /\ Schedules(store, store')
    BY <1>1, <1>7, UnarchiveKeeps DEF ExecuteUnarchive, Commit, IInv, Control, OnBee
  <2> QED BY <2>1, QuietCalm DEF Schedules
<1>8. CASE ExecuteStopStopped \/ ExecuteStopRevive \/ ExecuteStopWake
  <2>1. Exists(store)
    BY <1>8 DEF ExecuteStopStopped, ExecuteStopRevive, ExecuteStopWake, IInv, Control, OnBee
  <2>2. Schedules(store, store')
    BY <1>1, <1>8, <2>1, ReviveSchedules, WakesSchedule
       DEF ExecuteStopStopped, ExecuteStopRevive, ExecuteStopWake, Commit
  <2> QED BY <2>1, <2>2, QuietCalm DEF Schedules
<1>9. CASE ExecuteStopSkip
  <2>1. /\ store' = SkipBootHangStop(store, cmd) /\ cmd \in DOMAIN store.commands /\ Live(store)
        /\ store.commands[cmd].target = Generation(store)
    BY <1>9 DEF ExecuteStopSkip, Commit, IInv, Control, Executing, RuntimeVerbs
  <2> QED BY <1>1, <2>1, SkipCalm
<1>10. CASE ExecuteReviveReset
  BY <1>1, <1>10, ResetBee DEF ExecuteReviveReset, Commit, Calm, Earned, Remembers
<1>11. CASE ExecuteStartFails
  <2>1. /\ store' = ReportCommandFailure(store, cmd) /\ cmd \in DOMAIN store.commands
        /\ store.commands[cmd].status = "running" /\ pc \in Executing /\ pc # "down"
    BY <1>11 DEF ExecuteStartFails, AtLaunch, AtStart, IInv, Control, Executing
  <2>2. OnlyRuns(store, cmd)
    BY <2>1 DEF QInv, RunOK, OnlyRuns
  <2>3. Tame(store, store') /\ store'.failures = store.failures /\ store'.runtimes = store.runtimes
    BY <1>1, <2>1, <2>2, ReportFailureBee
  <2>4. Exists(store') <=> Exists(store)
    BY <1>1, <2>1 DEF ReportCommandFailure, Store, Exists
  <2> QED BY <2>3, <2>4 DEF Tame, Calm, Earned, Remembers
<1>12. CASE Settle
  <2>1. cmd \in DOMAIN store.commands /\ store' = CompleteCommand(store, cmd)
    BY <1>12 DEF Settle, Commit, IInv, Control, Executing
  <2>2. OnlyRuns(store, cmd)
    BY <1>12 DEF Settle, QInv, RunOK, OnlyRuns
  <2>3. Quiet(store, store')
    BY <1>1, <2>1, <2>2, CompleteBee
  <2>4. Exists(store') <=> Exists(store)
    BY <1>1, <2>1 DEF CompleteCommand, SetCommand, Store, Exists
  <2> QED BY <2>3, <2>4, QuietCalm
<1>13. CASE DeliverMarked
  <2>1. store' = MarkDelivered(store)
    BY <1>13 DEF DeliverMarked, Commit
  <2>2. /\ store'.failures = store.failures /\ store'.commands = store.commands
        /\ store'.runtimes = store.runtimes /\ store'.lifecycle = store.lifecycle
    BY <1>1, <2>1 DEF MarkDelivered, Store
  <2> QED BY <2>2 DEF Calm, Earned, Remembers, Exists
<1> QED BY <1>2, <1>3, <1>4, <1>5, <1>6, <1>7, <1>8, <1>9, <1>10, <1>11, <1>12, <1>13
        DEF Bookkeeping

-----------------------------------------------------------------------------
(* A step preserves the invariant of rows and processes. *)

\* Rows that do not change are known as before.
LEMMA KnownRows ==
  ASSUME NEW s, NEW r, NEW h, NEW down, Known(s, h, down), r.runtimes = s.runtimes
  PROVE  Known(r, h, down)
  BY DEF Known, Generation, Current, Unproven

\* A method of the driver changes nothing that is known.
LEMMA KnownHost ==
  ASSUME NEW s \in Store, NEW h, NEW k, NEW down, Known(s, h, down),
         HostStep(h, k, Generation(s))
  PROVE  Known(s, k, down)
<1>1. Generation(s) \in Nat
  BY FieldTypes
<1> QED BY <1>1 DEF Known, HostStep

\* The counter stays below the failed boots.
LEMMA FailuresKept ==
  ASSUME IInv, PInv, Preserved, Earned(store, store')
  PROVE  store'.failures <= Cardinality(Blamed(store'))
  BY EarnedKeeps DEF PInv, Preserved, IInv, Change

\* Bookkeeping.
LEMMA BookkeepingProcess == ASSUME IInv, QInv, PInv, Preserved, Bookkeeping PROVE PInv'
<1>1. Calm(store, store')
  BY BookkeepingCalm
<1>2. host' = host /\ (pc' = "down" <=> pc = "down")
  BY DEF Bookkeeping, Operator, Request, RpcSend, RpcStop, RpcRevive, RpcArchive,
         RpcUnarchive, RpcDelete, RpcSwapAccount, RpcReconfigure, CommandDue, BootDeadline,
         BeginStep, Policies, Claim, ExecuteArchive, ExecuteUnarchive, ExecuteStopStopped,
         ExecuteStopSkip, ExecuteStopWake, ExecuteStopRevive, ExecuteReviveReset,
         ExecuteStartNoop, ExecuteStartFails, Settle, DeliverNothing, DeliverMarked, Commit,
         vars, AtStart, AtLaunch
<1>3. Exists(store') => Known(store', host', (pc = "down")')
  BY <1>1, <1>2, KnownRows DEF Calm, PInv
<1>4. store'.failures <= Cardinality(Blamed(store'))
  BY <1>1, FailuresKept DEF Calm
<1>5. Blamed(store)' = Blamed(store')
  BY DEF Blamed
<1> QED BY <1>2, <1>3, <1>4, <1>5 DEF PInv

\* The steps in which only the driver changes.
DriverStep == HostCallback \/ ExecuteStop \/ ExecuteStart \/ DeliverMail \/ ExecuteDeleteStop

\* What they do to the driver.
LEMMA DriverHost ==
  ASSUME IInv, Exists(store), Bounded(host, Generation(store)), DriverStep
  PROVE  HostStep(host, host', Generation(store))
<1>1. host \in Host /\ store \in Store /\ Generation(store) \in Nat
  BY FieldTypes DEF IInv, HostInv, StoreInv
<1>2. CASE HostCallback
  BY <1>1, <1>2, CallbackHost
<1>3. CASE ExecuteStop
  <2>1. PICK dead \in BOOLEAN : host' = Stop(host, Generation(store), Cause, dead)
    BY <1>3 DEF ExecuteStop
  <2>2. Cause \in StopCauses
    BY DEF Cause, CauseOf, StopCauses
  <2> QED BY <1>1, <2>1, <2>2, StopHost
<1>4. CASE ExecuteStart
  BY <1>1, <1>4, StartHost DEF ExecuteStart
<1>5. CASE DeliverMail
  BY <1>1, <1>5, DeliverHost DEF DeliverMail, Deliverable, Accepts
<1>6. CASE ExecuteDeleteStop
  BY <1>6 DEF ExecuteDeleteStop, IInv, Control
<1> QED BY <1>2, <1>3, <1>4, <1>5, <1>6 DEF DriverStep

\* The driver's steps.
LEMMA DriverProcess == ASSUME IInv, PInv, DriverStep PROVE PInv'
<1>1. store' = store /\ pc # "down" /\ pc' # "down"
  BY DEF DriverStep, HostCallback, HostBooted, HostReady, HostTurnEnded, HostTurnStarted,
         HostExit, HostPrepared, OrphanExit, Callback, ExecuteStop, ExecuteStart, DeliverMail,
         ExecuteDeleteStop, AtLaunch, AtStart
<1>2. ASSUME Exists(store) PROVE Known(store, host', FALSE)
  <2>1. Known(store, host, FALSE) /\ store \in Store
    BY <1>1, <1>2 DEF PInv, IInv, StoreInv
  <2>2. HostStep(host, host', Generation(store))
    BY <1>2, <2>1, DriverHost DEF Known
  <2> QED BY <2>1, <2>2, KnownHost
<1> QED BY <1>1, <1>2 DEF PInv, Blamed, StopsOf

\* Nothing is known of a generation that is not minted.
LEMMA UnheardOf ==
  ASSUME NEW h \in Host, NEW n \in Nat, Bounded(h, n)
  PROVE  Bounded(h, n + 1) /\ Ends(h, n + 1) /\ Proves(h, n + 1) /\ ~ProcOf(h, n + 1)
         /\ ~ExitOf(h, n + 1)
<1>1. /\ h.proc.generation \in Nat /\ h.pending.generation \in Nat
      /\ \A i \in DOMAIN h.events : h.events[i].generation \in Nat
  <2>1. h.events \in Seq(Observation) /\ h.proc.generation \in Nat /\ h.pending.generation \in Nat
    BY HostTypes
  <2>2. \A i \in DOMAIN h.events : h.events[i] \in Observation
    BY <2>1
  <2> QED BY <2>1, <2>2 DEF Observation
<1>2. \A i \in DOMAIN h.events : h.events[i].generation # n + 1
  BY <1>1 DEF Bounded
<1>3. h.proc.generation # n + 1
  BY <1>1 DEF Bounded
<1>4. Bounded(h, n + 1)
  BY <1>1 DEF Bounded
<1>5. Ends(h, n + 1)
  BY <1>2 DEF Ends
<1>6. ~ProcOf(h, n + 1) /\ ~InTurn(h, n + 1)
  BY <1>3 DEF ProcOf, InTurn
<1>7. Proves(h, n + 1)
  BY <1>2, <1>6 DEF Proves, RealTurnEnd
<1>8. ~ExitOf(h, n + 1)
  BY <1>2 DEF ExitOf, Left
<1> QED BY <1>4, <1>5, <1>6, <1>7, <1>8

\* A generation is minted.
LEMMA MintProcess == ASSUME IInv, QInv, PInv, Preserved, ExecuteStartMint PROVE PInv'
<1>1. /\ store' = ReviveBee(store) /\ ~Live(store) /\ host' = host /\ pc' = "minted" /\ pc # "down"
      /\ Exists(store) /\ BeeInv(store) /\ StoreInv(store) /\ store \in Store /\ AtStart
  BY DEF ExecuteStartMint, AtStart, IInv, Control, OnBee, QInv, BeeInv, StoreInv
<1>2. /\ store'.runtimes = Append(store.runtimes, NewRuntime) /\ Exists(store')
      /\ store'.commands = store.commands
  BY <1>1, ReviveInv
<1>3. /\ store.runtimes \in Seq(Runtime) /\ Generation(store) \in Nat
      /\ DOMAIN store.runtimes = 1..Generation(store)
  BY <1>1, FieldTypes
<1>4. /\ Generation(store') = Generation(store) + 1 /\ Current(store') = NewRuntime
      /\ \A g \in DOMAIN store.runtimes :
           g \in DOMAIN store'.runtimes /\ store'.runtimes[g] = store.runtimes[g]
  BY <1>2, <1>3 DEF Generation, Current
<1>5. store'.failures = store.failures
  BY <1>1, MintWithinBudget, ReviveBeeInv DEF SameCounters
<1>6. Earned(store, store')
  BY <1>2, <1>4, <1>5 DEF Earned, Remembers
<1>7. host \in Host /\ Bounded(host, Generation(store))
  BY <1>1 DEF PInv, Known, IInv, HostInv
<1>8. Known(store', host', FALSE)
  <2>1. /\ Bounded(host, Generation(store')) /\ Ends(host, Generation(store'))
        /\ Proves(host, Generation(store'))
    BY <1>3, <1>4, <1>7, UnheardOf
  <2>2. Current(store').state = "booting" /\ Current(store').evidence = "none"
    BY <1>4 DEF NewRuntime
  <2> QED BY <1>1, <2>1, <2>2 DEF Known, Unproven
<1>9. store'.failures <= Cardinality(Blamed(store'))
  BY <1>6, FailuresKept
<1>10. Blamed(store)' = Blamed(store')
  BY DEF Blamed
<1> QED BY <1>1, <1>8, <1>9, <1>10 DEF PInv

\* A deleted bee owes nothing.
LEMMA DeleteProcess == ASSUME IInv, QInv, PInv, Preserved, ExecuteDelete PROVE PInv'
<1>1. store' = DeleteBee(store) /\ Exists(store) /\ pc' # "down"
  BY DEF ExecuteDelete, IInv, Control, OnBee
<1>2. ~Exists(store') /\ store'.failures = 0
  BY <1>1 DEF DeleteBee, Exists
<1>3. store'.failures <= Cardinality(Blamed(store'))
  <2>1. Blamed(store') = {}
    BY <1>1 DEF Blamed, DeleteBee
  <2> QED BY <1>2, <2>1, FS_EmptySet
<1>4. Blamed(store)' = Blamed(store')
  BY DEF Blamed
<1> QED BY <1>1, <1>2, <1>3, <1>4 DEF PInv

\* A stop without a process is a fact.
LEMMA FactProcess == ASSUME IInv, QInv, PInv, Preserved, ExecuteStopFact PROVE PInv'
<1>1. /\ pc = "exiting" /\ Live(store) /\ Exists(store) /\ pc' = "exited" /\ host' = host
      /\ store' = UpdateRuntimeState(store, Generation(store), "stopped", Cause, FALSE, FALSE)
  BY DEF ExecuteStopFact, Commit, IInv, Control, OnBee
<1>2. /\ Cause \in ExitCauses \union {"none"} /\ Cause # "none" /\ "stopped" \in RuntimeStates
  BY DEF Cause, CauseOf, ExitCauses, StopCauses, RuntimeStates
<1>3. BeeInv(store) /\ Known(store, host, FALSE) /\ Unproven(store)
  BY <1>1 DEF QInv, PInv, Known
<1>4. SetsCurrent(store, store', "stopped", Cause) /\ Earned(store, store') /\ Exists(store')
  BY <1>1, <1>2, <1>3, UpdateBee, UpdateEarns
<1>5. Known(store', host', FALSE)
  BY <1>1, <1>3, <1>4 DEF Known, SetsCurrent, Unproven
<1>6. store'.failures <= Cardinality(Blamed(store'))
  BY <1>4, FailuresKept
<1>7. Blamed(store)' = Blamed(store')
  BY DEF Blamed
<1> QED BY <1>1, <1>5, <1>6, <1>7 DEF PInv

\* The pid of the process is recorded.
LEMMA RecordProcess == ASSUME IInv, QInv, PInv, Preserved, RecordProcAtSpawn PROVE PInv'
<1> DEFINE r == RecordRuntimeProc(store, Generation(store))
           row == [Current(store) EXCEPT !.pid = TRUE]
<1>1. /\ pc = "started" /\ pc' = "settle" /\ host' = host /\ (store' = store \/ store' = r)
      /\ Exists(store) /\ StoreInv(store) /\ BeeInv(store) /\ store \in Store
  BY DEF RecordProcAtSpawn, Commit, IInv, Control, OnBee, QInv, BeeInv, StoreInv
<1>2. CASE store' = store
  BY <1>1, <1>2 DEF PInv, Blamed, StopsOf
<1>3. CASE store' = r /\ r # store
  <2>1. r = SetCurrent(store, row) /\ Current(store).state # "stopped"
    BY <1>3 DEF RecordRuntimeProc
  <2>2. Current(store) \in Runtime /\ Generation(store) \in Nat \ {0}
        /\ Generation(store) \in DOMAIN store.runtimes
    BY <1>1, CurrentType
  <2>3. row \in Runtime /\ row.state = Current(store).state /\ row.evidence = Current(store).evidence
    BY <2>2 DEF Runtime
  <2> HIDE DEF row
  <2>4. r = [store EXCEPT !.runtimes[Generation(store)] = row]
    BY <2>1 DEF SetCurrent
  <2>5. /\ r.runtimes = [store.runtimes EXCEPT ![Generation(store)] = row]
        /\ r.failures = store.failures /\ r.commands = store.commands
        /\ r.lifecycle = store.lifecycle
    BY <1>1, <2>4 DEF Store
  <2> HIDE DEF r
  <2>6. store.runtimes \in Seq(Runtime) /\ DOMAIN store.runtimes = 1..Generation(store)
    BY <1>1, FieldTypes
  <2>7. /\ Generation(r) = Generation(store) /\ Current(r) = row
        /\ \A g \in DOMAIN store.runtimes :
             g # Generation(store) => g \in DOMAIN r.runtimes /\ r.runtimes[g] = store.runtimes[g]
    BY <2>2, <2>3, <2>5, <2>6 DEF Generation, Current
  <2>8. Earned(store, r)
    BY <2>1, <2>5, <2>7 DEF Earned, Remembers, Current
  <2>9. Known(r, host, FALSE)
    BY <1>1, <2>3, <2>7 DEF PInv, Known, Unproven
  <2>10. store'.failures <= Cardinality(Blamed(store'))
    BY <1>3, <2>8, FailuresKept
  <2>11. Blamed(store)' = Blamed(store')
    BY DEF Blamed
  <2> QED BY <1>1, <1>3, <2>9, <2>10, <2>11 DEF PInv
<1> QED BY <1>1, <1>2, <1>3

\* An observation is folded.
LEMMA ObserveProcess == ASSUME IInv, QInv, PInv, Preserved, Observe PROVE PInv'
<1> DEFINE obs == Head(host.events)
           k == [host EXCEPT !.events = Tail(@)]
           G == Generation(store)
<1>1. /\ pc = "fold" /\ pc' = "fold" /\ host.events # <<>> /\ host' = k
      /\ store' = ApplyObservation(store, obs)
  BY DEF Observe
<1>2. /\ host \in Host /\ store \in Store /\ G \in Nat /\ obs \in Observation
      /\ Explained(obs, Reasons(store)) /\ BeeInv(store)
  BY <1>1, FieldTypes, PopInv DEF IInv, HostInv, StoreInv, QInv
<1>3. Blamed(store)' = Blamed(store')
  BY DEF Blamed
<1>4. CASE ~Exists(store)
  <2>1. store' = store
    BY <1>1, <1>4 DEF ApplyObservation
  <2> QED BY <1>1, <1>3, <1>4, <2>1 DEF PInv
<1>5. CASE Exists(store)
  <2>1. /\ Bounded(host, G) /\ Ends(host, G) /\ Unproven(store)
        /\ Current(store).state = "booting" => Proves(host, G)
        /\ Current(store).state \in {"running", "idle"} => Present(host, G)
    BY <1>1, <1>5 DEF PInv, Known
  <2>2. /\ Bounded(k, G) /\ Ends(k, G)
        /\ obs.generation = G /\ obs.kind # "exited" => Present(k, G)
        /\ Present(host, G) /\ ~Left(obs, G) => Present(k, G)
        /\ Proves(host, G) => ~RealTurnEnd(obs, G)
        /\ Proves(host, G) /\ ~Spoke(obs, G) => Proves(k, G)
    BY <1>1, <1>2, <2>1, Popped
  <2> HIDE DEF obs, k, G
  <2>3. CASE obs.generation # G
    <3>1. store' = store
      BY <1>1, <2>3 DEF ApplyObservation, G
    <3>2. ~Left(obs, G) /\ ~Spoke(obs, G)
      BY <2>3 DEF Left, Spoke
    <3>3. Known(store, k, FALSE)
      BY <2>1, <2>2, <3>2 DEF Known, G
    <3> QED BY <1>1, <1>3, <3>1, <3>3 DEF PInv
  <2>4. CASE obs.generation = G
    <3>1. obs.generation = Generation(store)
      BY <2>4 DEF G
    <3>2. LET r == ApplyObservation(store, obs)
          IN  /\ Exists(r) /\ Generation(r) = Generation(store) /\ Earned(store, r)
              /\ obs.kind = "exited" => Current(r).state = "stopped" /\ (~Live(store) => r = store)
              /\ obs.kind \in {"booted", "turn_started"} => Current(r).state # "booting"
              /\ obs.kind = "turn_ended" =>
                   \/ Current(store).state # "booting" /\ Current(r).state # "booting"
                   \/ ~obs.synthetic
                   \/ r = store
              /\ Current(store).state # "booting" => Current(r).state # "booting"
      BY <1>2, <1>5, <2>1, <3>1, ObservationRow
    <3>3. Generation(store') = G /\ Earned(store, store')
      BY <1>1, <3>2 DEF G
    <3>4. ASSUME Current(store').state = "booting" PROVE store' = store /\ ~Spoke(obs, G)
      <4>1. Current(store).state = "booting" /\ obs.kind \notin {"booted", "turn_started", "exited"}
        BY <1>1, <3>2, <3>4
      <4>2. obs.kind = "turn_ended"
        BY <1>2, <4>1 DEF Observation
      <4>3. obs.synthetic
        BY <2>1, <2>2, <2>4, <4>1, <4>2 DEF RealTurnEnd
      <4> QED BY <1>1, <3>2, <4>1, <4>2, <4>3 DEF Spoke
    <3>5. Unproven(store')
      BY <2>1, <3>4 DEF Unproven
    <3>6. Current(store').state = "booting" => Proves(k, G)
      BY <2>1, <2>2, <3>4
    <3>7. Current(store').state \in {"running", "idle"} => Present(k, G)
      BY <1>1, <2>2, <2>4, <3>2
    <3>8. Known(store', k, FALSE)
      BY <2>2, <3>3, <3>5, <3>6, <3>7 DEF Known
    <3>9. store'.failures <= Cardinality(Blamed(store'))
      BY <3>3, FailuresKept
    <3> QED BY <1>1, <1>3, <3>8, <3>9 DEF PInv
  <2> QED BY <2>3, <2>4
<1> QED BY <1>4, <1>5

\* The daemon or the machine goes down, or a process ends while it is.
LEMMA DownProcess ==
  ASSUME IInv, PInv, Crash \/ MachineRestart \/ ExitUnheard
  PROVE  PInv'
<1>1. store' = store /\ pc' = "down" /\ host \in Host
  BY DEF Crash, MachineRestart, ExitUnheard, GoDown, IInv, HostInv
<1>2. NoProcess.generation = 0 /\ NoStart.generation = 0
  BY DEF NoProcess, NoStart
<1>3. /\ host'.events = <<>> /\ host'.pending.generation = 0
      /\ host'.proc.generation \in {0, host.proc.generation}
  <2>1. CASE Crash
    BY <1>1, <1>2, <2>1 DEF Crash, Detach, Host
  <2>2. CASE MachineRestart
    BY <1>2, <2>2 DEF MachineRestart, InitHost
  <2>3. CASE ExitUnheard
    BY <1>1, <1>2, <2>3 DEF ExitUnheard, Host, PInv, StartPending
  <2> QED BY <2>1, <2>2, <2>3
<1>4. ASSUME Exists(store) PROVE Known(store, host', TRUE)
  <2>1. Bounded(host, Generation(store)) /\ Unproven(store) /\ Generation(store) \in Nat
    BY <1>4, FieldTypes DEF PInv, Known, IInv, StoreInv
  <2>2. DOMAIN host'.events = {}
    BY <1>3
  <2>3. Bounded(host', Generation(store)) /\ Ends(host', Generation(store))
    BY <1>3, <2>1, <2>2 DEF Bounded, Ends
  <2> QED BY <2>1, <2>3 DEF Known
<1> QED BY <1>1, <1>3, <1>4 DEF PInv, StartPending, Blamed, StopsOf

\* What recovery does to a bee: it queues, counts nothing, and stops the row of
\* a live runtime whose process it does not adopt.
LEMMA BootRow ==
  ASSUME IInv, QInv, Boot, Exists(store)
  PROVE  /\ Exists(store') /\ Generation(store') = Generation(store) /\ Earned(store, store')
         /\ Survives(store) => store'.runtimes = store.runtimes
         /\ ~Survives(store) => Current(store').state = "stopped"
         /\ \A i \in DOMAIN store.commands : store'.commands[i].kind = store.commands[i].kind
<1> DEFINE opened     == BootRequeueRunningCommands(store)
           reconciled == ReconcileAtBoot(opened, Survives(opened))
           awake      == EnsureWake(reconciled)
           revived    == ReviveAfterStopIfRequested(awake, Generation(awake))
           G == Generation(store)
<1>1. store' = revived /\ store \in Store /\ G \in Nat /\ DOMAIN store.runtimes = 1..G
  BY FieldTypes DEF Boot, IInv, StoreInv
<1>2. /\ BeeInv(opened) /\ Quiet(store, opened) /\ Rewrites(store, opened)
      /\ (Exists(opened) <=> Exists(store))
  <2>1. BeeInv(opened) /\ Quiet(store, opened) /\ Rewrites(store, opened)
    BY RequeueBee DEF QInv
  <2> HIDE DEF opened
  <2> QED BY <2>1, RewritesInv DEF QInv, BeeInv
<1> HIDE DEF opened
<1>3. opened.runtimes = store.runtimes /\ Generation(opened) = G /\ Exists(opened)
      /\ Current(opened) = Current(store) /\ (Live(opened) <=> Live(store))
  BY <1>2 DEF Quiet, Generation, Current, Live
<1>4. Survives(opened) <=> Survives(store)
  BY <1>3 DEF Survives
<1>5. /\ BeeInv(reconciled) /\ Exists(reconciled) /\ Tame(opened, reconciled)
      /\ SameCounters(opened, reconciled)
  BY <1>2, <1>3, ReconcileBee
<1>6. /\ reconciled = opened
         \/ (Live(opened) /\ SetsCurrent(opened, reconciled, "stopped", "machine_restart"))
      /\ Survives(opened) => reconciled = opened
      /\ ~Survives(opened) /\ reconciled = opened => ~Live(opened)
  <2>1. reconciled = opened
        \/ (Live(opened) /\ SetsCurrent(opened, reconciled, "stopped", "machine_restart"))
    BY <1>2, <1>3, ReconcileSets DEF BeeInv, StoreInv
  <2>2. Survives(opened) => reconciled = opened
    BY DEF ReconcileAtBoot, Survives
  <2>3. ASSUME ~Survives(opened), reconciled = opened PROVE ~Live(opened)
    <3>1. SUFFICES ASSUME Live(opened) PROVE FALSE
      OBVIOUS
    <3>2. reconciled = SetCurrent(opened, [Current(opened) EXCEPT !.state = "stopped",
                                                          !.exitCause = "machine_restart"])
      BY <2>3, <3>1 DEF ReconcileAtBoot
    <3>3. SetsCurrent(opened, reconciled, "stopped", "machine_restart")
      <4>1. [Current(opened) EXCEPT !.state = "stopped", !.exitCause = "machine_restart"] \in Runtime
            /\ [Current(opened) EXCEPT !.state = "stopped", !.exitCause = "machine_restart"].state
                 = "stopped"
            /\ [Current(opened) EXCEPT !.state = "stopped", !.exitCause = "machine_restart"].exitCause
                 = "machine_restart"
        BY <1>2, <1>3, CurrentType
           DEF BeeInv, Runtime, RuntimeStates, ExitCauses, StopCauses
      <4> QED BY <1>2, <1>3, <3>2, <4>1, CurrentType, SetCurrentSets DEF BeeInv, StoreInv
    <3>4. Current(opened).state = "stopped"
      BY <2>3, <3>3 DEF SetsCurrent
    <3> QED BY <3>1, <3>4 DEF Live, LiveStates
  <2> QED BY <2>1, <2>2, <2>3
<1> HIDE DEF reconciled
<1>7. Schedules(reconciled, awake)
  BY <1>5, WakesSchedule
<1> HIDE DEF awake
<1>8. Schedules(awake, revived)
  BY <1>7, ReviveSchedules DEF Schedules
<1> HIDE DEF revived
<1>9. /\ Exists(revived) /\ revived.runtimes = reconciled.runtimes
      /\ revived.failures = store.failures
      /\ \A i \in DOMAIN store.commands : revived.commands[i].kind = store.commands[i].kind
  <2>1. Schedules(reconciled, revived)
    BY <1>7, <1>8, SchedulesTrans DEF Schedules
  <2>2. DOMAIN store.commands \subseteq DOMAIN opened.commands
        /\ DOMAIN opened.commands \subseteq DOMAIN reconciled.commands
    BY <1>2, <1>5 DEF Quiet, Tame
  <2> QED BY <1>2, <1>5, <2>1, <2>2 DEF Schedules, Quiet, Tame, SameCounters
<1>10. CASE reconciled = opened
  <2>1. revived.runtimes = store.runtimes
    BY <1>3, <1>9, <1>10
  <2>2. Generation(revived) = G /\ Current(revived) = Current(store)
    BY <2>1 DEF Generation, Current
  <2>3. ~Survives(store) => Current(store).state = "stopped"
    <3>1. StoreInv(store) /\ Current(store).state \in RuntimeStates
      BY CurrentType DEF IInv
    <3> QED BY <1>3, <1>4, <1>6, <1>10, <3>1 DEF Live, LiveStates, RuntimeStates
  <2>4. Earned(store, revived)
    BY <1>9, <2>1 DEF Earned, Remembers
  <2> QED BY <1>1, <1>9, <2>1, <2>2, <2>3, <2>4
<1>11. CASE Live(opened) /\ SetsCurrent(opened, reconciled, "stopped", "machine_restart")
  <2>1. /\ Generation(reconciled) = G /\ Current(reconciled).state = "stopped"
        /\ reconciled \in Store
        /\ \A g \in 1..G : g # G => reconciled.runtimes[g] = store.runtimes[g]
    BY <1>3, <1>11 DEF SetsCurrent
  <2>2. DOMAIN reconciled.runtimes = 1..G
    BY <2>1, FieldTypes
  <2>3. Generation(revived) = G /\ Current(revived).state = "stopped"
    BY <1>9, <2>1 DEF Generation, Current
  <2>4. Current(store).state # "stopped"
    BY <1>3, <1>11 DEF Live, LiveStates
  <2>5. Remembers(store, revived)
    BY <1>1, <1>9, <2>1, <2>2, <2>4 DEF Remembers, Current
  <2>6. Earned(store, revived)
    BY <1>9, <2>5 DEF Earned
  <2>7. ~Survives(store)
    BY <1>4, <1>6, <2>1, <2>4, <1>3, <1>11 DEF Current
  <2> QED BY <1>1, <1>9, <2>3, <2>6, <2>7
<1> QED BY <1>6, <1>10, <1>11

\* Recovery adopts the process of a live row, or stops the row.
LEMMA BootProcess == ASSUME IInv, QInv, PInv, Preserved, Boot PROVE PInv'
<1> DEFINE G == Generation(store)
           opened == BootRequeueRunningCommands(store)
<1>1. pc = "down" /\ pc' = "rest" /\ host.events = <<>> /\ host \in Host
  BY DEF Boot, PInv, IInv, HostInv
<1>2. Blamed(store)' = Blamed(store')
  BY DEF Blamed
<1>3. CASE ~Exists(store)
  <2>1. store' = opened
    BY <1>3 DEF Boot
  <2>2. Quiet(store, opened) /\ Rewrites(store, opened)
    BY RequeueBee DEF QInv
  <2> HIDE DEF opened
  <2>3. Exists(opened) <=> Exists(store)
    BY <2>2, RewritesInv DEF QInv, BeeInv
  <2>4. Earned(store, store')
    BY <2>1, <2>2, <2>3, QuietCalm DEF Calm
  <2>5. store'.failures <= Cardinality(Blamed(store'))
    BY <2>4, FailuresKept
  <2> QED BY <1>1, <1>2, <1>3, <2>1, <2>3, <2>5 DEF PInv
<1>4. CASE Exists(store)
  <2>1. /\ Exists(store') /\ Generation(store') = G /\ Earned(store, store')
        /\ Survives(store) => store'.runtimes = store.runtimes
        /\ ~Survives(store) => Current(store').state = "stopped"
    BY <1>4, BootRow
  <2>2. /\ Bounded(host, G) /\ Unproven(store) /\ G \in Nat
    BY <1>4, FieldTypes DEF PInv, Known, IInv, StoreInv
  <2>3. Survives(opened) <=> Survives(store)
    <3>1. Quiet(store, opened) /\ Rewrites(store, opened)
      BY RequeueBee DEF QInv
    <3> HIDE DEF opened
    <3>2. Exists(opened) <=> Exists(store)
      BY <3>1, RewritesInv DEF QInv, BeeInv
    <3> QED BY <3>1, <3>2 DEF Quiet, Survives, Live, Current, Generation
  <2>4. CASE Survives(store)
    <3>1. PICK up \in BOOLEAN, degraded \in BOOLEAN :
            host' = Adopt(host, Current(store).state, host.proc.announced \/ up, degraded)
      BY <2>3, <2>4 DEF Boot
    <3>2. /\ host'.events = <<>> /\ host'.pending = host.pending
          /\ host'.proc.generation = host.proc.generation
          /\ host'.proc.degraded = degraded
          /\ host'.proc.phase = IF degraded THEN "running" ELSE Current(store).state
      BY <1>1, <3>1 DEF Adopt, Host
    <3>3. DOMAIN host'.events = {} /\ ProcOf(host, G)
      BY <2>4, <3>2 DEF Survives, ProcOf
    <3>4. Bounded(host', G) /\ Ends(host', G) /\ ProcOf(host', G)
      BY <2>2, <3>2, <3>3 DEF Bounded, Ends, ProcOf, Running
    <3>5. Current(store).state = "booting" => ~InTurn(host', G)
      BY <3>2 DEF InTurn
    <3>6. Current(store).state = "booting" => Proves(host', G)
      BY <3>3, <3>5 DEF Proves
    <3>7. Known(store, host', FALSE)
      BY <2>2, <3>4, <3>6 DEF Known, Present
    <3>8. Known(store', host', FALSE)
      BY <2>1, <2>4, <3>7, KnownRows
    <3>9. store'.failures <= Cardinality(Blamed(store'))
      BY <2>1, FailuresKept
    <3> QED BY <1>1, <1>2, <3>8, <3>9 DEF PInv
  <2>5. CASE ~Survives(store)
    <3>1. host' = Abandon(host)
      BY <2>3, <2>5 DEF Boot
    <3>2. host'.events = <<>> /\ host'.pending = host.pending /\ host'.proc.generation = 0
      BY <1>1, <3>1 DEF Abandon, Host, NoProcess
    <3>3. DOMAIN host'.events = {}
      BY <3>2
    <3>4. Bounded(host', G) /\ Ends(host', G)
      BY <2>2, <3>2, <3>3 DEF Bounded, Ends
    <3>5. Known(store', host', FALSE)
      BY <2>1, <2>5, <3>4 DEF Known, Unproven
    <3>6. store'.failures <= Cardinality(Blamed(store'))
      BY <2>1, FailuresKept
    <3> QED BY <1>1, <1>2, <3>5, <3>6 DEF PInv
  <2> QED BY <2>4, <2>5
<1> QED BY <1>3, <1>4

\* Every step preserves the invariant of rows and processes.
LEMMA NextProcess == IInv /\ QInv /\ PInv /\ [Next]_vars => PInv'
<1> SUFFICES ASSUME IInv, QInv, PInv, [Next]_vars PROVE PInv'
  OBVIOUS
<1>1. Preserved
  BY NextPreserves
<1>2. CASE Step
  BY <1>1, <1>2, BookkeepingProcess, DriverProcess, MintProcess, DeleteProcess, FactProcess,
     RecordProcess, ObserveProcess DEF Step, Bookkeeping, DriverStep
<1>3. CASE Boot
  BY <1>1, <1>3, BootProcess
<1>4. CASE Environment
  BY <1>1, <1>4, BookkeepingProcess, DriverProcess, DownProcess
     DEF Environment, Bookkeeping, DriverStep, HostCallback
<1>5. CASE UNCHANGED vars
  BY <1>1, <1>5, BookkeepingProcess DEF Bookkeeping
<1> QED BY <1>2, <1>3, <1>4, <1>5 DEF Next

\* A new bee: one row that boots, no process, nothing held against it.
LEMMA InitProcess == Init => PInv
<1> SUFFICES ASSUME Init PROVE PInv
  OBVIOUS
<1>1. /\ store = CreateBee /\ pc = "rest" /\ host.events = <<>>
      /\ host.proc.generation = 0 /\ host.pending.generation = 0
  BY DEF Init, InitHost, NoProcess, NoStart
<1>2. store.runtimes = <<NewRuntime>> /\ store.failures = 0
  BY <1>1 DEF CreateBee, ApplyEnqueue
<1>3. Generation(store) = 1 /\ Current(store) = NewRuntime
  BY <1>2 DEF Generation, Current
<1>4. Current(store).state = "booting" /\ Current(store).evidence = "none"
      /\ Current(store).exitCause = "none"
  BY <1>3 DEF NewRuntime
<1>5. DOMAIN host.events = {}
  BY <1>1
<1>6. Bounded(host, 1) /\ Ends(host, 1) /\ ~ProcOf(host, 1)
  BY <1>1, <1>5 DEF Bounded, Ends, ProcOf
<1>7. Proves(host, 1)
  BY <1>5, <1>6 DEF Proves, InTurn
<1>8. Known(store, host, FALSE)
  BY <1>3, <1>4, <1>6, <1>7 DEF Known, Unproven
<1>9. Blamed(store) = {}
  BY <1>2, <1>3, <1>4 DEF Blamed, Current
<1>10. (pc = "down") = FALSE
  BY <1>1
<1>11. Known(store, host, pc = "down")
  BY <1>8, <1>10
<1>12. store.failures <= Cardinality(Blamed(store))
  BY <1>2, <1>9, FS_EmptySet
<1> QED BY <1>1, <1>11, <1>12 DEF PInv

\* The invariant of rows and processes holds in every reachable state.
LEMMA ProcessHolds == Spec => []PInv
  BY InitProcess, NextProcess, InvHolds, QueueHolds, PTL DEF Spec

-----------------------------------------------------------------------------
(* The theorems. *)

\* I4: the spawn-failure counter never exceeds the number of boots that failed,
\* whatever stops, crashes of the daemon or restarts of the machine happen: the
\* same boot is not counted twice and nothing else is counted.
THEOREM FailuresCorrect == Spec => []FailuresEarned
<1>1. PInv => FailuresEarned
  BY DEF PInv, Blamed, FailuresEarned, FailedBoots
<1> QED BY <1>1, ProcessHolds, PTL

\* I3: between two steps of the daemon a runtime shown as running or idle has
\* its process, or the exit of that process is queued to be folded.
THEOREM ZombieCorrect == Spec => []NoZombie
<1>1. IInv /\ PInv => NoZombie
  <2> SUFFICES ASSUME IInv, PInv, pc = "rest", Live(store), Current(store).state # "booting"
               PROVE  ProcOf(host, Generation(store)) \/ ExitQueued(Generation(store))
    BY DEF NoZombie
  <2>1. Exists(store) /\ Current(store).state \in {"running", "idle"}
    BY DEF Live, LiveStates
  <2>2. Present(host, Generation(store))
    BY <2>1 DEF PInv, Known
  <2> QED BY <2>2 DEF Present, ExitOf, Left, ExitQueued
<1> QED BY <1>1, InvHolds, ProcessHolds, PTL

-----------------------------------------------------------------------------
(* One process for one runtime. *)

\* The bees of the results that follow.
NoCellRevive == ~Cell \/ "revive" \notin RequestKinds

\* The starts under way for the current generation.
Starts(s) ==
  {i \in DOMAIN s.commands : /\ s.commands[i].verb \in StartVerbs
                             /\ s.commands[i].status \in Pending
                             /\ s.commands[i].target = Generation(s)}

\* The driver has neither a process nor a start.
Free(h) == ~Running(h) /\ ~StartPending(h)

\* The driver has a process or the preparation of one, never a held start.
Single(h) ==
  /\ Running(h) => ~StartPending(h)
  /\ h.pending.preparing <=> StartPending(h)
  /\ StartPending(h) => Cell

\* What the driver has is the current runtime's, and that one is live; with its
\* exit queued the driver has nothing.
Owned(s, h) ==
  /\ Running(h) => Live(s) /\ h.proc.generation = Generation(s)
  /\ StartPending(h) => Live(s) /\ h.pending.generation = Generation(s)
  /\ Live(s) /\ ExitOf(h, Generation(s)) => Free(h)

\* A process that a restart lost was not recorded, and its row is stopped.
Lost(s, h) ==
  \A g \in h.orphans : /\ g \in DOMAIN s.runtimes
                       /\ ~s.runtimes[g].pid /\ s.runtimes[g].state = "stopped"

\* In a cell a live runtime is started by its bee's spawn alone.
Spawning(s) == Cell /\ Live(s) => \A i \in Starts(s) : s.commands[i].verb = "spawn"

\* A start that the driver took is the one being executed.
Taken ==
  Exists(store) /\ StartPending(host) =>
    \A i \in Starts(store) : /\ i = cmd /\ pc \in {"started", "settle"}
                             /\ store.commands[i].status = "running"

\* From the policies to the delivery.
Commanding == {"commands", "claimed", "reset", "minted", "started", "exited", "woken",
               "settle", "delivery", "accepted"}

\* Once the observations are folded, an exit of a live runtime is that of a
\* start that was cancelled since, and no start is left to be executed.
Cancelled ==
  pc \in Commanding /\ Live(store) /\ ExitOf(host, Generation(store)) => Starts(store) = {}

\* What a deleted bee leaves behind is being stopped.
Deleted ==
  /\ ~Exists(store) /\ pc \notin {"down", "deleting"} =>
       ~StartPending(host) /\ (Running(host) => Stopping(host))
  /\ pc = "deleting" => /\ Running(host) => host.proc.generation = gen
                        /\ StartPending(host) => host.pending.generation = gen

\* What a handler may rely on about the driver.
Handling ==
  /\ pc \in {"minted", "started"} => Live(store)
  /\ pc \in {"minted", "exiting"} => Free(host)
  /\ pc = "minted" => ~ExitOf(host, Generation(store)) /\ Starts(store) = {}
  /\ pc = "reset" => Verb = "revive" /\ store.commands[cmd].target = Generation(store)

\* The inductive invariant of rows and the driver.
HInv ==
  /\ Single(host) /\ Taken /\ Cancelled /\ Deleted /\ Handling
  /\ Exists(store) => Owned(store, host) /\ Lost(store, host) /\ Spawning(store)

-----------------------------------------------------------------------------
(* The driver. *)

\* The process says something, or observe() takes an observation: the driver
\* keeps what it has, and no exit is queued.
Talks(h, k) ==
  /\ k.proc.generation = h.proc.generation /\ k.proc.stopCause = h.proc.stopCause
  /\ k.pending = h.pending /\ k.orphans = h.orphans
  /\ \A g \in Nat : ExitOf(k, g) => ExitOf(h, g)

\* Observations of which none is an exit.
Says(q) == q \in Seq(Observation) /\ \A i \in DOMAIN q : q[i].kind # "exited"

\* None, or one that the process has made.
LEMMA SaysFew ==
  ASSUME NEW h \in Host, NEW kind \in {"booted", "turn_started", "turn_ended"},
         NEW synthetic \in BOOLEAN
  PROVE  Says(<<>>) /\ Says(<<Saw(h, kind, synthetic)>>)
<1> DEFINE e == Saw(h, kind, synthetic)
<1>1. e \in Observation /\ e.kind # "exited"
  BY SawFields
<1> HIDE DEF e
<1>2. Says(<<>>) /\ Says(<<e>>)
  BY <1>1 DEF Says
<1> QED BY <1>2 DEF e

\* Queued behind others they are no exit.
LEMMA SaysNoExit ==
  ASSUME NEW h, NEW k, NEW a \in Seq(Observation), NEW x, NEW y, Says(x), Says(y),
         h.events = a, k.events = (a \o x) \o y, NEW g
  PROVE  ExitOf(k, g) => ExitOf(h, g)
<1> DEFINE b == a \o x
           c == b \o y
<1>1. x \in Seq(Observation) /\ y \in Seq(Observation)
  BY DEF Says
<1>2. /\ b \in Seq(Observation)
      /\ \A i \in DOMAIN a : b[i] = a[i]
      /\ \A i \in DOMAIN x : b[Len(a) + i] = x[i]
      /\ \A i \in DOMAIN b : i \in DOMAIN a \/ \E j \in DOMAIN x : i = Len(a) + j
  BY <1>1, QueuedBehind
<1> HIDE DEF b
<1>3. /\ \A i \in DOMAIN b : c[i] = b[i]
      /\ \A i \in DOMAIN y : c[Len(b) + i] = y[i]
      /\ \A i \in DOMAIN c : i \in DOMAIN b \/ \E j \in DOMAIN y : i = Len(b) + j
  <2>1. b \in Seq(Observation) /\ y \in Seq(Observation)
    BY <1>1, <1>2
  <2> QED BY <2>1, QueuedBehind, SMTT(30)
<1>4. k.events = c
  BY DEF b
<1> HIDE DEF c
<1>5. ASSUME NEW i \in DOMAIN c, Left(c[i], g) PROVE i \in DOMAIN a /\ Left(a[i], g)
  <2>1. i \in DOMAIN b
    BY <1>3, <1>5 DEF Says, Left
  <2>2. i \in DOMAIN a
    BY <1>2, <1>3, <1>5, <2>1 DEF Says, Left
  <2> QED BY <1>2, <1>3, <1>5, <2>1, <2>2
<1> QED BY <1>4, <1>5 DEF ExitOf

\* pumpStatus, onSignal and deliver.
LEMMA PumpTalks == ASSUME NEW h \in Host PROVE Talks(h, PumpStatus(h))
<1> DEFINE x == <<Saw(h, "booted", TRUE)>>
           y == IF h.proc.phase = "idle" THEN <<Saw(h, "turn_ended", TRUE)>> ELSE <<>>
           k == PumpStatus(h)
<1>1. Says(x) /\ Says(y)
  BY SaysFew
<1>2. /\ k.proc = [h.proc EXCEPT !.announced = TRUE] /\ k.pending = h.pending
      /\ k.orphans = h.orphans /\ k.events = (h.events \o x) \o y
  BY DEF PumpStatus, Host
<1>3. k.proc.generation = h.proc.generation /\ k.proc.stopCause = h.proc.stopCause
  BY <1>2, HostTypes DEF Process
<1> HIDE DEF x, y, k
<1>4. \A g \in Nat : ExitOf(k, g) => ExitOf(h, g)
  BY <1>1, <1>2, HostTypes, SaysNoExit
<1> QED BY <1>2, <1>3, <1>4 DEF Talks, k

\* A parsed line.
LEMMA SignalTalks ==
  ASSUME NEW h \in Host, NEW phase \in Phases, NEW seen, Says(seen)
  PROVE  Talks(h, Signal(h, phase, seen))
<1> DEFINE x == Evidence(h)
           k == Signal(h, phase, seen)
<1>1. Says(x)
  BY SaysFew DEF Evidence
<1>2. /\ k.proc = [h.proc EXCEPT !.realEvidence = TRUE, !.phase = phase]
      /\ k.pending = h.pending /\ k.orphans = h.orphans /\ k.events = (h.events \o x) \o seen
  BY DEF Signal, Host
<1>3. k.proc.generation = h.proc.generation /\ k.proc.stopCause = h.proc.stopCause
  BY <1>2, HostTypes DEF Process
<1> HIDE DEF x, k
<1>4. \A g \in Nat : ExitOf(k, g) => ExitOf(h, g)
  BY <1>1, <1>2, HostTypes, SaysNoExit
<1> QED BY <1>2, <1>3, <1>4 DEF Talks, k

\* Every parsed line.
LEMMA SignalsTalk ==
  ASSUME NEW h \in Host
  PROVE  /\ Talks(h, SignalBooted(h)) /\ Talks(h, SignalTurnStarted(h))
         /\ Talks(h, SignalTurnEnded(h))
<1>1. h.proc.phase \in Phases /\ "running" \in Phases /\ "idle" \in Phases
  BY HostTypes DEF Phases
<1>2. /\ Says(<<>>) /\ Says(<<Saw(h, "booted", FALSE)>>)
      /\ Says(<<Saw(h, "turn_started", FALSE)>>) /\ Says(<<Saw(h, "turn_ended", FALSE)>>)
  BY SaysFew
<1>3. Talks(h, SignalTurnStarted(h)) /\ Talks(h, SignalTurnEnded(h))
  BY <1>1, <1>2, SignalTalks DEF SignalTurnStarted, SignalTurnEnded
<1>4. /\ Talks(h, Signal(h, "running", <<Saw(h, "booted", FALSE)>>))
      /\ Talks(h, Signal(h, h.proc.phase, <<>>))
  BY <1>1, <1>2, SignalTalks
<1> QED BY <1>3, <1>4 DEF SignalBooted

\* A delivered message.
LEMMA DeliverTalks == ASSUME NEW h \in Host PROVE Talks(h, Deliver(h))
<1>1. CASE h.proc.phase # "idle"
  BY <1>1 DEF Deliver, Talks
<1>2. CASE h.proc.phase = "idle"
  <2> DEFINE k == Deliver(h)
             x == <<Saw(h, "turn_started", TRUE)>>
             e == Saw(h, "turn_started", TRUE)
  <2>1. Says(x) /\ Says(<<>>) /\ h.events \in Seq(Observation) /\ e \in Observation
    BY HostTypes, SaysFew, SawFields
  <2>2. /\ k.proc = [h.proc EXCEPT !.phase = "running"] /\ k.pending = h.pending
        /\ k.orphans = h.orphans /\ k.events = Append(h.events, e)
    BY <1>2 DEF Deliver, Push, Host
  <2>3. k.proc.generation = h.proc.generation /\ k.proc.stopCause = h.proc.stopCause
    BY <2>2, HostTypes DEF Process
  <2>4. k.events = (h.events \o x) \o <<>>
    <3> HIDE DEF e
    <3>1. Append(h.events, e) = (h.events \o <<e>>) \o <<>>
      BY <2>1, QueuedTwice
    <3> QED BY <2>2, <3>1 DEF e
  <2> HIDE DEF x, k
  <2>5. \A g \in Nat : ExitOf(k, g) => ExitOf(h, g)
    BY <2>1, <2>4, SaysNoExit
  <2> QED BY <2>2, <2>3, <2>5 DEF Talks, k
<1> QED BY <1>1, <1>2

\* onExit, when no start is held: the process is gone, its exit queued.
LEMMA ExitLeaves ==
  ASSUME NEW h \in Host, NEW code \in {"clean", "crashed"}, ~StartPending(h)
  PROVE  LET k == OnExit(h, code) IN Free(k) /\ k.pending = h.pending /\ k.orphans = h.orphans
<1>1. PICK cause \in StopCauses \union {"clean", "crashed"} : OnExit(h, code) = Gone(h, cause)
  BY OnExitCases
<1>2. /\ Gone(h, cause).proc = NoProcess /\ Gone(h, cause).pending = h.pending
      /\ Gone(h, cause).orphans = h.orphans
  BY GoneHost
<1>3. NoProcess.generation = 0
  BY DEF NoProcess
<1> QED BY <1>1, <1>2, <1>3 DEF Free, Running, StartPending

\* The end of a preparation, when no process is there: a fresh process, or an
\* exit.
LEMMA PreparedLeaves ==
  ASSUME NEW h \in Host, NEW ok \in BOOLEAN, ~Running(h)
  PROVE  LET k == Prepared(h, ok)
         IN  /\ k.pending = NoStart /\ k.orphans = h.orphans
             /\ \/ k.proc = NewProcess(h.pending.generation) /\ k.events = h.events
                \/ Free(k)
<1> DEFINE f == [h EXCEPT !.pending = NoStart]
           e == Push(f, Exited(h.pending.generation, "crashed"))
           l == [f EXCEPT !.proc = NewProcess(h.pending.generation)]
<1>1. f \in Host /\ f.proc = h.proc /\ f.pending = NoStart /\ f.orphans = h.orphans
      /\ f.events = h.events
  BY NoProcessType DEF Host
<1>2. ~Running(f)
  BY <1>1 DEF Running
<1>3. Prepared(h, ok) = l \/ Prepared(h, ok) = e
  BY <1>2 DEF Prepared, Launch
<1> HIDE DEF f
<1>4. e.proc = h.proc /\ e.pending = NoStart /\ e.orphans = h.orphans
  BY <1>1, HostFields
<1>5. /\ l.proc = NewProcess(h.pending.generation) /\ l.pending = NoStart
      /\ l.orphans = h.orphans /\ l.events = h.events
  BY <1>1, HostFields
<1>6. NoStart.generation = 0
  BY DEF NoStart
<1> HIDE DEF e, l
<1> QED BY <1>3, <1>4, <1>5, <1>6 DEF Free, Running, StartPending

\* start, when the driver has nothing: a preparation, or a fresh process.
LEMMA StartTakes ==
  ASSUME NEW h \in Host, NEW g \in Nat \ {0}, Free(h)
  PROVE  LET k == Start(h, g)
         IN  /\ k.events = h.events /\ k.orphans = h.orphans
             /\ Cell => k.proc = h.proc /\ k.pending = [generation |-> g, preparing |-> TRUE]
             /\ ~Cell => k.proc = NewProcess(g) /\ k.pending = h.pending
<1> DEFINE w == [generation |-> g, preparing |-> TRUE]
<1>1. CASE Cell
  <2>1. Start(h, g) = [h EXCEPT !.pending = w]
    BY <1>1 DEF Start
  <2> HIDE DEF w
  <2>2. /\ Start(h, g).events = h.events /\ Start(h, g).orphans = h.orphans
        /\ Start(h, g).proc = h.proc /\ Start(h, g).pending = w
    BY <2>1, HostFields
  <2> QED BY <1>1, <2>2 DEF w
<1>2. CASE ~Cell
  <2>1. Start(h, g) = [h EXCEPT !.proc = NewProcess(g)]
    BY <1>2 DEF Start, Launch, Free
  <2> QED BY <1>2, <2>1, HostFields
<1> QED BY <1>1, <1>2

\* stop, for a process or start that the driver may have.
LEMMA StopLeaves ==
  ASSUME NEW h \in Host, NEW g \in Nat, NEW cause \in StopCauses, NEW dead \in BOOLEAN,
         Single(h), Running(h) => h.proc.generation = g,
         StartPending(h) => h.pending.generation = g
  PROVE  LET k == Stop(h, g, cause, dead)
         IN  /\ k.orphans = h.orphans
             /\ \/ Free(k) /\ ~k.pending.preparing
                \/ /\ Running(h) /\ ~dead /\ Running(k) /\ Stopping(k)
                   /\ k.proc.generation = h.proc.generation
                   /\ k.pending = h.pending /\ k.events = h.events
             /\ StartPending(h) => Free(k)
             /\ ~StartPending(h) /\ (~Running(h) \/ dead) => Free(k)
             /\ Free(h) => k = h
             /\ ~StartPending(h) /\ Running(h) /\ ~dead => k.events = h.events
<1> DEFINE k == Stop(h, g, cause, dead)
           f == [h EXCEPT !.pending = NoStart]
           e == Push(f, Exited(g, cause))
           p == [h.proc EXCEPT !.stopCause = cause, !.signalled = TRUE]
<1>1. NoStart.generation = 0 /\ ~NoStart.preparing
  BY DEF NoStart
<1>2. CASE StartPending(h)
  <2>1. k = e /\ ~Running(h)
    BY <1>2 DEF Stop, Single
  <2>2. f \in Host /\ f.proc = h.proc /\ f.pending = NoStart /\ f.orphans = h.orphans
    BY NoProcessType DEF Host
  <2> HIDE DEF f
  <2>3. e.proc = h.proc /\ e.pending = NoStart /\ e.orphans = h.orphans
    BY <2>2, HostFields
  <2> HIDE DEF e, k
  <2>4. Free(k) /\ ~k.pending.preparing /\ k.orphans = h.orphans
    BY <1>1, <2>1, <2>3 DEF Free, Running, StartPending
  <2> QED BY <1>2, <2>4 DEF k, Free
<1>3. CASE ~StartPending(h) /\ ~Running(h)
  BY <1>3 DEF Stop, Free, Single
<1>4. CASE ~StartPending(h) /\ Running(h) /\ dead
  <2>1. k = OnExit(h, "crashed")
    BY <1>4 DEF Stop
  <2>2. Free(k) /\ k.pending = h.pending /\ k.orphans = h.orphans
    BY <1>4, <2>1, ExitLeaves
  <2> HIDE DEF k
  <2> QED BY <1>4, <2>2 DEF k, Single, Free
<1>5. CASE ~StartPending(h) /\ Running(h) /\ ~dead
  <2>1. (k = h /\ Stopping(h)) \/ k = [h EXCEPT !.proc = p]
    BY <1>5 DEF Stop
  <2>2. p.generation = h.proc.generation /\ p.stopCause = cause /\ cause # "none"
    BY HostTypes DEF Process, StopCauses
  <2> HIDE DEF p
  <2>3. [h EXCEPT !.proc = p].proc = p /\ [h EXCEPT !.proc = p].pending = h.pending
        /\ [h EXCEPT !.proc = p].events = h.events /\ [h EXCEPT !.proc = p].orphans = h.orphans
    BY HostFields
  <2> HIDE DEF k
  <2>4. /\ Running(k) /\ Stopping(k) /\ k.proc.generation = h.proc.generation
        /\ k.pending = h.pending /\ k.events = h.events /\ k.orphans = h.orphans
    BY <1>5, <2>1, <2>2, <2>3 DEF Running, Stopping
  <2> QED BY <1>5, <2>4 DEF k, Free
<1> QED BY <1>2, <1>3, <1>4, <1>5

-----------------------------------------------------------------------------
(* Who queues a start. *)

\* No start is queued.
StartsFrom(s, r) ==
  \A i \in DOMAIN r.commands :
    r.commands[i].verb \in StartVerbs =>
      i \in DOMAIN s.commands /\ s.commands[i].verb \in StartVerbs

\* A method that queues nothing queues no start.
LEMMA RewritesStarts ==
  ASSUME NEW s \in Store, NEW r \in Store, Evolves(s, r), DOMAIN r.commands = DOMAIN s.commands
  PROVE  StartsFrom(s, r)
  BY EvolvesBack DEF StartsFrom

\* Neither does one that queues a command of another verb.
LEMMA EnqueueStarts ==
  ASSUME NEW s \in Store, NEW verb \in Verbs, NEW kind \in Kinds, verb \notin StartVerbs
  PROVE  EnqueueCommand(s, verb, kind) \in Store /\ StartsFrom(s, EnqueueCommand(s, verb, kind))
<1> DEFINE t == IF kind = "user" THEN SupersedeStarts(s) ELSE s
           r == ApplyEnqueue(t, verb, kind, TRUE)
<1>1. t \in Store /\ StartsFrom(s, t)
  <2>1. CASE kind = "user"
    <3>1. Rewrites(s, SupersedeStarts(s))
      BY SupersedeRewrites
    <3>2. /\ SupersedeStarts(s) \in Store /\ Evolves(s, SupersedeStarts(s))
          /\ DOMAIN SupersedeStarts(s).commands = DOMAIN s.commands
      BY <3>1, FieldTypes DEF Rewrites, Grows
    <3> QED BY <2>1, <3>2, RewritesStarts
  <2>2. CASE kind # "user"
    BY <2>2 DEF StartsFrom
  <2> QED BY <2>1, <2>2
<1> HIDE DEF t
<1>2. /\ r \in Store /\ Len(r.commands) = Len(t.commands) + 1
      /\ \A i \in 1..Len(t.commands) : r.commands[i] = t.commands[i]
      /\ r.commands[Len(t.commands) + 1] = NewCommand(t, verb, kind, TRUE)
  BY <1>1, ApplyEnqueueAppends
<1>3. EnqueueCommand(s, verb, kind) = r
  BY DEF EnqueueCommand, t
<1> HIDE DEF r
<1>4. NewCommand(t, verb, kind, TRUE).verb = verb
  BY DEF NewCommand
<1>5. /\ Len(t.commands) \in Nat /\ DOMAIN t.commands = 1..Len(t.commands)
      /\ DOMAIN r.commands = 1..Len(t.commands) + 1
  BY <1>1, <1>2, FieldTypes
<1>6. StartsFrom(t, r)
  <2> SUFFICES ASSUME NEW i \in DOMAIN r.commands, r.commands[i].verb \in StartVerbs
               PROVE  i \in DOMAIN t.commands /\ r.commands[i] = t.commands[i]
    BY DEF StartsFrom
  <2>1. i # Len(t.commands) + 1
    BY <1>2, <1>4
  <2>2. i \in 1..Len(t.commands)
    BY <1>5, <2>1
  <2> QED BY <1>2, <1>5, <2>2
<1> QED BY <1>1, <1>2, <1>3, <1>6 DEF StartsFrom

\* The policies queue stops.
LEMMA PoliciesStarts ==
  ASSUME NEW s \in Store, NEW elapsed
  PROVE  StartsFrom(s, DegradedMailPolicy(ScaleToZeroPolicy(BootHangPolicy(s), elapsed)))
<1>1. ASSUME NEW t \in Store, NEW kind \in {"hang", "idle_window", "degraded"}
      PROVE  /\ EnqueueCommand(t, "stop", kind) \in Store
             /\ StartsFrom(t, EnqueueCommand(t, "stop", kind)) /\ StartsFrom(t, t)
  BY <1>1, EnqueueStarts DEF Verbs, Kinds, StartVerbs, StartsFrom
<1> DEFINE a == BootHangPolicy(s)
           b == ScaleToZeroPolicy(a, elapsed)
           c == DegradedMailPolicy(b)
<1>2. a \in Store /\ StartsFrom(s, a)
  BY <1>1 DEF BootHangPolicy
<1> HIDE DEF a
<1>3. b \in Store /\ StartsFrom(a, b)
  BY <1>1, <1>2 DEF ScaleToZeroPolicy
<1> HIDE DEF b
<1>4. StartsFrom(b, c)
  BY <1>1, <1>3 DEF DegradedMailPolicy
<1> HIDE DEF c
<1>5. StartsFrom(s, c)
  BY <1>2, <1>3, <1>4 DEF StartsFrom
<1> QED BY <1>5 DEF a, b, c

\* An operator other than one who revives queues no start for a live runtime.
LEMMA OperatorStarts ==
  ASSUME IInv, QInv, Live(store), Operator, ~RpcRevive
  PROVE  StartsFrom(store, store')
<1>1. store \in Store /\ StoreInv(store) /\ Exists(store) /\ BeeInv(store)
  BY DEF IInv, StoreInv, Live, QInv
<1>2. CASE RpcSend
  <2> DEFINE u == UnarchiveBee(store)
             t == [u EXCEPT !.mail = @ + 1]
  <2>1. store' = ApplyWakeIfNeeded(t)
    BY <1>2 DEF RpcSend, Request, Send
  <2>2. u \in Store /\ Exists(u) /\ u.commands = store.commands /\ u.runtimes = store.runtimes
    BY <1>1, UnarchiveInv DEF StoreInv
  <2> HIDE DEF u
  <2>3. t.commands = store.commands /\ t.runtimes = store.runtimes /\ Exists(t)
    BY <2>2 DEF Store, Exists
  <2> HIDE DEF t
  <2>4. Live(t)
    BY <2>3 DEF Live, Current, Generation
  <2>5. store' = t
    BY <2>1, <2>4 DEF ApplyWakeIfNeeded
  <2> QED BY <2>3, <2>5 DEF StartsFrom
<1>3. CASE RpcStop \/ RpcArchive \/ RpcUnarchive \/ RpcDelete
  BY <1>1, <1>3, EnqueueStarts
     DEF RpcStop, RpcArchive, RpcUnarchive, RpcDelete, Request, Verbs, Kinds, StartVerbs
<1>4. CASE RpcSwapAccount
  <2>1. store' = EnqueueCommand(store, "stop", "swap")
    BY <1>4 DEF RpcSwapAccount, Request, SwapAccount
  <2> QED BY <1>1, <2>1, EnqueueStarts DEF Verbs, Kinds, StartVerbs
<1>5. CASE RpcReconfigure
  <2> DEFINE t == MootModelChange(store)
  <2>1. store' = t \/ store' = EnqueueCommand(t, "stop", "model")
    BY <1>5 DEF RpcReconfigure, Request, ReconfigureBee
  <2>2. t \in Store /\ Evolves(store, t) /\ DOMAIN t.commands = DOMAIN store.commands
    <3>1. Rewrites(store, t)
      BY <1>1, MootModelChangeRewrites
    <3> HIDE DEF t
    <3> QED BY <1>1, <3>1, FieldTypes DEF Rewrites, Grows
  <2> HIDE DEF t
  <2>3. StartsFrom(store, t)
    BY <1>1, <2>2, RewritesStarts
  <2>4. StartsFrom(t, EnqueueCommand(t, "stop", "model"))
    BY <2>2, EnqueueStarts DEF Verbs, Kinds, StartVerbs
  <2> QED BY <2>1, <2>3, <2>4 DEF StartsFrom
<1> QED BY <1>2, <1>3, <1>4, <1>5 DEF Operator

\* Bookkeeping queues no start for a live runtime.
LEMMA BookkeepingStarts ==
  ASSUME IInv, QInv, Preserved, Live(store), Bookkeeping, ~RpcRevive
  PROVE  StartsFrom(store, store')
<1>1. /\ store \in Store /\ store' \in Store /\ Evolves(store, store') /\ Exists(store)
      /\ Current(store).state # "stopped"
  BY DEF IInv, StoreInv, Preserved, Change, Live, LiveStates
<1>2. ASSUME DOMAIN store'.commands = DOMAIN store.commands PROVE StartsFrom(store, store')
  BY <1>1, <1>2, RewritesStarts
<1>3. CASE Operator
  BY <1>3, OperatorStarts
<1>4. CASE CommandDue
  BY <1>1, <1>2, <1>4 DEF CommandDue, Store
<1>5. CASE BootDeadline \/ BeginStep \/ ExecuteStartNoop \/ DeliverNothing \/ UNCHANGED vars
  BY <1>2, <1>5 DEF BootDeadline, BeginStep, ExecuteStartNoop, DeliverNothing, Commit, vars
<1>6. CASE Policies
  BY <1>1, <1>6, PoliciesStarts DEF Policies
<1>7. CASE Claim
  BY <1>1, <1>2, <1>7 DEF Claim, ClaimNextCommand, Store
<1>8. CASE ExecuteArchive
  BY <1>1, <1>2, <1>8 DEF ExecuteArchive, Commit, ExecuteArchiveCommand, Store
<1>9. CASE ExecuteUnarchive
  BY <1>1, <1>2, <1>9 DEF ExecuteUnarchive, Commit, UnarchiveBee, ApplyUnarchive, Store
<1>10. CASE ExecuteStopStopped
  BY <1>10 DEF ExecuteStopStopped
<1>11. CASE ExecuteStopWake
  BY <1>2, <1>11 DEF ExecuteStopWake, Commit, EnsureWake, EnqueueWake, ApplyWakeIfNeeded
<1>12. CASE ExecuteStopRevive
  BY <1>1, <1>2, <1>12 DEF ExecuteStopRevive, Commit, ReviveAfterStopIfRequested
<1>13. CASE ExecuteStopSkip
  BY <1>1, <1>2, <1>13 DEF ExecuteStopSkip, Commit, SkipBootHangStop, Store
<1>14. CASE ExecuteReviveReset
  BY <1>1, <1>2, <1>14
     DEF ExecuteReviveReset, Commit, ResetSpawnFailures, ApplySpawnFailuresReset, Store
<1>15. CASE ExecuteStartFails
  BY <1>1, <1>2, <1>15 DEF ExecuteStartFails, ReportCommandFailure, Store
<1>16. CASE Settle
  BY <1>1, <1>2, <1>16 DEF Settle, Commit, CompleteCommand, SetCommand, Store
<1>17. CASE DeliverMarked
  BY <1>1, <1>2, <1>17 DEF DeliverMarked, Commit, MarkDelivered, Store
<1> QED BY <1>3, <1>4, <1>5, <1>6, <1>7, <1>8, <1>9, <1>10, <1>11, <1>12, <1>13, <1>14,
           <1>15, <1>16, <1>17 DEF Bookkeeping

\* The starts under way for a live runtime only become fewer.
LEMMA FewerStarts ==
  ASSUME NEW s \in Store, NEW r \in Store, Evolves(s, r), StartsFrom(s, r),
         Generation(r) = Generation(s)
  PROVE  Starts(r) \subseteq Starts(s)
         /\ \A i \in Starts(r) : r.commands[i].verb = s.commands[i].verb
  BY EvolvesBack DEF Starts, StartsFrom

-----------------------------------------------------------------------------
(* A step preserves the invariant. *)

\* Where bookkeeping begins and ends.
LEMMA BookkeepingControl ==
  ASSUME Bookkeeping, ~UNCHANGED vars
  PROVE  /\ host' = host
         /\ pc \notin {"down", "deleting", "started"}
         /\ pc' \notin {"minted", "started", "exiting", "deleting", "down"}
         /\ pc' \in Commanding => pc \in Commanding \/ host.events = <<>>
         /\ pc = "settle" => Settle
         /\ pc' = "reset" => ExecuteReviveReset
         /\ RpcRevive => pc' = "rest" /\ "revive" \in RequestKinds
<1>1. CASE Operator
  BY <1>1 DEF Operator, Request, Ask, RpcSend, RpcStop, RpcRevive, RpcArchive, RpcUnarchive,
              RpcDelete, RpcSwapAccount, RpcReconfigure, Commanding
<1>0. RpcRevive => pc' = "rest" /\ "revive" \in RequestKinds
  BY DEF RpcRevive, Request, Ask
<1>2. CASE CommandDue \/ BootDeadline
  BY <1>0, <1>2 DEF CommandDue, BootDeadline, Commanding
<1>5. CASE BeginStep \/ Policies
  BY <1>0, <1>5 DEF BeginStep, Policies, Commanding
<1>6. CASE Claim
  BY <1>0, <1>6 DEF Claim, Commanding
<1>3. CASE \/ ExecuteArchive \/ ExecuteUnarchive \/ ExecuteStopStopped \/ ExecuteStopSkip
           \/ ExecuteStopWake \/ ExecuteStopRevive
  BY <1>3 DEF ExecuteArchive, ExecuteUnarchive, ExecuteStopStopped, ExecuteStopSkip,
              ExecuteStopWake, ExecuteStopRevive, Commit, Commanding, RpcRevive, Request
<1>4. CASE \/ ExecuteReviveReset \/ ExecuteStartNoop \/ ExecuteStartFails \/ Settle
           \/ DeliverNothing \/ DeliverMarked
  BY <1>4 DEF ExecuteReviveReset, ExecuteStartNoop, ExecuteStartFails, Settle, DeliverNothing,
              DeliverMarked, Commit, AtStart, AtLaunch, Commanding, RpcRevive, Request
<1> QED BY <1>1, <1>2, <1>3, <1>4, <1>5, <1>6 DEF Bookkeeping

\* The same rows, the same driver.
LEMMA OwnedSame ==
  ASSUME NEW s, NEW r, NEW h, r.runtimes = s.runtimes, Exists(s), Exists(r)
  PROVE  /\ Owned(s, h) => Owned(r, h)
         /\ Lost(s, h) => Lost(r, h)
         /\ Live(r) <=> Live(s)
         /\ Generation(r) = Generation(s)
<1>1. Generation(r) = Generation(s) /\ Current(r) = Current(s) /\ (Live(r) <=> Live(s))
  BY DEF Generation, Current, Live
<1> QED BY <1>1 DEF Owned, Lost

\* Nothing at all happens.
LEMMA StutterHost == ASSUME HInv, UNCHANGED vars PROVE HInv'
<1>1. store' = store /\ host' = host /\ pc' = pc /\ cmd' = cmd /\ gen' = gen
  BY DEF vars
<1> QED BY <1>1 DEF HInv, Taken, Cancelled, Deleted, Handling, Verb

\* Bookkeeping.
LEMMA BookkeepingHost ==
  ASSUME NoCellRevive, IInv, QInv, HInv, Preserved, Bookkeeping, ~UNCHANGED vars
  PROVE  HInv'
<1>1. /\ host' = host
      /\ pc \notin {"down", "deleting", "started"}
      /\ pc' \notin {"minted", "started", "exiting", "deleting", "down"}
      /\ pc' \in Commanding => pc \in Commanding \/ host.events = <<>>
      /\ pc = "settle" => Settle
      /\ pc' = "reset" => ExecuteReviveReset
      /\ RpcRevive => pc' = "rest" /\ ~Cell
  BY BookkeepingControl DEF NoCellRevive
<1>2. store'.runtimes = store.runtimes /\ (Exists(store') <=> Exists(store))
  BY BookkeepingCalm DEF Calm
<1>3. Exists(store) => (Live(store') <=> Live(store)) /\ Generation(store') = Generation(store)
  BY <1>2, OwnedSame
<1>4. ASSUME Live(store), ~RpcRevive
      PROVE  /\ Starts(store') \subseteq Starts(store)
             /\ \A i \in Starts(store') : store'.commands[i].verb = store.commands[i].verb
  <2>1. StartsFrom(store, store')
    BY <1>4, BookkeepingStarts
  <2>2. store \in Store /\ store' \in Store /\ Evolves(store, store') /\ Exists(store)
    BY <1>4 DEF IInv, StoreInv, Preserved, Change, Live
  <2> QED BY <1>3, <2>1, <2>2, FewerStarts
<1>5. Single(host')
  BY <1>1 DEF HInv
<1>6. ASSUME Exists(store') PROVE Owned(store', host') /\ Lost(store', host')
  BY <1>1, <1>2, <1>6, OwnedSame DEF HInv
<1>7. ASSUME Exists(store') PROVE Spawning(store')
  BY <1>1, <1>2, <1>3, <1>4, <1>7 DEF HInv, Spawning
<1>8. ASSUME Exists(store'), StartPending(host') PROVE Starts(store') = {}
  <2>1. Exists(store) /\ StartPending(host) /\ Live(store) /\ Cell
    BY <1>1, <1>2, <1>8 DEF HInv, Owned, Single
  <2>2. Starts(store') \subseteq Starts(store)
    BY <1>1, <1>4, <2>1
  <2>3. ASSUME NEW i \in Starts(store') PROVE FALSE
    <3>1. i = cmd /\ pc = "settle" /\ store.commands[i].status = "running"
      BY <1>1, <2>1, <2>2 DEF HInv, Taken
    <3>2. store' = SetCommand(store, cmd, "done") /\ cmd \in DOMAIN store.commands
      BY <1>1, <3>1 DEF Settle, Commit, CompleteCommand, IInv, Control, Executing
    <3>3. store \in Store
      BY DEF IInv, StoreInv
    <3>4. store'.commands[cmd].status = "done"
      BY <3>2, <3>3, FieldTypes DEF SetCommand, Store, Command
    <3> QED BY <3>1, <3>4 DEF Starts, Pending
  <2> QED BY <2>3
<1>9. Taken'
  BY <1>8 DEF Taken
<1>10. Cancelled'
  <2> SUFFICES ASSUME pc' \in Commanding, Live(store'), ExitOf(host', Generation(store'))
               PROVE  Starts(store') = {}
    BY DEF Cancelled
  <2>1. Exists(store) /\ Live(store) /\ ExitOf(host, Generation(store)) /\ ~RpcRevive
    BY <1>1, <1>2, <1>3 DEF Live, Commanding
  <2>2. host.events # <<>>
    BY <2>1 DEF ExitOf
  <2>3. Starts(store) = {}
    BY <1>1, <2>1, <2>2 DEF HInv, Cancelled
  <2> QED BY <1>4, <2>1, <2>3
<1>11. Deleted'
  BY <1>1, <1>2 DEF HInv, Deleted
<1>12. Handling'
  <2>1. ASSUME pc' = "reset"
        PROVE  Verb' = "revive" /\ store'.commands[cmd'].target = Generation(store')
    <3>1. /\ Exists(store) /\ cmd' = cmd /\ store' = ResetSpawnFailures(store) /\ Verb = "revive"
          /\ store.commands[cmd].target = Generation(store) /\ store \in Store
      BY <1>1, <2>1 DEF ExecuteReviveReset, Commit, IInv, Control, OnBee, RuntimeVerbs, StoreInv
    <3>2. store'.commands = store.commands
      BY <3>1 DEF ResetSpawnFailures, ApplySpawnFailuresReset, Store
    <3> QED BY <1>3, <3>1, <3>2 DEF Verb
  <2> QED BY <1>1, <2>1 DEF Handling
<1> QED BY <1>5, <1>6, <1>7, <1>9, <1>10, <1>11, <1>12 DEF HInv

\* Between two steps only the driver changes.
LEMMA AtRest ==
  ASSUME HInv, pc = "rest", pc' = pc, store' = store, cmd' = cmd, gen' = gen, Single(host'),
         StartPending(host') => StartPending(host),
         Exists(store) => Owned(store, host') /\ Lost(store, host'),
         ~Exists(store) => ~StartPending(host') /\ (Running(host') => Stopping(host'))
  PROVE  HInv'
<1>1. Taken'
  BY DEF HInv, Taken
<1>2. Cancelled'
  BY DEF Cancelled, Commanding
<1>3. Deleted'
  BY DEF Deleted
<1>4. Handling'
  BY DEF Handling
<1> QED BY <1>1, <1>2, <1>3, <1>4 DEF HInv

\* A driver that only hears its process has what it had.
LEMMA TalksKeep ==
  ASSUME NEW h, NEW k, NEW s \in Store, Talks(h, k)
  PROVE  /\ Running(k) <=> Running(h)
         /\ Stopping(k) <=> Stopping(h)
         /\ StartPending(k) <=> StartPending(h)
         /\ Single(h) => Single(k)
         /\ Owned(s, h) => Owned(s, k)
         /\ Lost(s, h) => Lost(s, k)
         /\ ExitOf(k, Generation(s)) => ExitOf(h, Generation(s))
<1>1. Generation(s) \in Nat
  BY FieldTypes
<1>2. ExitOf(k, Generation(s)) => ExitOf(h, Generation(s))
  BY <1>1 DEF Talks
<1>3. /\ Running(k) <=> Running(h)
      /\ Stopping(k) <=> Stopping(h)
      /\ StartPending(k) <=> StartPending(h)
  BY DEF Talks, Running, Stopping, StartPending
<1>4. Single(h) => Single(k)
  BY <1>3 DEF Talks, Single
<1>5. Owned(s, h) => Owned(s, k)
  BY <1>2, <1>3 DEF Talks, Owned, Free
<1>6. Lost(s, h) => Lost(s, k)
  BY DEF Talks, Lost
<1> QED BY <1>2, <1>3, <1>4, <1>5, <1>6

\* The callbacks of the driver.
LEMMA CallbackKeeps == ASSUME IInv, PInv, HInv, HostCallback PROVE HInv'
<1>1. /\ pc = "rest" /\ pc' = pc /\ store' = store /\ cmd' = cmd /\ gen' = gen
      /\ host \in Host /\ store \in Store /\ Single(host)
  BY DEF HostCallback, HostBooted, HostReady, HostTurnEnded, HostTurnStarted,
         HostExit, HostPrepared, OrphanExit, Callback, IInv, HostInv, StoreInv, HInv
<1>2. ~Exists(store) => ~StartPending(host) /\ (Running(host) => Stopping(host))
  BY <1>1 DEF HInv, Deleted
<1>3. Exists(store) => Owned(store, host) /\ Lost(store, host)
  BY DEF HInv
<1>4. CASE HostBooted \/ HostReady \/ HostTurnEnded \/ HostTurnStarted
  <2>1. Talks(host, host')
    BY <1>1, <1>4, PumpTalks, SignalsTalk
       DEF HostBooted, HostReady, HostTurnEnded, HostTurnStarted, Callback
  <2>2. /\ Single(host') /\ (StartPending(host') => StartPending(host))
        /\ (Exists(store) => Owned(store, host') /\ Lost(store, host'))
        /\ (~Exists(store) => ~StartPending(host') /\ (Running(host') => Stopping(host')))
    BY <1>1, <1>2, <1>3, <2>1, TalksKeep
  <2> QED BY <1>1, <2>2, AtRest
<1>5. CASE HostExit
  <2>1. PICK code \in {"clean", "crashed"} : host' = OnExit(host, code)
    BY <1>5 DEF HostExit, Callback
  <2>2. ~StartPending(host)
    BY <1>1, <1>5 DEF HostExit, Single
  <2>3. Free(host') /\ host'.pending = host.pending /\ host'.orphans = host.orphans
    BY <1>1, <2>1, <2>2, ExitLeaves
  <2>4. Single(host')
    BY <1>1, <2>3 DEF Single, Free, StartPending
  <2>5. Exists(store) => Owned(store, host') /\ Lost(store, host')
    BY <1>3, <2>3 DEF Owned, Lost, Free
  <2> QED BY <1>1, <2>3, <2>4, <2>5, AtRest DEF Free
<1>6. CASE HostPrepared
  <2>1. PICK ok \in BOOLEAN : host' = Prepared(host, ok)
    BY <1>6 DEF HostPrepared, Callback
  <2>2. StartPending(host) /\ ~Running(host) /\ Exists(store)
    BY <1>1, <1>2, <1>6 DEF HostPrepared, Single
  <2>3. /\ host'.pending = NoStart /\ host'.orphans = host.orphans
        /\ \/ host'.proc = NewProcess(host.pending.generation) /\ host'.events = host.events
           \/ Free(host')
    BY <1>1, <2>1, <2>2, PreparedLeaves
  <2>4. NoStart.generation = 0 /\ ~NoStart.preparing
        /\ NewProcess(host.pending.generation).generation = host.pending.generation
    BY DEF NoStart, NewProcess, NoProcess
  <2>5. Single(host') /\ ~StartPending(host')
    BY <2>3, <2>4 DEF Single, StartPending
  <2>6. Lost(store, host')
    BY <1>3, <2>2, <2>3 DEF Lost
  <2>7. Owned(store, host')
    <3>1. CASE Free(host')
      BY <3>1 DEF Owned, Free
    <3>2. CASE host'.proc = NewProcess(host.pending.generation) /\ host'.events = host.events
      <4>1. Live(store) /\ host.pending.generation = Generation(store)
            /\ ~ExitOf(host, Generation(store))
        BY <1>3, <2>2 DEF Owned, Free
      <4>2. ~ExitOf(host', Generation(store))
        BY <3>2, <4>1 DEF ExitOf
      <4> QED BY <2>4, <2>5, <3>2, <4>1, <4>2 DEF Owned
    <3> QED BY <2>3, <3>1, <3>2
  <2> QED BY <1>1, <2>2, <2>5, <2>6, <2>7, AtRest
<1>7. CASE OrphanExit
  <2>1. PICK g \in host.orphans : host' = [host EXCEPT !.orphans = host.orphans \ {g}]
    BY <1>7 DEF OrphanExit, Callback
  <2>2. /\ host'.proc = host.proc /\ host'.pending = host.pending /\ host'.events = host.events
        /\ host'.orphans = host.orphans \ {g}
    BY <1>1, <2>1, HostFields
  <2>3. /\ Running(host') <=> Running(host)
        /\ Stopping(host') <=> Stopping(host)
        /\ StartPending(host') <=> StartPending(host)
        /\ \A n : ExitOf(host', n) <=> ExitOf(host, n)
    BY <2>2 DEF Running, Stopping, StartPending, ExitOf
  <2>4. Single(host')
    BY <1>1, <2>2, <2>3 DEF Single
  <2>5. Exists(store) => Owned(store, host') /\ Lost(store, host')
    BY <1>3, <2>2, <2>3 DEF Owned, Lost, Free
  <2> QED BY <1>1, <1>2, <2>3, <2>4, <2>5, AtRest
<1> QED BY <1>4, <1>5, <1>6, <1>7 DEF HostCallback

\* driver.stop, for a stop that is executed.
LEMMA StopKeeps == ASSUME IInv, HInv, ExecuteStop PROVE HInv'
<1> DEFINE G == Generation(store)
<1>1. /\ pc = "claimed" /\ Live(store) /\ Exists(store) /\ store' = store /\ cmd' = cmd
      /\ gen' = gen /\ pc' \in {"settle", "exiting"} /\ host \in Host /\ store \in Store
      /\ Single(host) /\ Owned(store, host) /\ Lost(store, host) /\ G \in Nat
  BY FieldTypes DEF ExecuteStop, Live, IInv, HostInv, StoreInv, HInv
<1>2. PICK dead \in BOOLEAN :
        /\ host' = Stop(host, G, Cause, dead)
        /\ pc' = IF HadProcess(host, G, dead) THEN "settle" ELSE "exiting"
  BY DEF ExecuteStop
<1>3. Cause \in StopCauses
  BY DEF Cause, CauseOf, StopCauses
<1>4. (Running(host) => host.proc.generation = G)
      /\ (StartPending(host) => host.pending.generation = G)
  BY <1>1 DEF Owned
<1>5. /\ host'.orphans = host.orphans
      /\ \/ Free(host') /\ ~host'.pending.preparing
         \/ /\ Running(host) /\ ~dead /\ Running(host') /\ Stopping(host')
            /\ host'.proc.generation = host.proc.generation
            /\ host'.pending = host.pending /\ host'.events = host.events
      /\ StartPending(host) => Free(host')
      /\ ~StartPending(host) /\ (~Running(host) \/ dead) => Free(host')
      /\ Free(host) => host' = host
      /\ ~StartPending(host) /\ Running(host) /\ ~dead => host'.events = host.events
  BY <1>1, <1>2, <1>3, <1>4, StopLeaves
<1>6. Single(host')
  BY <1>1, <1>5 DEF Single, Free, StartPending
<1>7. ~StartPending(host')
  BY <1>1, <1>5 DEF Single, Free, StartPending
<1>8. Owned(store, host')
  <2>1. CASE Free(host')
    BY <2>1 DEF Owned, Free
  <2>2. CASE Running(host') /\ host'.events = host.events /\ Running(host)
             /\ host'.proc.generation = host.proc.generation
    <3>1. ~ExitOf(host, G)
      BY <1>1, <2>2 DEF Owned, Free
    <3>2. ~ExitOf(host', G)
      BY <2>2, <3>1 DEF ExitOf
    <3> QED BY <1>1, <1>4, <1>7, <2>2, <3>2 DEF Owned
  <2> QED BY <1>5, <2>1, <2>2
<1>9. Lost(store, host')
  BY <1>1, <1>5 DEF Lost
<1>10. Cancelled'
  <2> SUFFICES ASSUME pc' = "settle", ExitOf(host', G) PROVE Starts(store) = {}
    BY <1>1 DEF Cancelled, Commanding
  <2>1. StartPending(host) \/ (Running(host) /\ ~dead)
    BY <1>2 DEF HadProcess
  <2>2. CASE StartPending(host)
    BY <1>1, <2>2 DEF HInv, Taken
  <2>3. CASE ~StartPending(host) /\ Running(host)
    <3>1. ~ExitOf(host, G)
      BY <1>1, <2>3 DEF Owned, Free
    <3>2. host'.events = host.events
      BY <1>5, <2>1, <2>3
    <3> QED BY <3>1, <3>2 DEF ExitOf
  <2> QED BY <2>1, <2>2, <2>3
<1>11. Taken'
  BY <1>7 DEF Taken
<1>12. Deleted'
  BY <1>1 DEF Deleted
<1>13. Handling'
  <2>1. ASSUME pc' = "exiting" PROVE Free(host')
    BY <1>2, <1>4, <1>5, <2>1 DEF HadProcess
  <2> QED BY <1>1, <2>1 DEF Handling
<1> QED BY <1>1, <1>6, <1>8, <1>9, <1>10, <1>11, <1>12, <1>13 DEF HInv

\* driver.start.
LEMMA StartKeeps == ASSUME IInv, QInv, HInv, ExecuteStart PROVE HInv'
<1> DEFINE G == Generation(store)
<1>1. /\ AtLaunch /\ pc' = "started" /\ store' = store /\ cmd' = cmd /\ gen' = gen
      /\ host' = Start(host, G) /\ host \in Host /\ store \in Store /\ StoreInv(store)
  BY DEF ExecuteStart, IInv, HostInv, StoreInv
<1>2. Live(store) /\ Exists(store)
  BY <1>1 DEF AtLaunch, HInv, Handling, Live
<1>3. Single(host) /\ Owned(store, host) /\ Lost(store, host) /\ Spawning(store)
  BY <1>2 DEF HInv
<1>4. Free(host)
  <2>1. CASE pc = "minted"
    BY <2>1 DEF HInv, Handling
  <2>2. CASE ~HasProcess(host, G)
    BY <1>3, <2>2 DEF HasProcess, Owned, Free
  <2> QED BY <1>1, <2>1, <2>2 DEF AtLaunch
<1>5. ASSUME pc # "minted"
      PROVE  /\ cmd \in Starts(store) /\ store.commands[cmd].status = "running"
             /\ pc \in {"claimed", "reset"}
  <2>1. (pc = "claimed" /\ Verb \in {"spawn", "send_wake"}) \/ pc = "reset"
    BY <1>1, <1>5 DEF AtLaunch, AtStart
  <2>2. cmd \in DOMAIN store.commands /\ store.commands[cmd].status = "running"
    BY <2>1 DEF IInv, Control, Executing
  <2>3. Verb \in StartVerbs /\ store.commands[cmd].target = G
    BY <2>1 DEF IInv, Control, RuntimeVerbs, StartVerbs, HInv, Handling
  <2> QED BY <2>1, <2>2, <2>3 DEF Starts, Verb, Pending
<1>6. ~ExitOf(host, G)
  BY <1>2, <1>5 DEF HInv, Handling, Cancelled, Commanding
<1>7. G \in Nat \ {0}
  BY <1>1, <1>2, CurrentType
<1>8. /\ host'.events = host.events /\ host'.orphans = host.orphans
      /\ Cell => host'.proc = host.proc /\ host'.pending = [generation |-> G, preparing |-> TRUE]
      /\ ~Cell => host'.proc = NewProcess(G) /\ host'.pending = host.pending
  BY <1>1, <1>4, <1>7, StartTakes
<1>9. NewProcess(G).generation = G
  BY DEF NewProcess, NoProcess
<1>10. ~ExitOf(host', G)
  BY <1>6, <1>8 DEF ExitOf
<1>11. Single(host') /\ Owned(store, host')
  <2>1. CASE Cell
    <3>1. ~Running(host') /\ StartPending(host') /\ host'.pending.preparing
          /\ host'.pending.generation = G
      BY <1>4, <1>7, <1>8, <2>1 DEF Free, Running, StartPending
    <3> QED BY <1>2, <1>10, <2>1, <3>1 DEF Single, Owned
  <2>2. CASE ~Cell
    <3>1. ~StartPending(host') /\ ~host'.pending.preparing /\ host'.proc.generation = G
      BY <1>3, <1>4, <1>8, <1>9, <2>2 DEF Free, Single, StartPending
    <3> QED BY <1>2, <1>10, <3>1 DEF Single, Owned
  <2> QED BY <2>1, <2>2
<1>12. Lost(store, host')
  BY <1>3, <1>8 DEF Lost
<1>13. Taken'
  <2> SUFFICES ASSUME StartPending(host'), NEW i \in Starts(store)
               PROVE  i = cmd /\ store.commands[i].status = "running"
    BY <1>1 DEF Taken
  <2>1. Cell
    BY <1>11 DEF Single
  <2>2. pc # "minted"
    BY DEF HInv, Handling
  <2>3. store.commands[i].verb = "spawn" /\ store.commands[cmd].verb = "spawn"
    BY <1>2, <1>3, <1>5, <2>1, <2>2 DEF Spawning
  <2>4. i = 1 /\ cmd = 1
    BY <1>5, <2>2, <2>3 DEF QInv, BeeInv, QueueOK, SpawnFirst, Starts
  <2> QED BY <1>5, <2>2, <2>4
<1>14. Cancelled'
  BY <1>1, <1>10 DEF Cancelled
<1>15. Deleted'
  BY <1>1, <1>2 DEF Deleted
<1>16. Handling'
  BY <1>1, <1>2 DEF Handling
<1> QED BY <1>1, <1>3, <1>11, <1>12, <1>13, <1>14, <1>15, <1>16 DEF HInv

\* A message is delivered.
LEMMA MailKeeps == ASSUME IInv, HInv, DeliverMail PROVE HInv'
<1>1. /\ pc = "delivery" /\ pc' = "accepted" /\ store' = store /\ cmd' = cmd /\ gen' = gen
      /\ Live(store) /\ Exists(store) /\ Running(host) /\ host' = Deliver(host)
      /\ host \in Host /\ store \in Store
  BY DEF DeliverMail, Deliverable, Accepts, Live, IInv, HostInv, StoreInv
<1>2. Talks(host, host')
  BY <1>1, DeliverTalks
<1>3. /\ Single(host') /\ Owned(store, host') /\ Lost(store, host') /\ ~StartPending(host')
      /\ ExitOf(host', Generation(store)) => ExitOf(host, Generation(store))
  BY <1>1, <1>2, TalksKeep DEF HInv, Single
<1>4. Taken'
  BY <1>3 DEF Taken
<1>5. Cancelled'
  BY <1>1, <1>3 DEF HInv, Cancelled, Commanding
<1>6. Deleted' /\ Handling'
  BY <1>1 DEF Deleted, Handling
<1> QED BY <1>1, <1>3, <1>4, <1>5, <1>6 DEF HInv

\* driver.stop, for a bee that is deleted.
LEMMA DeleteStopKeeps == ASSUME IInv, HInv, ExecuteDeleteStop PROVE HInv'
<1>1. /\ pc = "deleting" /\ ~Exists(store) /\ pc' = "settle" /\ store' = store
      /\ host' = Stop(host, gen, "stopped_by_system", FALSE) /\ host \in Host /\ gen \in Nat
      /\ Single(host)
  BY DEF ExecuteDeleteStop, IInv, HostInv, Control, Scalars, HInv
<1>2. (Running(host) => host.proc.generation = gen)
      /\ (StartPending(host) => host.pending.generation = gen)
  BY <1>1 DEF HInv, Deleted
<1>3. PICK cause \in StopCauses, dead \in BOOLEAN : host' = Stop(host, gen, cause, dead)
  BY <1>1 DEF StopCauses
<1>4. \/ Free(host') /\ ~host'.pending.preparing
      \/ /\ Running(host) /\ Running(host') /\ Stopping(host')
         /\ host'.pending = host.pending
  <2>1. host \in Host /\ gen \in Nat /\ Single(host)
    BY <1>1
  <2> QED BY <1>2, <1>3, <2>1, StopLeaves
<1>5. Single(host') /\ ~StartPending(host') /\ (Running(host') => Stopping(host'))
  BY <1>1, <1>4 DEF Single, Free, StartPending
<1>6. Deleted' /\ Handling'
  BY <1>1, <1>5 DEF Deleted, Handling
<1>7. Taken' /\ Cancelled'
  BY <1>1, <1>5 DEF Taken, Cancelled, Live
<1> QED BY <1>1, <1>5, <1>6, <1>7 DEF HInv

\* The rows of lost processes are stopped, and stay as they are.
LEMMA LostRemembered ==
  ASSUME NEW s, NEW r, NEW h, NEW k, Lost(s, h), Remembers(s, r), k.orphans \subseteq h.orphans
  PROVE  Lost(r, k)
  BY DEF Lost, Remembers

\* An observation is folded.
LEMMA ObserveKeeps == ASSUME IInv, QInv, PInv, HInv, Preserved, Observe PROVE HInv'
<1> DEFINE obs == Head(host.events)
           G == Generation(store)
<1>1. /\ pc = "fold" /\ pc' = "fold" /\ cmd' = cmd /\ gen' = gen /\ host.events # <<>>
      /\ host' = [host EXCEPT !.events = Tail(@)] /\ store' = ApplyObservation(store, obs)
  BY DEF Observe
<1>2. /\ host \in Host /\ store \in Store /\ G \in Nat /\ obs \in Observation
      /\ Explained(obs, Reasons(store)) /\ BeeInv(store) /\ Single(host)
  BY <1>1, FieldTypes, PopInv DEF IInv, HostInv, StoreInv, QInv, HInv
<1>3. Talks(host, host')
  BY <1>1, <1>2, Popped DEF Talks
<1>4. /\ Running(host') <=> Running(host)
      /\ Stopping(host') <=> Stopping(host)
      /\ StartPending(host') <=> StartPending(host)
      /\ Single(host')
      /\ Owned(store, host) => Owned(store, host')
      /\ Lost(store, host) => Lost(store, host')
      /\ ExitOf(host', G) => ExitOf(host, G)
  BY <1>2, <1>3, TalksKeep
<1>5. Cancelled' /\ Handling'
  BY <1>1 DEF Cancelled, Handling, Commanding
<1>6. CASE store' = store
  <2>1. Taken' /\ Deleted'
    BY <1>1, <1>4, <1>6 DEF HInv, Taken, Deleted
  <2> QED BY <1>4, <1>5, <1>6, <2>1 DEF HInv
<1>7. CASE Exists(store) /\ obs.generation = G /\ store' # store
  <2>1. Owned(store, host) /\ Lost(store, host) /\ Spawning(store) /\ Unproven(store)
    BY <1>1, <1>7 DEF HInv, PInv, Known
  <2>2. /\ Exists(store') /\ Generation(store') = G /\ Remembers(store, store')
        /\ obs.kind = "exited" => Current(store').state = "stopped" /\ Live(store)
        /\ obs.kind # "exited" => store'.commands = store.commands /\ (Live(store') <=> Live(store))
    BY <1>1, <1>2, <1>7, <2>1, ObservationRow DEF Earned
  <2>3. Lost(store', host')
    BY <1>3, <2>1, <2>2, LostRemembered DEF Talks
  <2>4. Deleted'
    BY <1>1, <2>2 DEF Deleted
  <2>5. CASE obs.kind = "exited"
    <3>1. ~Live(store')
      BY <2>2, <2>5 DEF Live, LiveStates
    <3>2. ExitOf(host, G)
      <4>1. host.events \in Seq(Observation)
        BY <1>2, HostTypes
      <4>2. 1 \in DOMAIN host.events /\ obs = host.events[1]
        BY <1>1, <4>1
      <4> QED BY <1>7, <2>5, <4>2 DEF ExitOf, Left
    <3>3. ~Running(host') /\ ~StartPending(host')
      BY <1>4, <2>1, <2>2, <2>5, <3>2 DEF Owned, Free
    <3>4. Owned(store', host') /\ Spawning(store') /\ Taken'
      BY <3>1, <3>3 DEF Owned, Spawning, Taken
    <3> QED BY <1>4, <1>5, <2>3, <2>4, <3>4 DEF HInv
  <2>6. CASE obs.kind # "exited"
    <3>1. Starts(store') = Starts(store)
      BY <2>2, <2>6 DEF Starts
    <3>2. Owned(store', host')
      BY <1>4, <2>1, <2>2, <2>6 DEF Owned
    <3>3. Spawning(store')
      BY <2>1, <2>2, <2>6, <3>1 DEF Spawning
    <3>4. Taken'
      BY <1>1, <1>4, <1>7, <2>2, <2>6, <3>1 DEF HInv, Taken
    <3> QED BY <1>4, <1>5, <2>3, <2>4, <3>2, <3>3, <3>4 DEF HInv
  <2> QED BY <2>5, <2>6
<1>8. ~Exists(store) \/ obs.generation # G => store' = store
  BY <1>1 DEF ApplyObservation
<1> QED BY <1>6, <1>7, <1>8

\* A generation is minted.
LEMMA MintKeeps == ASSUME IInv, QInv, PInv, HInv, Preserved, ExecuteStartMint PROVE HInv'
<1> DEFINE G == Generation(store)
<1>1. /\ store' = ReviveBee(store) /\ ~Live(store) /\ host' = host /\ pc' = "minted" /\ pc # "down"
      /\ Exists(store) /\ BeeInv(store) /\ StoreInv(store) /\ store \in Store /\ AtStart
  BY DEF ExecuteStartMint, AtStart, IInv, Control, OnBee, QInv, BeeInv, StoreInv
<1>2. Single(host) /\ Owned(store, host) /\ Lost(store, host)
  BY <1>1 DEF HInv
<1>3. /\ store'.runtimes = Append(store.runtimes, NewRuntime) /\ Exists(store')
      /\ store'.commands = store.commands
  BY <1>1, ReviveInv
<1>4. store.runtimes \in Seq(Runtime) /\ G \in Nat /\ DOMAIN store.runtimes = 1..G
  BY <1>1, FieldTypes
<1>5. /\ Generation(store') = G + 1 /\ Current(store') = NewRuntime
      /\ \A g \in DOMAIN store.runtimes :
           g \in DOMAIN store'.runtimes /\ store'.runtimes[g] = store.runtimes[g]
  BY <1>3, <1>4 DEF Generation, Current
<1>6. Live(store')
  BY <1>3, <1>5 DEF Live, LiveStates, NewRuntime
<1>7. Free(host)
  BY <1>1, <1>2 DEF Owned, Free
<1>8. ~ExitOf(host, G + 1)
  BY <1>1, <1>4, UnheardOf DEF IInv, HostInv, PInv, Known
<1>9. Starts(store') = {}
  <2>1. \A i \in DOMAIN store.commands : store.commands[i].target <= G
    BY <1>1 DEF BeeInv, QueueOK, Targeted
  <2>2. \A i \in DOMAIN store.commands : store.commands[i].target \in Nat
    <3>1. store.commands \in Seq(Command)
      BY <1>1, FieldTypes
    <3>2. \A i \in DOMAIN store.commands : store.commands[i] \in Command
      BY <3>1
    <3> QED BY <3>2 DEF Command
  <2>3. \A i \in DOMAIN store.commands : store.commands[i].target # G + 1
    BY <1>4, <2>1, <2>2
  <2> QED BY <1>3, <1>5, <2>3 DEF Starts
<1>10. Owned(store', host) /\ Spawning(store')
  BY <1>5, <1>7, <1>8, <1>9 DEF Owned, Free, Spawning
<1>11. Lost(store', host)
  BY <1>2, <1>5 DEF Lost
<1>12. Taken' /\ Cancelled'
  BY <1>9 DEF Taken, Cancelled
<1>13. Deleted' /\ Handling'
  BY <1>1, <1>3, <1>5, <1>6, <1>7, <1>8, <1>9 DEF Deleted, Handling
<1> QED BY <1>1, <1>2, <1>10, <1>11, <1>12, <1>13 DEF HInv

\* A bee is deleted.
LEMMA DeleteKeeps == ASSUME IInv, HInv, ExecuteDelete PROVE HInv'
<1>1. /\ store' = DeleteBee(store) /\ Exists(store) /\ host' = host /\ pc = "claimed"
      /\ \/ pc' = "deleting" /\ gen' = Generation(store)
         \/ pc' = "settle" /\ ~Live(store)
  BY DEF ExecuteDelete, IInv, Control, OnBee
<1>2. ~Exists(store') /\ ~Live(store')
  BY <1>1 DEF DeleteBee, Exists, Live
<1>3. Single(host) /\ Owned(store, host)
  BY <1>1 DEF HInv
<1>4. Deleted'
  BY <1>1, <1>2, <1>3 DEF Deleted, Owned
<1>5. Taken' /\ Cancelled' /\ Handling'
  BY <1>1, <1>2 DEF Taken, Cancelled, Handling
<1> QED BY <1>1, <1>2, <1>3, <1>4, <1>5 DEF HInv

\* A stop without a process is a fact.
LEMMA FactKeeps == ASSUME IInv, QInv, PInv, HInv, Preserved, ExecuteStopFact PROVE HInv'
<1>1. /\ pc = "exiting" /\ Live(store) /\ Exists(store) /\ pc' = "exited" /\ host' = host
      /\ store' = UpdateRuntimeState(store, Generation(store), "stopped", Cause, FALSE, FALSE)
  BY DEF ExecuteStopFact, Commit, IInv, Control, OnBee
<1>2. /\ Cause \in ExitCauses \union {"none"} /\ Cause # "none" /\ "stopped" \in RuntimeStates
  BY DEF Cause, CauseOf, ExitCauses, StopCauses, RuntimeStates
<1>3. BeeInv(store) /\ Unproven(store) /\ Single(host) /\ Lost(store, host) /\ Free(host)
  BY <1>1 DEF QInv, PInv, Known, HInv, Handling
<1>4. SetsCurrent(store, store', "stopped", Cause) /\ Earned(store, store') /\ Exists(store')
  BY <1>1, <1>2, <1>3, UpdateBee, UpdateEarns
<1>5. ~Live(store')
  BY <1>4 DEF SetsCurrent, Live, LiveStates
<1>6. Lost(store', host)
  BY <1>3, <1>4, LostRemembered DEF Earned
<1>7. Owned(store', host) /\ Spawning(store')
  BY <1>3, <1>5 DEF Owned, Free, Spawning
<1>8. Taken' /\ Cancelled'
  BY <1>1, <1>3, <1>5 DEF Taken, Cancelled, Free
<1>9. Deleted' /\ Handling'
  BY <1>1, <1>4 DEF Deleted, Handling
<1> QED BY <1>1, <1>3, <1>6, <1>7, <1>8, <1>9 DEF HInv

\* The pid of the process is recorded.
LEMMA RecordKeeps == ASSUME IInv, HInv, RecordProcAtSpawn PROVE HInv'
<1> DEFINE G == Generation(store)
           r == RecordRuntimeProc(store, G)
           row == [Current(store) EXCEPT !.pid = TRUE]
<1>1. /\ pc = "started" /\ pc' = "settle" /\ host' = host /\ cmd' = cmd /\ gen' = gen
      /\ (store' = store \/ store' = r) /\ StoreInv(store) /\ store \in Store
  BY DEF RecordProcAtSpawn, Commit, IInv, StoreInv
<1>2. Live(store) /\ Exists(store)
  BY <1>1 DEF HInv, Handling, Live
<1>3. Single(host) /\ Owned(store, host) /\ Lost(store, host) /\ Spawning(store)
  BY <1>2 DEF HInv
<1>4. Current(store) \in Runtime /\ G \in Nat \ {0} /\ G \in DOMAIN store.runtimes
  BY <1>1, <1>2, CurrentType
<1>5. row \in Runtime /\ row.state = Current(store).state
  BY <1>4 DEF Runtime
<1>6. r = [store EXCEPT !.runtimes[G] = row]
  BY <1>2 DEF RecordRuntimeProc, SetCurrent, Live, LiveStates
<1> HIDE DEF row
<1>7. /\ r.runtimes = [store.runtimes EXCEPT ![G] = row] /\ r.commands = store.commands
      /\ r.lifecycle = store.lifecycle
  BY <1>1, <1>6 DEF Store
<1>8. store.runtimes \in Seq(Runtime) /\ DOMAIN store.runtimes = 1..G
  BY <1>1, FieldTypes
<1> HIDE DEF r
<1>9. /\ Generation(r) = G /\ Current(r) = row
      /\ \A g \in DOMAIN store.runtimes :
           g # G => g \in DOMAIN r.runtimes /\ r.runtimes[g] = store.runtimes[g]
  BY <1>4, <1>5, <1>7, <1>8 DEF Generation, Current
<1>10. Exists(r) /\ Live(r)
  BY <1>2, <1>5, <1>7, <1>9 DEF Exists, Live
<1>11. Lost(r, host)
  <2>1. G \notin host.orphans
    BY <1>2, <1>3 DEF Lost, Live, LiveStates, Current
  <2> QED BY <1>3, <1>9, <2>1 DEF Lost
<1>12. /\ Exists(store') /\ Live(store') /\ Generation(store') = G /\ Lost(store', host)
       /\ store'.commands = store.commands
  BY <1>1, <1>2, <1>3, <1>7, <1>9, <1>10, <1>11
<1>13. Starts(store') = Starts(store)
  BY <1>12 DEF Starts
<1>14. Owned(store', host) /\ Spawning(store')
  BY <1>2, <1>3, <1>12, <1>13 DEF Owned, Spawning
<1>15. Taken'
  BY <1>1, <1>2, <1>12, <1>13 DEF HInv, Taken
<1>16. Cancelled'
  BY <1>1, <1>2, <1>12, <1>13 DEF HInv, Cancelled, Commanding
<1>17. Deleted' /\ Handling'
  BY <1>1, <1>12 DEF Deleted, Handling
<1> QED BY <1>1, <1>3, <1>12, <1>14, <1>15, <1>16, <1>17 DEF HInv

\* The daemon or the machine goes down, or a process ends while it is.
LEMMA DownKeeps ==
  ASSUME IInv, PInv, HInv, Crash \/ MachineRestart \/ ExitUnheard
  PROVE  HInv'
<1>1. store' = store /\ pc' = "down" /\ host \in Host
  BY DEF Crash, MachineRestart, ExitUnheard, GoDown, IInv, HostInv
<1>2. NoProcess.generation = 0 /\ NoStart.generation = 0 /\ ~NoStart.preparing
  BY DEF NoProcess, NoStart
<1>3. /\ host'.events = <<>> /\ host'.pending.generation = 0 /\ ~host'.pending.preparing
      /\ host'.proc.generation \in {0, host.proc.generation} /\ host'.orphans \subseteq host.orphans
  <2>1. CASE Crash
    BY <1>1, <1>2, <2>1 DEF Crash, Detach, Host
  <2>2. CASE MachineRestart
    BY <1>2, <2>2 DEF MachineRestart, InitHost
  <2>3. CASE ExitUnheard
    <3>1. /\ host'.proc = NoProcess /\ host'.pending = host.pending /\ host'.events = host.events
          /\ host'.orphans = host.orphans /\ pc = "down"
      BY <1>1, <2>3, HostFields DEF ExitUnheard
    <3> QED BY <1>2, <3>1 DEF PInv, StartPending, HInv, Single
  <2> QED BY <2>1, <2>2, <2>3
<1>4. ~StartPending(host') /\ (Running(host') => Running(host)
        /\ host'.proc.generation = host.proc.generation)
  BY <1>3 DEF StartPending, Running
<1>5. Single(host')
  BY <1>3, <1>4 DEF Single
<1>6. \A g : ~ExitOf(host', g)
  BY <1>3 DEF ExitOf
<1>7. ASSUME Exists(store) PROVE Owned(store, host') /\ Lost(store, host')
  <2>1. Owned(store, host) /\ Lost(store, host)
    BY <1>7 DEF HInv
  <2> QED BY <1>3, <1>4, <1>6, <2>1 DEF Owned, Lost
<1>8. Taken' /\ Cancelled'
  BY <1>1, <1>4 DEF Taken, Cancelled, Commanding
<1>9. Deleted' /\ Handling'
  BY <1>1 DEF Deleted, Handling
<1> QED BY <1>1, <1>5, <1>7, <1>8, <1>9 DEF HInv

\* Recovery queues nothing for a runtime whose process it adopts, and records
\* or forgets no pid.
LEMMA BootPid ==
  ASSUME IInv, QInv, Boot, Exists(store)
  PROVE  /\ Survives(store) => store' = BootRequeueRunningCommands(store)
         /\ Current(store').pid = Current(store).pid
<1> DEFINE opened     == BootRequeueRunningCommands(store)
           reconciled == ReconcileAtBoot(opened, Survives(opened))
           awake      == EnsureWake(reconciled)
           revived    == ReviveAfterStopIfRequested(awake, Generation(awake))
           row        == [Current(opened) EXCEPT !.state = "stopped",
                                                 !.exitCause = "machine_restart"]
<1>1. store' = revived
  BY DEF Boot
<1>2. BeeInv(opened) /\ Quiet(store, opened) /\ Rewrites(store, opened)
  BY RequeueBee DEF QInv
<1> HIDE DEF opened
<1>3. opened.runtimes = store.runtimes /\ Exists(opened) /\ opened \in Store /\ StoreInv(opened)
  BY <1>2, RewritesInv DEF QInv, BeeInv, StoreInv, Quiet
<1>4. Current(opened) = Current(store) /\ Generation(opened) = Generation(store)
      /\ (Live(opened) <=> Live(store))
  BY <1>3 DEF Current, Generation, Live
<1>5. Survives(opened) <=> Survives(store)
  BY <1>4 DEF Survives
<1>6. ASSUME Survives(store) PROVE store' = opened
  <2>1. Live(opened) /\ Survives(opened) /\ Current(opened).pid
    BY <1>5, <1>6 DEF Survives
  <2>2. reconciled = opened
    BY <2>1 DEF ReconcileAtBoot
  <2>3. awake = opened
    BY <2>1, <2>2 DEF EnsureWake, EnqueueWake, ApplyWakeIfNeeded
  <2>4. revived = opened
    BY <2>1, <2>3 DEF ReviveAfterStopIfRequested, Live, LiveStates
  <2> QED BY <1>1, <2>4
<1>7. Current(reconciled).pid = Current(opened).pid
  <2>1. reconciled = opened \/ reconciled = SetCurrent(opened, row)
    BY DEF ReconcileAtBoot
  <2>2. Current(opened) \in Runtime /\ Generation(opened) \in DOMAIN opened.runtimes
    BY <1>3, CurrentType
  <2>3. row.pid = Current(opened).pid /\ row \in Runtime
    BY <2>2 DEF Runtime, RuntimeStates, ExitCauses, StopCauses
  <2> HIDE DEF row, reconciled
  <2>4. ASSUME reconciled = SetCurrent(opened, row) PROVE Current(reconciled) = row
    <3>1. reconciled.runtimes = [opened.runtimes EXCEPT ![Generation(opened)] = row]
      BY <1>3, <2>4 DEF SetCurrent, Store
    <3>2. opened.runtimes \in Seq(Runtime)
      BY <1>3, FieldTypes
    <3> QED BY <2>2, <2>3, <3>1, <3>2 DEF Current, Generation
  <2> QED BY <2>1, <2>3, <2>4
<1>8. BeeInv(reconciled) /\ Exists(reconciled)
  BY <1>2, <1>3, ReconcileBee
<1> HIDE DEF reconciled
<1>9. Schedules(reconciled, awake)
  BY <1>8, WakesSchedule
<1> HIDE DEF awake
<1>10. Schedules(awake, revived)
  BY <1>9, ReviveSchedules DEF Schedules
<1> HIDE DEF revived
<1>11. Current(revived) = Current(reconciled)
  BY <1>9, <1>10 DEF Schedules, Quiet, Current, Generation
<1> QED BY <1>1, <1>4, <1>6, <1>7, <1>11 DEF opened

\* A process that nobody adopts, or that is adopted.
LEMMA RestartHost ==
  ASSUME NEW h \in Host
  PROVE  /\ \A state, announced, degraded :
              LET k == Adopt(h, state, announced, degraded)
              IN  /\ k.proc.generation = h.proc.generation /\ k.pending = h.pending
                  /\ k.events = h.events /\ k.orphans = h.orphans
         /\ LET k == Abandon(h)
            IN  /\ k.proc = NoProcess /\ k.pending = h.pending /\ k.events = h.events
                /\ \A g \in k.orphans : g \in h.orphans \/ (Running(h) /\ g = h.proc.generation)
<1>1. ASSUME NEW state, NEW announced, NEW degraded
      PROVE  LET k == Adopt(h, state, announced, degraded)
             IN  /\ k.proc.generation = h.proc.generation /\ k.pending = h.pending
                 /\ k.events = h.events /\ k.orphans = h.orphans
  BY DEF Adopt, Host
<1>2. LET k == Abandon(h)
      IN  /\ k.proc = NoProcess /\ k.pending = h.pending /\ k.events = h.events
          /\ \A g \in k.orphans : g \in h.orphans \/ (Running(h) /\ g = h.proc.generation)
  BY DEF Abandon, Host
<1> QED BY <1>1, <1>2

\* Recovery adopts the process of a live row, or stops the row and loses a
\* process only if its pid was not recorded.
LEMMA BootKeeps == ASSUME IInv, QInv, PInv, HInv, Preserved, Boot PROVE HInv'
<1> DEFINE G == Generation(store)
           opened == BootRequeueRunningCommands(store)
<1>1. /\ pc = "down" /\ pc' = "rest" /\ host.events = <<>> /\ ~StartPending(host) /\ host \in Host
      /\ Single(host)
  BY DEF Boot, PInv, IInv, HostInv, HInv
<1>2. NoProcess.generation = 0
  BY DEF NoProcess
<1>3. BeeInv(opened) /\ Quiet(store, opened) /\ Rewrites(store, opened)
  BY RequeueBee DEF QInv
<1>4. /\ opened.runtimes = store.runtimes /\ opened \in Store /\ store \in Store
      /\ (Exists(opened) <=> Exists(store)) /\ Evolves(store, opened)
      /\ DOMAIN opened.commands = DOMAIN store.commands
  <2>1. BeeInv(opened) /\ Quiet(store, opened) /\ Rewrites(store, opened)
    BY <1>3
  <2> HIDE DEF opened
  <2>2. opened.runtimes = store.runtimes /\ opened \in Store /\ store \in Store
        /\ (Exists(opened) <=> Exists(store)) /\ Evolves(store, opened)
    BY <2>1, RewritesInv DEF QInv, BeeInv, StoreInv, Quiet, Rewrites, Grows
  <2>3. DOMAIN opened.commands = DOMAIN store.commands
    BY <2>1, <2>2, FieldTypes DEF Rewrites
  <2> QED BY <2>2, <2>3
<1>5. Survives(opened) <=> Survives(store)
  <2> HIDE DEF opened
  <2> QED BY <1>4 DEF Survives, Current, Generation, Live
<1>6. \/ Survives(store) /\ \E up \in BOOLEAN, degraded \in BOOLEAN :
           host' = Adopt(host, Current(store).state, host.proc.announced \/ up, degraded)
      \/ ~Survives(store) /\ host' = Abandon(host)
  BY <1>5 DEF Boot
<1>7. /\ Survives(store) => host'.proc.generation = host.proc.generation
                            /\ host'.orphans = host.orphans
      /\ ~Survives(store) => /\ host'.proc = NoProcess
                             /\ \A g \in host'.orphans :
                                  g \in host.orphans \/ (Running(host) /\ g = host.proc.generation)
      /\ host'.pending = host.pending /\ host'.events = host.events
  BY <1>1, <1>6, RestartHost
<1>8. ~StartPending(host') /\ Single(host') /\ (\A g : ~ExitOf(host', g))
  BY <1>1, <1>7 DEF StartPending, Single, ExitOf
<1>9. Taken' /\ Cancelled' /\ Handling'
  BY <1>1, <1>8 DEF Taken, Cancelled, Handling, Commanding
<1>10. CASE ~Exists(store)
  <2>1. ~Exists(store') /\ ~Survives(store)
    BY <1>10 DEF Preserved, Change, Survives, Live
  <2>2. Deleted'
    BY <1>1, <1>2, <1>7, <1>8, <2>1 DEF Deleted, Running
  <2> QED BY <1>8, <1>9, <2>1, <2>2 DEF HInv
<1>11. CASE Exists(store)
  <2>1. Owned(store, host) /\ Lost(store, host) /\ Spawning(store)
    BY <1>11 DEF HInv
  <2>2. /\ Exists(store') /\ Generation(store') = G /\ Remembers(store, store')
        /\ Survives(store) => store'.runtimes = store.runtimes
        /\ ~Survives(store) => Current(store').state = "stopped"
    BY <1>11, BootRow DEF Earned
  <2>3. /\ Survives(store) => store' = opened
        /\ Current(store').pid = Current(store).pid
    BY <1>11, BootPid
  <2>4. Deleted'
    BY <1>1, <2>2 DEF Deleted
  <2>5. CASE Survives(store)
    <3>1. Owned(store, host') /\ Lost(store, host')
      BY <1>7, <1>8, <2>1, <2>5 DEF Owned, Lost, Running
    <3>2. Owned(store', host') /\ Lost(store', host') /\ (Live(store') <=> Live(store))
      BY <1>11, <2>2, <2>5, <3>1, OwnedSame
    <3>3. Spawning(store')
      <4>1. Evolves(store, store') /\ DOMAIN store'.commands = DOMAIN store.commands
            /\ store' \in Store
        BY <1>4, <2>3, <2>5
      <4>2. StartsFrom(store, store')
        BY <1>4, <4>1, RewritesStarts
      <4>3. /\ Starts(store') \subseteq Starts(store)
            /\ \A i \in Starts(store') : store'.commands[i].verb = store.commands[i].verb
        BY <1>4, <2>2, <4>1, <4>2, FewerStarts
      <4> QED BY <2>1, <3>2, <4>3 DEF Spawning
    <3> QED BY <1>8, <1>9, <2>4, <3>2, <3>3 DEF HInv
  <2>6. CASE ~Survives(store)
    <3>1. ~Live(store') /\ ~Running(host')
      BY <1>2, <1>7, <2>2, <2>6 DEF Live, LiveStates, Running
    <3>2. Owned(store', host') /\ Spawning(store')
      BY <1>8, <3>1 DEF Owned, Spawning
    <3>3. Lost(store', host')
      <4> SUFFICES ASSUME NEW g \in host'.orphans
                   PROVE  /\ g \in DOMAIN store'.runtimes
                          /\ ~store'.runtimes[g].pid /\ store'.runtimes[g].state = "stopped"
        BY DEF Lost
      <4>1. CASE g \in host.orphans
        BY <2>1, <2>2, <4>1 DEF Lost, Remembers
      <4>2. CASE Running(host) /\ g = host.proc.generation
        <5>1. Live(store) /\ g = G /\ ~Current(store).pid
          BY <2>1, <2>6, <4>2 DEF Owned, Survives
        <5>2. StoreInv(store')
          BY DEF Preserved, Change
        <5>3. G \in DOMAIN store'.runtimes
          BY <2>2, <5>2, CurrentType
        <5> QED BY <2>2, <2>3, <2>6, <5>1, <5>3 DEF Current
      <4> QED BY <1>7, <2>6, <4>1, <4>2
    <3> QED BY <1>8, <1>9, <2>4, <3>2, <3>3 DEF HInv
  <2> QED BY <2>5, <2>6
<1> QED BY <1>10, <1>11

\* Every step preserves the invariant of rows and the driver.
LEMMA NextHost ==
  ASSUME NoCellRevive PROVE IInv /\ QInv /\ PInv /\ HInv /\ [Next]_vars => HInv'
<1> SUFFICES ASSUME IInv, QInv, PInv, HInv, [Next]_vars PROVE HInv'
  OBVIOUS
<1>1. Preserved
  BY NextPreserves
<1>2. CASE UNCHANGED vars
  BY <1>2, StutterHost
<1>3. CASE ~UNCHANGED vars /\ Bookkeeping
  BY <1>1, <1>3, BookkeepingHost
<1>4. CASE Step /\ ~Bookkeeping
  BY <1>1, <1>4, StopKeeps, StartKeeps, MailKeeps, DeleteStopKeeps, MintKeeps, DeleteKeeps,
     FactKeeps, RecordKeeps, ObserveKeeps DEF Step, Bookkeeping
<1>5. CASE Boot
  BY <1>1, <1>5, BootKeeps
<1>6. CASE Environment /\ ~Bookkeeping
  BY <1>6, CallbackKeeps, DownKeeps DEF Environment, Bookkeeping, HostCallback
<1> QED BY <1>2, <1>3, <1>4, <1>5, <1>6 DEF Next

\* A new bee: its spawn is queued, the driver has nothing.
LEMMA InitOwned == Init => HInv
<1> SUFFICES ASSUME Init PROVE HInv
  OBVIOUS
<1>1. /\ store = CreateBee /\ pc = "rest" /\ host.events = <<>> /\ host.orphans = {}
      /\ host.proc.generation = 0 /\ host.pending.generation = 0 /\ ~host.pending.preparing
  BY DEF Init, InitHost, NoProcess, NoStart
<1>2. Free(host) /\ Single(host) /\ Lost(store, host)
  BY <1>1 DEF Free, Running, StartPending, Single, Lost
<1>3. DOMAIN host.events = {}
  BY <1>1
<1>4. Owned(store, host)
  BY <1>2 DEF Owned, Free
<1>5. Spawning(store)
  <2>1. /\ store.commands = Append(<<>>, NewCommand([lifecycle |-> "active",
             runtimes |-> <<NewRuntime>>, failures |-> 0, flagged |-> FALSE,
             commands |-> <<>>, mail |-> 0], "spawn", "plain", TRUE))
    BY <1>1 DEF CreateBee, ApplyEnqueue
  <2>2. \A i \in DOMAIN store.commands : store.commands[i].verb = "spawn"
    BY <2>1 DEF NewCommand
  <2> QED BY <2>2 DEF Spawning, Starts
<1>6. Taken /\ Cancelled /\ Handling
  BY <1>1, <1>2 DEF Taken, Cancelled, Handling, Commanding, Free
<1>7. Deleted
  BY <1>1, <1>2 DEF Deleted, Free
<1> QED BY <1>2, <1>4, <1>5, <1>6, <1>7 DEF HInv

\* The invariant of rows and the driver holds in every reachable state.
LEMMA HostHolds == ASSUME NoCellRevive PROVE Spec => []HInv
<1>1. IInv /\ QInv /\ PInv /\ HInv /\ [Next]_vars => HInv'
  BY NextHost
<1> QED BY <1>1, InitOwned, InvHolds, QueueHolds, ProcessHolds, PTL DEF Spec

-----------------------------------------------------------------------------
(* The theorems. *)

\* A generation is minted only when the driver has neither a process nor a
\* start of an earlier one: driver.start never meets the process that it
\* replaces, whatever observations were late, lost or replayed.
THEOREM StartCorrect == ASSUME NoCellRevive PROVE Spec => []StartFindsNoProcess
<1>1. HInv => StartFindsNoProcess
  BY DEF HInv, Handling, Free, StartFindsNoProcess
<1> QED BY <1>1, HostHolds, PTL

\* Between two steps of the daemon a process that nobody is stopping belongs
\* to the current runtime, and that one is live.
THEOREM StrayCorrect == ASSUME NoCellRevive PROVE Spec => []NoStrayProcess
<1>1. HInv => NoStrayProcess
  BY DEF HInv, Owned, Deleted, NoStrayProcess
<1> QED BY <1>1, HostHolds, PTL

\* The processes of an existing bee that restarts of the daemon lost are those
\* whose pid it had not recorded.
THEOREM OrphansCorrect == ASSUME NoCellRevive PROVE Spec => []OnlyUnrecordedOrphans
<1>1. HInv => OnlyUnrecordedOrphans
  BY DEF HInv, Lost, OnlyUnrecordedOrphans
<1> QED BY <1>1, HostHolds, PTL
=============================================================================
