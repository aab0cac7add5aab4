-------------------------- MODULE CoreStoreProofs --------------------------
(***************************************************************************)
(* What the store's methods preserve, for every store of the right type:   *)
(* the closed state model, and what a queue may do to its commands.        *)
(***************************************************************************)
EXTENDS CoreStore, TLAPS

\* A method that leaves the bee, its runtimes and its mail as they are.
SameRows(s, r) ==
  r.lifecycle = s.lifecycle /\ r.runtimes = s.runtimes /\ r.mail = s.mail

\* What may happen to a command: it is claimed, settled, requeued, renamed;
\* what it asks for stays, and so does its outcome.
Follows(c, d) ==
  /\ d.verb = c.verb /\ d.target = c.target /\ CauseOf(d) = CauseOf(c)
  /\ c.status \in {"done", "failed"} => d.status = c.status

\* No command is lost and each one follows from what it was.
Evolves(s, r) ==
  /\ Len(s.commands) <= Len(r.commands)
  /\ \A i \in 1..Len(s.commands) : Follows(s.commands[i], r.commands[i])

\* A method that works on the queue alone, and asks for no stop but those in S.
Grows(s, r, S) ==
  /\ r \in Store /\ SameRows(s, r) /\ Evolves(s, r)
  /\ \A i \in Len(s.commands) + 1..Len(r.commands) :
       r.commands[i].verb = "stop" => <<r.commands[i].target, CauseOf(r.commands[i])>> \in S

\* A method that works on commands already queued.
Rewrites(s, r) == Grows(s, r, {}) /\ Len(r.commands) = Len(s.commands)

\* A deleted bee has nothing left to do.
NothingPending(s) == \A i \in DOMAIN s.commands : s.commands[i].status \notin Pending

\* The invariant of the store.
StoreInv(s) ==
  /\ s \in Store
  /\ Closed(s)
  /\ ~Exists(s) => NothingPending(s)

-----------------------------------------------------------------------------
(* Rows and their fields. *)

\* The fields of a store have their types.
LEMMA FieldTypes ==
  ASSUME NEW s \in Store
  PROVE  /\ s.commands \in Seq(Command) /\ s.runtimes \in Seq(Runtime)
         /\ s.failures \in Nat /\ s.mail \in Nat /\ s.flagged \in BOOLEAN
         /\ s.lifecycle \in {"active", "archived", "deleted"}
         /\ Generation(s) \in Nat /\ Len(s.commands) \in Nat
         /\ DOMAIN s.commands = 1..Len(s.commands)
         /\ DOMAIN s.runtimes = 1..Generation(s)
         /\ \A i \in DOMAIN s.commands : s.commands[i] \in Command
         /\ \A g \in DOMAIN s.runtimes : s.runtimes[g] \in Runtime
<1>1. /\ s.commands \in Seq(Command) /\ s.runtimes \in Seq(Runtime)
      /\ s.failures \in Nat /\ s.mail \in Nat /\ s.flagged \in BOOLEAN
      /\ s.lifecycle \in {"active", "archived", "deleted"}
  BY DEF Store
<1> QED BY <1>1 DEF Generation

\* A store may be given another queue of the right type.
LEMMA WithCommands ==
  ASSUME NEW s \in Store, NEW c \in Seq(Command)
  PROVE  /\ [s EXCEPT !.commands = c] \in Store
         /\ [s EXCEPT !.commands = c].commands = c
         /\ SameRows(s, [s EXCEPT !.commands = c])
  BY DEF Store, SameRows

\* A command may be given another status.
LEMMA WithStatus ==
  ASSUME NEW c \in Command, NEW status \in CommandStatuses
  PROVE  /\ [c EXCEPT !.status = status] \in Command
         /\ [c EXCEPT !.status = status].status = status
         /\ [c EXCEPT !.status = status].verb = c.verb
         /\ [c EXCEPT !.status = status].target = c.target
         /\ [c EXCEPT !.status = status].kind = c.kind
  BY DEF Command

\* A command that is not settled follows to any status.
LEMMA StatusFollows ==
  ASSUME NEW c \in Command, NEW status \in CommandStatuses, c.status \in Pending
  PROVE  Follows(c, [c EXCEPT !.status = status])
  BY WithStatus DEF Follows, CauseOf, Pending

\* A command follows itself.
LEMMA FollowsRefl == ASSUME NEW c PROVE Follows(c, c)
  BY DEF Follows

-----------------------------------------------------------------------------
(* Grows is a preorder. *)

\* A method that does nothing.
LEMMA GrowsRefl == ASSUME NEW s \in Store, NEW S PROVE Grows(s, s, S)
<1>1. \A i \in 1..Len(s.commands) : Follows(s.commands[i], s.commands[i])
  BY FollowsRefl
<1>2. ~\E i \in Len(s.commands) + 1..Len(s.commands) : TRUE
  BY FieldTypes
<1> QED BY <1>1, <1>2, FieldTypes DEF Grows, Evolves, SameRows

\* Methods in sequence keep what each of them keeps.
LEMMA EvolvesTrans ==
  ASSUME NEW s \in Store, NEW r \in Store, NEW t \in Store, Evolves(s, r), Evolves(r, t)
  PROVE  Evolves(s, t)
<1>1. /\ Len(s.commands) \in Nat /\ Len(r.commands) \in Nat /\ Len(t.commands) \in Nat
  BY FieldTypes
<1>2. ASSUME NEW i \in 1..Len(s.commands)
      PROVE  Follows(s.commands[i], t.commands[i])
  <2>1. i \in 1..Len(r.commands)
    BY <1>1 DEF Evolves
  <2> QED BY <2>1 DEF Evolves, Follows
<1> QED BY <1>1, <1>2 DEF Evolves

\* Queue methods in sequence ask for no stop that neither asks for.
LEMMA GrowsTrans ==
  ASSUME NEW s \in Store, NEW r, NEW t, NEW S, Grows(s, r, S), Grows(r, t, S)
  PROVE  Grows(s, t, S)
<1>1. /\ Len(s.commands) \in Nat /\ Len(r.commands) \in Nat /\ Len(t.commands) \in Nat
      /\ r \in Store /\ t \in Store
  BY FieldTypes DEF Grows
<1>2. ASSUME NEW i \in Len(s.commands) + 1..Len(t.commands), t.commands[i].verb = "stop"
      PROVE  <<t.commands[i].target, CauseOf(t.commands[i])>> \in S
  <2>1. CASE i <= Len(r.commands)
    <3>1. i \in 1..Len(r.commands) /\ i \in Len(s.commands) + 1..Len(r.commands)
      BY <1>1, <2>1
    <3>2. Follows(r.commands[i], t.commands[i])
      BY <3>1 DEF Grows, Evolves
    <3> QED BY <1>2, <3>1, <3>2 DEF Grows, Follows
  <2>2. CASE i > Len(r.commands)
    <3>1. i \in Len(r.commands) + 1..Len(t.commands)
      BY <1>1, <2>2
    <3> QED BY <1>2, <3>1 DEF Grows
  <2> QED BY <1>1, <2>1, <2>2
<1>3. Evolves(s, t)
  BY <1>1, EvolvesTrans DEF Grows
<1> QED BY <1>1, <1>2, <1>3 DEF Grows, SameRows

\* A method that asks for no stop asks for none outside S.
LEMMA GrowsMono ==
  ASSUME NEW s, NEW r, NEW S, Grows(s, r, {})
  PROVE  Grows(s, r, S)
  BY DEF Grows

\* The stops that were asked for are never forgotten, and others only from S.
LEMMA GrowsAsked ==
  ASSUME NEW s \in Store, NEW r, NEW S, Grows(s, r, S)
  PROVE  Asked(s) \subseteq Asked(r) /\ Asked(r) \subseteq Asked(s) \union S
<1>1. /\ Len(s.commands) \in Nat /\ Len(r.commands) \in Nat
      /\ DOMAIN s.commands = 1..Len(s.commands) /\ DOMAIN r.commands = 1..Len(r.commands)
  BY FieldTypes DEF Grows
<1>2. ASSUME NEW a \in Asked(s) PROVE a \in Asked(r)
  <2>1. PICK i \in DOMAIN s.commands : /\ s.commands[i].verb = "stop"
                                       /\ a = <<s.commands[i].target, CauseOf(s.commands[i])>>
    BY DEF Asked
  <2>2. i \in DOMAIN r.commands /\ Follows(s.commands[i], r.commands[i])
    BY <1>1 DEF Grows, Evolves
  <2> QED BY <2>1, <2>2 DEF Asked, Follows
<1>3. ASSUME NEW a \in Asked(r) PROVE a \in Asked(s) \union S
  <2>1. PICK i \in DOMAIN r.commands : /\ r.commands[i].verb = "stop"
                                       /\ a = <<r.commands[i].target, CauseOf(r.commands[i])>>
    BY DEF Asked
  <2>2. CASE i <= Len(s.commands)
    <3>1. i \in DOMAIN s.commands /\ Follows(s.commands[i], r.commands[i])
      BY <1>1, <2>2 DEF Grows, Evolves
    <3> QED BY <2>1, <3>1 DEF Asked, Follows
  <2>3. CASE i > Len(s.commands)
    <3>1. i \in Len(s.commands) + 1..Len(r.commands)
      BY <1>1, <2>3
    <3> QED BY <2>1, <3>1 DEF Grows
  <2> QED BY <1>1, <2>2, <2>3
<1> QED BY <1>2, <1>3

-----------------------------------------------------------------------------
(* Methods that append commands. *)

\* applyEnqueue appends one queued command and touches nothing else.
LEMMA ApplyEnqueueAppends ==
  ASSUME NEW s \in Store, NEW verb \in Verbs, NEW kind \in Kinds, NEW due \in BOOLEAN
  PROVE  LET r == ApplyEnqueue(s, verb, kind, due)
         IN  /\ r \in Store /\ SameRows(s, r)
             /\ Len(r.commands) = Len(s.commands) + 1
             /\ \A i \in 1..Len(s.commands) : r.commands[i] = s.commands[i]
             /\ r.commands[Len(s.commands) + 1] = NewCommand(s, verb, kind, due)
<1>1. NewCommand(s, verb, kind, due) \in Command
  BY FieldTypes DEF Command, NewCommand, CommandStatuses
<1> DEFINE c == Append(s.commands, NewCommand(s, verb, kind, due))
<1>2. c \in Seq(Command)
  BY <1>1, FieldTypes
<1>3. /\ Len(c) = Len(s.commands) + 1
      /\ \A i \in 1..Len(s.commands) : c[i] = s.commands[i]
      /\ c[Len(s.commands) + 1] = NewCommand(s, verb, kind, due)
  BY <1>1, FieldTypes
<1>4. ApplyEnqueue(s, verb, kind, due) = [s EXCEPT !.commands = c]
  BY DEF ApplyEnqueue
<1> HIDE DEF c
<1> QED BY <1>2, <1>3, <1>4, WithCommands

\* Only an enqueued stop asks for a stop, and it asks for this generation's.
LEMMA ApplyEnqueueGrows ==
  ASSUME NEW s \in Store, NEW verb \in Verbs, NEW kind \in Kinds, NEW due \in BOOLEAN,
         NEW S, verb = "stop" => <<Generation(s), CauseOf([kind |-> kind])>> \in S
  PROVE  Grows(s, ApplyEnqueue(s, verb, kind, due), S)
<1> DEFINE r == ApplyEnqueue(s, verb, kind, due)
<1>1. /\ r \in Store /\ SameRows(s, r)
      /\ Len(r.commands) = Len(s.commands) + 1
      /\ \A i \in 1..Len(s.commands) : r.commands[i] = s.commands[i]
      /\ r.commands[Len(s.commands) + 1] = NewCommand(s, verb, kind, due)
  BY ApplyEnqueueAppends
<1>2. LET c == NewCommand(s, verb, kind, due)
      IN  c.verb = "stop" => <<c.target, CauseOf(c)>> \in S
  BY DEF NewCommand, RuntimeVerbs, CauseOf
<1> HIDE DEF r
<1>3. Len(s.commands) \in Nat
  BY FieldTypes
<1>4. Evolves(s, r)
  BY <1>1, <1>3, FollowsRefl DEF Evolves
<1>5. ASSUME NEW i \in Len(s.commands) + 1..Len(r.commands), r.commands[i].verb = "stop"
      PROVE  <<r.commands[i].target, CauseOf(r.commands[i])>> \in S
  <2>1. i = Len(s.commands) + 1
    BY <1>1, <1>3
  <2> QED BY <1>1, <1>2, <1>5, <2>1
<1>6. Grows(s, r, S)
  BY <1>1, <1>4, <1>5 DEF Grows
<1> QED BY <1>6 DEF r

\* A wake is scheduled without asking for a stop.
LEMMA ApplyWakeGrows == ASSUME NEW s \in Store PROVE Grows(s, ApplyWakeIfNeeded(s), {})
<1>1. "send_wake" \in Verbs /\ "plain" \in Kinds /\ (s.failures = 0) \in BOOLEAN
  BY DEF Verbs, Kinds
<1>2. Grows(s, ApplyEnqueue(s, "send_wake", "plain", s.failures = 0), {})
  BY <1>1, ApplyEnqueueGrows
<1> QED BY <1>2, GrowsRefl DEF ApplyWakeIfNeeded

\* enqueueWake asks for no stop.
LEMMA EnqueueWakeGrows == ASSUME NEW s \in Store PROVE Grows(s, EnqueueWake(s), {})
  BY ApplyWakeGrows, GrowsRefl DEF EnqueueWake

\* enqueueBootRetry asks for no stop.
LEMMA EnqueueBootRetryGrows == ASSUME NEW s \in Store PROVE Grows(s, EnqueueBootRetry(s), {})
  BY ApplyWakeGrows DEF EnqueueBootRetry

-----------------------------------------------------------------------------
(* Methods that rewrite commands in place. *)

\* Replacing the queue by one of the same length whose commands follow.
LEMMA ReplaceRewrites ==
  ASSUME NEW s \in Store, NEW q, DOMAIN q = DOMAIN s.commands, q = [i \in DOMAIN q |-> q[i]],
         \A i \in DOMAIN s.commands : q[i] \in Command /\ Follows(s.commands[i], q[i])
  PROVE  Rewrites(s, [s EXCEPT !.commands = q])
<1>1. Len(s.commands) \in Nat /\ DOMAIN s.commands = 1..Len(s.commands)
  BY FieldTypes
<1>2. q \in Seq(Command) /\ Len(q) = Len(s.commands)
  <2>1. q \in [1..Len(s.commands) -> Command]
    BY <1>1
  <2> QED BY <1>1, <2>1
<1> DEFINE r == [s EXCEPT !.commands = q]
<1>3. r \in Store /\ SameRows(s, r) /\ r.commands = q
  BY <1>2, WithCommands
<1> HIDE DEF r
<1>4. ~\E i \in Len(s.commands) + 1..Len(r.commands) : TRUE
  BY <1>1, <1>2, <1>3
<1>5. Rewrites(s, r)
  BY <1>1, <1>2, <1>3, <1>4 DEF Rewrites, Grows, Evolves
<1> QED BY <1>5 DEF r

\* A user stop settles queued starts; settled commands stay as they are.
LEMMA SupersedeRewrites == ASSUME NEW s \in Store PROVE Rewrites(s, SupersedeStarts(s))
<1> DEFINE f(i) == IF s.commands[i].status = "queued" /\ s.commands[i].verb \in StartVerbs
                      /\ s.commands[i].target = Generation(s)
                     THEN [s.commands[i] EXCEPT !.status = "done"]
                     ELSE s.commands[i]
           q == [i \in DOMAIN s.commands |-> f(i)]
<1>1. ASSUME NEW i \in DOMAIN s.commands
      PROVE  f(i) \in Command /\ Follows(s.commands[i], f(i))
  <2>1. s.commands[i] \in Command /\ "done" \in CommandStatuses
    BY FieldTypes DEF CommandStatuses
  <2> QED BY <2>1, WithStatus, StatusFollows, FollowsRefl DEF Pending
<1>2. SupersedeStarts(s) = [s EXCEPT !.commands = q]
  BY DEF SupersedeStarts
<1> HIDE DEF f
<1>3. DOMAIN q = DOMAIN s.commands /\ \A i \in DOMAIN s.commands : q[i] = f(i)
  OBVIOUS
<1>4. q = [i \in DOMAIN q |-> q[i]]
  OBVIOUS
<1> HIDE DEF q
<1> QED BY <1>1, <1>2, <1>3, <1>4, ReplaceRewrites

\* The claim runs the next command and settles what is moot before it.
LEMMA ClaimRewrites == ASSUME NEW s \in Store PROVE Rewrites(s, ClaimNextCommand(s))
<1> DEFINE moot(i) == [s.commands[i] EXCEPT !.status = "done",
                         !.thenRevive = s.commands[i].thenRevive
                                         /\ ~PendingModelChange(s, i)]
           f(i) == IF IsNext(s, i) THEN [s.commands[i] EXCEPT !.status = "running"]
                   ELSE IF MootNow(s, i) THEN moot(i)
                   ELSE s.commands[i]
           q == [i \in DOMAIN s.commands |-> f(i)]
<1>1. ASSUME NEW i \in DOMAIN s.commands
      PROVE  f(i) \in Command /\ Follows(s.commands[i], f(i))
  <2>1. s.commands[i] \in Command /\ "running" \in CommandStatuses /\ "done" \in CommandStatuses
    BY FieldTypes DEF CommandStatuses
  <2>2. CASE IsNext(s, i)
    <3>1. s.commands[i].status \in Pending
      BY <2>2 DEF IsNext, ToRun, Claimable, Pending
    <3> QED BY <2>1, <2>2, <3>1, WithStatus, StatusFollows
  <2>3. CASE ~IsNext(s, i) /\ MootNow(s, i)
    <3>1. s.commands[i].status = "queued"
      BY <2>3 DEF MootNow, Claimable
    <3>2. moot(i) \in Command
      BY <2>1 DEF Command
    <3>3. Follows(s.commands[i], moot(i))
      BY <2>1, <3>1 DEF Command, Follows, CauseOf
    <3> QED BY <2>3, <3>2, <3>3
  <2>4. CASE ~IsNext(s, i) /\ ~MootNow(s, i)
    BY <2>1, <2>4, FollowsRefl
  <2> QED BY <2>2, <2>3, <2>4
<1>2. ClaimNextCommand(s) = [s EXCEPT !.commands = q]
  BY DEF ClaimNextCommand
<1> HIDE DEF f
<1>3. DOMAIN q = DOMAIN s.commands /\ \A i \in DOMAIN s.commands : q[i] = f(i)
  OBVIOUS
<1>4. q = [i \in DOMAIN q |-> q[i]]
  OBVIOUS
<1> HIDE DEF q
<1> QED BY <1>1, <1>2, <1>3, <1>4, ReplaceRewrites

\* The claimed command is running.
LEMMA ClaimedRuns ==
  ASSUME NEW s \in Store, NEW id, IsNext(s, id)
  PROVE  /\ id \in DOMAIN s.commands
         /\ ClaimNextCommand(s).commands[id] = [s.commands[id] EXCEPT !.status = "running"]
         /\ s.commands[id].status \in Pending
         /\ s.commands[id].verb \in RuntimeVerbs => s.commands[id].target = Generation(s)
<1>1. /\ id \in DOMAIN s.commands /\ s.commands[id].status \in Pending
      /\ s.commands[id].verb \in RuntimeVerbs => s.commands[id].target = Generation(s)
  BY DEF IsNext, ToRun, Claimable, Moot, Pending
<1>2. ClaimNextCommand(s).commands[id] = [s.commands[id] EXCEPT !.status = "running"]
  BY <1>1 DEF ClaimNextCommand, Store
<1> QED BY <1>1, <1>2

\* Cancelling a model change settles it.
LEMMA MootModelChangeRewrites == ASSUME NEW s \in Store PROVE Rewrites(s, MootModelChange(s))
<1> DEFINE moot(i) == [s.commands[i] EXCEPT !.status = "done", !.thenRevive = FALSE]
           f(i) == IF PendingModelChange(s, i) THEN moot(i) ELSE s.commands[i]
           q == [i \in DOMAIN s.commands |-> f(i)]
<1>1. ASSUME NEW i \in DOMAIN s.commands
      PROVE  f(i) \in Command /\ Follows(s.commands[i], f(i))
  <2>1. s.commands[i] \in Command /\ "done" \in CommandStatuses
    BY FieldTypes DEF CommandStatuses
  <2>2. CASE PendingModelChange(s, i)
    <3>1. s.commands[i].status \in {"queued", "running"}
      BY <2>2 DEF PendingModelChange, Pending
    <3>2. moot(i) \in Command
      BY <2>1 DEF Command
    <3>3. Follows(s.commands[i], moot(i))
      BY <2>1, <3>1 DEF Command, Follows, CauseOf
    <3> QED BY <2>2, <3>2, <3>3
  <2> QED BY <2>1, <2>2, FollowsRefl
<1>2. MootModelChange(s) = [s EXCEPT !.commands = q]
  BY DEF MootModelChange
<1> HIDE DEF f
<1>3. DOMAIN q = DOMAIN s.commands /\ \A i \in DOMAIN s.commands : q[i] = f(i)
  OBVIOUS
<1>4. q = [i \in DOMAIN q |-> q[i]]
  OBVIOUS
<1> HIDE DEF q
<1> QED BY <1>1, <1>2, <1>3, <1>4, ReplaceRewrites

\* Opening the store requeues running commands and no others.
LEMMA RequeueRewrites ==
  ASSUME NEW s \in Store PROVE Rewrites(s, BootRequeueRunningCommands(s))
<1> DEFINE back(i) == [s.commands[i] EXCEPT !.status = "queued", !.due = TRUE]
           f(i) == IF s.commands[i].status = "running" THEN back(i) ELSE s.commands[i]
           q == [i \in DOMAIN s.commands |-> f(i)]
<1>1. ASSUME NEW i \in DOMAIN s.commands
      PROVE  f(i) \in Command /\ Follows(s.commands[i], f(i))
  <2>1. s.commands[i] \in Command /\ "queued" \in CommandStatuses
    BY FieldTypes DEF CommandStatuses
  <2>2. CASE s.commands[i].status = "running"
    <3>1. back(i) \in Command
      BY <2>1 DEF Command
    <3>2. Follows(s.commands[i], back(i))
      BY <2>1, <2>2 DEF Command, Follows, CauseOf
    <3> QED BY <2>2, <3>1, <3>2
  <2> QED BY <2>1, <2>2, FollowsRefl
<1>2. BootRequeueRunningCommands(s) = [s EXCEPT !.commands = q]
  BY DEF BootRequeueRunningCommands
<1> HIDE DEF f
<1>3. DOMAIN q = DOMAIN s.commands /\ \A i \in DOMAIN s.commands : q[i] = f(i)
  OBVIOUS
<1>4. q = [i \in DOMAIN q |-> q[i]]
  OBVIOUS
<1> HIDE DEF q
<1> QED BY <1>1, <1>2, <1>3, <1>4, ReplaceRewrites

\* Changing one command.
LEMMA ReplaceOneRewrites ==
  ASSUME NEW s \in Store, NEW id \in DOMAIN s.commands, NEW c \in Command,
         Follows(s.commands[id], c)
  PROVE  Rewrites(s, [s EXCEPT !.commands = [@ EXCEPT ![id] = c]])
<1> DEFINE q == [s.commands EXCEPT ![id] = c]
<1>1. /\ DOMAIN q = DOMAIN s.commands /\ q = [i \in DOMAIN q |-> q[i]]
      /\ \A i \in DOMAIN s.commands : q[i] = IF i = id THEN c ELSE s.commands[i]
  BY FieldTypes
<1>2. [s EXCEPT !.commands = [@ EXCEPT ![id] = c]] = [s EXCEPT !.commands = q]
  OBVIOUS
<1> HIDE DEF q
<1>3. \A i \in DOMAIN s.commands : q[i] \in Command /\ Follows(s.commands[i], q[i])
  BY <1>1, FieldTypes, FollowsRefl
<1> QED BY <1>1, <1>2, <1>3, ReplaceRewrites

\* completeCommand settles a running command and no other.
LEMMA CompleteRewrites ==
  ASSUME NEW s \in Store, NEW id \in DOMAIN s.commands
  PROVE  Rewrites(s, CompleteCommand(s, id))
<1>1. CASE s.commands[id].status = "running"
  <2> DEFINE c == [s.commands[id] EXCEPT !.status = "done"]
  <2>1. c \in Command /\ Follows(s.commands[id], c)
    BY <1>1, FieldTypes, WithStatus, StatusFollows DEF CommandStatuses, Pending
  <2>2. CompleteCommand(s, id) = [s EXCEPT !.commands = [@ EXCEPT ![id] = c]]
    BY <1>1 DEF CompleteCommand, SetCommand
  <2> HIDE DEF c
  <2> QED BY <2>1, <2>2, ReplaceOneRewrites
<1>2. CASE s.commands[id].status # "running"
  BY <1>2, GrowsRefl DEF CompleteCommand, Rewrites
<1> QED BY <1>1, <1>2

\* A skipped boot-hang stop is settled and keeps its cause.
LEMMA SkipRewrites ==
  ASSUME NEW s \in Store, NEW id \in DOMAIN s.commands,
         s.commands[id].status = "running", s.commands[id].kind = "hang"
  PROVE  Rewrites(s, SkipBootHangStop(s, id))
<1> DEFINE c == [s.commands[id] EXCEPT !.status = "done", !.kind = "hang_skipped"]
<1>1. s.commands[id] \in Command
  BY FieldTypes
<1>2. c \in Command
  BY <1>1 DEF Command, Kinds, CommandStatuses
<1>3. Follows(s.commands[id], c)
  BY <1>1 DEF Command, Follows, CauseOf
<1>4. SkipBootHangStop(s, id) = [s EXCEPT !.commands = [@ EXCEPT ![id] = c]]
  BY FieldTypes DEF SkipBootHangStop
<1> HIDE DEF c
<1> QED BY <1>2, <1>3, <1>4, ReplaceOneRewrites

\* The failure counter and the flag are on no row that the lifecycle reads.
LEMMA CountersGrow ==
  ASSUME NEW s \in Store, NEW n \in Nat, NEW b \in BOOLEAN
  PROVE  Rewrites(s, [s EXCEPT !.failures = n, !.flagged = b])
<1> DEFINE r == [s EXCEPT !.failures = n, !.flagged = b]
<1>1. r \in Store /\ SameRows(s, r) /\ r.commands = s.commands
  BY DEF Store, SameRows
<1> HIDE DEF r
<1>2. ~\E i \in Len(s.commands) + 1..Len(s.commands) : TRUE
  BY FieldTypes
<1>3. Rewrites(s, r)
  BY <1>1, <1>2, FieldTypes, FollowsRefl DEF Rewrites, Grows, Evolves
<1> QED BY <1>3 DEF r

\* A counted failure leaves rows and commands alone.
LEMMA SpawnFailureGrows == ASSUME NEW s \in Store PROVE Rewrites(s, ApplySpawnFailure(s))
<1> DEFINE n == s.failures + 1
           b == s.flagged \/ s.failures + 1 >= MaxAttempts
<1>1. n \in Nat /\ b \in BOOLEAN
  BY FieldTypes
<1>2. ApplySpawnFailure(s) = [s EXCEPT !.failures = n, !.flagged = b]
  BY DEF ApplySpawnFailure
<1> HIDE DEF n, b
<1> QED BY <1>1, <1>2, CountersGrow

\* A reset of the failure counter leaves rows and commands alone.
LEMMA ResetGrows == ASSUME NEW s \in Store PROVE Rewrites(s, ApplySpawnFailuresReset(s))
  BY CountersGrow DEF ApplySpawnFailuresReset

\* A failed command goes back on the queue, or fails and flags the bee.
LEMMA ReportFailureGrows ==
  ASSUME NEW s \in Store, NEW id \in DOMAIN s.commands, s.commands[id].status = "running"
  PROVE  Rewrites(s, ReportCommandFailure(s, id))
<1> DEFINE n == s.commands[id].attempts + 1
           failed == n >= MaxAttempts
           status == IF failed THEN "failed" ELSE "queued"
           c == [s.commands[id] EXCEPT !.attempts = n, !.due = FALSE, !.status = status]
           b == s.flagged \/ failed
           t == [s EXCEPT !.flagged = b]
<1>1. s.commands[id] \in Command /\ s.commands[id].attempts \in Nat
  BY FieldTypes DEF Command
<1>1a. n \in Nat /\ status \in CommandStatuses
  BY <1>1 DEF CommandStatuses
<1>2. c \in Command
  <2> HIDE DEF n, status
  <2> QED BY <1>1, <1>1a DEF Command
<1>3. Follows(s.commands[id], c)
  <2> HIDE DEF n, status
  <2> QED BY <1>1 DEF Command, Follows, CauseOf
<1>4. b \in BOOLEAN
  BY FieldTypes
<1>5. ReportCommandFailure(s, id) = [t EXCEPT !.commands = [@ EXCEPT ![id] = c]]
  BY DEF ReportCommandFailure, Store
<1> HIDE DEF failed, c, b
<1>6. t \in Store /\ t.commands = s.commands /\ SameRows(s, t) /\ t.flagged = b
  BY <1>4 DEF Store, SameRows
<1> HIDE DEF t
<1>7. Rewrites(t, [t EXCEPT !.commands = [@ EXCEPT ![id] = c]])
  BY <1>2, <1>3, <1>6, ReplaceOneRewrites
<1> QED BY <1>5, <1>6, <1>7 DEF Rewrites, Grows, Evolves, SameRows

\* A backoff elapses.
LEMMA DueRewrites ==
  ASSUME NEW s \in Store, NEW id \in DOMAIN s.commands
  PROVE  Rewrites(s, [s EXCEPT !.commands[id].due = TRUE])
<1> DEFINE c == [s.commands[id] EXCEPT !.due = TRUE]
<1>1. s.commands[id] \in Command
  BY FieldTypes
<1>2. c \in Command
  BY <1>1 DEF Command
<1>3. Follows(s.commands[id], c)
  BY <1>1 DEF Command, Follows, CauseOf
<1>4. [s EXCEPT !.commands[id].due = TRUE] = [s EXCEPT !.commands = [@ EXCEPT ![id] = c]]
  BY FieldTypes
<1> HIDE DEF c
<1> QED BY <1>2, <1>3, <1>4, ReplaceOneRewrites

\* enqueueCommand: a user stop settles starts first; the new command asks for
\* a stop of this generation only when it is one.
LEMMA EnqueueGrows ==
  ASSUME NEW s \in Store, NEW verb \in Verbs, NEW kind \in Kinds,
         NEW S, verb = "stop" => <<Generation(s), CauseOf([kind |-> kind])>> \in S
  PROVE  Grows(s, EnqueueCommand(s, verb, kind), S)
<1>1. CASE kind = "user"
  <2> DEFINE r == SupersedeStarts(s)
  <2>1. Grows(s, r, S) /\ r \in Store /\ Generation(r) = Generation(s)
    BY SupersedeRewrites, GrowsMono DEF Rewrites, Grows, SameRows, Generation
  <2> HIDE DEF r
  <2>2. Grows(r, ApplyEnqueue(r, verb, kind, TRUE), S)
    BY <2>1, ApplyEnqueueGrows
  <2>3. Grows(s, ApplyEnqueue(r, verb, kind, TRUE), S)
    BY <2>1, <2>2, GrowsTrans
  <2> QED BY <1>1, <2>3 DEF EnqueueCommand, r
<1>2. CASE kind # "user"
  <2>1. Grows(s, ApplyEnqueue(s, verb, kind, TRUE), S)
    BY ApplyEnqueueGrows
  <2> QED BY <1>2, <2>1 DEF EnqueueCommand
<1> QED BY <1>1, <1>2

-----------------------------------------------------------------------------
(* Methods on the runtimes rows. *)

\* Only the current row moves, to this state with this exit cause.
SetsCurrent(s, r, state, cause) ==
  /\ r \in Store /\ Generation(r) = Generation(s)
  /\ r.commands = s.commands /\ r.lifecycle = s.lifecycle /\ r.mail = s.mail
  /\ \A g \in 1..Generation(s) : g # Generation(s) => r.runtimes[g] = s.runtimes[g]
  /\ Current(r).state = state /\ Current(r).exitCause = cause

\* A bee that exists has a current runtime.
LEMMA CurrentType ==
  ASSUME NEW s, StoreInv(s), Exists(s)
  PROVE  /\ s \in Store /\ Generation(s) \in Nat \ {0} /\ Generation(s) \in DOMAIN s.runtimes
         /\ Current(s) \in Runtime
         /\ Current(s).state \in RuntimeStates
         /\ Current(s).exitCause \in ExitCauses \union {"none"}
         /\ Current(s).state = "stopped" <=> Current(s).exitCause # "none"
         /\ Live(s) <=> Current(s).state # "stopped"
<1>1. /\ s \in Store /\ Generation(s) \in Nat \ {0} /\ Generation(s) \in DOMAIN s.runtimes
  BY FieldTypes DEF StoreInv, Closed
<1>2. Current(s) \in Runtime
  BY <1>1, FieldTypes DEF Current
<1>3. /\ Current(s).state \in RuntimeStates
      /\ Current(s).exitCause \in ExitCauses \union {"none"}
  BY <1>2 DEF Runtime
<1>4. Current(s).state = "stopped" <=> Current(s).exitCause # "none"
  BY <1>1 DEF StoreInv, Closed, Current
<1>5. Live(s) <=> Current(s).state # "stopped"
  BY <1>3 DEF Live, LiveStates, RuntimeStates
<1> QED BY <1>1, <1>2, <1>3, <1>4, <1>5

\* The current row may be replaced.
LEMMA SetCurrentSets ==
  ASSUME NEW s \in Store, Generation(s) # 0, NEW row \in Runtime
  PROVE  SetsCurrent(s, SetCurrent(s, row), row.state, row.exitCause)
<1> DEFINE q == [s.runtimes EXCEPT ![Generation(s)] = row]
           r == [s EXCEPT !.runtimes = q]
<1>1. /\ s.runtimes \in Seq(Runtime) /\ Generation(s) \in Nat
      /\ Generation(s) \in DOMAIN s.runtimes
  BY FieldTypes
<1>2. /\ q \in Seq(Runtime) /\ Len(q) = Generation(s) /\ q[Generation(s)] = row
      /\ \A g \in 1..Generation(s) : g # Generation(s) => q[g] = s.runtimes[g]
  BY <1>1 DEF Generation
<1>3. SetCurrent(s, row) = r
  BY DEF SetCurrent
<1> HIDE DEF q
<1>4. /\ r \in Store /\ r.runtimes = q /\ r.commands = s.commands
      /\ r.lifecycle = s.lifecycle /\ r.mail = s.mail
  BY <1>2 DEF Store
<1> HIDE DEF r
<1>5. Generation(r) = Generation(s) /\ Current(r) = row
  BY <1>2, <1>4 DEF Generation, Current
<1> QED BY <1>2, <1>3, <1>4, <1>5 DEF SetsCurrent

\* What the failure counter does afterwards is of no concern to the rows.
LEMMA SetsThenRewrites ==
  ASSUME NEW s, NEW r, NEW t, NEW state, NEW cause, SetsCurrent(s, r, state, cause),
         t \in Store, SameRows(r, t), t.commands = r.commands
  PROVE  SetsCurrent(s, t, state, cause)
  BY DEF SetsCurrent, SameRows, Generation, Current

\* The counter methods leave the queue alone, too.
LEMMA CountersKeep ==
  ASSUME NEW s \in Store
  PROVE  /\ ApplySpawnFailure(s) \in Store /\ SameRows(s, ApplySpawnFailure(s))
         /\ ApplySpawnFailure(s).commands = s.commands
         /\ ApplySpawnFailuresReset(s) \in Store /\ SameRows(s, ApplySpawnFailuresReset(s))
         /\ ApplySpawnFailuresReset(s).commands = s.commands
<1>1. ApplySpawnFailure(s) \in Store /\ SameRows(s, ApplySpawnFailure(s))
  BY SpawnFailureGrows DEF Rewrites, Grows
<1>2. ApplySpawnFailuresReset(s) \in Store /\ SameRows(s, ApplySpawnFailuresReset(s))
  BY ResetGrows DEF Rewrites, Grows
<1>3. ApplySpawnFailure(s).commands = s.commands
  BY DEF ApplySpawnFailure, Store
<1>4. ApplySpawnFailuresReset(s).commands = s.commands
  BY DEF ApplySpawnFailuresReset, Store
<1> QED BY <1>1, <1>2, <1>3, <1>4

\* updateRuntimeState moves the current row, and no other.
LEMMA UpdateSets ==
  ASSUME NEW s, StoreInv(s), Exists(s),
         NEW state \in RuntimeStates, NEW cause \in ExitCauses \union {"none"},
         NEW synthetic \in BOOLEAN, NEW pid \in BOOLEAN
  PROVE  SetsCurrent(s, UpdateRuntimeState(s, Generation(s), state, cause, synthetic, pid),
                     state, cause)
<1> DEFINE rt == Current(s)
           evidence == IF rt.state = "booting" /\ state = "running" /\ rt.evidence # "real"
                         THEN IF synthetic THEN "synthetic" ELSE "real"
                         ELSE rt.evidence
           row == [state |-> state, exitCause |-> cause, evidence |-> evidence,
                   pid |-> rt.pid \/ pid]
           moved == SetCurrent(s, row)
           r == UpdateRuntimeState(s, Generation(s), state, cause, synthetic, pid)
<1>1. s \in Store /\ Generation(s) # 0 /\ rt \in Runtime
  BY CurrentType
<1>2. evidence \in {"none", "synthetic", "real"} /\ (rt.pid \/ pid) \in BOOLEAN
  BY <1>1 DEF Runtime
<1>3. r = moved \/ r = ApplySpawnFailure(moved) \/ r = ApplySpawnFailuresReset(moved)
  BY DEF UpdateRuntimeState
<1> HIDE DEF evidence, r
<1>4. row \in Runtime /\ row.state = state /\ row.exitCause = cause
  BY <1>2 DEF Runtime
<1> HIDE DEF row, rt
<1>5. SetsCurrent(s, moved, state, cause)
  BY <1>1, <1>4, SetCurrentSets
<1>6. moved \in Store
  BY <1>5 DEF SetsCurrent
<1> HIDE DEF moved
<1>7. SetsCurrent(s, r, state, cause)
  BY <1>3, <1>5, <1>6, CountersKeep, SetsThenRewrites
<1> QED BY <1>7 DEF r

\* Boot evidence and a recorded pid leave state and exit cause as they are.
LEMMA EvidenceSets ==
  ASSUME NEW s, StoreInv(s), Exists(s), NEW generation
  PROVE  SetsCurrent(s, RecordBootEvidence(s, generation), Current(s).state,
                     Current(s).exitCause)
<1> DEFINE row == [Current(s) EXCEPT !.evidence = "real"]
           moved == SetCurrent(s, row)
<1>1. s \in Store /\ Generation(s) # 0 /\ Current(s) \in Runtime
  BY CurrentType
<1>2. row \in Runtime /\ row.state = Current(s).state /\ row.exitCause = Current(s).exitCause
  BY <1>1 DEF Runtime
<1> HIDE DEF row
<1>3. SetsCurrent(s, moved, Current(s).state, Current(s).exitCause) /\ moved \in Store
  BY <1>1, <1>2, SetCurrentSets DEF SetsCurrent
<1>4. SetsCurrent(s, s, Current(s).state, Current(s).exitCause)
  BY <1>1 DEF SetsCurrent
<1>5. \/ RecordBootEvidence(s, generation) = s
      \/ RecordBootEvidence(s, generation) = ApplySpawnFailuresReset(moved)
  BY DEF RecordBootEvidence, row
<1> HIDE DEF moved
<1> QED BY <1>3, <1>4, <1>5, CountersKeep, SetsThenRewrites

\* recordRuntimeProc leaves state and exit cause as they are.
LEMMA ProcSets ==
  ASSUME NEW s, StoreInv(s), Exists(s), NEW generation
  PROVE  SetsCurrent(s, RecordRuntimeProc(s, generation), Current(s).state,
                     Current(s).exitCause)
<1> DEFINE row == [Current(s) EXCEPT !.pid = TRUE]
<1>1. s \in Store /\ Generation(s) # 0 /\ Current(s) \in Runtime
  BY CurrentType
<1>2. row \in Runtime /\ row.state = Current(s).state /\ row.exitCause = Current(s).exitCause
  BY <1>1 DEF Runtime
<1>3. RecordRuntimeProc(s, generation) = s \/ RecordRuntimeProc(s, generation) = SetCurrent(s, row)
  BY DEF RecordRuntimeProc
<1> HIDE DEF row
<1>4. SetsCurrent(s, SetCurrent(s, row), Current(s).state, Current(s).exitCause)
  BY <1>1, <1>2, SetCurrentSets
<1>5. SetsCurrent(s, s, Current(s).state, Current(s).exitCause)
  BY <1>1 DEF SetsCurrent
<1> QED BY <1>3, <1>4, <1>5

\* reconcileAtBoot stops a live row whose process is gone, or does nothing.
LEMMA ReconcileSets ==
  ASSUME NEW s, StoreInv(s), Exists(s), NEW alive
  PROVE  LET r == ReconcileAtBoot(s, alive)
         IN  r = s \/ (Live(s) /\ SetsCurrent(s, r, "stopped", "machine_restart"))
<1> DEFINE row == [Current(s) EXCEPT !.state = "stopped", !.exitCause = "machine_restart"]
<1>1. s \in Store /\ Generation(s) # 0 /\ Current(s) \in Runtime
  BY CurrentType
<1>2. row \in Runtime /\ row.state = "stopped" /\ row.exitCause = "machine_restart"
  BY <1>1 DEF Runtime, RuntimeStates, ExitCauses, StopCauses
<1>3. ReconcileAtBoot(s, alive) = s \/ (Live(s) /\ ReconcileAtBoot(s, alive) = SetCurrent(s, row))
  BY DEF ReconcileAtBoot
<1> HIDE DEF row
<1>4. SetsCurrent(s, SetCurrent(s, row), "stopped", "machine_restart")
  BY <1>1, <1>2, SetCurrentSets
<1> QED BY <1>3, <1>4

-----------------------------------------------------------------------------
(* The invariant of the store. *)

\* A queue method on a bee that exists keeps the invariant.
LEMMA GrowsInv ==
  ASSUME NEW s, NEW r, NEW S, StoreInv(s), Exists(s), Grows(s, r, S)
  PROVE  StoreInv(r) /\ Exists(r)
  BY DEF StoreInv, Closed, Exists, Grows, SameRows, Generation

\* A method that only settles or requeues commands keeps it for every bee.
LEMMA RewritesInv ==
  ASSUME NEW s, NEW r, StoreInv(s), Rewrites(s, r)
  PROVE  StoreInv(r) /\ (Exists(r) <=> Exists(s))
<1>1. s \in Store /\ r \in Store /\ SameRows(s, r) /\ Len(r.commands) = Len(s.commands)
  BY DEF StoreInv, Rewrites, Grows
<1>2. (Exists(r) <=> Exists(s)) /\ Closed(r)
  BY <1>1 DEF StoreInv, Closed, Exists, SameRows, Generation
<1>3. ASSUME ~Exists(s), NEW i \in DOMAIN r.commands PROVE r.commands[i].status \notin Pending
  <2>1. i \in DOMAIN s.commands /\ i \in 1..Len(s.commands) /\ s.commands[i] \in Command
    BY <1>1, FieldTypes
  <2>2. Follows(s.commands[i], r.commands[i])
    BY <2>1 DEF Rewrites, Grows, Evolves
  <2>3. s.commands[i].status \in {"done", "failed"}
    BY <1>3, <2>1 DEF StoreInv, NothingPending, Pending, Command, CommandStatuses
  <2> QED BY <2>2, <2>3 DEF Follows, Pending
<1> QED BY <1>1, <1>2, <1>3 DEF StoreInv, NothingPending

\* Moving the current row keeps it, when the exit cause goes with the state.
LEMMA SetsCurrentInv ==
  ASSUME NEW s, NEW r, NEW state, NEW cause, StoreInv(s), Exists(s),
         SetsCurrent(s, r, state, cause), state = "stopped" <=> cause # "none"
  PROVE  StoreInv(r) /\ Exists(r) /\ Evolves(s, r)
<1>1. s \in Store /\ r \in Store /\ Generation(s) \in Nat \ {0} /\ Generation(r) = Generation(s)
  BY CurrentType DEF SetsCurrent
<1>2. DOMAIN r.runtimes = 1..Generation(s) /\ DOMAIN s.runtimes = 1..Generation(s)
  BY <1>1, FieldTypes
<1>3. Exists(r)
  BY DEF SetsCurrent, Exists
<1>4. ASSUME NEW g \in DOMAIN r.runtimes
      PROVE  /\ g < Generation(r) => r.runtimes[g].state = "stopped"
             /\ r.runtimes[g].state = "stopped" <=> r.runtimes[g].exitCause # "none"
  <2>1. CASE g = Generation(s)
    BY <1>1, <2>1 DEF SetsCurrent, Current
  <2>2. CASE g # Generation(s)
    <3>1. r.runtimes[g] = s.runtimes[g]
      BY <1>2, <2>2 DEF SetsCurrent
    <3> QED BY <1>1, <1>2, <3>1 DEF StoreInv, Closed
  <2> QED BY <2>1, <2>2
<1>5. Evolves(s, r)
  BY <1>1, FieldTypes, FollowsRefl DEF SetsCurrent, Evolves
<1> QED BY <1>1, <1>3, <1>4, <1>5 DEF StoreInv, Closed

\* Another lifecycle, of a bee that exists.
LEMMA LifecycleInv ==
  ASSUME NEW s, StoreInv(s), Exists(s), NEW v \in {"active", "archived"}
  PROVE  LET r == [s EXCEPT !.lifecycle = v]
         IN  /\ StoreInv(r) /\ Exists(r) /\ r.commands = s.commands
             /\ r.runtimes = s.runtimes /\ r.mail = s.mail
  BY DEF StoreInv, Closed, Exists, Store, Generation

\* unarchive of a bee that exists keeps its commands and runtimes.
LEMMA UnarchiveInv ==
  ASSUME NEW s, StoreInv(s), Exists(s)
  PROVE  LET r == UnarchiveBee(s)
         IN  /\ StoreInv(r) /\ Exists(r) /\ r.commands = s.commands
             /\ r.runtimes = s.runtimes /\ r.mail = s.mail
  BY LifecycleInv DEF UnarchiveBee, ApplyUnarchive

\* reviveBee mints the next generation behind a stopped one.
LEMMA ReviveInv ==
  ASSUME NEW s, StoreInv(s), Exists(s), ~Live(s)
  PROVE  LET r == ReviveBee(s)
         IN  /\ StoreInv(r) /\ Exists(r) /\ r.commands = s.commands
             /\ r.runtimes = Append(s.runtimes, NewRuntime)
<1> DEFINE t == UnarchiveBee(s)
           q == Append(t.runtimes, NewRuntime)
           r == [t EXCEPT !.runtimes = q]
<1>1. StoreInv(t) /\ Exists(t) /\ t.commands = s.commands /\ t.runtimes = s.runtimes
  BY UnarchiveInv
<1>2. ReviveBee(s) = r
  BY DEF ReviveBee, InsertRuntime
<1> HIDE DEF t
<1>3. NewRuntime \in Runtime
  BY DEF NewRuntime, Runtime, RuntimeStates
<1>4. t \in Store /\ t.runtimes \in Seq(Runtime) /\ Generation(t) \in Nat \ {0}
      /\ Current(t).state = "stopped" /\ DOMAIN t.runtimes = 1..Generation(t)
  <2>1. Current(s).state = "stopped" /\ Current(t) = Current(s)
    BY <1>1, CurrentType DEF Current, Generation
  <2> QED BY <1>1, <2>1, CurrentType, FieldTypes
<1>5. /\ q \in Seq(Runtime) /\ Len(q) = Generation(t) + 1 /\ DOMAIN q = 1..Generation(t) + 1
      /\ \A g \in 1..Generation(t) : q[g] = t.runtimes[g]
      /\ q[Generation(t) + 1] = NewRuntime
  BY <1>3, <1>4 DEF Generation
<1>6. q = Append(s.runtimes, NewRuntime)
  BY <1>1
<1> HIDE DEF q
<1>7. /\ r \in Store /\ r.runtimes = q /\ r.commands = t.commands
      /\ r.lifecycle = t.lifecycle
  BY <1>4, <1>5 DEF Store
<1> HIDE DEF r
<1>8. Exists(r) /\ Generation(r) = Generation(t) + 1
  BY <1>1, <1>5, <1>7 DEF Exists, Generation
<1>9. ASSUME NEW g \in DOMAIN r.runtimes
      PROVE  /\ g < Generation(r) => r.runtimes[g].state = "stopped"
             /\ r.runtimes[g].state = "stopped" <=> r.runtimes[g].exitCause # "none"
  <2>1. CASE g = Generation(t) + 1
    BY <1>4, <1>5, <1>7, <1>8, <2>1 DEF NewRuntime
  <2>2. CASE g \in 1..Generation(t)
    <3>1. r.runtimes[g] = t.runtimes[g]
      BY <1>5, <1>7, <2>2
    <3>2. g < Generation(t) => t.runtimes[g].state = "stopped"
      BY <1>1, <1>4, <2>2 DEF StoreInv, Closed
    <3>3. t.runtimes[g].state = "stopped" <=> t.runtimes[g].exitCause # "none"
      BY <1>1, <1>4, <2>2 DEF StoreInv, Closed
    <3>4. g = Generation(t) => t.runtimes[g].state = "stopped"
      BY <1>4 DEF Current
    <3> QED BY <1>4, <2>2, <3>1, <3>2, <3>3, <3>4
  <2> QED BY <1>4, <1>5, <1>7, <2>1, <2>2
<1>10. StoreInv(r)
  BY <1>4, <1>7, <1>8, <1>9 DEF StoreInv, Closed
<1> QED BY <1>1, <1>2, <1>6, <1>7, <1>8, <1>10

\* deleteBee leaves settled commands and nothing else.
LEMMA DeleteInv ==
  ASSUME NEW s \in Store
  PROVE  LET r == DeleteBee(s)
         IN  StoreInv(r) /\ ~Exists(r) /\ Evolves(s, r) /\ r.runtimes = <<>>
             /\ Asked(r) = Asked(s) /\ Len(r.commands) = Len(s.commands)
<1> DEFINE f(i) == IF s.commands[i].status \in Pending
                     THEN [s.commands[i] EXCEPT !.status = "done"] ELSE s.commands[i]
           q == [i \in DOMAIN s.commands |-> f(i)]
           t == [s EXCEPT !.commands = q]
           r == DeleteBee(s)
<1>1. ASSUME NEW i \in DOMAIN s.commands
      PROVE  f(i) \in Command /\ Follows(s.commands[i], f(i)) /\ f(i).status \notin Pending
  <2>1. s.commands[i] \in Command /\ "done" \in CommandStatuses /\ "done" \notin Pending
    BY FieldTypes DEF CommandStatuses, Pending
  <2> QED BY <2>1, WithStatus, StatusFollows, FollowsRefl
<1>2. r = [lifecycle |-> "deleted", runtimes |-> <<>>, failures |-> 0,
           flagged |-> FALSE, mail |-> 0, commands |-> q]
  BY DEF DeleteBee
<1> HIDE DEF f
<1>3. DOMAIN q = DOMAIN s.commands /\ \A i \in DOMAIN s.commands : q[i] = f(i)
  OBVIOUS
<1>4. q = [i \in DOMAIN q |-> q[i]]
  OBVIOUS
<1> HIDE DEF q, r
<1>5. Rewrites(s, t)
  BY <1>1, <1>3, <1>4, ReplaceRewrites
<1>6. q \in Seq(Command) /\ t.commands = q
  <2>1. t \in Store /\ t.commands = q
    BY <1>5 DEF Rewrites, Grows, Store
  <2> QED BY <2>1, FieldTypes
<1>7. r \in Store /\ r.commands = q /\ r.runtimes = <<>> /\ r.lifecycle = "deleted"
  BY <1>2, <1>6 DEF Store
<1>8. Asked(t) = Asked(s)
  BY <1>5, GrowsAsked DEF Rewrites
<1>9. Evolves(s, r) /\ Asked(r) = Asked(t) /\ Len(r.commands) = Len(s.commands)
  BY <1>5, <1>6, <1>7 DEF Rewrites, Grows, Evolves, Asked
<1>10. NothingPending(r)
  BY <1>1, <1>3, <1>7 DEF NothingPending
<1>11. Closed(r)
  BY <1>7 DEF Closed, Exists, Generation
<1> QED BY <1>7, <1>8, <1>9, <1>10, <1>11 DEF StoreInv, Exists, r

-----------------------------------------------------------------------------
(* Methods made of others. *)

\* createBee starts in the invariant, with a spawn command and no stop.
LEMMA CreateInv ==
  StoreInv(CreateBee) /\ Exists(CreateBee) /\ CreateBee.runtimes = <<NewRuntime>>
  /\ Asked(CreateBee) = {}
<1> DEFINE s == [lifecycle |-> "active", runtimes |-> <<NewRuntime>>, failures |-> 0,
                 flagged |-> FALSE, commands |-> <<>>, mail |-> 0]
<1>1. NewRuntime \in Runtime
  BY DEF NewRuntime, Runtime, RuntimeStates
<1>2. <<NewRuntime>> \in Seq(Runtime) /\ <<>> \in Seq(Command)
  BY <1>1
<1>3. s \in Store
  BY <1>2 DEF Store
<1>4. StoreInv(s) /\ Exists(s)
  BY <1>3 DEF StoreInv, Closed, Exists, Generation, NewRuntime
<1>5. CreateBee = ApplyEnqueue(s, "spawn", "plain", TRUE)
  BY DEF CreateBee
<1>6. s.runtimes = <<NewRuntime>> /\ Asked(s) = {}
  BY DEF Asked
<1> HIDE DEF s
<1>7. Grows(s, CreateBee, {})
  BY <1>3, <1>5, ApplyEnqueueGrows DEF Verbs, Kinds
<1> QED BY <1>3, <1>4, <1>6, <1>7, GrowsInv, GrowsAsked DEF Grows, SameRows

\* send adds a row to the mailbox; a wake at most follows.
LEMMA SendInv ==
  ASSUME NEW s, StoreInv(s), Exists(s)
  PROVE  LET r == Send(s)
         IN  /\ StoreInv(r) /\ Exists(r) /\ Evolves(s, r) /\ r.runtimes = s.runtimes
             /\ Asked(r) = Asked(s)
<1> DEFINE u == UnarchiveBee(s)
           t == [u EXCEPT !.mail = @ + 1]
<1>1. StoreInv(u) /\ Exists(u) /\ u.commands = s.commands /\ u.runtimes = s.runtimes
  BY UnarchiveInv
<1>2. Send(s) = ApplyWakeIfNeeded(t)
  BY DEF Send
<1> HIDE DEF u
<1>3. /\ t \in Store /\ t.commands = u.commands /\ t.runtimes = u.runtimes
      /\ t.lifecycle = u.lifecycle
  BY <1>1, SMTT(60) DEF StoreInv, Store
<1> HIDE DEF t
<1>4. StoreInv(t) /\ Exists(t)
  BY <1>1, <1>3 DEF StoreInv, Closed, Exists, Generation
<1>5. Grows(t, ApplyWakeIfNeeded(t), {})
  BY <1>3, ApplyWakeGrows
<1>6. Evolves(s, ApplyWakeIfNeeded(t))
  BY <1>1, <1>3, <1>5 DEF Grows, Evolves
<1>7. Asked(ApplyWakeIfNeeded(t)) = Asked(s)
  <2>1. Asked(t) = Asked(s)
    BY <1>1, <1>3 DEF Asked
  <2> QED BY <1>3, <1>5, <2>1, GrowsAsked
<1> QED BY <1>1, <1>2, <1>3, <1>4, <1>5, <1>6, <1>7, GrowsInv DEF Grows, SameRows

\* markDelivered takes a row from a mailbox that has one.
LEMMA MarkInv ==
  ASSUME NEW s, StoreInv(s), s.mail > 0
  PROVE  LET r == MarkDelivered(s)
         IN  /\ StoreInv(r) /\ r.commands = s.commands /\ r.runtimes = s.runtimes
             /\ (Exists(r) <=> Exists(s))
<1> DEFINE n == s.mail - 1
           r == [s EXCEPT !.mail = n]
<1>1. n \in Nat
  BY FieldTypes DEF StoreInv
<1>2. MarkDelivered(s) = r
  BY DEF MarkDelivered
<1> HIDE DEF n
<1>3. /\ r \in Store /\ r.commands = s.commands /\ r.runtimes = s.runtimes
      /\ r.lifecycle = s.lifecycle
  BY <1>1 DEF StoreInv, Store
<1> HIDE DEF r
<1>4. StoreInv(r) /\ (Exists(r) <=> Exists(s))
  BY <1>3 DEF StoreInv, Closed, Exists, Generation, NothingPending
<1> QED BY <1>2, <1>3, <1>4

\* A stop enqueued by the system asks for the current generation's end.
SystemStop(s) == {<<Generation(s), "stopped_by_system">>}

\* A stop that is not the user's asks for a stop by the system.
LEMMA SystemStopGrows ==
  ASSUME NEW s \in Store, NEW kind \in Kinds \ {"user"}
  PROVE  Grows(s, EnqueueCommand(s, "stop", kind), SystemStop(s))
<1>1. CauseOf([kind |-> kind]) = "stopped_by_system"
  BY DEF CauseOf
<1>2. "stop" \in Verbs /\ kind \in Kinds
  BY DEF Verbs
<1> QED BY <1>1, <1>2, EnqueueGrows DEF SystemStop

\* A user's stop.
LEMMA UserStopGrows ==
  ASSUME NEW s \in Store
  PROVE  Grows(s, EnqueueCommand(s, "stop", "user"), {<<Generation(s), "stopped_by_user">>})
<1>1. CauseOf([kind |-> "user"]) = "stopped_by_user"
  BY DEF CauseOf
<1>2. "stop" \in Verbs /\ "user" \in Kinds
  BY DEF Verbs, Kinds
<1> QED BY <1>1, <1>2, EnqueueGrows

\* bee.reconfigure and bee.swapAccount ask for a stop of the system at most.
LEMMA ReconfigureGrows ==
  ASSUME NEW s \in Store, NEW same \in BOOLEAN
  PROVE  Grows(s, ReconfigureBee(s, same), SystemStop(s))
<1> DEFINE r == MootModelChange(s)
<1>1. Grows(s, r, SystemStop(s)) /\ r \in Store /\ Generation(r) = Generation(s)
  BY MootModelChangeRewrites, GrowsMono DEF Rewrites, Grows, SameRows, Generation
<1>2. ReconfigureBee(s, same) = r \/ ReconfigureBee(s, same) = EnqueueCommand(r, "stop", "model")
  BY DEF ReconfigureBee
<1> HIDE DEF r
<1>3. Grows(r, EnqueueCommand(r, "stop", "model"), SystemStop(r)) /\ SystemStop(r) = SystemStop(s)
  BY <1>1, SystemStopGrows DEF SystemStop, Kinds
<1>4. Grows(s, EnqueueCommand(r, "stop", "model"), SystemStop(s))
  BY <1>1, <1>3, GrowsTrans
<1> QED BY <1>1, <1>2, <1>4

\* bee.swapAccount asks for a stop by the system at most.
LEMMA SwapGrows ==
  ASSUME NEW s \in Store
  PROVE  Grows(s, SwapAccount(s), SystemStop(s))
<1>1. Grows(s, EnqueueCommand(s, "stop", "swap"), SystemStop(s))
  BY SystemStopGrows DEF Kinds
<1> QED BY <1>1, GrowsRefl DEF SwapAccount
=============================================================================
