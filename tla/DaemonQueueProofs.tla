------------------------- MODULE DaemonQueueProofs -------------------------
(***************************************************************************)
(* The command queue and the spawn-failure budget, for every value of the  *)
(* constants: at most one wake per generation, a user stop settles the     *)
(* starts before it for good, the budget is never passed and the flag is   *)
(* earned.                                                                 *)
(***************************************************************************)
EXTENDS DaemonCoreProofs

-----------------------------------------------------------------------------
(* The invariant of the queue. *)

Wake(s, i) == s.commands[i].verb = "send_wake" /\ s.commands[i].status \in Pending

OneWake(s) ==
  \A i, j \in DOMAIN s.commands :
    Wake(s, i) /\ Wake(s, j) /\ s.commands[i].target = s.commands[j].target => i = j

\* No command aims at a generation that is not minted yet.
Targeted(s) ==
  Exists(s) => \A i \in DOMAIN s.commands : s.commands[i].target <= Generation(s)

StopsWin(s) ==
  \A i, j \in DOMAIN s.commands :
    (/\ i < j /\ s.commands[i].verb \in StartVerbs /\ s.commands[j].kind = "user"
     /\ s.commands[i].target = s.commands[j].target)
       => s.commands[i].status \in {"done", "failed"}

\* The only spawn is the one of the admission.
SpawnFirst(s) ==
  \A i \in DOMAIN s.commands :
    s.commands[i].verb = "spawn" => i = 1 /\ s.commands[i].target = 1

\* A live runtime needs no wake, and none waits for it.
WakesStopped(s) ==
  Exists(s) => \A i \in DOMAIN s.commands :
                 Wake(s, i) /\ s.commands[i].target = Generation(s) => ~Live(s)

QueueOK(s) == OneWake(s) /\ Targeted(s) /\ StopsWin(s) /\ SpawnFirst(s) /\ WakesStopped(s)

\* A method that claims no command and keeps what each one is for.
Tame(s, r) ==
  /\ \A i \in DOMAIN r.commands :
       r.commands[i].status = "running" =>
         i \in DOMAIN s.commands /\ s.commands[i].status = "running"
  /\ DOMAIN s.commands \subseteq DOMAIN r.commands
  /\ \A i \in DOMAIN s.commands : r.commands[i].kind = s.commands[i].kind

SameCounters(s, r) == r.failures = s.failures /\ r.flagged = s.flagged

\* A command that follows another one asks for the same thing, and is pending
\* only if that one was.
LEMMA FollowsBack ==
  ASSUME NEW c \in Command, NEW d \in Command, Follows(c, d)
  PROVE  /\ d.verb = c.verb /\ d.target = c.target
         /\ d.kind = "user" <=> c.kind = "user"
         /\ d.status \in Pending => c.status \in Pending
         /\ c.status \in {"done", "failed"} => d.status \in {"done", "failed"}
<1>1. d.kind = "user" <=> c.kind = "user"
  BY DEF Follows, CauseOf
<1>2. d.status \in Pending => c.status \in Pending
  BY DEF Follows, Command, CommandStatuses, Pending
<1> QED BY <1>1, <1>2 DEF Follows

\* The same for the queues of two stores.
LEMMA EvolvesBack ==
  ASSUME NEW s \in Store, NEW r \in Store, Evolves(s, r), NEW i \in DOMAIN s.commands
  PROVE  /\ i \in DOMAIN r.commands
         /\ r.commands[i].verb = s.commands[i].verb
         /\ r.commands[i].target = s.commands[i].target
         /\ r.commands[i].kind = "user" <=> s.commands[i].kind = "user"
         /\ r.commands[i].status \in Pending => s.commands[i].status \in Pending
         /\ s.commands[i].status \in {"done", "failed"} =>
              r.commands[i].status \in {"done", "failed"}
<1>1. /\ i \in 1..Len(s.commands) /\ Len(s.commands) \in Nat /\ Len(r.commands) \in Nat
      /\ DOMAIN r.commands = 1..Len(r.commands) /\ Len(s.commands) <= Len(r.commands)
  BY FieldTypes DEF Evolves
<1>2. i \in DOMAIN r.commands
  BY <1>1
<1>3. /\ s.commands[i] \in Command /\ r.commands[i] \in Command
      /\ Follows(s.commands[i], r.commands[i])
  BY <1>1, <1>2, FieldTypes DEF Evolves
<1> QED BY <1>2, <1>3, FollowsBack

\* A queue that only evolved, under a runtime that did not come to life.
LEMMA QueueEvolves ==
  ASSUME NEW s \in Store, NEW r \in Store, QueueOK(s), Evolves(s, r),
         Len(r.commands) = Len(s.commands),
         Exists(r) => Exists(s) /\ Generation(r) >= Generation(s),
         Live(r) /\ Generation(r) = Generation(s) => Live(s)
  PROVE  QueueOK(r)
<1>1. /\ DOMAIN r.commands = DOMAIN s.commands
      /\ Generation(s) \in Nat /\ Generation(r) \in Nat
      /\ \A i \in DOMAIN s.commands : s.commands[i].target \in Nat
  BY FieldTypes DEF Command
<1>2. \A i \in DOMAIN r.commands :
        /\ r.commands[i].verb = s.commands[i].verb
        /\ r.commands[i].target = s.commands[i].target
        /\ r.commands[i].kind = "user" <=> s.commands[i].kind = "user"
        /\ r.commands[i].status \in Pending => s.commands[i].status \in Pending
        /\ s.commands[i].status \in {"done", "failed"} =>
             r.commands[i].status \in {"done", "failed"}
  BY <1>1, EvolvesBack
<1>3. \A i \in DOMAIN r.commands : Wake(r, i) => Wake(s, i)
  BY <1>2 DEF Wake
<1>4. OneWake(r)
  BY <1>1, <1>2, <1>3 DEF QueueOK, OneWake
<1>5. Targeted(r)
  BY <1>1, <1>2 DEF QueueOK, Targeted
<1>6. StopsWin(r)
  BY <1>1, <1>2 DEF QueueOK, StopsWin
<1>7. SpawnFirst(r)
  BY <1>1, <1>2 DEF QueueOK, SpawnFirst
<1>8. WakesStopped(r)
  <2> SUFFICES ASSUME Exists(r), NEW i \in DOMAIN r.commands, Wake(r, i),
                      r.commands[i].target = Generation(r)
               PROVE  ~Live(r)
    BY DEF WakesStopped
  <2>1. Generation(r) = Generation(s)
    BY <1>1, <1>2 DEF QueueOK, Targeted
  <2> QED BY <1>1, <1>2, <1>3, <2>1 DEF QueueOK, WakesStopped
<1> QED BY <1>4, <1>5, <1>6, <1>7, <1>8 DEF QueueOK

\* Commands are claimed, settled or requeued in place.
LEMMA QueueRewrites ==
  ASSUME NEW s \in Store, NEW r, QueueOK(s), Rewrites(s, r)
  PROVE  QueueOK(r)
<1>1. /\ r \in Store /\ Evolves(s, r) /\ Len(r.commands) = Len(s.commands)
      /\ Generation(r) = Generation(s) /\ (Exists(r) <=> Exists(s)) /\ (Live(r) <=> Live(s))
  BY DEF Rewrites, Grows, SameRows, Generation, Exists, Live, Current
<1>2. Generation(s) \in Nat
  BY FieldTypes
<1> QED BY <1>1, <1>2, QueueEvolves

\* The current row moves; a stopped one does not come back.
LEMMA QueueSets ==
  ASSUME NEW s, NEW r, NEW state, NEW cause, StoreInv(s), Exists(s), QueueOK(s),
         SetsCurrent(s, r, state, cause), state # "stopped" => Live(s)
  PROVE  QueueOK(r)
<1>1. /\ s \in Store /\ r \in Store /\ Generation(r) = Generation(s) /\ r.commands = s.commands
      /\ Generation(s) \in Nat
  BY FieldTypes DEF StoreInv, SetsCurrent
<1>2. Evolves(s, r)
  BY <1>1, FieldTypes, FollowsRefl DEF Evolves
<1>3. Live(r) => Live(s)
  BY DEF Live, LiveStates, SetsCurrent
<1> QED BY <1>1, <1>2, <1>3, QueueEvolves

\* A command is appended: no spawn; a wake only where none is pending and
\* nothing is live; a user's stop only when no start of the generation is left.
LEMMA QueueAppends ==
  ASSUME NEW s \in Store, QueueOK(s), Exists(s), NEW verb \in Verbs \ {"spawn"},
         NEW kind \in Kinds, NEW due \in BOOLEAN,
         verb = "send_wake" => ~HasPendingWake(s) /\ ~Live(s),
         kind = "user" => /\ verb = "stop"
                          /\ \A i \in DOMAIN s.commands :
                               s.commands[i].verb \in StartVerbs /\ s.commands[i].target = Generation(s)
                                 => s.commands[i].status \in {"done", "failed"}
  PROVE  LET r == ApplyEnqueue(s, verb, kind, due)
         IN  QueueOK(r) /\ Tame(s, r) /\ SameCounters(s, r)
<1> DEFINE r == ApplyEnqueue(s, verb, kind, due)
           n == Len(s.commands) + 1
           c == NewCommand(s, verb, kind, due)
<1>1. /\ r \in Store /\ SameRows(s, r) /\ Len(r.commands) = n
      /\ \A i \in 1..Len(s.commands) : r.commands[i] = s.commands[i]
      /\ r.commands[n] = c
  BY ApplyEnqueueAppends
<1>2. /\ c.verb = verb /\ c.kind = kind /\ c.status = "queued"
      /\ c.target = IF verb \in RuntimeVerbs THEN Generation(s) ELSE 0
  BY DEF NewCommand
<1>3. r.failures = s.failures /\ r.flagged = s.flagged
  BY DEF ApplyEnqueue, Store
<1> HIDE DEF r, c
<1>4. /\ DOMAIN s.commands = 1..Len(s.commands) /\ Len(s.commands) \in Nat
      /\ DOMAIN r.commands = 1..n
      /\ Generation(s) \in Nat /\ Generation(r) = Generation(s)
      /\ \A i \in DOMAIN s.commands : s.commands[i].target \in Nat
  BY <1>1, FieldTypes DEF SameRows, Generation, Command
<1>5. Exists(r) /\ (Live(r) <=> Live(s))
  BY <1>1 DEF SameRows, Exists, Live, Current, Generation
<1>6. \A i \in DOMAIN r.commands : i \in DOMAIN s.commands \/ i = n
  BY <1>4
<1>7. \A i \in DOMAIN s.commands : i # n /\ i < n /\ r.commands[i] = s.commands[i]
  BY <1>1, <1>4
<1> HIDE DEF n
<1>8. OneWake(r)
  <2> SUFFICES ASSUME NEW i \in DOMAIN r.commands, NEW j \in DOMAIN r.commands, Wake(r, i),
                      Wake(r, j), r.commands[i].target = r.commands[j].target
               PROVE  i = j
    BY DEF OneWake
  <2>1. ASSUME NEW k \in DOMAIN s.commands, Wake(r, k), verb = "send_wake",
               r.commands[k].target = Generation(s)
        PROVE  FALSE
    BY <1>7, <2>1 DEF Wake, HasPendingWake
  <2>2. verb = "send_wake" => c.target = Generation(s)
    BY <1>2 DEF RuntimeVerbs
  <2> QED BY <1>1, <1>2, <1>6, <1>7, <2>1, <2>2 DEF QueueOK, OneWake, Wake
<1>9. Targeted(r)
  BY <1>1, <1>2, <1>4, <1>6, <1>7 DEF QueueOK, Targeted
<1>10. StopsWin(r)
  <2> SUFFICES ASSUME NEW i \in DOMAIN r.commands, NEW j \in DOMAIN r.commands, i < j,
                      r.commands[i].verb \in StartVerbs, r.commands[j].kind = "user",
                      r.commands[i].target = r.commands[j].target
               PROVE  r.commands[i].status \in {"done", "failed"}
    BY DEF StopsWin
  <2>1. i \in DOMAIN s.commands
    BY <1>4, <1>6
  <2>2. CASE j \in DOMAIN s.commands
    BY <1>7, <2>1, <2>2 DEF QueueOK, StopsWin
  <2>3. CASE j = n
    <3>1. kind = "user" /\ s.commands[i].target = c.target /\ s.commands[i].verb \in StartVerbs
      BY <1>1, <1>2, <1>7, <2>1, <2>3
    <3>2. c.target = Generation(s)
      BY <1>2, <3>1 DEF RuntimeVerbs
    <3> QED BY <1>7, <2>1, <3>1, <3>2
  <2> QED BY <1>6, <2>2, <2>3
<1>11. SpawnFirst(r)
  BY <1>1, <1>2, <1>6, <1>7 DEF QueueOK, SpawnFirst
<1>12. WakesStopped(r)
  BY <1>1, <1>2, <1>4, <1>5, <1>6, <1>7 DEF QueueOK, WakesStopped, Wake
<1>13. Tame(s, r)
  BY <1>1, <1>2, <1>4, <1>6, <1>7 DEF Tame, n
<1>14. QueueOK(r) /\ Tame(s, r) /\ SameCounters(s, r)
  BY <1>3, <1>8, <1>9, <1>10, <1>11, <1>12, <1>13 DEF QueueOK, SameCounters
<1> QED BY <1>14 DEF r

-----------------------------------------------------------------------------
(* The invariant of the spawn-failure budget. *)

\* Every counted failure is a generation of its own, and a live one has not
\* failed yet.
CountOK(s) ==
  Exists(s) => s.failures <= Generation(s) /\ (Live(s) => s.failures < Generation(s))

FlagOK(s) ==
  s.flagged => \/ s.failures >= MaxAttempts
               \/ \E i \in DOMAIN s.commands : s.commands[i].status = "failed"

\* The budget has room for every runtime that is live or about to be woken.
BudgetOK(s) ==
  MaxAttempts > 1 =>
    /\ s.failures <= MaxAttempts
    /\ s.failures = MaxAttempts => s.flagged
    /\ Live(s) => s.failures < MaxAttempts
    /\ Exists(s) => \A i \in DOMAIN s.commands :
                      Wake(s, i) /\ s.commands[i].target = Generation(s) =>
                        s.failures < MaxAttempts

BeeInv(s) == StoreInv(s) /\ QueueOK(s) /\ CountOK(s) /\ FlagOK(s) /\ BudgetOK(s)

\* A change mints at most one generation, and brings no stopped runtime back.
LEMMA ChangeLive ==
  ASSUME NEW s, NEW r, StoreInv(s), Change(s, r), Exists(r)
  PROVE  /\ Exists(s)
         /\ \/ Generation(r) = Generation(s) /\ (Live(r) => Live(s))
            \/ Generation(r) = Generation(s) + 1 /\ ~Live(s)
<1>1. s \in Store /\ r \in Store /\ StoreInv(r) /\ Exists(s)
  BY DEF StoreInv, Change
<1>2. /\ Len(Log(s)) = Generation(s) /\ Len(Log(r)) = Generation(r)
      /\ Generation(s) \in Nat \ {0} /\ Generation(r) \in Nat \ {0}
      /\ Log(s)[Generation(s)] = Row(Current(s).state, Current(s).exitCause)
      /\ Log(r)[Generation(r)] = Row(Current(r).state, Current(r).exitCause)
  BY <1>1, LogType, CurrentType DEF Current
<1>3. /\ Log(s) \in Seq([state: RuntimeStates, exitCause: ExitCauses \union {"none"}])
      /\ (Live(s) <=> Current(s).state # "stopped") /\ (Live(r) <=> Current(r).state # "stopped")
  BY <1>1, LogType, CurrentType
<1>4. CASE Log(r) = Log(s)
  BY <1>1, <1>2, <1>3, <1>4 DEF Row
<1>5. CASE Log(r) = Append(Log(s), Row("booting", "none")) /\ Current(s).state = "stopped"
  <2>1. Generation(r) = Generation(s) + 1
    BY <1>2, <1>3, <1>5 DEF Row, RuntimeStates
  <2> QED BY <1>1, <1>3, <1>5, <2>1
<1>6. CASE Log(r) = <<>>
  BY <1>2, <1>6
<1>7. ASSUME NEW state \in RuntimeTransitions(Current(s).state), NEW cause,
             Log(r) = [Log(s) EXCEPT ![Generation(s)] = Row(state, cause)]
      PROVE  Generation(r) = Generation(s) /\ (Live(r) => Live(s))
  <2>1. Generation(r) = Generation(s)
    BY <1>2, <1>3, <1>7
  <2>2. Current(s).state # "stopped"
    BY <1>7 DEF RuntimeTransitions
  <2> QED BY <1>3, <2>1, <2>2
<1> QED BY <1>1, <1>4, <1>5, <1>6, <1>7 DEF Change, LogStep

\* A command that failed for good stays failed.
LEMMA FailedStays ==
  ASSUME NEW s \in Store, NEW r \in Store, Evolves(s, r),
         \E i \in DOMAIN s.commands : s.commands[i].status = "failed"
  PROVE  \E i \in DOMAIN r.commands : r.commands[i].status = "failed"
<1>1. PICK i \in DOMAIN s.commands : s.commands[i].status = "failed"
  OBVIOUS
<1>2. i \in DOMAIN r.commands /\ i \in 1..Len(s.commands)
  BY EvolvesBack, FieldTypes
<1> QED BY <1>1, <1>2 DEF Evolves, Follows

\* A change that queues nothing keeps the invariant of the queue.
LEMMA QueueChanges ==
  ASSUME NEW s, NEW r, StoreInv(s), QueueOK(s), Change(s, r),
         Len(r.commands) = Len(s.commands)
  PROVE  QueueOK(r)
<1>1. s \in Store /\ r \in Store /\ Evolves(s, r)
  BY DEF StoreInv, Change
<1>2. Generation(s) \in Nat /\ Generation(r) \in Nat
  BY <1>1, FieldTypes
<1>3. Exists(r) => Exists(s) /\ Generation(r) >= Generation(s)
  BY <1>2, ChangeLive
<1>4. Live(r) /\ Generation(r) = Generation(s) => Live(s)
  BY <1>2, ChangeLive DEF Live
<1> QED BY <1>1, <1>3, <1>4, QueueEvolves

\* A change of the bee that counts nothing and mints nothing.
LEMMA BeeKeeps ==
  ASSUME NEW s, NEW r, BeeInv(s), Change(s, r), QueueOK(r), SameCounters(s, r),
         Generation(r) = Generation(s),
         \A i \in DOMAIN r.commands :
           Wake(r, i) /\ r.commands[i].target = Generation(r) =>
             \/ i \in DOMAIN s.commands
             \/ MaxAttempts > 1 => s.failures < MaxAttempts
  PROVE  BeeInv(r)
<1>1. s \in Store /\ r \in Store /\ Evolves(s, r) /\ StoreInv(r) /\ StoreInv(s)
  BY DEF BeeInv, StoreInv, Change
<1>2. Exists(r) => Exists(s) /\ (Live(r) => Live(s))
  BY <1>1, ChangeLive, FieldTypes
<1>3. CountOK(r)
  BY <1>2 DEF BeeInv, CountOK, SameCounters
<1>4. FlagOK(r)
  BY <1>1, FailedStays DEF BeeInv, FlagOK, SameCounters
<1>5. BudgetOK(r)
  <2>1. Live(r) => Live(s)
    BY <1>2 DEF Live
  <2>2. ASSUME Exists(r), NEW i \in DOMAIN r.commands, Wake(r, i), MaxAttempts > 1,
               r.commands[i].target = Generation(r)
        PROVE  r.failures < MaxAttempts
    <3>1. CASE i \in DOMAIN s.commands
      <4>1. Wake(s, i) /\ s.commands[i].target = Generation(s)
        BY <1>1, <2>2, <3>1, EvolvesBack DEF Wake
      <4> QED BY <1>2, <2>2, <3>1, <4>1 DEF BeeInv, BudgetOK, SameCounters
    <3> QED BY <2>2, <3>1 DEF SameCounters
  <2> QED BY <2>1, <2>2 DEF BeeInv, BudgetOK, SameCounters
<1> QED BY <1>1, <1>3, <1>4, <1>5 DEF BeeInv

\* The same for a change that queues nothing.
LEMMA BeeRewrites ==
  ASSUME NEW s, NEW r, BeeInv(s), Change(s, r), Len(r.commands) = Len(s.commands),
         SameCounters(s, r), Generation(r) = Generation(s)
  PROVE  BeeInv(r)
<1>1. s \in Store /\ r \in Store /\ DOMAIN r.commands = DOMAIN s.commands
  BY FieldTypes DEF BeeInv, StoreInv, Change
<1>2. QueueOK(r)
  BY QueueChanges DEF BeeInv
<1> QED BY <1>1, <1>2, BeeKeeps

-----------------------------------------------------------------------------
(* What the methods of the queue do to the invariant. *)

\* A method that runs nothing, counts nothing and leaves the runtimes alone.
Quiet(s, r) == Tame(s, r) /\ SameCounters(s, r) /\ r.runtimes = s.runtimes

\* What is shown of a method that works on the queue of a bee that exists.
Schedules(s, r) == BeeInv(r) /\ Exists(r) /\ Quiet(s, r)

\* A method that does nothing.
LEMMA SchedulesRefl == ASSUME NEW s, BeeInv(s), Exists(s) PROVE Schedules(s, s)
  BY DEF Schedules, Quiet, Tame, SameCounters

\* Methods in sequence.
LEMMA SchedulesTrans ==
  ASSUME NEW s, NEW r, NEW t, Quiet(s, r), Schedules(r, t)
  PROVE  Schedules(s, t)
  BY DEF Schedules, Quiet, Tame, SameCounters

\* A store is one that does not count, whatever happened to bee and mail.
LEMMA BeeSame ==
  ASSUME NEW s, NEW r, BeeInv(s), StoreInv(r), Exists(r) <=> Exists(s),
         r.commands = s.commands, r.runtimes = s.runtimes, SameCounters(s, r)
  PROVE  BeeInv(r) /\ Quiet(s, r)
<1>1. Change(s, r)
  BY ChangeBee DEF BeeInv
<1>2. Generation(r) = Generation(s)
  BY DEF Generation
<1>3. BeeInv(r)
  BY <1>1, <1>2, BeeRewrites
<1> QED BY <1>3 DEF Quiet, Tame

\* Commands rewritten in place, none of them set running or renamed.
LEMMA RewritesSchedules ==
  ASSUME NEW s, NEW r, BeeInv(s), Rewrites(s, r), SameCounters(s, r),
         \A i \in DOMAIN s.commands :
           /\ r.commands[i].kind = s.commands[i].kind
           /\ r.commands[i].status = "running" => s.commands[i].status = "running"
  PROVE  BeeInv(r) /\ Quiet(s, r) /\ (Exists(s) => Schedules(s, r))
<1>1. Change(s, r) /\ (Exists(r) <=> Exists(s)) /\ r.runtimes = s.runtimes
      /\ Len(r.commands) = Len(s.commands)
  BY ChangeRewrites DEF BeeInv, Rewrites, Grows, SameRows
<1>2. Generation(r) = Generation(s)
  BY <1>1 DEF Generation
<1>3. BeeInv(r)
  BY <1>1, <1>2, BeeRewrites
<1>4. DOMAIN r.commands = DOMAIN s.commands
  BY <1>1, FieldTypes DEF BeeInv, StoreInv, Change
<1> QED BY <1>1, <1>3, <1>4 DEF Schedules, Quiet, Tame

\* A command is queued, under the conditions of QueueAppends.
LEMMA AppendSchedules ==
  ASSUME NEW s, BeeInv(s), Exists(s), NEW verb \in Verbs \ {"spawn"},
         NEW kind \in Kinds, NEW due \in BOOLEAN,
         verb = "send_wake" => ~HasPendingWake(s) /\ ~Live(s) /\ ~s.flagged,
         kind = "user" => /\ verb = "stop"
                          /\ \A i \in DOMAIN s.commands :
                               s.commands[i].verb \in StartVerbs /\ s.commands[i].target = Generation(s)
                                 => s.commands[i].status \in {"done", "failed"}
  PROVE  Schedules(s, ApplyEnqueue(s, verb, kind, due))
<1> DEFINE r == ApplyEnqueue(s, verb, kind, due)
           c == IF kind = "user" THEN "stopped_by_user" ELSE "stopped_by_system"
<1>1. s \in Store /\ StoreInv(s) /\ QueueOK(s)
  BY DEF BeeInv, StoreInv
<1>2. QueueOK(r) /\ Tame(s, r) /\ SameCounters(s, r)
  BY <1>1, QueueAppends
<1>3. Grows(s, r, {<<Generation(s), c>>})
  <2>1. verb = "stop" => <<Generation(s), CauseOf([kind |-> kind])>> \in {<<Generation(s), c>>}
    BY DEF CauseOf
  <2>2. verb \in Verbs
    OBVIOUS
  <2> QED BY <1>1, <2>1, <2>2, ApplyEnqueueGrows
<1>4. /\ Len(r.commands) = Len(s.commands) + 1
      /\ r.commands[Len(s.commands) + 1] = NewCommand(s, verb, kind, due)
  BY <1>1, ApplyEnqueueAppends
<1>5. c \in StopCauses
  BY DEF StopCauses
<1> HIDE DEF r, c
<1>6. Change(s, r)
  BY <1>1, <1>3, <1>5, ChangeGrows
<1>7. Exists(r) /\ r.runtimes = s.runtimes /\ Generation(r) = Generation(s) /\ r \in Store
  BY <1>3 DEF Grows, SameRows, Exists, Generation
<1>8. ASSUME NEW i \in DOMAIN r.commands, Wake(r, i), i \notin DOMAIN s.commands
      PROVE  MaxAttempts > 1 => s.failures < MaxAttempts
  <2>1. i = Len(s.commands) + 1
    BY <1>1, <1>4, <1>7, <1>8, FieldTypes
  <2>2. verb = "send_wake"
    BY <1>4, <1>8, <2>1 DEF Wake, NewCommand
  <2>3. s.failures \in Nat /\ MaxAttempts \in Nat
    BY <1>1, FieldTypes, MaxAttemptsAssumption
  <2> QED BY <2>2, <2>3 DEF BeeInv, BudgetOK
<1>9. BeeInv(r)
  BY <1>2, <1>6, <1>7, <1>8, BeeKeeps
<1>10. Schedules(s, r)
  BY <1>2, <1>7, <1>9 DEF Schedules, Quiet
<1> QED BY <1>10 DEF r

\* The one place a wake is scheduled.
LEMMA WakeSchedules ==
  ASSUME NEW s, BeeInv(s), Exists(s) PROVE Schedules(s, ApplyWakeIfNeeded(s))
<1>1. CASE Live(s) \/ HasPendingWake(s) \/ s.flagged
  BY <1>1, SchedulesRefl DEF ApplyWakeIfNeeded
<1>2. CASE ~(Live(s) \/ HasPendingWake(s) \/ s.flagged)
  <2>1. "send_wake" \in Verbs \ {"spawn"} /\ "plain" \in Kinds /\ (s.failures = 0) \in BOOLEAN
    BY DEF Verbs, Kinds
  <2>2. Schedules(s, ApplyEnqueue(s, "send_wake", "plain", s.failures = 0))
    BY <1>2, <2>1, AppendSchedules
  <2> QED BY <1>2, <2>2 DEF ApplyWakeIfNeeded
<1> QED BY <1>1, <1>2

\* enqueueWake and enqueueBootRetry.
LEMMA WakesSchedule ==
  ASSUME NEW s, BeeInv(s), Exists(s)
  PROVE  Schedules(s, EnsureWake(s)) /\ Schedules(s, EnsureBootRetry(s))
  BY WakeSchedules, SchedulesRefl DEF EnsureWake, EnqueueWake, EnsureBootRetry, EnqueueBootRetry

\* Commands that are neither starts of their own kind nor a user's stop.
LEMMA EnqueueSchedules ==
  ASSUME NEW s, BeeInv(s), Exists(s), NEW verb \in Verbs \ {"spawn", "send_wake"},
         NEW kind \in Kinds \ {"user"}
  PROVE  Schedules(s, EnqueueCommand(s, verb, kind))
<1>1. EnqueueCommand(s, verb, kind) = ApplyEnqueue(s, verb, kind, TRUE)
  BY DEF EnqueueCommand
<1> QED BY <1>1, AppendSchedules

\* A restart that a stop asked for.
LEMMA ReviveSchedules ==
  ASSUME NEW s, BeeInv(s), Exists(s), NEW generation
  PROVE  Schedules(s, ReviveAfterStopIfRequested(s, generation))
<1>1. Schedules(s, EnqueueCommand(s, "revive", "after_stop"))
  BY EnqueueSchedules DEF Verbs, Kinds
<1> QED BY <1>1, SchedulesRefl DEF ReviveAfterStopIfRequested

\* A user's stop, while no command is being executed.
LEMMA UserStopSchedules ==
  ASSUME NEW s, BeeInv(s), Exists(s),
         \A i \in DOMAIN s.commands : s.commands[i].status # "running"
  PROVE  Schedules(s, EnqueueCommand(s, "stop", "user"))
<1> DEFINE t == SupersedeStarts(s)
<1>1. s \in Store
  BY DEF BeeInv, StoreInv
<1>2. Rewrites(s, t) /\ t \in Store
  BY <1>1, SupersedeRewrites DEF Rewrites, Grows
<1>3. SameCounters(s, t)
  BY <1>1 DEF SupersedeStarts, SameCounters, Store
<1>4. \A i \in DOMAIN s.commands :
        t.commands[i] = IF s.commands[i].status = "queued" /\ s.commands[i].verb \in StartVerbs
                             /\ s.commands[i].target = Generation(s)
                          THEN [s.commands[i] EXCEPT !.status = "done"] ELSE s.commands[i]
  BY <1>1 DEF SupersedeStarts, Store
<1> HIDE DEF t
<1>5. ASSUME NEW i \in DOMAIN s.commands
      PROVE  /\ t.commands[i].kind = s.commands[i].kind
             /\ t.commands[i].status # "running"
             /\ t.commands[i].verb = s.commands[i].verb /\ t.commands[i].target = s.commands[i].target
             /\ s.commands[i].verb \in StartVerbs /\ s.commands[i].target = Generation(s) =>
                  t.commands[i].status \in {"done", "failed"}
  <2>1. s.commands[i] \in Command /\ "done" \in CommandStatuses
    BY <1>1, FieldTypes DEF CommandStatuses
  <2>2. s.commands[i].status \in {"queued", "done", "failed"}
    BY <2>1 DEF Command, CommandStatuses
  <2> DEFINE d == [s.commands[i] EXCEPT !.status = "done"]
  <2>3. d.kind = s.commands[i].kind /\ d.verb = s.commands[i].verb
        /\ d.target = s.commands[i].target /\ d.status = "done"
    BY <2>1, WithStatus
  <2>4. t.commands[i] = IF s.commands[i].status = "queued" /\ s.commands[i].verb \in StartVerbs
                             /\ s.commands[i].target = Generation(s)
                          THEN d ELSE s.commands[i]
    BY <1>4
  <2> HIDE DEF d
  <2> QED BY <2>2, <2>3, <2>4
<1>6. Schedules(s, t)
  BY <1>2, <1>3, <1>5, RewritesSchedules
<1>7. Generation(t) = Generation(s) /\ DOMAIN t.commands = DOMAIN s.commands
  BY <1>1, <1>2, FieldTypes DEF Rewrites, Grows, SameRows, Generation
<1>8. "stop" \in Verbs \ {"spawn"} /\ "user" \in Kinds
  BY DEF Verbs, Kinds
<1>9. Schedules(t, ApplyEnqueue(t, "stop", "user", TRUE))
  BY <1>5, <1>6, <1>7, <1>8, AppendSchedules DEF Schedules
<1>10. EnqueueCommand(s, "stop", "user") = ApplyEnqueue(t, "stop", "user", TRUE)
  BY DEF EnqueueCommand, t
<1> QED BY <1>6, <1>9, <1>10, SchedulesTrans DEF Schedules

\* bee.reconfigure settles a waiting model change, and may queue another stop.
LEMMA ReconfigureSchedules ==
  ASSUME NEW s, BeeInv(s), Exists(s), NEW same \in BOOLEAN
  PROVE  Schedules(s, ReconfigureBee(s, same))
<1> DEFINE t == MootModelChange(s)
           moot(i) == [s.commands[i] EXCEPT !.status = "done", !.thenRevive = FALSE]
<1>1. s \in Store
  BY DEF BeeInv, StoreInv
<1>2. Rewrites(s, t) /\ SameCounters(s, t)
  BY <1>1, MootModelChangeRewrites DEF MootModelChange, SameCounters, Store
<1>3. \A i \in DOMAIN s.commands :
        t.commands[i] = IF PendingModelChange(s, i) THEN moot(i) ELSE s.commands[i]
  BY <1>1 DEF MootModelChange, Store
<1> HIDE DEF t
<1>4. ASSUME NEW i \in DOMAIN s.commands
      PROVE  /\ t.commands[i].kind = s.commands[i].kind
             /\ t.commands[i].status = "running" => s.commands[i].status = "running"
  <2>1. s.commands[i] \in Command
    BY <1>1, FieldTypes
  <2>2. moot(i).kind = s.commands[i].kind /\ moot(i).status = "done"
    BY <2>1 DEF Command
  <2> HIDE DEF moot
  <2> QED BY <1>3, <2>2
<1>5. Schedules(s, t)
  BY <1>2, <1>4, RewritesSchedules
<1>6. Schedules(t, EnqueueCommand(t, "stop", "model"))
  BY <1>5, EnqueueSchedules DEF Verbs, Kinds, Schedules
<1>7. Schedules(s, EnqueueCommand(t, "stop", "model"))
  BY <1>5, <1>6, SchedulesTrans DEF Schedules
<1>8. ReconfigureBee(s, same) = t \/ ReconfigureBee(s, same) = EnqueueCommand(t, "stop", "model")
  BY DEF ReconfigureBee, t
<1> QED BY <1>5, <1>7, <1>8

\* bee.swapAccount queues a stop for a live runtime.
LEMMA SwapSchedules ==
  ASSUME NEW s, BeeInv(s), Exists(s) PROVE Schedules(s, SwapAccount(s))
<1>1. Schedules(s, EnqueueCommand(s, "stop", "swap"))
  BY EnqueueSchedules DEF Verbs, Kinds
<1> QED BY <1>1, SchedulesRefl DEF SwapAccount

\* unarchive and the mailbox are of no concern to the queue.
LEMMA UnarchiveKeeps ==
  ASSUME NEW s, BeeInv(s), Exists(s)
  PROVE  Schedules(s, UnarchiveBee(s))
<1>1. SameCounters(s, UnarchiveBee(s))
  BY DEF UnarchiveBee, ApplyUnarchive, SameCounters, BeeInv, StoreInv, Store
<1>2. /\ StoreInv(UnarchiveBee(s)) /\ Exists(UnarchiveBee(s))
      /\ UnarchiveBee(s).commands = s.commands /\ UnarchiveBee(s).runtimes = s.runtimes
  BY UnarchiveInv DEF BeeInv
<1> QED BY <1>1, <1>2, BeeSame DEF Schedules

\* send wakes a bee that has no live runtime.
LEMMA SendSchedules ==
  ASSUME NEW s, BeeInv(s), Exists(s) PROVE Schedules(s, Send(s))
<1> DEFINE u == UnarchiveBee(s)
           t == [u EXCEPT !.mail = @ + 1]
<1>1. Schedules(s, u)
  BY UnarchiveKeeps
<1>2. Send(s) = ApplyWakeIfNeeded(t)
  BY DEF Send
<1> HIDE DEF u
<1>3. u \in Store /\ StoreInv(u) /\ Exists(u) /\ u.mail \in Nat
  BY <1>1, FieldTypes DEF Schedules, BeeInv, StoreInv
<1>4. /\ t \in Store /\ t.commands = u.commands /\ t.runtimes = u.runtimes
      /\ t.lifecycle = u.lifecycle /\ SameCounters(u, t)
  BY <1>3 DEF Store, SameCounters
<1> HIDE DEF t
<1>5. StoreInv(t) /\ Exists(t)
  BY <1>3, <1>4 DEF StoreInv, Closed, Exists, Generation
<1>6. BeeInv(t) /\ Quiet(u, t)
  BY <1>1, <1>3, <1>4, <1>5, BeeSame DEF Schedules
<1>7. Schedules(t, Send(s))
  BY <1>2, <1>5, <1>6, WakeSchedules
<1> QED BY <1>1, <1>6, <1>7, SchedulesTrans DEF Schedules

\* The policies queue stops of the system.
LEMMA PoliciesSchedule ==
  ASSUME NEW s, BeeInv(s), Exists(s), NEW elapsed
  PROVE  Schedules(s, DegradedMailPolicy(ScaleToZeroPolicy(BootHangPolicy(s), elapsed)))
<1>1. ASSUME NEW t, BeeInv(t), Exists(t), NEW kind \in {"hang", "idle_window", "degraded"}
      PROVE  Schedules(t, EnqueueCommand(t, "stop", kind)) /\ Schedules(t, t)
  BY <1>1, EnqueueSchedules, SchedulesRefl DEF Verbs, Kinds
<1> DEFINE a == BootHangPolicy(s)
           b == ScaleToZeroPolicy(a, elapsed)
           c == DegradedMailPolicy(b)
<1>2. Schedules(s, a)
  BY <1>1 DEF BootHangPolicy
<1> HIDE DEF a
<1>3. Schedules(a, b)
  BY <1>1, <1>2 DEF ScaleToZeroPolicy, Schedules
<1> HIDE DEF b
<1>4. Schedules(b, c)
  BY <1>1, <1>3 DEF DegradedMailPolicy, Schedules
<1> HIDE DEF c
<1>5. Schedules(s, c)
  BY <1>2, <1>3, <1>4, SchedulesTrans DEF Schedules
<1> QED BY <1>5 DEF a, b, c

-----------------------------------------------------------------------------
(* Methods that claim, settle or count. *)

NoneRuns(s) == \A i \in DOMAIN s.commands : s.commands[i].status # "running"

OnlyRuns(s, id) == \A i \in DOMAIN s.commands : s.commands[i].status = "running" => i = id

\* Commands rewritten in place, under the same counters.
LEMMA RewritesBee ==
  ASSUME NEW s, NEW r, BeeInv(s), Rewrites(s, r), SameCounters(s, r)
  PROVE  BeeInv(r) /\ (Exists(r) <=> Exists(s)) /\ DOMAIN r.commands = DOMAIN s.commands
<1>1. Change(s, r) /\ (Exists(r) <=> Exists(s)) /\ Generation(r) = Generation(s)
      /\ Len(r.commands) = Len(s.commands)
  BY ChangeRewrites DEF BeeInv, Rewrites, Grows, SameRows, Generation
<1>2. DOMAIN r.commands = DOMAIN s.commands
  BY <1>1, FieldTypes DEF BeeInv, StoreInv, Change
<1> QED BY <1>1, <1>2, BeeRewrites

\* The claim runs one command, the next one.
LEMMA ClaimBee ==
  ASSUME NEW s, BeeInv(s), NoneRuns(s)
  PROVE  LET r == ClaimNextCommand(s)
         IN  /\ BeeInv(r) /\ SameCounters(s, r)
             /\ ToRun(s) = {} => NoneRuns(r)
             /\ \A id \in ToRun(s) : IsNext(s, id) => OnlyRuns(r, id)
<1> DEFINE r == ClaimNextCommand(s)
           run(i) == [s.commands[i] EXCEPT !.status = "running"]
           moot(i) == [s.commands[i] EXCEPT !.status = "done",
                         !.thenRevive = s.commands[i].thenRevive
                                         /\ ~PendingModelChange(s, i)]
<1>1. s \in Store
  BY DEF BeeInv, StoreInv
<1>2. Rewrites(s, r) /\ SameCounters(s, r)
  BY <1>1, ClaimRewrites DEF ClaimNextCommand, SameCounters, Store
<1>3. BeeInv(r) /\ DOMAIN r.commands = DOMAIN s.commands
  BY <1>2, RewritesBee
<1>4. ASSUME NEW i \in DOMAIN s.commands
      PROVE  r.commands[i] = IF IsNext(s, i) THEN run(i)
                             ELSE IF MootNow(s, i) THEN moot(i) ELSE s.commands[i]
  BY <1>1 DEF ClaimNextCommand, Store
<1> HIDE DEF r
<1>5. ASSUME NEW i \in DOMAIN r.commands, r.commands[i].status = "running"
      PROVE  IsNext(s, i)
  <2>1. s.commands[i] \in Command /\ i \in DOMAIN s.commands
    BY <1>1, <1>3, FieldTypes
  <2>2. moot(i).status = "done"
    BY <2>1 DEF Command
  <2> HIDE DEF moot
  <2> QED BY <1>4, <1>5, <2>1, <2>2 DEF NoneRuns
<1>6. ToRun(s) = {} => NoneRuns(r)
  BY <1>5 DEF NoneRuns, IsNext
<1>7. \A id \in ToRun(s) : IsNext(s, id) => OnlyRuns(r, id)
  <2>1. ASSUME NEW i, NEW j, IsNext(s, i), IsNext(s, j) PROVE i = j
    <3>1. i \in Nat /\ j \in Nat
      BY <1>1, <2>1, FieldTypes DEF IsNext, ToRun, Claimable
    <3> QED BY <2>1, <3>1 DEF IsNext
  <2> QED BY <1>5, <2>1 DEF OnlyRuns
<1> QED BY <1>2, <1>3, <1>6, <1>7 DEF r

\* One command is rewritten, and is not running afterwards.
LEMMA SettlesOne ==
  ASSUME NEW s \in Store, NEW r, NEW id \in DOMAIN s.commands, NEW c, c.status # "running",
         OnlyRuns(s, id), r.commands = [s.commands EXCEPT ![id] = c]
  PROVE  NoneRuns(r)
<1>1. /\ DOMAIN r.commands = DOMAIN s.commands
      /\ \A i \in DOMAIN s.commands : r.commands[i] = IF i = id THEN c ELSE s.commands[i]
  BY FieldTypes
<1> QED BY <1>1 DEF OnlyRuns, NoneRuns

\* completeCommand, skipBootHangStop and bootRequeueRunningCommands.
LEMMA CompleteBee ==
  ASSUME NEW s, BeeInv(s), NEW id \in DOMAIN s.commands, OnlyRuns(s, id)
  PROVE  LET r == CompleteCommand(s, id)
         IN  BeeInv(r) /\ SameCounters(s, r) /\ Quiet(s, r) /\ NoneRuns(r)
<1> DEFINE r == CompleteCommand(s, id)
           c == [s.commands[id] EXCEPT !.status = "done"]
<1>1. s \in Store /\ s.commands[id] \in Command
  BY FieldTypes DEF BeeInv, StoreInv
<1>2. c.status = "done" /\ c.kind = s.commands[id].kind
  BY <1>1, WithStatus DEF CommandStatuses
<1>3. CASE s.commands[id].status = "running"
  <2>1. r = [s EXCEPT !.commands = [@ EXCEPT ![id] = c]]
    BY <1>1, <1>3 DEF CompleteCommand, SetCommand, Store
  <2> HIDE DEF c
  <2>2. r.commands = [s.commands EXCEPT ![id] = c] /\ SameCounters(s, r)
    BY <1>1, <2>1 DEF SameCounters, Store
  <2>3. Rewrites(s, r)
    BY <1>1, CompleteRewrites
  <2> HIDE DEF r
  <2>4. NoneRuns(r)
    BY <1>1, <1>2, <2>2, SettlesOne
  <2>5. BeeInv(r) /\ DOMAIN r.commands = DOMAIN s.commands
    BY <2>2, <2>3, RewritesBee
  <2>6. \A i \in DOMAIN s.commands : r.commands[i].kind = s.commands[i].kind
    BY <1>1, <1>2, <2>2, FieldTypes
  <2>7. r.runtimes = s.runtimes
    BY <2>3 DEF Rewrites, Grows, SameRows
  <2>8. BeeInv(r) /\ SameCounters(s, r) /\ Quiet(s, r) /\ NoneRuns(r)
    BY <2>2, <2>4, <2>5, <2>6, <2>7 DEF Quiet, Tame, NoneRuns
  <2> QED BY <2>8 DEF r
<1>4. CASE s.commands[id].status # "running"
  <2>1. r = s
    BY <1>4 DEF CompleteCommand
  <2>2. NoneRuns(s)
    BY <1>4 DEF OnlyRuns, NoneRuns
  <2> HIDE DEF r
  <2>3. BeeInv(r) /\ SameCounters(s, r) /\ Quiet(s, r) /\ NoneRuns(r)
    BY <2>1, <2>2 DEF Quiet, Tame, SameCounters
  <2> QED BY <2>3 DEF r
<1> QED BY <1>3, <1>4

\* A skipped boot-hang stop is settled.
LEMMA SkipBee ==
  ASSUME NEW s, BeeInv(s), NEW id \in DOMAIN s.commands, OnlyRuns(s, id),
         s.commands[id].status = "running", s.commands[id].kind = "hang"
  PROVE  LET r == SkipBootHangStop(s, id)
         IN  BeeInv(r) /\ SameCounters(s, r) /\ NoneRuns(r)
<1> DEFINE r == SkipBootHangStop(s, id)
           c == [s.commands[id] EXCEPT !.status = "done", !.kind = "hang_skipped"]
<1>1. s \in Store /\ s.commands[id] \in Command
  BY FieldTypes DEF BeeInv, StoreInv
<1>2. c.status = "done"
  BY <1>1 DEF Command
<1>3. r = [s EXCEPT !.commands = [@ EXCEPT ![id] = c]]
  BY <1>1, FieldTypes DEF SkipBootHangStop
<1> HIDE DEF c
<1>4. r.commands = [s.commands EXCEPT ![id] = c] /\ SameCounters(s, r)
  BY <1>1, <1>3 DEF SameCounters, Store
<1>5. Rewrites(s, r)
  BY <1>1, SkipRewrites
<1> HIDE DEF r
<1>6. NoneRuns(r)
  BY <1>1, <1>2, <1>4, SettlesOne
<1>7. BeeInv(r)
  BY <1>4, <1>5, RewritesBee
<1> QED BY <1>4, <1>6, <1>7 DEF r

\* A start that failed is queued again, or failed for good under a flag.
LEMMA ReportFailureBee ==
  ASSUME NEW s, BeeInv(s), NEW id \in DOMAIN s.commands, OnlyRuns(s, id),
         s.commands[id].status = "running"
  PROVE  LET r == ReportCommandFailure(s, id)
         IN  /\ BeeInv(r) /\ NoneRuns(r) /\ Tame(s, r)
             /\ r.failures = s.failures /\ r.runtimes = s.runtimes
<1> DEFINE n == s.commands[id].attempts + 1
           failed == n >= MaxAttempts
           status == IF failed THEN "failed" ELSE "queued"
           c == [s.commands[id] EXCEPT !.attempts = n, !.due = FALSE, !.status = status]
           r == ReportCommandFailure(s, id)
<1>1. s \in Store /\ StoreInv(s) /\ s.commands[id] \in Command
  BY FieldTypes DEF BeeInv, StoreInv
<1>2. c.status = status /\ c.kind = s.commands[id].kind
  BY <1>1 DEF Command
<1>3. /\ r.commands = [s.commands EXCEPT ![id] = c]
      /\ r.failures = s.failures /\ r.flagged = (s.flagged \/ failed)
  BY <1>1 DEF ReportCommandFailure, Store
<1>4. Rewrites(s, r)
  BY <1>1, ReportFailureGrows
<1>5. status # "running" /\ (failed <=> status = "failed")
  OBVIOUS
<1> HIDE DEF r, c, failed, status, n
<1>6. NoneRuns(r)
  BY <1>1, <1>2, <1>3, <1>5, SettlesOne
<1>7. Change(s, r) /\ (Exists(r) <=> Exists(s)) /\ r.runtimes = s.runtimes
      /\ Len(r.commands) = Len(s.commands) /\ StoreInv(r) /\ r \in Store /\ Evolves(s, r)
  BY <1>1, <1>4, ChangeRewrites DEF Rewrites, Grows, SameRows, Change, StoreInv
<1>8. Generation(r) = Generation(s) /\ (Live(r) <=> Live(s)) /\ DOMAIN r.commands = DOMAIN s.commands
  BY <1>1, <1>7, FieldTypes DEF Generation, Live, Current
<1>9. QueueOK(r)
  BY <1>1, <1>7, QueueChanges DEF BeeInv
<1>10. CountOK(r)
  BY <1>3, <1>7, <1>8 DEF BeeInv, CountOK
<1>11. FlagOK(r)
  <2>1. CASE failed
    <3>1. id \in DOMAIN r.commands /\ r.commands[id].status = "failed"
      BY <1>1, <1>2, <1>3, <1>5, <1>8, <2>1, FieldTypes
    <3> QED BY <3>1 DEF FlagOK
  <2>2. CASE ~failed
    <3>1. r.flagged = s.flagged
      BY <1>1, <1>3, <2>2, FieldTypes
    <3> QED BY <1>1, <1>3, <1>7, <3>1, FailedStays DEF BeeInv, FlagOK
  <2> QED BY <2>1, <2>2
<1>12. BudgetOK(r)
  <2>1. \A i \in DOMAIN r.commands : Wake(r, i) => Wake(s, i) /\ r.commands[i].target = s.commands[i].target
    BY <1>1, <1>7, <1>8, EvolvesBack DEF Wake
  <2>2. s.flagged => r.flagged
    BY <1>3
  <2> QED BY <1>3, <1>7, <1>8, <2>1, <2>2 DEF BeeInv, BudgetOK
<1>13. Tame(s, r)
  <2>1. \A i \in DOMAIN s.commands : r.commands[i].kind = s.commands[i].kind
    BY <1>1, <1>2, <1>3, FieldTypes
  <2> QED BY <1>6, <1>8, <2>1 DEF Tame, NoneRuns
<1>14. BeeInv(r)
  BY <1>7, <1>9, <1>10, <1>11, <1>12 DEF BeeInv
<1> QED BY <1>3, <1>6, <1>7, <1>13, <1>14 DEF r

\* A backoff that elapses changes nothing but the command's due time.
LEMMA DueBee ==
  ASSUME NEW s, BeeInv(s), NEW id \in DOMAIN s.commands
  PROVE  LET r == [s EXCEPT !.commands[id].due = TRUE] IN BeeInv(r) /\ Quiet(s, r)
<1> DEFINE c == [s.commands[id] EXCEPT !.due = TRUE]
           r == [s EXCEPT !.commands[id].due = TRUE]
<1>1. s \in Store /\ s.commands[id] \in Command
  BY FieldTypes DEF BeeInv, StoreInv
<1>2. c.status = s.commands[id].status /\ c.kind = s.commands[id].kind
  BY <1>1 DEF Command
<1>3. r = [s EXCEPT !.commands = [@ EXCEPT ![id] = c]]
  BY <1>1, FieldTypes
<1>4. Rewrites(s, r)
  BY <1>1, DueRewrites
<1> HIDE DEF c, r
<1>5. r.commands = [s.commands EXCEPT ![id] = c] /\ SameCounters(s, r)
  BY <1>1, <1>3 DEF SameCounters, Store
<1>6. \A i \in DOMAIN s.commands :
        /\ r.commands[i].kind = s.commands[i].kind
        /\ r.commands[i].status = "running" => s.commands[i].status = "running"
  BY <1>1, <1>2, <1>5, FieldTypes
<1>7. BeeInv(r) /\ Quiet(s, r)
  BY <1>4, <1>5, <1>6, RewritesSchedules
<1> QED BY <1>7 DEF r

\* Opening the store leaves nothing running.
LEMMA RequeueBee ==
  ASSUME NEW s, BeeInv(s)
  PROVE  LET r == BootRequeueRunningCommands(s)
         IN  /\ BeeInv(r) /\ Quiet(s, r) /\ NoneRuns(r) /\ Rewrites(s, r)
<1> DEFINE r == BootRequeueRunningCommands(s)
           back(i) == [s.commands[i] EXCEPT !.status = "queued", !.due = TRUE]
<1>1. s \in Store
  BY DEF BeeInv, StoreInv
<1>2. Rewrites(s, r) /\ SameCounters(s, r)
  BY <1>1, RequeueRewrites DEF BootRequeueRunningCommands, SameCounters, Store
<1>3. \A i \in DOMAIN s.commands :
        r.commands[i] = IF s.commands[i].status = "running" THEN back(i) ELSE s.commands[i]
  BY <1>1 DEF BootRequeueRunningCommands, Store
<1> HIDE DEF r
<1>4. \A i \in DOMAIN s.commands : r.commands[i].kind = s.commands[i].kind
                                   /\ r.commands[i].status # "running"
  <2>1. ASSUME NEW i \in DOMAIN s.commands
        PROVE  back(i).kind = s.commands[i].kind /\ back(i).status = "queued"
    <3>1. s.commands[i] \in Command
      BY <1>1, FieldTypes
    <3> QED BY <3>1 DEF Command
  <2> HIDE DEF back
  <2> QED BY <1>3, <2>1
<1>5. BeeInv(r) /\ Quiet(s, r)
  BY <1>2, <1>4, RewritesSchedules
<1>6. NoneRuns(r)
  BY <1>2, <1>4, RewritesBee DEF NoneRuns
<1> QED BY <1>2, <1>5, <1>6 DEF r

\* What a move of the current row does to the counters: nothing, a fresh
\* start, or one more failure of a runtime that was live and is stopped.
Counts(s, r, state) ==
  \/ SameCounters(s, r)
  \/ r.failures = 0 /\ r.flagged = FALSE
  \/ /\ Live(s) /\ state = "stopped" /\ r.failures = s.failures + 1
     /\ r.flagged <=> s.flagged \/ r.failures >= MaxAttempts

\* Such a move keeps the invariant.
LEMMA CountsBee ==
  ASSUME NEW s, NEW r, NEW state, NEW cause, BeeInv(s), Exists(s),
         SetsCurrent(s, r, state, cause), state = "stopped" <=> cause # "none",
         state # "stopped" => Live(s), Counts(s, r, state)
  PROVE  BeeInv(r) /\ Exists(r) /\ Tame(s, r)
<1>1. s \in Store /\ r \in Store /\ StoreInv(s) /\ r.commands = s.commands
      /\ Generation(r) = Generation(s) /\ Generation(s) \in Nat \ {0}
      /\ s.failures \in Nat /\ MaxAttempts \in Nat
  BY CurrentType, FieldTypes, MaxAttemptsAssumption DEF BeeInv, StoreInv, SetsCurrent
<1>2. StoreInv(r) /\ Exists(r)
  BY <1>1, SetsCurrentInv
<1>3. QueueOK(r)
  BY <1>1, QueueSets DEF BeeInv
<1>4. (Live(r) <=> state # "stopped") /\ (Live(r) => Live(s))
  BY <1>2, CurrentType DEF SetsCurrent
<1>5. CountOK(r)
  BY <1>1, <1>2, <1>4 DEF BeeInv, CountOK, Counts, SameCounters
<1>6. FlagOK(r)
  <2>1. CASE SameCounters(s, r)
    BY <1>1, <2>1 DEF BeeInv, FlagOK, SameCounters
  <2>2. CASE r.flagged = FALSE
    BY <2>2 DEF FlagOK
  <2>3. CASE r.failures = s.failures + 1 /\ (r.flagged <=> s.flagged \/ r.failures >= MaxAttempts)
    <3>1. s.failures >= MaxAttempts => r.failures >= MaxAttempts
      BY <1>1, <2>3
    <3> QED BY <1>1, <2>3, <3>1, Zenon DEF BeeInv, FlagOK
  <2> QED BY <2>1, <2>2, <2>3 DEF Counts
<1>7. BudgetOK(r)
  <2> SUFFICES ASSUME MaxAttempts > 1
               PROVE  /\ r.failures <= MaxAttempts
                      /\ r.failures = MaxAttempts => r.flagged
                      /\ Live(r) => r.failures < MaxAttempts
                      /\ \A i \in DOMAIN r.commands :
                           Wake(r, i) /\ r.commands[i].target = Generation(r) =>
                             r.failures < MaxAttempts
    BY DEF BudgetOK
  <2>1. \A i \in DOMAIN r.commands : Wake(r, i) <=> Wake(s, i)
    BY <1>1 DEF Wake
  <2>2. CASE SameCounters(s, r)
    BY <1>1, <1>4, <2>1, <2>2 DEF BeeInv, BudgetOK, SameCounters
  <2>3. CASE r.failures = 0 /\ r.flagged = FALSE
    BY <1>1, <2>3
  <2>4. CASE /\ Live(s) /\ state = "stopped" /\ r.failures = s.failures + 1
             /\ r.flagged <=> s.flagged \/ r.failures >= MaxAttempts
    <3>1. s.failures < MaxAttempts
      BY <2>4 DEF BeeInv, BudgetOK
    <3>2. \A i \in DOMAIN r.commands : ~(Wake(r, i) /\ r.commands[i].target = Generation(r))
      BY <1>1, <2>1, <2>4 DEF BeeInv, QueueOK, WakesStopped
    <3> QED BY <1>1, <1>4, <2>4, <3>1, <3>2
  <2> QED BY <2>2, <2>3, <2>4 DEF Counts
<1>8. Tame(s, r)
  BY <1>1 DEF Tame
<1> QED BY <1>2, <1>3, <1>5, <1>6, <1>7, <1>8 DEF BeeInv

\* updateRuntimeState counts only the end of a live runtime.
LEMMA UpdateBee ==
  ASSUME NEW s, BeeInv(s), Exists(s), Live(s),
         NEW state \in RuntimeStates, NEW cause \in ExitCauses \union {"none"},
         state = "stopped" <=> cause # "none", NEW synthetic \in BOOLEAN, NEW pid \in BOOLEAN
  PROVE  LET r == UpdateRuntimeState(s, Generation(s), state, cause, synthetic, pid)
         IN  BeeInv(r) /\ Exists(r) /\ Tame(s, r) /\ SetsCurrent(s, r, state, cause)
<1> DEFINE r == UpdateRuntimeState(s, Generation(s), state, cause, synthetic, pid)
           rt == Current(s)
           evidence == IF rt.state = "booting" /\ state = "running" /\ rt.evidence # "real"
                         THEN IF synthetic THEN "synthetic" ELSE "real"
                         ELSE rt.evidence
           row == [state |-> state, exitCause |-> cause, evidence |-> evidence,
                   pid |-> rt.pid \/ pid]
           moved == SetCurrent(s, row)
<1>1. s \in Store /\ StoreInv(s)
  BY DEF BeeInv, StoreInv
<1>2. SetsCurrent(s, r, state, cause)
  BY <1>1, UpdateSets
<1>3. \/ r = moved
      \/ state = "stopped" /\ r = ApplySpawnFailure(moved)
      \/ r = ApplySpawnFailuresReset(moved)
  BY DEF UpdateRuntimeState
<1> HIDE DEF row
<1>4. moved = [s EXCEPT !.runtimes[Generation(s)] = row]
  BY DEF SetCurrent
<1>5. moved.failures = s.failures /\ moved.flagged = s.flagged
      /\ moved = [moved EXCEPT !.failures = s.failures]
  BY <1>1, <1>4 DEF Store
<1> HIDE DEF moved
<1>6. DOMAIN moved = DOMAIN s
  BY <1>4, <1>1 DEF Store
<1>7. DOMAIN s = {"lifecycle", "runtimes", "failures", "flagged", "commands", "mail"}
  BY <1>1 DEF Store
<1>8. /\ ApplySpawnFailure(moved).failures = s.failures + 1
      /\ ApplySpawnFailure(moved).flagged = (s.flagged \/ s.failures + 1 >= MaxAttempts)
      /\ ApplySpawnFailuresReset(moved).failures = 0
      /\ ApplySpawnFailuresReset(moved).flagged = FALSE
  BY <1>5, <1>6, <1>7 DEF ApplySpawnFailure, ApplySpawnFailuresReset
<1>9. Counts(s, r, state)
  BY <1>3, <1>5, <1>8 DEF Counts, SameCounters
<1> HIDE DEF r
<1>10. BeeInv(r) /\ Exists(r) /\ Tame(s, r)
  BY <1>2, <1>9, CountsBee
<1> QED BY <1>2, <1>10 DEF r

\* Boot evidence gives a fresh budget; a recorded pid changes no counter.
LEMMA EvidenceBee ==
  ASSUME NEW s, BeeInv(s), Exists(s), NEW generation
  PROVE  LET r == RecordBootEvidence(s, generation)
         IN  BeeInv(r) /\ Exists(r) /\ Tame(s, r)
<1> DEFINE r == RecordBootEvidence(s, generation)
           row == [Current(s) EXCEPT !.evidence = "real"]
           moved == SetCurrent(s, row)
<1>1. s \in Store /\ StoreInv(s)
  BY DEF BeeInv, StoreInv
<1>2. SetsCurrent(s, r, Current(s).state, Current(s).exitCause)
  BY <1>1, EvidenceSets
<1>3. r = s \/ (Live(s) /\ r = ApplySpawnFailuresReset(moved))
  BY <1>1, CurrentType DEF RecordBootEvidence
<1>4. DOMAIN moved = {"lifecycle", "runtimes", "failures", "flagged", "commands", "mail"}
  BY <1>1 DEF Store, SetCurrent
<1> HIDE DEF moved
<1>5. r = s \/ (r.failures = 0 /\ r.flagged = FALSE)
  BY <1>3, <1>4 DEF ApplySpawnFailuresReset
<1>6. Counts(s, r, Current(s).state)
  BY <1>5 DEF Counts, SameCounters
<1>7. Current(s).state # "stopped" => Live(s)
  BY <1>1, CurrentType
<1>8. Current(s).state = "stopped" <=> Current(s).exitCause # "none"
  BY <1>1, CurrentType
<1> HIDE DEF r
<1>9. BeeInv(r) /\ Exists(r) /\ Tame(s, r)
  BY <1>2, <1>6, <1>7, <1>8, CountsBee
<1> QED BY <1>9 DEF r

\* A recorded pid changes no counter.
LEMMA ProcBee ==
  ASSUME NEW s, BeeInv(s), Exists(s), NEW generation
  PROVE  LET r == RecordRuntimeProc(s, generation)
         IN  BeeInv(r) /\ Exists(r) /\ Tame(s, r) /\ SameCounters(s, r)
<1> DEFINE r == RecordRuntimeProc(s, generation)
<1>1. s \in Store /\ StoreInv(s)
  BY DEF BeeInv, StoreInv
<1>2. SetsCurrent(s, r, Current(s).state, Current(s).exitCause)
  BY <1>1, ProcSets
<1>3. SameCounters(s, r)
  BY <1>1 DEF RecordRuntimeProc, SetCurrent, SameCounters, Store
<1>4. Counts(s, r, Current(s).state)
  BY <1>3 DEF Counts
<1>5. Current(s).state # "stopped" => Live(s)
  BY <1>1, CurrentType
<1>6. Current(s).state = "stopped" <=> Current(s).exitCause # "none"
  BY <1>1, CurrentType
<1> HIDE DEF r
<1>7. BeeInv(r) /\ Exists(r) /\ Tame(s, r)
  BY <1>2, <1>4, <1>5, <1>6, CountsBee
<1> QED BY <1>3, <1>7 DEF r

\* A row reconciled at boot counts nothing.
LEMMA ReconcileBee ==
  ASSUME NEW s, BeeInv(s), Exists(s), NEW alive
  PROVE  LET r == ReconcileAtBoot(s, alive)
         IN  BeeInv(r) /\ Exists(r) /\ Tame(s, r) /\ SameCounters(s, r)
<1> DEFINE r == ReconcileAtBoot(s, alive)
<1>1. s \in Store /\ StoreInv(s)
  BY DEF BeeInv, StoreInv
<1>2. r = s \/ (Live(s) /\ SetsCurrent(s, r, "stopped", "machine_restart"))
  BY <1>1, ReconcileSets
<1>3. SameCounters(s, r)
  BY <1>1 DEF ReconcileAtBoot, SetCurrent, SameCounters, Store
<1>4. Counts(s, r, "stopped")
  BY <1>3 DEF Counts
<1> HIDE DEF r
<1>5. CASE r = s
  BY <1>3, <1>5 DEF Tame, r
<1>6. CASE SetsCurrent(s, r, "stopped", "machine_restart")
  <2>1. BeeInv(r) /\ Exists(r) /\ Tame(s, r)
    BY <1>4, <1>6, CountsBee
  <2> QED BY <1>3, <2>1 DEF r
<1> QED BY <1>2, <1>5, <1>6

-----------------------------------------------------------------------------
(* Methods on the bee. *)

\* The next generation is minted, within the budget.
LEMMA ReviveBeeInv ==
  ASSUME NEW s, BeeInv(s), Exists(s), ~Live(s), MaxAttempts > 1 => s.failures < MaxAttempts
  PROVE  LET r == ReviveBee(s)
         IN  /\ BeeInv(r) /\ Exists(r) /\ Live(r) /\ SameCounters(s, r)
             /\ r.commands = s.commands /\ Generation(r) = Generation(s) + 1
<1> DEFINE r == ReviveBee(s)
           u == UnarchiveBee(s)
<1>1. s \in Store /\ StoreInv(s) /\ s.runtimes \in Seq(Runtime)
  BY FieldTypes DEF BeeInv, StoreInv
<1>2. /\ StoreInv(r) /\ Exists(r) /\ r.commands = s.commands
      /\ r.runtimes = Append(s.runtimes, NewRuntime) /\ Change(s, r)
  BY <1>1, ReviveInv, ChangeRevive
<1>3. SameCounters(s, u) /\ u \in Store
  BY UnarchiveKeeps DEF Schedules, Quiet, BeeInv, StoreInv
<1>4. r = [u EXCEPT !.runtimes = Append(@, NewRuntime)]
  BY DEF ReviveBee, InsertRuntime
<1> HIDE DEF u
<1>5. SameCounters(s, r)
  BY <1>3, <1>4 DEF SameCounters, Store
<1> HIDE DEF r
<1>6. Generation(r) = Generation(s) + 1 /\ Current(r) = NewRuntime /\ Generation(s) \in Nat
  BY <1>1, <1>2, FieldTypes DEF Generation, Current
<1>7. Live(r)
  BY <1>2, <1>6 DEF Live, NewRuntime, LiveStates
<1>8. QueueOK(r)
  BY <1>1, <1>2, QueueChanges DEF BeeInv
<1>9. CountOK(r)
  BY <1>1, <1>5, <1>6, FieldTypes DEF BeeInv, CountOK, SameCounters
<1>10. FlagOK(r)
  BY <1>2, <1>5 DEF BeeInv, FlagOK, SameCounters
<1>11. BudgetOK(r)
  <2>1. r.failures \in Nat /\ MaxAttempts \in Nat
    BY <1>2, FieldTypes, MaxAttemptsAssumption DEF StoreInv
  <2> QED BY <1>5, <2>1 DEF BudgetOK, SameCounters
<1> QED BY <1>2, <1>5, <1>6, <1>7, <1>8, <1>9, <1>10, <1>11 DEF BeeInv, r

\* A deleted bee has no budget and nothing to run.
LEMMA DeleteBeeInv ==
  ASSUME NEW s, BeeInv(s), Exists(s)
  PROVE  LET r == DeleteBee(s) IN BeeInv(r) /\ NoneRuns(r) /\ ~Exists(r)
<1> DEFINE r == DeleteBee(s)
<1>1. s \in Store /\ StoreInv(s)
  BY DEF BeeInv, StoreInv
<1>2. StoreInv(r) /\ ~Exists(r) /\ Change(s, r) /\ Len(r.commands) = Len(s.commands)
  BY <1>1, DeleteInv, ChangeDelete
<1>3. r.failures = 0 /\ r.flagged = FALSE
  BY DEF DeleteBee
<1> HIDE DEF r
<1>4. QueueOK(r)
  BY <1>1, <1>2, QueueChanges DEF BeeInv
<1>5. CountOK(r) /\ FlagOK(r)
  BY <1>2, <1>3 DEF CountOK, FlagOK
<1>6. BudgetOK(r)
  BY <1>2, <1>3, MaxAttemptsAssumption DEF BudgetOK, Live
<1>7. NoneRuns(r)
  BY <1>2 DEF StoreInv, NothingPending, Pending, NoneRuns
<1> QED BY <1>2, <1>4, <1>5, <1>6, <1>7 DEF BeeInv, r

\* A bee starts with its spawn command and an unused budget.
LEMMA CreateBeeInv == BeeInv(CreateBee) /\ NoneRuns(CreateBee)
<1> DEFINE s == [lifecycle |-> "active", runtimes |-> <<NewRuntime>>, failures |-> 0,
                 flagged |-> FALSE, commands |-> <<>>, mail |-> 0]
           r == CreateBee
           c == NewCommand(s, "spawn", "plain", TRUE)
<1>1. StoreInv(r) /\ r \in Store /\ Exists(r) /\ r.runtimes = <<NewRuntime>>
  BY CreateInv DEF StoreInv
<1>2. r = [s EXCEPT !.commands = Append(@, c)]
  BY DEF CreateBee, ApplyEnqueue
<1>3. c.verb = "spawn" /\ c.kind = "plain" /\ c.target = 1 /\ c.status = "queued"
  BY DEF NewCommand, RuntimeVerbs, Generation
<1> HIDE DEF c
<1>4. r.commands = <<c>> /\ r.failures = 0 /\ r.flagged = FALSE
  BY <1>2
<1> HIDE DEF r
<1>5. DOMAIN r.commands = {1} /\ r.commands[1] = c /\ Generation(r) = 1
  BY <1>1, <1>4 DEF Generation
<1>6. QueueOK(r)
  BY <1>3, <1>5 DEF QueueOK, OneWake, Targeted, StopsWin, SpawnFirst, WakesStopped, Wake
<1>7. CountOK(r) /\ FlagOK(r)
  BY <1>4, <1>5 DEF CountOK, FlagOK
<1>8. BudgetOK(r)
  BY <1>4, MaxAttemptsAssumption DEF BudgetOK
<1>9. NoneRuns(r)
  BY <1>3, <1>5 DEF NoneRuns
<1> QED BY <1>1, <1>6, <1>7, <1>8, <1>9 DEF BeeInv, r

\* A revive starts with a fresh budget.
LEMMA ResetBee ==
  ASSUME NEW s, BeeInv(s)
  PROVE  LET r == ResetSpawnFailures(s)
         IN  /\ BeeInv(r) /\ r.failures = 0 /\ r.commands = s.commands
             /\ r.runtimes = s.runtimes /\ (Exists(r) <=> Exists(s))
<1> DEFINE r == ResetSpawnFailures(s)
<1>1. s \in Store /\ StoreInv(s)
  BY DEF BeeInv, StoreInv
<1>2. r.failures = 0 /\ r.flagged = FALSE
  BY <1>1 DEF ResetSpawnFailures, ApplySpawnFailuresReset, Store
<1>3. Rewrites(s, r) /\ r.commands = s.commands /\ r.runtimes = s.runtimes /\ r \in Store
  BY <1>1, ResetGrows, CountersKeep DEF ResetSpawnFailures, SameRows
<1> HIDE DEF r
<1>4. StoreInv(r) /\ (Exists(r) <=> Exists(s)) /\ Generation(r) = Generation(s)
  BY <1>1, <1>3, RewritesInv DEF Generation
<1>5. QueueOK(r)
  BY <1>1, <1>3, QueueRewrites DEF BeeInv
<1>6. CountOK(r)
  BY <1>2, <1>4, CurrentType DEF CountOK
<1>7. FlagOK(r)
  BY <1>2 DEF FlagOK
<1>8. BudgetOK(r)
  BY <1>2, MaxAttemptsAssumption DEF BudgetOK
<1> QED BY <1>2, <1>3, <1>4, <1>5, <1>6, <1>7, <1>8 DEF BeeInv, r

\* The exit of a live runtime, and what the loop owes the bee after it.
LEMMA ExitBee ==
  ASSUME NEW s, BeeInv(s), Exists(s), Live(s), NEW obs \in Observation,
         obs.generation = Generation(s), obs.exitCause \in ExitCauses
  PROVE  LET r == ApplyExit(s, obs) IN BeeInv(r) /\ Exists(r) /\ Tame(s, r)
<1> DEFINE stopped == UpdateRuntimeState(s, obs.generation, "stopped", obs.exitCause, FALSE, FALSE)
           awake   == EnsureWake(stopped)
           retried == IF stopped.failures > s.failures /\ ~stopped.flagged
                        THEN EnsureBootRetry(awake) ELSE awake
           r == ApplyExit(s, obs)
<1>1. "none" \notin ExitCauses /\ "stopped" \in RuntimeStates
  BY DEF ExitCauses, StopCauses, RuntimeStates
<1>2. BeeInv(stopped) /\ Exists(stopped) /\ Tame(s, stopped)
  BY <1>1, UpdateBee
<1>3. r = ReviveAfterStopIfRequested(retried, obs.generation)
  BY DEF ApplyExit
<1> HIDE DEF stopped
<1>4. Schedules(stopped, awake)
  BY <1>2, WakesSchedule
<1> HIDE DEF awake
<1>5. Schedules(awake, EnsureBootRetry(awake)) /\ Schedules(awake, awake)
  BY <1>4, WakesSchedule, SchedulesRefl DEF Schedules
<1>6. Schedules(awake, retried)
  BY <1>5
<1> HIDE DEF retried
<1>7. Schedules(retried, r)
  BY <1>3, <1>6, ReviveSchedules DEF Schedules
<1>8. Schedules(stopped, r)
  BY <1>4, <1>6, <1>7, SchedulesTrans DEF Schedules
<1> HIDE DEF r
<1>9. Tame(s, r)
  BY <1>2, <1>8 DEF Schedules, Quiet, Tame
<1> QED BY <1>8, <1>9 DEF Schedules, r

\* One observation is folded.
LEMMA ObservationBee ==
  ASSUME NEW s, BeeInv(s), NEW obs \in Observation, NEW A, Explained(obs, A)
  PROVE  LET r == ApplyObservation(s, obs) IN BeeInv(r) /\ Tame(s, r)
<1> DEFINE target == TargetState(obs.kind)
           proven == IF obs.kind # "exited" /\ ~obs.synthetic /\ Current(s).evidence # "real"
                       THEN RecordBootEvidence(s, obs.generation) ELSE s
           skip   == \/ obs.kind = "booted" /\ Current(s).state # "booting"
                     \/ obs.kind = "turn_ended" /\ obs.synthetic /\ s.mail > 0
                     \/ target \notin RuntimeTransitions(Current(s).state)
           r == ApplyObservation(s, obs)
<1>1. s \in Store /\ StoreInv(s) /\ Tame(s, s)
  BY DEF BeeInv, StoreInv, Tame
<1>2. CASE ~Exists(s) \/ obs.generation # Generation(s)
  BY <1>1, <1>2 DEF ApplyObservation
<1>3. ASSUME Exists(s) PROVE BeeInv(proven) /\ Exists(proven) /\ Tame(s, proven)
  BY <1>1, <1>3, EvidenceBee
<1>4. CASE Exists(s) /\ obs.generation = Generation(s) /\ skip
  <2>1. r = proven
    BY <1>4 DEF ApplyObservation
  <2> QED BY <1>3, <1>4, <2>1
<1>5. ASSUME Exists(s), ~skip PROVE Live(s)
  <2>1. Current(s).state # "stopped"
    BY <1>5 DEF RuntimeTransitions
  <2> QED BY <1>1, <1>5, <2>1, CurrentType
<1>6. CASE Exists(s) /\ obs.generation = Generation(s) /\ ~skip /\ target = "stopped"
  <2>1. r = ApplyExit(s, obs)
    BY <1>6 DEF ApplyObservation
  <2>2. obs.kind = "exited"
    BY <1>6 DEF TargetState
  <2>3. obs.exitCause \in ExitCauses
    BY <2>2 DEF Observation, Explained, ExitCauses
  <2> QED BY <1>5, <1>6, <2>1, <2>3, ExitBee
<1>7. CASE Exists(s) /\ obs.generation = Generation(s) /\ ~skip /\ target # "stopped"
  <2>1. r = UpdateRuntimeState(proven, obs.generation, target, "none", obs.synthetic,
                               obs.kind = "booted")
    BY <1>7 DEF ApplyObservation
  <2>2. target \in RuntimeStates /\ obs.synthetic \in BOOLEAN /\ (obs.kind = "booted") \in BOOLEAN
    BY DEF TargetState, RuntimeStates, Observation
  <2>3. BeeInv(proven) /\ Exists(proven) /\ Tame(s, proven)
    BY <1>3, <1>7
  <2>4. Live(proven) /\ Generation(proven) = Generation(s)
    <3>1. SetsCurrent(s, s, Current(s).state, Current(s).exitCause)
      BY <1>1, <1>7, CurrentType DEF SetsCurrent
    <3>2. SetsCurrent(s, proven, Current(s).state, Current(s).exitCause)
      BY <1>1, <1>7, <3>1, EvidenceSets
    <3>3. Live(s)
      BY <1>5, <1>7
    <3> HIDE DEF proven
    <3> QED BY <2>3, <3>2, <3>3 DEF SetsCurrent, Live
  <2>5. target # "stopped" /\ obs.generation = Generation(proven)
    BY <1>7, <2>4
  <2> HIDE DEF proven, target, r, skip
  <2>6. BeeInv(r) /\ Tame(proven, r)
    BY <2>1, <2>2, <2>3, <2>4, <2>5, UpdateBee
  <2>7. Tame(s, r)
    BY <2>3, <2>6 DEF Tame
  <2> QED BY <2>6, <2>7 DEF r
<1> QED BY <1>2, <1>4, <1>6, <1>7

-----------------------------------------------------------------------------
(* A step preserves the invariant. *)

\* At most the claimed command is running; a crash leaves it so.
RunOK ==
  \A i \in DOMAIN store.commands :
    store.commands[i].status = "running" =>
      pc \in Executing \union {"down"} /\ (pc # "down" => i = cmd)

\* The inductive invariant of queue and budget.
QInv == BeeInv(store) /\ RunOK /\ (pc = "reset" => store.failures = 0)

\* A step of a handler, or one between handlers, that claims nothing.
LEMMA TameStep ==
  ASSUME QInv, BeeInv(store'), Tame(store, store'), pc' # "reset",
         \/ pc' = "down"
         \/ pc \notin Executing \union {"down"}
         \/ pc \in Executing /\ pc' \in Executing /\ cmd' = cmd
  PROVE  QInv'
<1>1. RunOK'
  BY DEF QInv, RunOK, Tame, Executing
<1> QED BY <1>1 DEF QInv

\* A step after which nothing runs.
LEMMA RestStep ==
  ASSUME BeeInv(store'), NoneRuns(store'), pc' # "reset"
  PROVE  QInv'
  BY DEF QInv, RunOK, NoneRuns

\* A step that leaves the store alone.
LEMMA IdleStep ==
  ASSUME QInv, store' = store, pc' # "reset",
         \/ pc' = "down"
         \/ pc \notin Executing \union {"down"}
         \/ pc \in Executing /\ pc' \in Executing /\ cmd' = cmd
  PROVE  QInv'
<1>1. BeeInv(store') /\ Tame(store, store')
  BY DEF QInv, Tame
<1> QED BY <1>1, TameStep

\* Between two steps nothing runs.
LEMMA RestRuns == ASSUME QInv, pc \notin Executing \union {"down"} PROVE NoneRuns(store)
  BY DEF QInv, RunOK, NoneRuns

\* Every RPC handler.
LEMMA OperatorQueue == ASSUME IInv, QInv, Operator PROVE QInv'
<1>1. /\ Exists(store) /\ pc = "rest" /\ pc' = pc /\ BeeInv(store)
  BY DEF QInv, Operator, Request, RpcSend, RpcStop, RpcRevive, RpcArchive,
         RpcUnarchive, RpcDelete, RpcSwapAccount, RpcReconfigure
<1>2. NoneRuns(store)
  BY <1>1, RestRuns DEF Executing
<1>3. Schedules(store, store')
  <2>1. CASE RpcSend
    BY <1>1, <2>1, SendSchedules DEF RpcSend, Request
  <2>2. CASE RpcStop
    BY <1>1, <1>2, <2>2, UserStopSchedules DEF RpcStop, Request, NoneRuns
  <2>3. CASE RpcRevive \/ RpcArchive \/ RpcUnarchive \/ RpcDelete
    BY <1>1, <2>3, EnqueueSchedules
       DEF RpcRevive, RpcArchive, RpcUnarchive, RpcDelete, Request, Verbs, Kinds
  <2>4. CASE RpcSwapAccount
    BY <1>1, <2>4, SwapSchedules DEF RpcSwapAccount, Request
  <2>5. CASE RpcReconfigure
    BY <1>1, <2>5, ReconfigureSchedules DEF RpcReconfigure, Request
  <2> QED BY <2>1, <2>2, <2>3, <2>4, <2>5 DEF Operator
<1> QED BY <1>1, <1>3, TameStep DEF Schedules, Quiet, Executing

\* Driver callbacks, the clock, crashes.
LEMMA EnvironmentQueue == ASSUME IInv, QInv, Environment PROVE QInv'
<1>1. CASE Operator
  BY <1>1, OperatorQueue
<1>2. CASE HostCallback
  <2>1. pc = "rest" /\ pc' = pc /\ store' = store
    BY <1>2 DEF HostCallback, HostBooted, HostReady, HostTurnEnded, HostTurnStarted, HostExit,
       HostPrepared, OrphanExit, Callback
  <2> QED BY <2>1, IdleStep DEF Executing
<1>3. CASE CommandDue
  <2>1. PICK i \in DOMAIN store.commands : store' = [store EXCEPT !.commands[i].due = TRUE]
    BY <1>3 DEF CommandDue
  <2>2. BeeInv(store') /\ Quiet(store, store')
    BY <2>1, DueBee DEF QInv
  <2>3. pc = "rest" /\ pc' = pc
    BY <1>3 DEF CommandDue
  <2> QED BY <2>2, <2>3, TameStep DEF Quiet, Executing
<1>4. CASE BootDeadline
  BY <1>4, IdleStep DEF BootDeadline, Executing
<1>5. CASE Crash \/ MachineRestart \/ ExitUnheard
  BY <1>5, IdleStep DEF Crash, MachineRestart, ExitUnheard, GoDown
<1> QED BY <1>1, <1>2, <1>3, <1>4, <1>5 DEF Environment, HostCallback

\* The beginning of a step: observations, policies, the claim.
LEMMA BeginQueue ==
  ASSUME IInv, QInv, BeginStep \/ Observe \/ Policies \/ Claim
  PROVE  QInv'
<1>1. BeeInv(store)
  BY DEF QInv
<1>2. CASE BeginStep
  BY <1>2, IdleStep DEF BeginStep, Executing
<1>3. CASE Observe
  <2>1. Head(host.events) \in Observation /\ Explained(Head(host.events), Reasons(store))
    BY <1>3, PopInv DEF IInv, Observe
  <2>2. BeeInv(store') /\ Tame(store, store')
    BY <1>1, <1>3, <2>1, ObservationBee DEF Observe
  <2> QED BY <1>3, <2>2, TameStep DEF Observe, Executing
<1>4. CASE Policies
  <2>1. PICK elapsed :
          store' = DegradedMailPolicy(ScaleToZeroPolicy(BootHangPolicy(store), elapsed))
    BY <1>4 DEF Policies
  <2>2. CASE Exists(store)
    <3>1. Schedules(store, store')
      BY <1>1, <2>1, <2>2, PoliciesSchedule
    <3> QED BY <1>4, <3>1, TameStep DEF Policies, Schedules, Quiet, Executing
  <2>3. CASE ~Exists(store)
    <3>1. store' = store
      BY <2>1, <2>3 DEF BootHangPolicy, ScaleToZeroPolicy, DegradedMailPolicy, Live
    <3> QED BY <1>4, <3>1, IdleStep DEF Policies, Executing
  <2> QED BY <2>2, <2>3
<1>5. CASE Claim
  <2>1. NoneRuns(store) /\ store' = ClaimNextCommand(store)
    BY <1>5, RestRuns DEF Claim, Executing
  <2>2. /\ BeeInv(store')
        /\ ToRun(store) = {} => NoneRuns(store')
        /\ \A id \in ToRun(store) : IsNext(store, id) => OnlyRuns(store', id)
    BY <1>1, <2>1, ClaimBee
  <2>3. CASE ToRun(store) = {}
    BY <1>5, <2>2, <2>3, RestStep DEF Claim
  <2>4. CASE ToRun(store) # {}
    <3>1. pc' = "claimed" /\ OnlyRuns(store', cmd')
      BY <1>5, <2>2, <2>4 DEF Claim
    <3> QED BY <2>2, <3>1 DEF QInv, RunOK, OnlyRuns, Executing
  <2> QED BY <2>3, <2>4
<1> QED BY <1>2, <1>3, <1>4, <1>5

\* Archive, unarchive and delete.
LEMMA BeeCommandsQueue ==
  ASSUME IInv, QInv, ExecuteArchive \/ ExecuteUnarchive \/ ExecuteDelete \/ ExecuteDeleteStop
  PROVE  QInv'
<1>1. BeeInv(store) /\ StoreInv(store)
  BY DEF QInv, BeeInv
<1>2. CASE ExecuteArchive
  <2>1. Exists(store) /\ store' = [store EXCEPT !.lifecycle = "archived"]
    BY <1>2 DEF ExecuteArchive, Commit, ExecuteArchiveCommand, IInv, Control, OnBee
  <2>2. SameCounters(store, store')
    BY <1>1, <2>1 DEF SameCounters, StoreInv, Store
  <2>3. /\ StoreInv(store') /\ Exists(store') /\ store'.commands = store.commands
        /\ store'.runtimes = store.runtimes
    BY <1>1, <2>1, LifecycleInv
  <2>4. BeeInv(store') /\ Quiet(store, store')
    BY <1>1, <2>1, <2>2, <2>3, BeeSame
  <2> QED BY <1>2, <2>4, TameStep DEF ExecuteArchive, Commit, Quiet, Executing
<1>3. CASE ExecuteUnarchive
  <2>1. Exists(store) /\ store' = UnarchiveBee(store)
    BY <1>3 DEF ExecuteUnarchive, Commit, IInv, Control, OnBee
  <2>2. Schedules(store, store')
    BY <1>1, <2>1, UnarchiveKeeps
  <2> QED BY <1>3, <2>2, TameStep DEF ExecuteUnarchive, Commit, Schedules, Quiet, Executing
<1>4. CASE ExecuteDelete
  <2>1. Exists(store) /\ store' = DeleteBee(store) /\ pc' # "reset"
    BY <1>4 DEF ExecuteDelete, IInv, Control, OnBee
  <2> QED BY <1>1, <2>1, DeleteBeeInv, RestStep
<1>5. CASE ExecuteDeleteStop
  BY <1>5, IdleStep DEF ExecuteDeleteStop, Executing
<1> QED BY <1>2, <1>3, <1>4, <1>5

\* The handler of stop.
LEMMA StopQueue ==
  ASSUME IInv, QInv, \/ ExecuteStopStopped \/ ExecuteStopSkip \/ ExecuteStop
                     \/ ExecuteStopFact \/ ExecuteStopWake \/ ExecuteStopRevive
  PROVE  QInv'
<1>1. BeeInv(store) /\ StoreInv(store)
  BY DEF QInv, BeeInv
<1>2. Exists(store) /\ pc \in Executing /\ cmd \in DOMAIN store.commands
  BY DEF IInv, Control, OnBee, Executing, ExecuteStopStopped, ExecuteStopSkip, ExecuteStop,
         ExecuteStopFact, ExecuteStopWake, ExecuteStopRevive
<1>3. CASE ExecuteStopStopped \/ ExecuteStopRevive
  <2>1. Schedules(store, store')
    BY <1>1, <1>2, <1>3, ReviveSchedules DEF ExecuteStopStopped, ExecuteStopRevive, Commit
  <2> QED BY <1>2, <1>3, <2>1, TameStep
          DEF ExecuteStopStopped, ExecuteStopRevive, Commit, Schedules, Quiet, Executing
<1>4. CASE ExecuteStopSkip
  <2>1. /\ store' = SkipBootHangStop(store, cmd) /\ pc' = "commands"
        /\ store.commands[cmd].status = "running" /\ store.commands[cmd].kind = "hang"
    BY <1>4 DEF ExecuteStopSkip, Commit, Kind, IInv, Control
  <2>2. OnlyRuns(store, cmd)
    BY <1>2 DEF QInv, RunOK, OnlyRuns, Executing
  <2> QED BY <1>1, <1>2, <2>1, <2>2, SkipBee, RestStep
<1>5. CASE ExecuteStop
  <2>1. store' = store /\ cmd' = cmd /\ pc' \in {"settle", "exiting"}
    BY <1>5 DEF ExecuteStop
  <2> QED BY <1>2, <2>1, IdleStep DEF Executing
<1>6. CASE ExecuteStopFact
  <2>1. /\ pc = "exiting" /\ Verb = "stop" /\ Live(store) /\ pc' = "exited" /\ cmd' = cmd
        /\ store' = UpdateRuntimeState(store, Generation(store), "stopped", Cause, FALSE, FALSE)
    BY <1>6 DEF ExecuteStopFact, Commit, IInv, Control
  <2>2. /\ Cause \in ExitCauses \union {"none"} /\ Cause # "none" /\ "stopped" \in RuntimeStates
    BY <2>1, StopAsked DEF ExitCauses, StopCauses, RuntimeStates
  <2>3. BeeInv(store') /\ Tame(store, store')
    BY <1>1, <1>2, <2>1, <2>2, UpdateBee
  <2> QED BY <1>2, <2>1, <2>3, TameStep DEF Executing
<1>7. CASE ExecuteStopWake
  <2>1. Schedules(store, store')
    BY <1>1, <1>2, <1>7, WakesSchedule DEF ExecuteStopWake, Commit
  <2> QED BY <1>2, <1>7, <2>1, TameStep DEF ExecuteStopWake, Commit, Schedules, Quiet, Executing
<1> QED BY <1>3, <1>4, <1>5, <1>6, <1>7

\* Whatever mints a generation has room in the budget: a wake waited for it, a
\* revive was given a fresh one, a spawn comes first.
LEMMA MintWithinBudget ==
  ASSUME IInv, QInv, AtStart, ~Live(store), MaxAttempts > 1
  PROVE  store.failures < MaxAttempts
<1>1. store \in Store /\ Exists(store) /\ store.failures \in Nat /\ MaxAttempts \in Nat
      /\ cmd \in DOMAIN store.commands /\ store.commands[cmd].status = "running"
  BY FieldTypes, MaxAttemptsAssumption
     DEF IInv, StoreInv, AtStart, Control, OnBee, Executing
<1>2. CASE pc = "reset"
  BY <1>1, <1>2 DEF QInv
<1>3. CASE pc = "claimed" /\ Verb = "send_wake"
  <2>1. store.commands[cmd].target = Generation(store)
    BY <1>3 DEF IInv, Control, RuntimeVerbs
  <2>2. Wake(store, cmd)
    BY <1>1, <1>3 DEF Wake, Verb, Pending
  <2> QED BY <1>1, <2>1, <2>2 DEF QInv, BeeInv, BudgetOK
<1>4. CASE pc = "claimed" /\ Verb = "spawn"
  <2>1. store.commands[cmd].target = Generation(store)
    BY <1>4 DEF IInv, Control, RuntimeVerbs
  <2>2. store.commands[cmd].target = 1
    BY <1>1, <1>4 DEF QInv, BeeInv, QueueOK, SpawnFirst, Verb
  <2>3. store.failures <= 1
    BY <1>1, <2>1, <2>2 DEF QInv, BeeInv, CountOK
  <2> QED BY <1>1, <2>3
<1> QED BY <1>2, <1>3, <1>4 DEF AtStart

\* The handler of spawn, send_wake and revive.
LEMMA StartQueue ==
  ASSUME IInv, QInv, \/ ExecuteReviveReset \/ ExecuteStartNoop \/ ExecuteStartMint
                     \/ ExecuteStart \/ ExecuteStartFails \/ RecordProcAtSpawn
  PROVE  QInv'
<1>1. BeeInv(store) /\ StoreInv(store)
  BY DEF QInv, BeeInv
<1>2. Exists(store) /\ pc \in Executing /\ pc # "down" /\ cmd \in DOMAIN store.commands
  BY DEF IInv, Control, OnBee, Executing, ExecuteReviveReset, ExecuteStartNoop,
         ExecuteStartMint, ExecuteStart, ExecuteStartFails, RecordProcAtSpawn, AtStart, AtLaunch
<1>3. CASE ExecuteReviveReset
  <2>1. /\ BeeInv(store') /\ store'.failures = 0 /\ store'.commands = store.commands
        /\ pc' = "reset" /\ cmd' = cmd
    BY <1>1, <1>3, ResetBee DEF ExecuteReviveReset, Commit
  <2> QED BY <1>2, <2>1 DEF QInv, RunOK, Executing
<1>4. CASE ExecuteStartNoop
  BY <1>2, <1>4, IdleStep DEF ExecuteStartNoop, Commit, Executing
<1>5. CASE ExecuteStartMint
  <2>1. store' = ReviveBee(store) /\ AtStart /\ ~Live(store) /\ pc' = "minted" /\ cmd' = cmd
    BY <1>5 DEF ExecuteStartMint
  <2>2. BeeInv(store') /\ store'.commands = store.commands
    BY <1>1, <1>2, <2>1, MintWithinBudget, ReviveBeeInv
  <2>3. Tame(store, store')
    BY <2>2 DEF Tame
  <2> QED BY <1>2, <2>1, <2>2, <2>3, TameStep DEF Executing
<1>6. CASE ExecuteStart
  BY <1>2, <1>6, IdleStep DEF ExecuteStart, Executing
<1>7. CASE ExecuteStartFails
  <2>1. /\ store' = ReportCommandFailure(store, cmd) /\ pc' = "commands"
        /\ store.commands[cmd].status = "running"
    BY <1>7 DEF ExecuteStartFails, AtLaunch, AtStart, IInv, Control
  <2>2. OnlyRuns(store, cmd)
    BY <1>2 DEF QInv, RunOK, OnlyRuns, Executing
  <2> QED BY <1>1, <1>2, <2>1, <2>2, ReportFailureBee, RestStep
<1>8. CASE RecordProcAtSpawn
  <2>1. /\ pc' = "settle" /\ cmd' = cmd
        /\ \/ store' = store
           \/ store' = RecordRuntimeProc(store, Generation(store))
    BY <1>8 DEF RecordProcAtSpawn, Commit
  <2>2. CASE store' = store
    BY <1>2, <2>1, <2>2, IdleStep DEF Executing
  <2>3. CASE store' = RecordRuntimeProc(store, Generation(store))
    <3>1. BeeInv(store') /\ Tame(store, store')
      BY <1>1, <1>2, <2>3, ProcBee
    <3> QED BY <1>2, <2>1, <3>1, TameStep DEF Executing
  <2> QED BY <2>1, <2>2, <2>3
<1> QED BY <1>3, <1>4, <1>5, <1>6, <1>7, <1>8

\* The end of a command, and the delivery of mail.
LEMMA SettleQueue ==
  ASSUME IInv, QInv, Settle \/ DeliverMail \/ DeliverNothing \/ DeliverMarked
  PROVE  QInv'
<1>1. BeeInv(store) /\ StoreInv(store) /\ store \in Store
  BY DEF QInv, BeeInv, StoreInv
<1>2. CASE Settle
  <2>1. cmd \in DOMAIN store.commands /\ store' = CompleteCommand(store, cmd) /\ pc' = "commands"
    BY <1>2 DEF Settle, Commit, IInv, Control, Executing
  <2>2. OnlyRuns(store, cmd)
    BY <1>2 DEF Settle, QInv, RunOK, OnlyRuns
  <2> QED BY <1>1, <2>1, <2>2, CompleteBee, RestStep
<1>3. CASE DeliverMail
  BY <1>3, IdleStep DEF DeliverMail, Executing
<1>4. CASE DeliverNothing
  BY <1>4, IdleStep DEF DeliverNothing, Commit, Executing
<1>5. CASE DeliverMarked
  <2>1. store.mail > 0 /\ store' = MarkDelivered(store) /\ pc = "accepted" /\ pc' = "rest"
    BY <1>5 DEF DeliverMarked, Commit, IInv, Control
  <2>2. SameCounters(store, store')
    BY <1>1, <2>1 DEF MarkDelivered, SameCounters, Store
  <2>3. BeeInv(store') /\ Quiet(store, store')
    <3>1. /\ StoreInv(store') /\ store'.commands = store.commands
          /\ store'.runtimes = store.runtimes /\ (Exists(store') <=> Exists(store))
      BY <1>1, <2>1, MarkInv
    <3> QED BY <1>1, <2>2, <3>1, BeeSame
  <2> QED BY <2>1, <2>3, TameStep DEF Quiet, Executing
<1> QED BY <1>2, <1>3, <1>4, <1>5

\* Recovery leaves nothing running and counts nothing.
LEMMA BootQueue == ASSUME IInv, QInv, Boot PROVE QInv'
<1> DEFINE opened     == BootRequeueRunningCommands(store)
           reconciled == ReconcileAtBoot(opened, Survives(opened))
           awake      == EnsureWake(reconciled)
           revived    == ReviveAfterStopIfRequested(awake, Generation(awake))
<1>1. store' = (IF Exists(store) THEN revived ELSE opened) /\ pc' = "rest"
  BY DEF Boot
<1>2. BeeInv(opened) /\ NoneRuns(opened) /\ (Exists(opened) <=> Exists(store))
  <2>1. BeeInv(opened) /\ NoneRuns(opened) /\ Rewrites(store, opened)
    BY RequeueBee DEF QInv
  <2> HIDE DEF opened
  <2> QED BY <2>1, RewritesInv DEF QInv, BeeInv
<1> HIDE DEF opened
<1>3. CASE ~Exists(store)
  BY <1>1, <1>2, <1>3, RestStep
<1>4. CASE Exists(store)
  <2>1. BeeInv(reconciled) /\ Exists(reconciled) /\ Tame(opened, reconciled)
    BY <1>2, <1>4, ReconcileBee
  <2> HIDE DEF reconciled
  <2>2. Schedules(reconciled, awake)
    BY <2>1, WakesSchedule
  <2> HIDE DEF awake
  <2>3. Schedules(awake, revived)
    BY <2>2, ReviveSchedules DEF Schedules
  <2> HIDE DEF revived
  <2>4. Schedules(reconciled, revived)
    BY <2>2, <2>3, SchedulesTrans DEF Schedules
  <2>5. NoneRuns(revived)
    BY <1>2, <2>1, <2>4 DEF Schedules, Quiet, Tame, NoneRuns
  <2> QED BY <1>1, <1>4, <2>4, <2>5, RestStep DEF Schedules
<1> QED BY <1>3, <1>4

\* Every step preserves the invariant of queue and budget.
LEMMA NextQueue == IInv /\ QInv /\ [Next]_vars => QInv'
<1> SUFFICES ASSUME IInv, QInv, [Next]_vars PROVE QInv'
  OBVIOUS
<1>1. CASE Step
  BY <1>1, BeginQueue, BeeCommandsQueue, StopQueue, StartQueue, SettleQueue DEF Step
<1>2. CASE Boot
  BY <1>2, BootQueue
<1>3. CASE Environment
  BY <1>3, EnvironmentQueue
<1>4. CASE UNCHANGED vars
  BY <1>4 DEF vars, QInv, RunOK
<1> QED BY <1>1, <1>2, <1>3, <1>4 DEF Next

\* The invariant of queue and budget holds in every reachable state.
LEMMA QueueHolds == Spec => []QInv
<1>1. Init => QInv
  BY CreateBeeInv DEF Init, QInv, RunOK, NoneRuns
<1>2. IInv /\ QInv /\ [Next]_vars => QInv'
  BY NextQueue
<1> QED BY <1>1, <1>2, InvHolds, PTL DEF Spec

-----------------------------------------------------------------------------
(* The theorems. *)

\* Whatever mail, retries, boot sweeps and requeues happen, no two wakes of one
\* generation are under way.
THEOREM OneWakeCorrect == Spec => []OneWakePerGeneration
<1>1. QInv => OneWakePerGeneration
  BY DEF QInv, BeeInv, QueueOK, OneWake, Wake, OneWakePerGeneration
<1> QED BY <1>1, QueueHolds, PTL

\* A user's stop settles the starts queued before it for good: no crash,
\* requeue or failed start brings one back.
THEOREM UserStopCorrect == Spec => []UserStopSupersedes
<1>1. QInv => UserStopSupersedes
  BY DEF QInv, BeeInv, QueueOK, StopsWin, UserStopSupersedes
<1> QED BY <1>1, QueueHolds, PTL

\* A flag is the trace of a used-up budget or of a command that failed for good.
THEOREM FlagCorrect == Spec => []FlagEarned
<1>1. QInv => FlagEarned
  BY DEF QInv, BeeInv, FlagOK, FlagEarned
<1> QED BY <1>1, QueueHolds, PTL

\* B5 for every budget of more than one attempt (the default is five): counted
\* failures never pass it, and a bee that used it up is flagged.  With a budget
\* of one a replayed spawn mints a generation behind a flagged one.
THEOREM BudgetCorrect == ASSUME MaxAttempts > 1 PROVE Spec => []BudgetHolds
<1>1. QInv => BudgetHolds
  BY DEF QInv, BeeInv, BudgetOK, BudgetHolds
<1> QED BY <1>1, QueueHolds, PTL
=============================================================================
