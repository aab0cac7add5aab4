-------------------------- MODULE RelocationProofs --------------------------
(***************************************************************************)
(* Proofs about Relocation: its type invariant, that nothing of a bee runs *)
(* while its row is rewritten, that a process is what the row says, that   *)
(* what was called off leaves no command, that a handoff blames its target *)
(* only for the target's failures, and that receipts are final.            *)
(***************************************************************************)
EXTENDS Relocation, SequenceTheorems, TLAPS

-----------------------------------------------------------------------------
(* The inductive invariant *)

RCommand == [verb: Verbs, kind: Kinds \union Keys, target: Nat, status: CommandStatuses,
             attempts: Nat, due: BOOLEAN, thenRevive: BOOLEAN]

RStore == [lifecycle: {"active", "archived"}, runtimes: Seq(Runtime), failures: Nat,
           flagged: BOOLEAN, commands: Seq(RCommand), mail: Nat, rows: Seq(Row), active: Nat,
           substrate: {"cell", "checkout"}, identity: Nat, seeds: Seq(Nat)]

OpenPhases == {"starting"} \union Fencing

\* The active relocation is the latest one, and the only one that is not over.
RowsOK(s) ==
  /\ Generation(s) > 0
  /\ Len(s.rows) <= Len(Names) /\ s.active \in {0, Len(s.rows)} /\ s.identity <= Len(s.rows)
  /\ \A id \in DOMAIN s.rows :
       /\ s.rows[id].phase \in OpenPhases <=> s.active = id
       /\ s.active = id => s.rows[id].code = "none"
       /\ s.rows[id].source <= Generation(s)
       /\ s.rows[id].kind = "handoff" /\ s.rows[id].code = "spawn_failed"
            => s.rows[id].source < Generation(s)

\* A relocation sends one seed, when its fence falls.
MailOK(s) ==
  /\ Len(s.seeds) <= s.mail /\ s.mail <= MaxMail + Len(s.seeds)
  /\ Len(s.seeds) <= Len(s.rows) /\ (Fences(s) => Len(s.seeds) < Len(s.rows))
  /\ \A i \in DOMAIN s.seeds : s.seeds[i] \in DOMAIN s.rows

QueueOK(s) ==
  \A i \in DOMAIN s.commands :
    /\ s.commands[i].kind # "model"
    /\ \A id \in DOMAIN s.rows : s.commands[i].kind = Names[id] /\ s.rows[id].code = "superseded"
                                   => s.commands[i].status \notin Pending

StoreOK(s) == s \in RStore /\ RowsOK(s) /\ MailOK(s) /\ QueueOK(s)

\* The source has ended, and the destination has not begun.
Quiet(s) ==
  /\ s.active # 0
  /\ \/ Active(s).phase \in {"placing", "summarizing"}
     \/ Active(s).phase = "starting" /\ Active(s).kind = "handoff"
                                     /\ Active(s).source = Generation(s)

QuietOK(s, p) ==
  Quiet(s) => /\ Active(s).source = Generation(s) /\ Current(s).state = "stopped"
              /\ p.state = "none"
              /\ Active(s).phase = "starting" => ~s.flagged

\* The process has the identity of the row.
SameIdentity(s, p) == p.state \in {"up", "dying"} => p.identity = s.identity

Scalars ==
  /\ proc \in Process /\ summarizing \subseteq Ids /\ up \in BOOLEAN
  /\ faults \in 0 .. MaxFaults /\ requests \in 0 .. MaxRequests /\ unkilled \in BOOLEAN

StateOK(s, p) == StoreOK(s) /\ QuietOK(s, p) /\ SameIdentity(s, p)

RInv == StateOK(store, proc) /\ Scalars

-----------------------------------------------------------------------------
(* What methods of the store do that leave the relocations alone *)

SameRelocations(s, r) ==
  /\ r.rows = s.rows /\ r.active = s.active /\ r.substrate = s.substrate
  /\ r.identity = s.identity /\ r.seeds = s.seeds /\ r.mail = s.mail

\* Only the active relocation is changed, and none is lost.
Advances(s, r) ==
  /\ DOMAIN s.rows \subseteq DOMAIN r.rows
  /\ \A n \in DOMAIN s.rows : n # s.active => r.rows[n] = s.rows[n]

\* The kinds of commands that may be queued.
NewKind(s, kind) == kind \in Kinds \ {"model"} \/ (s.active # 0 /\ kind = Names[s.active])

\* No command is lost, none becomes pending again, none takes another's key.
CommandsFollow(s, r) ==
  /\ Len(s.commands) <= Len(r.commands)
  /\ \A i \in DOMAIN s.commands :
       /\ r.commands[i].status \in Pending => s.commands[i].status \in Pending
       /\ r.commands[i].kind \in {s.commands[i].kind, "hang_skipped"}
  /\ \A i \in DOMAIN r.commands \ DOMAIN s.commands : NewKind(s, r.commands[i].kind)

Works(s, r) ==
  /\ r \in RStore /\ SameRelocations(s, r) /\ CommandsFollow(s, r)
  /\ Generation(s) <= Generation(r)

\* A method of the queue.
Queues(s, r) ==
  /\ Works(s, r)
  /\ r.runtimes = s.runtimes /\ r.flagged = s.flagged /\ r.lifecycle = s.lifecycle

\* The fields of a store have their types.
LEMMA RFields ==
  ASSUME NEW s \in RStore
  PROVE  /\ s.commands \in Seq(RCommand) /\ s.runtimes \in Seq(Runtime) /\ s.rows \in Seq(Row)
         /\ s.seeds \in Seq(Nat)
         /\ s.failures \in Nat /\ s.mail \in Nat /\ s.flagged \in BOOLEAN
         /\ s.active \in Nat /\ s.identity \in Nat /\ s.substrate \in {"cell", "checkout"}
         /\ s.lifecycle \in {"active", "archived"}
BY DEF RStore

\* A sequence's domain and elements.
LEMMA SeqFacts ==
  ASSUME NEW S, NEW q \in Seq(S)
  PROVE  /\ Len(q) \in Nat /\ DOMAIN q = 1 .. Len(q)
         /\ \A i \in DOMAIN q : q[i] \in S
BY LenProperties, ElementOfSeq

\* The sequences of a store, element by element.
LEMMA RElements ==
  ASSUME NEW s \in RStore
  PROVE  /\ Len(s.commands) \in Nat /\ DOMAIN s.commands = 1 .. Len(s.commands)
         /\ \A i \in DOMAIN s.commands : s.commands[i] \in RCommand
         /\ Generation(s) \in Nat /\ DOMAIN s.runtimes = 1 .. Generation(s)
         /\ \A i \in DOMAIN s.runtimes : s.runtimes[i] \in Runtime
         /\ Len(s.rows) \in Nat /\ DOMAIN s.rows = 1 .. Len(s.rows)
         /\ \A i \in DOMAIN s.rows : s.rows[i] \in Row
         /\ Len(s.seeds) \in Nat /\ DOMAIN s.seeds = 1 .. Len(s.seeds)
<1>1. /\ s.commands \in Seq(RCommand) /\ s.runtimes \in Seq(Runtime) /\ s.rows \in Seq(Row)
      /\ s.seeds \in Seq(Nat)
  BY RFields
<1>2. /\ Len(s.commands) \in Nat /\ DOMAIN s.commands = 1 .. Len(s.commands)
      /\ \A i \in DOMAIN s.commands : s.commands[i] \in RCommand
  BY <1>1, SeqFacts
<1>3. /\ Generation(s) \in Nat /\ DOMAIN s.runtimes = 1 .. Generation(s)
      /\ \A i \in DOMAIN s.runtimes : s.runtimes[i] \in Runtime
  BY <1>1, SeqFacts DEF Generation
<1>4. /\ Len(s.rows) \in Nat /\ DOMAIN s.rows = 1 .. Len(s.rows)
      /\ \A i \in DOMAIN s.rows : s.rows[i] \in Row
  BY <1>1, SeqFacts
<1>5. Len(s.seeds) \in Nat /\ DOMAIN s.seeds = 1 .. Len(s.seeds)
  BY <1>1, SeqFacts
<1> QED
  BY <1>2, <1>3, <1>4, <1>5

\* Methods in sequence.
LEMMA WorksTrans ==
  ASSUME NEW s \in RStore, NEW r, NEW t, Works(s, r), Works(r, t)
  PROVE  Works(s, t)
<1>1. /\ r \in RStore /\ t \in RStore /\ SameRelocations(s, t)
  BY DEF Works, SameRelocations
<1>2. /\ Len(s.commands) \in Nat /\ DOMAIN s.commands = 1 .. Len(s.commands)
      /\ Len(r.commands) \in Nat /\ DOMAIN r.commands = 1 .. Len(r.commands)
      /\ Len(t.commands) \in Nat /\ DOMAIN t.commands = 1 .. Len(t.commands)
      /\ Generation(s) \in Nat /\ Generation(r) \in Nat /\ Generation(t) \in Nat
  BY <1>1, RElements
<1>3. Generation(s) <= Generation(t) /\ Len(s.commands) <= Len(t.commands)
  BY <1>2 DEF Works, CommandsFollow
<1>4. DOMAIN s.commands \subseteq DOMAIN r.commands
  BY <1>2 DEF Works, CommandsFollow
<1>5. ASSUME NEW i \in DOMAIN s.commands
      PROVE  /\ t.commands[i].status \in Pending => s.commands[i].status \in Pending
             /\ t.commands[i].kind \in {s.commands[i].kind, "hang_skipped"}
  BY <1>4, <1>5 DEF Works, CommandsFollow
<1>6. ASSUME NEW i \in DOMAIN t.commands \ DOMAIN s.commands
      PROVE  NewKind(s, t.commands[i].kind)
  <2>1. CASE i \in DOMAIN r.commands
    <3>1. NewKind(s, r.commands[i].kind)
      BY <1>6, <2>1 DEF Works, CommandsFollow
    <3>2. t.commands[i].kind \in {r.commands[i].kind, "hang_skipped"}
      BY <2>1 DEF Works, CommandsFollow
    <3> QED
      BY <3>1, <3>2 DEF NewKind, Kinds
  <2>2. CASE i \notin DOMAIN r.commands
    <3>1. NewKind(r, t.commands[i].kind)
      BY <1>6, <2>2 DEF Works, CommandsFollow
    <3> QED
      BY <3>1 DEF NewKind, Works, SameRelocations
  <2> QED
    BY <2>1, <2>2
<1> QED
  BY <1>1, <1>3, <1>5, <1>6 DEF Works, CommandsFollow

\* Doing nothing.
LEMMA WorksRefl == ASSUME NEW s \in RStore PROVE Works(s, s) /\ Queues(s, s)
<1>1. Len(s.commands) \in Nat /\ Generation(s) \in Nat
  BY RElements
<1> QED
  BY <1>1 DEF Queues, Works, SameRelocations, CommandsFollow

\* Methods of the queue in sequence.
LEMMA QueuesTrans ==
  ASSUME NEW s \in RStore, NEW r, NEW t, Queues(s, r), Queues(r, t)
  PROVE  Queues(s, t)
<1>1. Works(s, t)
  BY WorksTrans DEF Queues
<1> QED
  BY <1>1 DEF Queues

\* The relocations of a store have their names.
LEMMA NamedRows ==
  ASSUME NEW s \in RStore, RowsOK(s)
  PROVE  DOMAIN s.rows \subseteq DOMAIN Names
<1>1. DOMAIN s.rows = 1 .. Len(s.rows) /\ Len(s.rows) \in Nat /\ Len(s.rows) <= Len(Names)
  BY RElements DEF RowsOK
<1>2. DOMAIN Names = 1 .. Len(Names) /\ Len(Names) \in Nat
  BY RelocationAssumption, LenProperties
<1> QED
  BY <1>1, <1>2

\* A relocation's name is no other kind, and no other relocation's.
LEMMA NamesDiffer ==
  ASSUME NEW s \in RStore, RowsOK(s), NEW id \in DOMAIN s.rows
  PROVE  /\ Names[id] \in Keys /\ Names[id] \notin Kinds
         /\ \A n \in DOMAIN s.rows : Names[n] = Names[id] => n = id
<1>1. DOMAIN s.rows \subseteq DOMAIN Names
  BY NamedRows
<1> QED
  BY <1>1, RelocationAssumption DEF Keys

\* The active relocation is a row.
LEMMA ActiveRow ==
  ASSUME NEW s \in RStore, RowsOK(s), s.active # 0
  PROVE  /\ s.active \in DOMAIN s.rows /\ Active(s) \in Row /\ Active(s) = s.rows[s.active]
         /\ Active(s).phase \in OpenPhases /\ Active(s).code = "none"
<1>1. DOMAIN s.rows = 1 .. Len(s.rows) /\ Len(s.rows) \in Nat /\ s.active \in {0, Len(s.rows)}
      /\ \A i \in DOMAIN s.rows : s.rows[i] \in Row
  BY RElements DEF RowsOK
<1>2. s.active \in DOMAIN s.rows
  BY <1>1
<1> QED
  BY <1>1, <1>2 DEF Active, RowsOK

\* What leaves the relocations alone keeps the invariant of the store.
LEMMA WorksInv ==
  ASSUME NEW s, NEW r, StoreOK(s), Works(s, r)
  PROVE  StoreOK(r)
<1>1. s \in RStore /\ r \in RStore /\ SameRelocations(s, r)
  BY DEF StoreOK, Works
<1>2. /\ Generation(s) \in Nat /\ Generation(r) \in Nat /\ Generation(s) <= Generation(r)
      /\ \A id \in DOMAIN s.rows : s.rows[id].source \in Nat
  <2>1. /\ Generation(s) \in Nat /\ Generation(r) \in Nat
        /\ \A id \in DOMAIN s.rows : s.rows[id] \in Row
    BY <1>1, RElements
  <2> QED
    BY <2>1 DEF Works, Row
<1>3. RowsOK(r)
  BY <1>1, <1>2 DEF StoreOK, RowsOK, SameRelocations
<1>4. MailOK(r)
  BY <1>1 DEF StoreOK, MailOK, SameRelocations, Fences, Active
<1>5. QueueOK(r)
  <2>1. ASSUME NEW i \in DOMAIN r.commands, i \in DOMAIN s.commands
        PROVE  /\ r.commands[i].kind # "model"
               /\ \A id \in DOMAIN r.rows :
                    r.commands[i].kind = Names[id] /\ r.rows[id].code = "superseded"
                      => r.commands[i].status \notin Pending
    <3>1. /\ r.commands[i].status \in Pending => s.commands[i].status \in Pending
          /\ r.commands[i].kind \in {s.commands[i].kind, "hang_skipped"}
      BY <2>1 DEF Works, CommandsFollow
    <3>2. \A id \in DOMAIN s.rows : Names[id] # "hang_skipped"
      BY <1>1, NamesDiffer DEF StoreOK, Kinds
    <3> QED
      BY <1>1, <2>1, <3>1, <3>2 DEF StoreOK, QueueOK, SameRelocations
  <2>2. ASSUME NEW i \in DOMAIN r.commands, i \notin DOMAIN s.commands
        PROVE  /\ r.commands[i].kind # "model"
               /\ \A id \in DOMAIN r.rows :
                    r.commands[i].kind = Names[id] /\ r.rows[id].code = "superseded"
                      => r.commands[i].status \notin Pending
    <3>1. NewKind(s, r.commands[i].kind) /\ RowsOK(s)
      BY <2>2 DEF Works, CommandsFollow, StoreOK
    <3>2. CASE r.commands[i].kind \in Kinds \ {"model"}
      BY <1>1, <3>1, <3>2, NamesDiffer DEF SameRelocations
    <3>3. CASE s.active # 0 /\ r.commands[i].kind = Names[s.active]
      <4>1. s.active \in DOMAIN s.rows /\ s.rows[s.active].code = "none"
        BY <1>1, <3>1, <3>3, ActiveRow
      <4>2. Names[s.active] \notin Kinds
        BY <1>1, <3>1, <4>1, NamesDiffer
      <4>3. \A n \in DOMAIN s.rows : Names[n] = Names[s.active] => n = s.active
        BY <1>1, <3>1, <4>1, NamesDiffer
      <4>4. r.rows = s.rows
        BY <1>1 DEF SameRelocations
      <4> QED
        BY <3>3, <4>1, <4>2, <4>3, <4>4 DEF Kinds
    <3> QED
      BY <3>1, <3>2, <3>3 DEF NewKind
  <2> QED
    BY <2>1, <2>2 DEF QueueOK
<1> QED
  BY <1>1, <1>3, <1>4, <1>5 DEF StoreOK
-----------------------------------------------------------------------------
(* The methods of the queue *)

\* A change of the commands alone.
LEMMA QueueChange ==
  ASSUME NEW s \in RStore, NEW q \in Seq(RCommand), NEW r,
         r = [s EXCEPT !.commands = q], CommandsFollow(s, r)
  PROVE  Queues(s, r) /\ r.commands = q
<1>1. /\ r \in RStore /\ r.runtimes = s.runtimes /\ r.flagged = s.flagged
      /\ r.lifecycle = s.lifecycle /\ SameRelocations(s, r) /\ r.commands = q
  BY DEF RStore, SameRelocations
<1>2. Generation(s) \in Nat
  BY RElements
<1> QED
  BY <1>1, <1>2 DEF Queues, Works, Generation

\* A function on the domain of a sequence is a sequence of that length.
LEMMA MappedSeq ==
  ASSUME NEW S, NEW q, NEW n \in Nat, q \in [1 .. n -> S]
  PROVE  q \in Seq(S) /\ Len(q) = n /\ DOMAIN q = 1 .. n
BY SeqDef, LenProperties

\* A change of the commands one by one.
LEMMA CommandsChange ==
  ASSUME NEW s \in RStore, NEW q, NEW r, r = [s EXCEPT !.commands = q],
         DOMAIN q = DOMAIN s.commands, q = [i \in DOMAIN s.commands |-> q[i]],
         \A i \in DOMAIN s.commands :
           /\ q[i] \in RCommand /\ q[i].kind \in {s.commands[i].kind, "hang_skipped"}
           /\ q[i].status \in Pending => s.commands[i].status \in Pending
  PROVE  Queues(s, r) /\ r.commands = q
<1>1. Len(s.commands) \in Nat /\ DOMAIN s.commands = 1 .. Len(s.commands)
  BY RElements
<1>2. q \in [1 .. Len(s.commands) -> RCommand]
  BY <1>1
<1>3. q \in Seq(RCommand) /\ Len(q) = Len(s.commands)
  BY <1>1, <1>2, MappedSeq
<1>4. r.commands = q
  BY DEF RStore
<1>5. CommandsFollow(s, r)
  BY <1>1, <1>3, <1>4, SMTT(30) DEF CommandsFollow
<1> QED
  BY <1>3, <1>5, QueueChange

\* A status set.
LEMMA RCommandStatus ==
  ASSUME NEW c \in RCommand, NEW status \in CommandStatuses
  PROVE  /\ [c EXCEPT !.status = status] \in RCommand
         /\ [c EXCEPT !.status = status].kind = c.kind
         /\ [c EXCEPT !.status = status].status = status
BY DEF RCommand

\* Settling commands queues nothing and leaves the others as they are.
LEMMA SettleCommandsQueues ==
  ASSUME NEW s \in RStore, NEW ids
  PROVE  /\ Queues(s, SettleCommands(s, ids))
         /\ DOMAIN SettleCommands(s, ids).commands = DOMAIN s.commands
         /\ \A i \in DOMAIN s.commands :
              /\ i \notin ids => SettleCommands(s, ids).commands[i] = s.commands[i]
              /\ i \in ids => SettleCommands(s, ids).commands[i].status \notin Pending
              /\ SettleCommands(s, ids).commands[i].kind = s.commands[i].kind
<1> DEFINE q == [i \in DOMAIN s.commands |->
                   IF i \in ids /\ s.commands[i].status \in Pending
                     THEN [s.commands[i] EXCEPT !.status = "done"] ELSE s.commands[i]]
           r == SettleCommands(s, ids)
<1>1. /\ Len(s.commands) \in Nat /\ DOMAIN s.commands = 1 .. Len(s.commands)
      /\ \A i \in DOMAIN s.commands : s.commands[i] \in RCommand
  BY RElements
<1>2. ASSUME NEW i \in DOMAIN s.commands
      PROVE  /\ q[i] \in RCommand /\ q[i].kind = s.commands[i].kind
             /\ q[i].status \in Pending => s.commands[i].status \in Pending
             /\ i \notin ids => q[i] = s.commands[i]
             /\ i \in ids => q[i].status \notin Pending
  <2>1. "done" \in CommandStatuses /\ "done" \notin Pending
    BY DEF CommandStatuses, Pending
  <2>2. s.commands[i] \in RCommand
    BY <1>1
  <2>3. /\ [s.commands[i] EXCEPT !.status = "done"] \in RCommand
        /\ [s.commands[i] EXCEPT !.status = "done"].kind = s.commands[i].kind
        /\ [s.commands[i] EXCEPT !.status = "done"].status = "done"
    BY <2>1, <2>2, RCommandStatus
  <2> QED
    BY <2>1, <2>2, <2>3
<1>3. q \in Seq(RCommand)
  <2>1. q \in [1 .. Len(s.commands) -> RCommand]
    BY <1>1, <1>2
  <2> QED
    BY <1>1, <2>1, MappedSeq
<1>4. q \o <<>> = q
  BY <1>3, ConcatEmptySeq
<1>5. r = [s EXCEPT !.commands = q]
  BY <1>4 DEF SettleCommands
<1>6. DOMAIN q = DOMAIN s.commands /\ q = [i \in DOMAIN s.commands |-> q[i]]
  OBVIOUS
<1> HIDE DEF q, r
<1>7. Queues(s, r) /\ r.commands = q
  BY <1>2, <1>5, <1>6, CommandsChange
<1> QED
  BY <1>2, <1>6, <1>7 DEF r

\* What a claim passes over; what it claims stays as it is.
LEMMA PassOverQueues ==
  ASSUME NEW s \in RStore
  PROVE  /\ Queues(s, PassOver(s))
         /\ DOMAIN PassOver(s).commands = DOMAIN s.commands
         /\ \A i \in Runnable(s) : i \in DOMAIN s.commands /\ PassOver(s).commands[i] = s.commands[i]
<1>1. Runnable(s) \subseteq DOMAIN s.commands
  BY DEF Runnable, Open, Claimable
<1> DEFINE ids == {j \in Open(s) \ Runnable(s) : \A i \in Runnable(s) : j < i}
<1>2. \A i \in Runnable(s) : i \notin ids
  OBVIOUS
<1>3. PassOver(s) = SettleCommands(s, ids)
  BY DEF PassOver
<1> HIDE DEF ids
<1> QED
  BY <1>1, <1>2, <1>3, SettleCommandsQueues

\* The starts settled when a relocation is admitted.
LEMMA SettleStartsQueues ==
  ASSUME NEW s \in RStore PROVE Queues(s, SettleStarts(s))
BY SettleCommandsQueues DEF SettleStarts

\* A command queued.
LEMMA ApplyEnqueueQueues ==
  ASSUME NEW s \in RStore, NEW verb \in Verbs, NEW kind, NewKind(s, kind),
         kind \in Kinds \union Keys, NEW due \in BOOLEAN
  PROVE  Queues(s, ApplyEnqueue(s, verb, kind, due))
<1> DEFINE c == NewCommand(s, verb, kind, due)
           q == Append(s.commands, c)
           r == ApplyEnqueue(s, verb, kind, due)
<1>1. s.commands \in Seq(RCommand) /\ Generation(s) \in Nat
  BY RFields, RElements
<1>2. c \in RCommand /\ c.kind = kind
  BY <1>1 DEF NewCommand, RCommand, CommandStatuses
<1> HIDE DEF c
<1>3. /\ q \in Seq(RCommand) /\ Len(q) = Len(s.commands) + 1 /\ Len(s.commands) \in Nat
      /\ \A i \in 1 .. Len(s.commands) : q[i] = s.commands[i]
      /\ q[Len(s.commands) + 1] = c
      /\ DOMAIN s.commands = 1 .. Len(s.commands) /\ DOMAIN q = 1 .. Len(s.commands) + 1
  BY <1>1, <1>2, AppendProperties, LenProperties, RElements
<1>4. r = [s EXCEPT !.commands = q]
  BY DEF ApplyEnqueue, c
<1>5. r.commands = q
  BY <1>4 DEF RStore
<1> HIDE DEF q, r
<1>6. Len(s.commands) <= Len(r.commands)
  BY <1>3, <1>5
<1>7. \A i \in DOMAIN r.commands \ DOMAIN s.commands : i = Len(s.commands) + 1
  BY <1>3, <1>5
<1>8. CommandsFollow(s, r)
  <2>1. \A i \in DOMAIN s.commands : r.commands[i] = s.commands[i]
    BY <1>3, <1>5
  <2>2. ASSUME NEW i \in DOMAIN r.commands \ DOMAIN s.commands PROVE r.commands[i].kind = kind
    <3>1. i = Len(s.commands) + 1
      BY <1>7
    <3>2. q[Len(s.commands) + 1] = c
      BY <1>3
    <3>3. r.commands[i] = c
      BY <1>5, <3>1, <3>2, Zenon
    <3> QED
      BY <1>2, <3>3
  <2> QED
    BY <1>6, <2>1, <2>2 DEF CommandsFollow
<1>9. Queues(s, r)
  BY <1>3, <1>4, <1>8, QueueChange
<1> QED
  BY <1>9 DEF r

\* The starts that a user stop settles.
LEMMA SupersedeStartsQueues ==
  ASSUME NEW s \in RStore PROVE Queues(s, SupersedeStarts(s))
<1> DEFINE q == [i \in DOMAIN s.commands |->
                   IF s.commands[i].status = "queued" /\ s.commands[i].verb \in StartVerbs
                                                      /\ s.commands[i].target = Generation(s)
                     THEN [s.commands[i] EXCEPT !.status = "done"] ELSE s.commands[i]]
           r == SupersedeStarts(s)
<1>1. \A i \in DOMAIN s.commands : s.commands[i] \in RCommand
  BY RElements
<1>2. ASSUME NEW i \in DOMAIN s.commands
      PROVE  /\ q[i] \in RCommand /\ q[i].kind = s.commands[i].kind
             /\ q[i].status \in Pending => s.commands[i].status \in Pending
  <2>1. "done" \in CommandStatuses /\ "done" \notin Pending
    BY DEF CommandStatuses, Pending
  <2>2. s.commands[i] \in RCommand
    BY <1>1
  <2>3. /\ [s.commands[i] EXCEPT !.status = "done"] \in RCommand
        /\ [s.commands[i] EXCEPT !.status = "done"].kind = s.commands[i].kind
        /\ [s.commands[i] EXCEPT !.status = "done"].status = "done"
    BY <2>1, <2>2, RCommandStatus
  <2> QED
    BY <2>1, <2>2, <2>3
<1>3. r = [s EXCEPT !.commands = q]
  BY DEF SupersedeStarts
<1>4. DOMAIN q = DOMAIN s.commands /\ q = [i \in DOMAIN s.commands |-> q[i]]
  OBVIOUS
<1> HIDE DEF q, r
<1>5. Queues(s, r)
  BY <1>2, <1>3, <1>4, CommandsChange
<1> QED
  BY <1>5 DEF r

\* A verb queued while no relocation is active, or that does not call it off.
LEMMA EnqueueCommandQueues ==
  ASSUME NEW s \in RStore, NEW verb \in Verbs, NEW kind \in Kinds \ {"model"}
  PROVE  Queues(s, EnqueueCommand(s, verb, kind))
<1> DEFINE t == IF kind = "user" THEN SupersedeStarts(s) ELSE s
<1>1. Queues(s, t)
  BY SupersedeStartsQueues, WorksRefl
<1>2. t \in RStore
  BY <1>1 DEF Queues, Works
<1>3. EnqueueCommand(s, verb, kind) = ApplyEnqueue(t, verb, kind, TRUE)
  BY DEF EnqueueCommand
<1> HIDE DEF t
<1>4. Queues(t, ApplyEnqueue(t, verb, kind, TRUE))
  BY <1>2, ApplyEnqueueQueues DEF NewKind
<1> QED
  BY <1>1, <1>3, <1>4, QueuesTrans
\* One command replaced.
LEMMA ReplaceQueues ==
  ASSUME NEW s \in RStore, NEW i \in DOMAIN s.commands, NEW c \in RCommand, NEW r,
         c.kind \in {s.commands[i].kind, "hang_skipped"},
         c.status \in Pending => s.commands[i].status \in Pending,
         r = [s EXCEPT !.commands[i] = c]
  PROVE  Queues(s, r) /\ DOMAIN r.commands = DOMAIN s.commands /\ r.commands[i] = c
<1> DEFINE q == [s.commands EXCEPT ![i] = c]
<1>1. /\ DOMAIN s.commands = 1 .. Len(s.commands)
      /\ \A j \in DOMAIN s.commands : s.commands[j] \in RCommand
      /\ s.commands = [j \in DOMAIN s.commands |-> s.commands[j]]
  <2>1. s.commands \in Seq(RCommand)
    BY RFields
  <2>2. s.commands \in [1 .. Len(s.commands) -> RCommand]
    BY <2>1, LenProperties
  <2> QED
    BY <2>2
<1>2. /\ DOMAIN q = DOMAIN s.commands /\ q = [j \in DOMAIN s.commands |-> q[j]] /\ q[i] = c
      /\ \A j \in DOMAIN s.commands : j # i => q[j] = s.commands[j]
  BY <1>1
<1>3. r = [s EXCEPT !.commands = q]
  BY DEF RStore
<1> HIDE DEF q
<1>4. \A j \in DOMAIN s.commands :
        /\ q[j] \in RCommand /\ q[j].kind \in {s.commands[j].kind, "hang_skipped"}
        /\ q[j].status \in Pending => s.commands[j].status \in Pending
  BY <1>1, <1>2
<1>5. Queues(s, r) /\ r.commands = q
  BY <1>2, <1>3, <1>4, CommandsChange
<1> QED
  BY <1>2, <1>5

\* A command claimed or settled.
LEMMA SetCommandQueues ==
  ASSUME NEW s \in RStore, NEW i \in DOMAIN s.commands, NEW status \in CommandStatuses,
         status \in Pending => s.commands[i].status \in Pending
  PROVE  /\ Queues(s, SetCommand(s, i, status))
         /\ DOMAIN SetCommand(s, i, status).commands = DOMAIN s.commands
         /\ SetCommand(s, i, status).commands[i].status = status
<1> DEFINE c == [s.commands[i] EXCEPT !.status = status]
<1>1. s.commands[i] \in RCommand
  BY RElements
<1>2. c \in RCommand /\ c.kind = s.commands[i].kind /\ c.status = status
  BY <1>1, RCommandStatus
<1>3. SetCommand(s, i, status) = [s EXCEPT !.commands[i] = c]
  BY DEF SetCommand
<1> HIDE DEF c
<1> QED
  BY <1>2, <1>3, ReplaceQueues

\* A boot-hang stop that came too late.
LEMMA SkipBootHangStopQueues ==
  ASSUME NEW s \in RStore, NEW i \in DOMAIN s.commands
  PROVE  Queues(s, SkipBootHangStop(s, i))
<1> DEFINE c == [s.commands[i] EXCEPT !.status = "done", !.kind = "hang_skipped"]
<1>1. s.commands[i] \in RCommand
  BY RElements
<1>2. c \in RCommand /\ c.kind = "hang_skipped" /\ c.status = "done"
  BY <1>1 DEF RCommand, Kinds, CommandStatuses
<1>3. SkipBootHangStop(s, i) = [s EXCEPT !.commands[i] = c]
  BY DEF SkipBootHangStop, RStore
<1> HIDE DEF c
<1> QED
  BY <1>2, <1>3, ReplaceQueues DEF Pending

\* A backoff that has passed.
LEMMA DueQueues ==
  ASSUME NEW s \in RStore, NEW i \in DOMAIN s.commands
  PROVE  Queues(s, [s EXCEPT !.commands[i].due = TRUE])
<1> DEFINE c == [s.commands[i] EXCEPT !.due = TRUE]
<1>1. s.commands[i] \in RCommand
  BY RElements
<1>2. c \in RCommand /\ c.kind = s.commands[i].kind /\ c.status = s.commands[i].status
  BY <1>1 DEF RCommand
<1>3. [s EXCEPT !.commands[i].due = TRUE] = [s EXCEPT !.commands[i] = c]
  OBVIOUS
<1> HIDE DEF c
<1> QED
  BY <1>2, <1>3, ReplaceQueues

\* The wake of a bee that needs one.
LEMMA WakeIfNeededQueues ==
  ASSUME NEW s \in RStore PROVE Queues(s, WakeIfNeeded(s))
<1>1. s.failures \in Nat
  BY RFields
<1>2. Queues(s, ApplyEnqueue(s, "send_wake", "plain", s.failures = 0))
  BY ApplyEnqueueQueues DEF NewKind, Kinds, Verbs
<1> QED
  BY <1>2, WorksRefl DEF WakeIfNeeded, ApplyWakeIfNeeded

\* The wake for mail.
LEMMA WakeForMailQueues ==
  ASSUME NEW s \in RStore PROVE Queues(s, WakeForMail(s))
BY WakeIfNeededQueues, WorksRefl DEF WakeForMail

\* The revive that a stop asked for.
LEMMA ReviveAfterStopQueues ==
  ASSUME NEW s \in RStore PROVE Queues(s, ReviveAfterStop(s))
<1>1. Queues(s, EnqueueCommand(s, "revive", "after_stop"))
  BY EnqueueCommandQueues DEF Kinds, Verbs
<1> QED
  BY <1>1, WorksRefl DEF ReviveAfterStop, Enqueue

\* Claimed commands of a daemon that died go back to the queue.
LEMMA BootRequeueQueues ==
  ASSUME NEW s \in RStore PROVE Queues(s, BootRequeueRunningCommands(s))
<1> DEFINE q == [i \in DOMAIN s.commands |->
                   IF s.commands[i].status = "running"
                     THEN [s.commands[i] EXCEPT !.status = "queued", !.due = TRUE]
                     ELSE s.commands[i]]
           r == BootRequeueRunningCommands(s)
<1>1. \A i \in DOMAIN s.commands : s.commands[i] \in RCommand
  BY RElements
<1>2. ASSUME NEW i \in DOMAIN s.commands
      PROVE  /\ q[i] \in RCommand /\ q[i].kind = s.commands[i].kind
             /\ q[i].status \in Pending => s.commands[i].status \in Pending
  <2>1. s.commands[i] \in RCommand
    BY <1>1
  <2>2. CASE s.commands[i].status = "running"
    BY <2>1, <2>2 DEF RCommand, CommandStatuses, Pending
  <2>3. CASE s.commands[i].status # "running"
    BY <2>1, <2>3
  <2> QED
    BY <2>2, <2>3
<1>3. r = [s EXCEPT !.commands = q]
  BY DEF BootRequeueRunningCommands
<1>4. DOMAIN q = DOMAIN s.commands /\ q = [i \in DOMAIN s.commands |-> q[i]]
  OBVIOUS
<1> HIDE DEF q, r
<1>5. Queues(s, r)
  BY <1>2, <1>3, <1>4, CommandsChange
<1> QED
  BY <1>5 DEF r
-----------------------------------------------------------------------------
(* The methods of the runtimes and of the budget *)

\* A method that leaves the commands alone.
LEMMA OtherChange ==
  ASSUME NEW s \in RStore, NEW r \in RStore, SameRelocations(s, r), r.commands = s.commands,
         Generation(s) <= Generation(r)
  PROVE  Works(s, r)
<1>1. Len(s.commands) \in Nat
  BY RElements
<1> QED
  BY <1>1 DEF Works, CommandsFollow

\* The row of the current runtime replaced.
LEMMA SetCurrentWorks ==
  ASSUME NEW s \in RStore, Generation(s) > 0, NEW row \in Runtime
  PROVE  /\ Works(s, SetCurrent(s, row)) /\ Current(SetCurrent(s, row)) = row
         /\ Generation(SetCurrent(s, row)) = Generation(s)
         /\ SetCurrent(s, row).flagged = s.flagged
<1> DEFINE g == Generation(s)
           q == [s.runtimes EXCEPT ![g] = row]
           r == SetCurrent(s, row)
<1>1. s.runtimes \in Seq(Runtime) /\ g \in Nat /\ g \in 1 .. Len(s.runtimes) /\ g = Len(s.runtimes)
  BY RFields, RElements DEF Generation
<1>2. q \in Seq(Runtime) /\ Len(q) = g /\ q[g] = row
  <2>1. s.runtimes \in [1 .. g -> Runtime]
    BY <1>1, LenProperties
  <2>2. q \in [1 .. g -> Runtime] /\ q[g] = row
    BY <1>1, <2>1
  <2> QED
    BY <1>1, <2>2, MappedSeq
<1>3. r = [s EXCEPT !.runtimes = q]
  BY DEF SetCurrent
<1> HIDE DEF g, q, r
<1>4. r \in RStore /\ SameRelocations(s, r) /\ r.commands = s.commands /\ r.runtimes = q
      /\ r.flagged = s.flagged
  BY <1>2, <1>3 DEF RStore, SameRelocations
<1>5. Generation(r) = g /\ Generation(s) = g
  BY <1>2, <1>4 DEF Generation, g
<1>6. Works(s, r)
  BY <1>1, <1>4, <1>5, OtherChange
<1> QED
  BY <1>2, <1>4, <1>5, <1>6 DEF r, Current

\* The budget given back.
LEMMA ResetWorks ==
  ASSUME NEW s \in RStore
  PROVE  /\ Works(s, ResetSpawnFailures(s)) /\ ResetSpawnFailures(s).runtimes = s.runtimes
         /\ ResetSpawnFailures(s).flagged = FALSE /\ ResetSpawnFailures(s).commands = s.commands
<1> DEFINE r == ResetSpawnFailures(s)
<1>1. r \in RStore /\ SameRelocations(s, r) /\ r.commands = s.commands /\ r.runtimes = s.runtimes
      /\ r.flagged = FALSE
  BY DEF ResetSpawnFailures, ApplySpawnFailuresReset, RStore, SameRelocations
<1>2. Generation(s) \in Nat /\ Generation(r) = Generation(s)
  BY <1>1, RElements DEF Generation
<1> HIDE DEF r
<1>3. Works(s, r)
  BY <1>1, <1>2, OtherChange
<1> QED
  BY <1>1, <1>3 DEF r

\* A failure counted.
LEMMA SpawnFailureWorks ==
  ASSUME NEW s \in RStore PROVE Works(s, ApplySpawnFailure(s))
<1> DEFINE r == ApplySpawnFailure(s)
<1>1. s.failures + 1 \in Nat /\ (s.flagged \/ s.failures + 1 >= MaxAttempts) \in BOOLEAN
  BY RFields
<1>2. r \in RStore /\ SameRelocations(s, r) /\ r.commands = s.commands /\ r.runtimes = s.runtimes
  BY <1>1 DEF ApplySpawnFailure, RStore, SameRelocations
<1>3. Generation(s) \in Nat /\ Generation(r) = Generation(s)
  BY <1>2, RElements DEF Generation
<1> HIDE DEF r
<1>4. Works(s, r)
  BY <1>2, <1>3, OtherChange
<1> QED
  BY <1>4 DEF r

\* The lifecycle changed.
LEMMA LifecycleWorks ==
  ASSUME NEW s \in RStore
  PROVE  /\ Works(s, UnarchiveBee(s)) /\ UnarchiveBee(s).runtimes = s.runtimes
         /\ UnarchiveBee(s).flagged = s.flagged /\ UnarchiveBee(s).commands = s.commands
         /\ Works(s, ExecuteArchiveCommand(s)) /\ ExecuteArchiveCommand(s).runtimes = s.runtimes
         /\ ExecuteArchiveCommand(s).flagged = s.flagged
         /\ ExecuteArchiveCommand(s).commands = s.commands
<1>1. ASSUME NEW r, NEW l \in {"active", "archived"}, r = [s EXCEPT !.lifecycle = l]
      PROVE  /\ Works(s, r) /\ r.runtimes = s.runtimes /\ r.flagged = s.flagged
             /\ r.commands = s.commands
  <2>1. r \in RStore /\ SameRelocations(s, r) /\ r.commands = s.commands
        /\ r.runtimes = s.runtimes /\ r.flagged = s.flagged
    BY <1>1 DEF RStore, SameRelocations
  <2>2. Generation(s) \in Nat /\ Generation(r) = Generation(s)
    BY <2>1, RElements DEF Generation
  <2> QED
    BY <2>1, <2>2, OtherChange
<1> QED
  BY <1>1, WorksRefl DEF UnarchiveBee, ApplyUnarchive, ExecuteArchiveCommand

\* A generation minted.
LEMMA ReviveBeeWorks ==
  ASSUME NEW s \in RStore
  PROVE  /\ Works(s, ReviveBee(s)) /\ Generation(ReviveBee(s)) = Generation(s) + 1
         /\ ReviveBee(s).commands = s.commands
<1> DEFINE u == UnarchiveBee(s)
           q == Append(u.runtimes, NewRuntime)
           r == ReviveBee(s)
<1>1. Works(s, u) /\ u.runtimes = s.runtimes /\ u.commands = s.commands /\ u \in RStore
  BY LifecycleWorks DEF Works
<1>2. r = [u EXCEPT !.runtimes = q]
  BY DEF ReviveBee, InsertRuntime
<1> HIDE DEF u
<1>3. u.runtimes \in Seq(Runtime) /\ NewRuntime \in Runtime
  BY <1>1, RFields DEF NewRuntime, Runtime, RuntimeStates
<1>4. q \in Seq(Runtime) /\ Len(q) = Len(u.runtimes) + 1
  BY <1>3, AppendProperties
<1> HIDE DEF q, r
<1>5. r \in RStore /\ SameRelocations(u, r) /\ r.commands = u.commands /\ r.runtimes = q
  BY <1>1, <1>2, <1>4 DEF RStore, SameRelocations
<1>6. /\ Generation(u) \in Nat /\ Generation(r) = Generation(u) + 1
      /\ Generation(u) = Generation(s)
  BY <1>1, <1>4, <1>5, RElements DEF Generation
<1>7. Works(u, r)
  BY <1>1, <1>5, <1>6, OtherChange
<1>8. Works(s, r)
  BY <1>1, <1>7, WorksTrans
<1> QED
  BY <1>1, <1>5, <1>6, <1>8 DEF r

\* A state observed.
LEMMA UpdateRuntimeStateWorks ==
  ASSUME NEW s \in RStore, Generation(s) > 0, NEW state \in RuntimeStates,
         NEW cause \in ExitCauses \union {"none"}, NEW synthetic \in BOOLEAN, NEW pid \in BOOLEAN
  PROVE  Works(s, UpdateRuntimeState(s, Generation(s), state, cause, synthetic, pid))
<1> DEFINE rt == Current(s)
           evidence == IF rt.state = "booting" /\ state = "running" /\ rt.evidence # "real"
                         THEN IF synthetic THEN "synthetic" ELSE "real"
                         ELSE rt.evidence
           row == [state |-> state, exitCause |-> cause, evidence |-> evidence, pid |-> rt.pid \/ pid]
           moved == SetCurrent(s, row)
<1>1. rt \in Runtime
  <2>1. Generation(s) \in Nat /\ DOMAIN s.runtimes = 1 .. Generation(s)
        /\ \A i \in DOMAIN s.runtimes : s.runtimes[i] \in Runtime
    BY RElements
  <2>2. Generation(s) \in DOMAIN s.runtimes
    BY <2>1
  <2> QED
    BY <2>1, <2>2 DEF Current
<1>2. row \in Runtime
  BY <1>1 DEF Runtime
<1> HIDE DEF rt, evidence, row
<1>3. Works(s, moved) /\ moved \in RStore
  BY <1>2, SetCurrentWorks DEF Works
<1>4. \/ UpdateRuntimeState(s, Generation(s), state, cause, synthetic, pid) = moved
      \/ UpdateRuntimeState(s, Generation(s), state, cause, synthetic, pid) = ApplySpawnFailure(moved)
      \/ UpdateRuntimeState(s, Generation(s), state, cause, synthetic, pid) = ResetSpawnFailures(moved)
  BY DEF UpdateRuntimeState, rt, evidence, row, ResetSpawnFailures
<1> HIDE DEF moved
<1>5. Works(s, ApplySpawnFailure(moved)) /\ Works(s, ResetSpawnFailures(moved))
  BY <1>3, SpawnFailureWorks, ResetWorks, WorksTrans
<1> QED
  BY <1>3, <1>4, <1>5

\* The current row of a store.
LEMMA CurrentRow ==
  ASSUME NEW s \in RStore, Generation(s) > 0
  PROVE  Current(s) \in Runtime
<1>1. Generation(s) \in Nat /\ DOMAIN s.runtimes = 1 .. Generation(s)
      /\ \A i \in DOMAIN s.runtimes : s.runtimes[i] \in Runtime
  BY RElements
<1>2. Generation(s) \in DOMAIN s.runtimes
  BY <1>1
<1> QED
  BY <1>1, <1>2 DEF Current

\* A process recorded.
LEMMA RecordRuntimeProcWorks ==
  ASSUME NEW s \in RStore, Generation(s) > 0
  PROVE  Works(s, RecordRuntimeProc(s, Generation(s)))
<1>1. [Current(s) EXCEPT !.pid = TRUE] \in Runtime
  BY CurrentRow DEF Runtime
<1>2. Works(s, SetCurrent(s, [Current(s) EXCEPT !.pid = TRUE]))
  BY <1>1, SetCurrentWorks
<1> QED
  BY <1>2, WorksRefl DEF RecordRuntimeProc

\* The boot's verdict on the row of a process that did not survive.
LEMMA ReconcileAtBootWorks ==
  ASSUME NEW s \in RStore, Generation(s) > 0, NEW alive \in BOOLEAN
  PROVE  /\ Works(s, ReconcileAtBoot(s, alive))
         /\ Current(s).state = "stopped" => ReconcileAtBoot(s, alive) = s
<1> DEFINE row == [Current(s) EXCEPT !.state = "stopped", !.exitCause = "machine_restart"]
<1>1. row \in Runtime
  BY CurrentRow DEF Runtime, RuntimeStates, ExitCauses
<1> HIDE DEF row
<1>2. Works(s, SetCurrent(s, row))
  BY <1>1, SetCurrentWorks
<1>3. Current(s).state = "stopped" => ~Live(s)
  BY DEF Live, LiveStates
<1> QED
  BY <1>2, <1>3, WorksRefl DEF ReconcileAtBoot, row

\* A start that failed.
LEMMA ReportCommandFailureWorks ==
  ASSUME NEW s \in RStore, NEW i \in DOMAIN s.commands, s.commands[i].status \in Pending
  PROVE  Works(s, ReportCommandFailure(s, i))
<1> DEFINE attempts == s.commands[i].attempts + 1
           failed == attempts >= MaxAttempts
           c == [s.commands[i] EXCEPT !.attempts = attempts, !.due = FALSE,
                                      !.status = IF failed THEN "failed" ELSE "queued"]
           t == [s EXCEPT !.commands[i] = c]
           r == ReportCommandFailure(s, i)
<1>1. s.commands[i] \in RCommand
  BY RElements
<1>2. attempts \in Nat
  BY <1>1 DEF RCommand
<1>3. failed \in BOOLEAN
  OBVIOUS
<1>4. r = [s EXCEPT !.commands[i] = c, !.flagged = @ \/ failed]
  BY DEF ReportCommandFailure
<1> HIDE DEF attempts, failed, r
<1>5. c \in RCommand /\ c.kind = s.commands[i].kind
  BY <1>1, <1>2 DEF RCommand, CommandStatuses
<1> HIDE DEF c
<1>6. Queues(s, t)
  BY <1>5, ReplaceQueues
<1>7. t \in RStore /\ Works(s, t)
  BY <1>6 DEF Queues, Works
<1>8. r = [t EXCEPT !.flagged = s.flagged \/ failed]
  BY <1>4 DEF RStore
<1> HIDE DEF t
<1>9. r \in RStore /\ SameRelocations(t, r) /\ r.commands = t.commands /\ r.runtimes = t.runtimes
  BY <1>3, <1>7, <1>8 DEF RStore, SameRelocations
<1>10. Generation(t) \in Nat /\ Generation(r) = Generation(t)
  BY <1>7, <1>9, RElements DEF Generation
<1>11. Works(t, r)
  BY <1>7, <1>9, <1>10, OtherChange
<1> QED
  BY <1>7, <1>11, WorksTrans DEF r
-----------------------------------------------------------------------------
(* Steps that leave the relocations alone *)

\* What does not touch the relocations brings no bee to rest, and one at rest
\* stays so unless a generation is minted.
LEMMA QuietKept ==
  ASSUME NEW s \in RStore, NEW r \in RStore, RowsOK(s), r.rows = s.rows, r.active = s.active,
         Generation(s) <= Generation(r), NEW p, NEW q, QuietOK(s, p),
         Quiet(s) => \/ ~Quiet(r)
                     \/ r.runtimes = s.runtimes /\ q.state = "none" /\ (r.flagged => s.flagged)
  PROVE  QuietOK(r, q)
<1> SUFFICES ASSUME Quiet(r)
             PROVE  /\ Active(r).source = Generation(r) /\ Current(r).state = "stopped"
                    /\ q.state = "none"
                    /\ Active(r).phase = "starting" => ~r.flagged
  BY DEF QuietOK
<1>1. Active(r) = Active(s) /\ s.active # 0
  BY DEF Active, Quiet
<1>2. Active(s).source \in Nat /\ Active(s).source <= Generation(s)
  BY <1>1, ActiveRow DEF Row, RowsOK
<1>3. Generation(s) \in Nat /\ Generation(r) \in Nat
  BY RElements
<1>4. Quiet(s)
  <2>1. CASE Active(r).phase \in {"placing", "summarizing"}
    BY <1>1, <2>1 DEF Quiet
  <2>2. CASE /\ Active(r).phase = "starting" /\ Active(r).kind = "handoff"
             /\ Active(r).source = Generation(r)
    <3>1. Active(s).source = Generation(s)
      BY <1>1, <1>2, <1>3, <2>2
    <3> QED
      BY <1>1, <2>2, <3>1 DEF Quiet
  <2> QED
    BY <2>1, <2>2 DEF Quiet
<1>5. r.runtimes = s.runtimes /\ q.state = "none" /\ (r.flagged => s.flagged)
  BY <1>4
<1>6. Generation(r) = Generation(s) /\ Current(r) = Current(s)
  BY <1>5 DEF Generation, Current
<1> QED
  BY <1>1, <1>4, <1>5, <1>6 DEF QuietOK

\* A step of that kind.
LEMMA WorksStep ==
  ASSUME NEW s, NEW r, NEW p, NEW q, StateOK(s, p), Works(s, r),
         Quiet(s) => \/ ~Quiet(r)
                     \/ r.runtimes = s.runtimes /\ q.state = "none" /\ (r.flagged => s.flagged),
         q.state \in {"up", "dying"} => q.identity = s.identity
  PROVE  StateOK(r, q) /\ r.rows = s.rows /\ Advances(s, r)
<1>1. /\ s \in RStore /\ r \in RStore /\ RowsOK(s) /\ QuietOK(s, p) /\ StoreOK(s)
      /\ r.rows = s.rows /\ r.active = s.active /\ Generation(s) <= Generation(r)
      /\ r.identity = s.identity
  BY DEF StateOK, StoreOK, Works, SameRelocations
<1>2. StoreOK(r)
  BY <1>1, WorksInv
<1>3. QuietOK(r, q)
  BY <1>1, QuietKept
<1>4. SameIdentity(r, q)
  BY <1>1 DEF SameIdentity
<1> QED
  BY <1>1, <1>2, <1>3, <1>4 DEF StateOK, Advances

\* A step of the queue, with the process left as it is or gone.
LEMMA QueuesStep ==
  ASSUME NEW s, NEW r, NEW p, NEW q, StateOK(s, p), Queues(s, r),
         p.state = "none" => q.state = "none",
         q.state \in {"up", "dying"} => q.identity = s.identity
  PROVE  StateOK(r, q) /\ r.rows = s.rows /\ Advances(s, r)
<1>1. /\ Works(s, r) /\ r.runtimes = s.runtimes /\ r.flagged = s.flagged
  BY DEF Queues
<1>2. Quiet(s) => p.state = "none"
  BY DEF StateOK, QuietOK
<1> QED
  BY <1>1, <1>2, WorksStep

-----------------------------------------------------------------------------
(* Steps of a relocation *)

\* What the row of the active relocation may become, with a the active one then.
MayBecome(s, row, a) ==
  /\ row \in Row /\ row.source = Active(s).source /\ row.kind = Active(s).kind
  /\ \/ /\ a = s.active /\ row.phase \in OpenPhases /\ row.code = "none"
        /\ row.phase \in Fencing => Active(s).phase \in Fencing
     \/ /\ a = 0 /\ row.phase \notin OpenPhases
        /\ row.kind = "handoff" /\ row.code = "spawn_failed" => row.source < Generation(s)
  /\ row.code = "superseded" =>
       \A i \in DOMAIN s.commands : s.commands[i].kind = Names[s.active]
                                      => s.commands[i].status \notin Pending

WithRow(s, row, a) == [s EXCEPT !.rows = [@ EXCEPT ![s.active] = row], !.active = a]

\* The row of the active relocation replaced: it goes on, or it is over.
LEMMA RowReplaced ==
  ASSUME NEW s, NEW r, NEW a, NEW row, StoreOK(s), s.active # 0, MayBecome(s, row, a),
         r = WithRow(s, row, a)
  PROVE  /\ StoreOK(r) /\ Advances(s, r) /\ DOMAIN r.rows = DOMAIN s.rows
         /\ r.rows[s.active] = row
         /\ r.active = a /\ r.runtimes = s.runtimes /\ r.flagged = s.flagged
         /\ r.identity = s.identity /\ r.commands = s.commands /\ r.seeds = s.seeds
         /\ r.mail = s.mail /\ r.lifecycle = s.lifecycle
<1> DEFINE id == s.active
           rows == [s.rows EXCEPT ![id] = row]
<1> USE DEF MayBecome
<1>1. /\ s \in RStore /\ RowsOK(s) /\ MailOK(s) /\ QueueOK(s)
  BY DEF StoreOK
<1>2. id \in DOMAIN s.rows /\ Active(s) = s.rows[id] /\ id \in Nat /\ id # 0
  BY <1>1, ActiveRow, RFields
<1>3. /\ rows \in Seq(Row) /\ Len(rows) = Len(s.rows) /\ DOMAIN rows = DOMAIN s.rows
      /\ rows[id] = row /\ \A n \in DOMAIN s.rows : n # id => rows[n] = s.rows[n]
  <2>1. s.rows \in Seq(Row) /\ Len(s.rows) \in Nat /\ DOMAIN s.rows = 1 .. Len(s.rows)
    BY <1>1, RFields, RElements
  <2>2. s.rows \in [1 .. Len(s.rows) -> Row]
    BY <2>1, LenProperties
  <2>3. rows \in [1 .. Len(s.rows) -> Row]
    BY <2>2
  <2>4. rows \in Seq(Row) /\ Len(rows) = Len(s.rows) /\ DOMAIN rows = DOMAIN s.rows
    BY <2>1, <2>3, MappedSeq
  <2> QED
    BY <1>2, <2>1, <2>2, <2>4
<1>4. a \in Nat /\ a \in {0, id}
  BY <1>2
<1> HIDE DEF rows
<1>5. r = [s EXCEPT !.rows = rows, !.active = a]
  BY DEF rows, WithRow
<1>6. /\ r \in RStore /\ r.rows = rows /\ r.active = a /\ r.runtimes = s.runtimes
      /\ r.flagged = s.flagged /\ r.identity = s.identity /\ r.commands = s.commands
      /\ r.seeds = s.seeds /\ r.mail = s.mail /\ r.lifecycle = s.lifecycle
  BY <1>1, <1>3, <1>4, <1>5 DEF RStore
<1>7. Generation(r) = Generation(s)
  BY <1>6 DEF Generation
<1>8. RowsOK(r)
  <2>1. ASSUME NEW n \in DOMAIN rows
        PROVE  /\ rows[n].phase \in OpenPhases <=> a = n
               /\ a = n => rows[n].code = "none"
               /\ rows[n].source <= Generation(s)
               /\ rows[n].kind = "handoff" /\ rows[n].code = "spawn_failed"
                    => rows[n].source < Generation(s)
    <3>1. n \in DOMAIN s.rows /\ n # 0
      <4>1. DOMAIN s.rows = 1 .. Len(s.rows)
        BY <1>1, RElements
      <4> QED
        BY <1>3, <4>1
    <3>2. CASE n = id
      <4>1. rows[n] = row /\ s.rows[id].source <= Generation(s)
        BY <1>1, <1>2, <1>3, <3>2 DEF RowsOK
      <4>2. row.phase \in OpenPhases <=> a = n
        BY <1>2, <3>1, <3>2
      <4>3. a = n => row.code = "none"
        BY <3>1, <3>2
      <4>4. row.kind = "handoff" /\ row.code = "spawn_failed" => row.source < Generation(s)
        OBVIOUS
      <4> QED
        BY <1>2, <4>1, <4>2, <4>3, <4>4
    <3>3. CASE n # id
      <4>1. rows[n] = s.rows[n] /\ a # n /\ s.active # n
        BY <1>3, <1>4, <3>1, <3>3
      <4> QED
        BY <1>1, <3>1, <4>1 DEF RowsOK
    <3> QED
      BY <3>2, <3>3
  <2>2. a \in {0, Len(rows)}
    BY <1>1, <1>3, <1>4 DEF RowsOK
  <2> QED
    BY <1>1, <1>3, <1>6, <1>7, <2>1, <2>2 DEF RowsOK
<1>9. MailOK(r)
  <2>1. Fences(r) => Fences(s)
    BY <1>2, <1>3, <1>6 DEF Fences, Active
  <2> QED
    BY <1>1, <1>3, <1>6, <2>1 DEF MailOK
<1>10. QueueOK(r)
  <2>1. ASSUME NEW i \in DOMAIN s.commands, NEW n \in DOMAIN rows,
               s.commands[i].kind = Names[n], rows[n].code = "superseded"
        PROVE  s.commands[i].status \notin Pending
    <3>1. CASE n = id
      BY <1>3, <2>1, <3>1
    <3>2. CASE n # id
      BY <1>1, <1>3, <2>1, <3>2 DEF QueueOK
    <3> QED
      BY <3>1, <3>2
  <2>2. \A i \in DOMAIN s.commands : s.commands[i].kind # "model"
    BY <1>1 DEF QueueOK
  <2> QED
    BY <1>6, <2>1, <2>2 DEF QueueOK
<1> QED
  BY <1>3, <1>6, <1>8, <1>9, <1>10 DEF StoreOK, Advances
\* The next phase of the active relocation.
LEMMA PhaseSet ==
  ASSUME NEW s, NEW r, NEW phase \in OpenPhases, StoreOK(s), s.active # 0,
         phase \in Fencing => Active(s).phase \in Fencing, r = SetPhase(s, s.active, phase)
  PROVE  /\ StoreOK(r) /\ Advances(s, r) /\ DOMAIN r.rows = DOMAIN s.rows
         /\ r.active = s.active /\ Active(r) = [Active(s) EXCEPT !.phase = phase] /\ Active(r).phase = phase
         /\ Active(r).source = Active(s).source /\ Active(r).kind = Active(s).kind
         /\ r.runtimes = s.runtimes /\ r.flagged = s.flagged /\ r.identity = s.identity
         /\ r.commands = s.commands /\ r.seeds = s.seeds /\ r.mail = s.mail
<1> DEFINE row == [Active(s) EXCEPT !.phase = phase]
<1>1. s \in RStore /\ RowsOK(s)
  BY DEF StoreOK
<1>2. Active(s) \in Row /\ Active(s).code = "none" /\ Active(s) = s.rows[s.active]
  BY <1>1, ActiveRow
<1>3. /\ row \in Row /\ row.phase = phase /\ row.source = Active(s).source
      /\ row.kind = Active(s).kind /\ row.code = "none"
  BY <1>2 DEF Row, OpenPhases
<1>4. r = WithRow(s, row, s.active)
  BY <1>1, <1>2 DEF SetPhase, RStore, WithRow
<1> HIDE DEF row
<1>5. /\ StoreOK(r) /\ Advances(s, r) /\ DOMAIN r.rows = DOMAIN s.rows
      /\ r.rows[s.active] = row
      /\ r.active = s.active /\ r.runtimes = s.runtimes /\ r.flagged = s.flagged
      /\ r.identity = s.identity /\ r.commands = s.commands /\ r.seeds = s.seeds
      /\ r.mail = s.mail
  <2>1. MayBecome(s, row, s.active)
    BY <1>3 DEF MayBecome
  <2> QED
    BY <1>4, <2>1, RowReplaced
<1>6. Active(r) = row
  BY <1>5 DEF Active
<1> QED
  BY <1>3, <1>5, <1>6 DEF row

\* The active relocation over, with its outcome.
LEMMA Ended ==
  ASSUME NEW s, NEW r, NEW phase \in {"complete", "failed"},
         NEW code \in {"none", "superseded", "spawn_failed", "other"}, StoreOK(s), s.active # 0,
         r = [s EXCEPT !.rows[s.active] = [@ EXCEPT !.phase = phase, !.code = code], !.active = 0],
         Active(s).kind = "handoff" /\ code = "spawn_failed" => Active(s).source < Generation(s),
         code = "superseded" =>
           \A i \in DOMAIN s.commands : s.commands[i].kind = Names[s.active]
                                          => s.commands[i].status \notin Pending
  PROVE  /\ StoreOK(r) /\ Advances(s, r) /\ r.active = 0
         /\ r.runtimes = s.runtimes /\ r.flagged = s.flagged /\ r.identity = s.identity
         /\ r.commands = s.commands /\ r.seeds = s.seeds /\ r.mail = s.mail
<1> DEFINE row == [Active(s) EXCEPT !.phase = phase, !.code = code]
<1>1. s \in RStore /\ RowsOK(s)
  BY DEF StoreOK
<1>2. Active(s) \in Row /\ Active(s) = s.rows[s.active]
  BY <1>1, ActiveRow
<1>3. /\ row \in Row /\ row.phase = phase /\ row.source = Active(s).source
      /\ row.kind = Active(s).kind /\ row.code = code /\ phase \notin OpenPhases
  BY <1>2 DEF Row, OpenPhases, Fencing
<1>4. r = WithRow(s, row, 0)
  BY <1>1, <1>2 DEF RStore, WithRow
<1> HIDE DEF row
<1>5. MayBecome(s, row, 0)
  BY <1>3 DEF MayBecome
<1> QED
  BY <1>4, <1>5, RowReplaced

\* The relocation completes.
LEMMA Completed ==
  ASSUME NEW s, NEW r, StoreOK(s), s.active # 0, r = Complete(s, s.active)
  PROVE  /\ StoreOK(r) /\ Advances(s, r) /\ r.active = 0
         /\ r.runtimes = s.runtimes /\ r.flagged = s.flagged /\ r.identity = s.identity
         /\ r.commands = s.commands /\ r.seeds = s.seeds /\ r.mail = s.mail
<1>1. s \in RStore /\ RowsOK(s)
  BY DEF StoreOK
<1>2. Active(s) \in Row /\ Active(s) = s.rows[s.active] /\ Active(s).code = "none"
  BY <1>1, ActiveRow
<1>3. [Active(s) EXCEPT !.phase = "complete"] = [Active(s) EXCEPT !.phase = "complete", !.code = "none"]
  BY <1>2 DEF Row
<1>4. r = [s EXCEPT !.rows[s.active] = [@ EXCEPT !.phase = "complete"], !.active = 0]
  BY <1>1 DEF Complete, SetPhase, RStore
<1>5. r = [s EXCEPT !.rows[s.active] = [@ EXCEPT !.phase = "complete", !.code = "none"], !.active = 0]
  BY <1>2, <1>3, <1>4
<1> QED
  BY <1>5, Ended

\* The relocation fails.
LEMMA Failed ==
  ASSUME NEW s, NEW r, NEW code \in {"superseded", "spawn_failed", "other"}, StoreOK(s),
         s.active # 0, r = ApplyFail(s, s.active, code),
         Active(s).kind = "handoff" /\ code = "spawn_failed" => Active(s).source < Generation(s),
         code = "superseded" =>
           \A i \in DOMAIN s.commands : s.commands[i].kind = Names[s.active]
                                          => s.commands[i].status \notin Pending
  PROVE  /\ StoreOK(r) /\ Advances(s, r) /\ r.active = 0
         /\ r.runtimes = s.runtimes /\ r.flagged = s.flagged /\ r.identity = s.identity
         /\ r.commands = s.commands /\ r.seeds = s.seeds /\ r.mail = s.mail
<1>1. s \in RStore /\ RowsOK(s)
  BY DEF StoreOK
<1>2. Active(s) \in Row /\ Active(s) = s.rows[s.active] /\ s.active \in DOMAIN s.rows
  BY <1>1, ActiveRow
<1>3. r = [s EXCEPT !.rows[s.active] = [@ EXCEPT !.phase = "failed", !.code = code], !.active = 0]
  BY <1>1, <1>2 DEF ApplyFail, SetPhase, RStore
<1> QED
  BY <1>3, Ended, ZenonT(60)

\* The relocation called off, with the commands it had queued.
LEMMA Superseded ==
  ASSUME NEW s, NEW r, StoreOK(s), s.active # 0, r = ApplySupersede(s)
  PROVE  /\ StoreOK(r) /\ Advances(s, r) /\ r.active = 0
         /\ r.identity = s.identity
<1> DEFINE ids == {i \in DOMAIN s.commands : s.commands[i].kind = Names[s.active]}
           t == SettleCommands(s, ids)
           u == ApplyFail(t, t.active, "superseded")
<1>1. s \in RStore /\ RowsOK(s)
  BY DEF StoreOK
<1>2. /\ Queues(s, t) /\ DOMAIN t.commands = DOMAIN s.commands
      /\ \A i \in DOMAIN s.commands : /\ i \in ids => t.commands[i].status \notin Pending
                                      /\ t.commands[i].kind = s.commands[i].kind
  BY <1>1, SettleCommandsQueues
<1>3. /\ t.active = s.active /\ t.rows = s.rows /\ t.identity = s.identity /\ t \in RStore
      /\ Works(s, t)
  BY <1>2 DEF Queues, Works, SameRelocations
<1>4. StoreOK(t)
  BY <1>3, WorksInv
<1>5. \A i \in DOMAIN t.commands : t.commands[i].kind = Names[t.active]
                                     => t.commands[i].status \notin Pending
  BY <1>2, <1>3
<1>6. r = u
  <2> DEFINE q == [i \in DOMAIN s.commands |->
                     IF i \in ids /\ s.commands[i].status \in Pending
                       THEN [s.commands[i] EXCEPT !.status = "done"] ELSE s.commands[i]] \o <<>>
             rows == [s.rows EXCEPT ![s.active] = [@ EXCEPT !.phase = "failed", !.code = "superseded"]]
             f == ApplyFail(s, s.active, "superseded")
  <2>1. t = [s EXCEPT !.commands = q]
    BY DEF SettleCommands
  <2>2. f = [s EXCEPT !.rows = rows, !.active = 0]
    BY <1>1, ActiveRow DEF ApplyFail, SetPhase, RStore
  <2>3. f.commands = s.commands
    BY <1>1, <2>2 DEF RStore
  <2>4. r = [f EXCEPT !.commands = q]
    <3>1. r = SettleCommands(f, ids)
      BY DEF ApplySupersede
    <3> HIDE DEF f, ids
    <3> QED
      BY <2>3, <3>1 DEF SettleCommands
  <2>5. u = [t EXCEPT !.rows = rows, !.active = 0]
    <3>1. t.rows = s.rows /\ t.active = s.active /\ s.active \in DOMAIN s.rows
      BY <1>1, <1>3, ActiveRow
    <3> HIDE DEF t
    <3> QED
      BY <1>3, <3>1, ZenonT(60) DEF ApplyFail, SetPhase, RStore
  <2> HIDE DEF q, rows, f, t, u
  <2> QED
    BY <1>1, <2>1, <2>2, <2>4, <2>5 DEF RStore
<1> HIDE DEF t, u
<1>7. u = ApplyFail(t, t.active, "superseded") /\ t.active # 0
  BY <1>3 DEF u
<1>8. /\ StoreOK(u) /\ Advances(t, u) /\ u.active = 0 /\ u.identity = t.identity
  BY <1>4, <1>5, <1>7, Failed
<1> QED
  BY <1>3, <1>6, <1>8 DEF Advances
\* A relocation called off or over leaves nothing that must be quiet.
LEMMA OverState ==
  ASSUME NEW s, NEW r, NEW p, StateOK(s, p), StoreOK(r), r.active = 0, r.identity = s.identity
  PROVE  StateOK(r, p)
<1>1. QuietOK(r, p)
  BY DEF QuietOK, Quiet
<1>2. SameIdentity(r, p)
  BY DEF StateOK, SameIdentity
<1> QED
  BY <1>1, <1>2 DEF StateOK

\* An operator's verb.
LEMMA EnqueueState ==
  ASSUME NEW s, NEW p, StateOK(s, p), NEW verb \in Verbs, NEW kind \in Kinds \ {"model"}
  PROVE  /\ StateOK(Enqueue(s, verb, kind), p)
         /\ Advances(s, Enqueue(s, verb, kind))
<1>1. StoreOK(s) /\ s \in RStore
  BY DEF StateOK, StoreOK
<1>2. p.state \in {"up", "dying"} => p.identity = s.identity
  BY DEF StateOK, SameIdentity
<1>3. CASE s.active # 0 /\ Supersedes(verb, kind)
  <2> DEFINE t == ApplySupersede(s)
             u == EnqueueCommand(t, verb, kind)
             w == WakeForMail(u)
  <2>1. /\ StoreOK(t) /\ Advances(s, t) /\ t.active = 0 /\ t.identity = s.identity
    BY <1>1, <1>3, Superseded
  <2>2. Enqueue(s, verb, kind) = w
    BY <1>3 DEF Enqueue
  <2> HIDE DEF t
  <2>3. StateOK(t, p) /\ t \in RStore
    BY <2>1, OverState DEF StoreOK
  <2>4. Queues(t, u)
    BY <2>3, EnqueueCommandQueues
  <2> HIDE DEF u
  <2>5. StateOK(u, p) /\ u.rows = t.rows /\ u.identity = s.identity
    <3>1. u.identity = t.identity
      BY <2>4 DEF Queues, Works, SameRelocations
    <3> QED
      BY <1>2, <2>1, <2>3, <2>4, <3>1, QueuesStep
  <2>6. Queues(u, w)
    BY <2>5, WakeForMailQueues DEF StateOK, StoreOK
  <2> HIDE DEF w
  <2>7. StateOK(w, p) /\ w.rows = u.rows
    BY <1>2, <2>5, <2>6, QueuesStep
  <2> QED
    BY <2>1, <2>2, <2>5, <2>7 DEF Advances
<1>4. CASE ~(s.active # 0 /\ Supersedes(verb, kind))
  <2> DEFINE u == EnqueueCommand(s, verb, kind)
  <2>1. Enqueue(s, verb, kind) = u
    BY <1>4 DEF Enqueue
  <2>2. Queues(s, u)
    BY <1>1, EnqueueCommandQueues
  <2> HIDE DEF u
  <2>3. StateOK(u, p) /\ u.rows = s.rows
    BY <1>2, <2>2, QueuesStep
  <2> QED
    BY <2>1, <2>3 DEF Advances
<1> QED
  BY <1>3, <1>4

\* The active relocation fails, and what it held back is woken or revived.
LEMMA FailState ==
  ASSUME NEW s, NEW p, StateOK(s, p), s.active # 0, NEW code \in {"spawn_failed", "other"},
         Active(s).kind = "handoff" /\ code = "spawn_failed" => Active(s).source < Generation(s)
  PROVE  /\ StateOK(FailMove(s, s.active, code), p)
         /\ Advances(s, FailMove(s, s.active, code))
         /\ StateOK(FailHandoff(s, s.active, code), p)
         /\ Advances(s, FailHandoff(s, s.active, code))
<1> DEFINE t == ApplyFail(s, s.active, code)
           w == WakeForMail(t)
           e == ApplyEnqueue(t, "revive", "plain", TRUE)
<1>1. StoreOK(s) /\ (p.state \in {"up", "dying"} => p.identity = s.identity)
  BY DEF StateOK, SameIdentity
<1>2. StoreOK(t) /\ Advances(s, t) /\ t.active = 0 /\ t.identity = s.identity
  BY <1>1, Failed
<1>3. /\ FailMove(s, s.active, code) = w
      /\ FailHandoff(s, s.active, code) \in {w, e}
  BY DEF FailMove, FailHandoff
<1> HIDE DEF t
<1>4. StateOK(t, p) /\ t \in RStore
  BY <1>2, OverState DEF StoreOK
<1>5. Queues(t, w) /\ Queues(t, e)
  BY <1>4, WakeForMailQueues, ApplyEnqueueQueues DEF NewKind, Kinds, Verbs
<1> HIDE DEF w, e
<1>6. StateOK(w, p) /\ w.rows = t.rows /\ StateOK(e, p) /\ e.rows = t.rows
  BY <1>1, <1>2, <1>4, <1>5, QueuesStep
<1> QED
  BY <1>2, <1>3, <1>6 DEF Advances

\* A relocation admitted.
LEMMA RowAppended ==
  ASSUME NEW s, NEW r, NEW row \in Row, StoreOK(s), s.active = 0, Len(s.rows) < Len(Names),
         row.phase = "stopping", row.code = "none", row.source = Generation(s),
         r = [s EXCEPT !.active = Len(s.rows) + 1, !.rows = Append(@, row)]
  PROVE  /\ StoreOK(r) /\ Advances(s, r) /\ r.active = Len(s.rows) + 1
         /\ r.active # 0 /\ Active(r) = row /\ r.identity = s.identity
<1> DEFINE n == Len(s.rows) + 1
           rows == Append(s.rows, row)
<1>1. s \in RStore /\ RowsOK(s) /\ MailOK(s) /\ QueueOK(s)
  BY DEF StoreOK
<1>2. s.rows \in Seq(Row) /\ Len(s.rows) \in Nat /\ DOMAIN s.rows = 1 .. Len(s.rows)
  BY <1>1, RFields, RElements
<1>3. /\ rows \in Seq(Row) /\ Len(rows) = n /\ rows[n] = row /\ DOMAIN rows = 1 .. n
      /\ \A i \in 1 .. Len(s.rows) : rows[i] = s.rows[i]
  BY <1>2, AppendProperties, LenProperties
<1>4. n \in Nat /\ n # 0 /\ n \notin DOMAIN s.rows /\ n \in DOMAIN rows
      /\ DOMAIN s.rows \subseteq DOMAIN rows /\ n = Len(s.rows) + 1 /\ n <= Len(Names)
  <2>1. Len(Names) \in Nat
    BY RelocationAssumption, LenProperties
  <2> QED
    BY <1>2, <1>3, <2>1
<1>5. \A i \in DOMAIN rows : i = n \/ (i \in DOMAIN s.rows /\ i # n /\ rows[i] = s.rows[i])
  BY <1>2, <1>3
<1>6. r = [s EXCEPT !.active = n, !.rows = rows]
  OBVIOUS
<1> HIDE DEF n, rows
<1>7. /\ r \in RStore /\ r.rows = rows /\ r.active = n /\ r.runtimes = s.runtimes
      /\ r.identity = s.identity /\ r.commands = s.commands
      /\ r.seeds = s.seeds /\ r.mail = s.mail
  BY <1>1, <1>3, <1>4, <1>6 DEF RStore
<1>8. Generation(r) = Generation(s) /\ Active(r) = row
  BY <1>3, <1>7 DEF Generation, Active
<1>9. RowsOK(r)
  <2>1. ASSUME NEW i \in DOMAIN rows
        PROVE  /\ rows[i].phase \in OpenPhases <=> n = i
               /\ n = i => rows[i].code = "none"
               /\ rows[i].source <= Generation(s)
               /\ rows[i].kind = "handoff" /\ rows[i].code = "spawn_failed"
                    => rows[i].source < Generation(s)
    <3>1. CASE i = n
      <4>1. Generation(s) \in Nat
        BY <1>1, RElements
      <4> QED
        BY <1>3, <3>1, <4>1 DEF OpenPhases, Fencing
    <3>2. CASE i # n
      <4>1. i \in DOMAIN s.rows /\ rows[i] = s.rows[i] /\ i # 0
        BY <1>2, <1>5, <3>2
      <4> QED
        BY <1>1, <3>2, <4>1 DEF RowsOK
    <3> QED
      BY <3>1, <3>2
  <2>2. s.identity <= n
    BY <1>1, <1>2, <1>4, RFields DEF RowsOK
  <2> QED
    BY <1>1, <1>3, <1>4, <1>7, <1>8, <2>1, <2>2 DEF RowsOK
<1>10. MailOK(r)
  <2>1. Len(s.seeds) \in Nat /\ Len(s.seeds) <= Len(s.rows)
    BY <1>1, RElements DEF MailOK
  <2>2. Len(s.seeds) < n
    BY <1>2, <1>4, <2>1
  <2>3. Len(s.seeds) <= n
    BY <1>2, <1>4, <2>1
  <2> QED
    BY <1>1, <1>3, <1>4, <1>7, <2>2, <2>3 DEF MailOK
<1>11. QueueOK(r)
  <2>1. ASSUME NEW i \in DOMAIN s.commands, NEW m \in DOMAIN rows,
               s.commands[i].kind = Names[m], rows[m].code = "superseded"
        PROVE  s.commands[i].status \notin Pending
    <3>1. m \in DOMAIN s.rows /\ rows[m] = s.rows[m]
      BY <1>3, <1>5, <2>1
    <3> QED
      BY <1>1, <2>1, <3>1 DEF QueueOK
  <2>2. \A i \in DOMAIN s.commands : s.commands[i].kind # "model"
    BY <1>1 DEF QueueOK
  <2> QED
    BY <1>7, <2>1, <2>2 DEF QueueOK
<1> QED
  BY <1>4, <1>7, <1>8, <1>9, <1>10, <1>11 DEF StoreOK, Advances

\* The admission of a relocation: its row, the settled starts, its stop.
LEMMA AdmitState ==
  ASSUME NEW s, NEW p, StateOK(s, p), s.active = 0, Len(s.rows) < Len(Names),
         NEW kind \in {"move", "handoff"}, NEW atIdle \in BOOLEAN
  PROVE  /\ StateOK(Admit(s, kind, atIdle), p)
         /\ Advances(s, Admit(s, kind, atIdle))
<1> DEFINE row == [kind |-> kind, source |-> Generation(s), phase |-> "stopping",
                   code |-> "none", wasLive |-> Live(s), atIdle |-> atIdle]
           n == Len(s.rows) + 1
           t == [s EXCEPT !.active = n, !.rows = Append(@, row)]
           u == SettleStarts(t)
           e == ApplyEnqueue(u, "stop", Names[n], TRUE)
<1>1. StoreOK(s) /\ s \in RStore /\ (p.state \in {"up", "dying"} => p.identity = s.identity)
  BY DEF StateOK, SameIdentity, StoreOK
<1>2. row \in Row /\ row.phase = "stopping" /\ row.code = "none" /\ row.source = Generation(s)
  <2>1. Generation(s) \in Nat /\ Live(s) \in BOOLEAN
    BY <1>1, RElements DEF Live
  <2> QED
    BY <2>1 DEF Row, Fencing
<1>3. Admit(s, kind, atIdle) = e
  BY DEF Admit
<1> HIDE DEF row
<1>4. /\ StoreOK(t) /\ Advances(s, t) /\ t.active = n /\ t.active # 0
      /\ Active(t) = row /\ t.identity = s.identity
  BY <1>1, <1>2, RowAppended
<1> HIDE DEF n, t
<1>5. t \in RStore /\ RowsOK(t)
  BY <1>4 DEF StoreOK
<1>6. StateOK(t, p)
  <2>1. QuietOK(t, p)
    BY <1>2, <1>4 DEF QuietOK, Quiet
  <2> QED
    BY <1>1, <1>4, <2>1 DEF StateOK, SameIdentity
<1>7. Queues(t, u)
  BY <1>5, SettleStartsQueues
<1> HIDE DEF u
<1>8. /\ StateOK(u, p) /\ u.rows = t.rows /\ u \in RStore /\ u.active = n /\ u.active # 0
      /\ u.identity = s.identity
  <2>1. u.active = t.active /\ u.identity = t.identity /\ u \in RStore
    BY <1>7 DEF Queues, Works, SameRelocations
  <2>2. StateOK(u, p) /\ u.rows = t.rows
    BY <1>1, <1>4, <1>6, <1>7, QueuesStep
  <2> QED
    BY <1>4, <2>1, <2>2
<1>9. Names[n] \in Keys
  <2>1. n \in DOMAIN t.rows
    BY <1>4, <1>5, ActiveRow
  <2> QED
    BY <1>5, <2>1, NamesDiffer
<1>10. NewKind(u, Names[n])
  BY <1>8 DEF NewKind
<1>11. Queues(u, e)
  BY <1>8, <1>9, <1>10, ApplyEnqueueQueues DEF Verbs
<1> HIDE DEF e
<1>12. StateOK(e, p) /\ e.rows = u.rows
  BY <1>1, <1>8, <1>11, QueuesStep
<1> QED
  BY <1>3, <1>4, <1>8, <1>12 DEF Advances
Rewritten(s, substrate) == [s EXCEPT !.substrate = substrate, !.identity = s.active]

WithMail(s, mail, seeds) == [s EXCEPT !.mail = mail, !.seeds = seeds]

MailFits(s, mail, seeds) ==
  /\ Len(seeds) <= mail /\ mail <= MaxMail + Len(seeds) /\ Len(seeds) <= Len(s.rows)
  /\ Fences(s) => Len(seeds) < Len(s.rows)
  /\ \A i \in DOMAIN seeds : seeds[i] \in DOMAIN s.rows

\* The bee's row rewritten.
LEMMA IdentitySet ==
  ASSUME NEW s, NEW r, NEW substrate \in {"cell", "checkout"}, StoreOK(s), s.active # 0,
         r = Rewritten(s, substrate)
  PROVE  /\ StoreOK(r) /\ r.rows = s.rows /\ r.active = s.active /\ r.identity = s.active
         /\ r.runtimes = s.runtimes /\ r.flagged = s.flagged /\ r.commands = s.commands
         /\ r.seeds = s.seeds /\ r.mail = s.mail
<1>1. s \in RStore /\ RowsOK(s) /\ MailOK(s) /\ QueueOK(s)
  BY DEF StoreOK
<1>2. s.active \in Nat /\ s.active <= Len(s.rows)
  <2>1. DOMAIN s.rows = 1 .. Len(s.rows) /\ Len(s.rows) \in Nat
    BY <1>1, RElements
  <2>2. s.active \in DOMAIN s.rows
    BY <1>1, ActiveRow
  <2> QED
    BY <2>1, <2>2
<1>3. /\ r \in RStore /\ r.rows = s.rows /\ r.active = s.active /\ r.identity = s.active
      /\ r.runtimes = s.runtimes /\ r.flagged = s.flagged /\ r.commands = s.commands
      /\ r.seeds = s.seeds /\ r.mail = s.mail
  BY <1>1, <1>2 DEF RStore, Rewritten
<1>4. Generation(r) = Generation(s) /\ (Fences(r) => Fences(s))
  BY <1>3 DEF Generation, Fences, Active
<1>5. RowsOK(r)
  BY <1>1, <1>2, <1>3, <1>4 DEF RowsOK
<1>6. MailOK(r)
  BY <1>1, <1>3, <1>4 DEF MailOK
<1>7. QueueOK(r)
  BY <1>1, <1>3 DEF QueueOK
<1> QED
  BY <1>3, <1>5, <1>6, <1>7 DEF StoreOK

\* Messages and seeds changed.
LEMMA MailSet ==
  ASSUME NEW s, NEW r, NEW mail \in Nat, NEW seeds \in Seq(Nat), StoreOK(s),
         r = WithMail(s, mail, seeds), MailFits(s, mail, seeds)
  PROVE  /\ StoreOK(r) /\ r.rows = s.rows /\ r.active = s.active /\ r.identity = s.identity
         /\ r.runtimes = s.runtimes /\ r.flagged = s.flagged /\ r.commands = s.commands
         /\ r.seeds = seeds /\ r.mail = mail
<1>1. s \in RStore /\ RowsOK(s) /\ MailOK(s) /\ QueueOK(s)
  BY DEF StoreOK
<1>2. /\ r \in RStore /\ r.rows = s.rows /\ r.active = s.active /\ r.identity = s.identity
      /\ r.runtimes = s.runtimes /\ r.flagged = s.flagged /\ r.commands = s.commands
      /\ r.seeds = seeds /\ r.mail = mail
  BY <1>1 DEF RStore, WithMail
<1>3. Generation(r) = Generation(s) /\ (Fences(r) => Fences(s))
  BY <1>2 DEF Generation, Fences, Active
<1>4. RowsOK(r)
  BY <1>1, <1>2, <1>3 DEF RowsOK
<1>5. MailOK(r)
  BY <1>2, <1>3 DEF MailOK, MailFits
<1>6. QueueOK(r)
  BY <1>1, <1>2 DEF QueueOK
<1> QED
  BY <1>2, <1>4, <1>5, <1>6 DEF StoreOK

QueueRevive(s, kind) == ApplyEnqueue(s, "revive", kind, TRUE)

\* The revive is queued for the same generation before and after the phase.
LEMMA PhaseAfterEnqueue ==
  ASSUME NEW s \in RStore, NEW id, NEW phase, NEW kind
  PROVE  SetPhase(QueueRevive(s, kind), id, phase)
           = QueueRevive(SetPhase(s, id, phase), kind)
<1> DEFINE c == NewCommand(s, "revive", kind, TRUE)
           rows == [s.rows EXCEPT ![id].phase = phase]
           a == QueueRevive(s, kind)
           t == SetPhase(s, id, phase)
<1>1. a = [s EXCEPT !.commands = Append(s.commands, c)]
  BY DEF QueueRevive, ApplyEnqueue
<1>2. t = [s EXCEPT !.rows = rows]
  BY DEF SetPhase
<1>3. a.rows = s.rows /\ t.commands = s.commands /\ t.runtimes = s.runtimes
  BY <1>1, <1>2 DEF RStore
<1>4. NewCommand(t, "revive", kind, TRUE) = c
  BY <1>3 DEF NewCommand, Generation
<1> HIDE DEF c, rows, a, t
<1>5. SetPhase(a, id, phase) = [a EXCEPT !.rows = rows]
  BY <1>3 DEF SetPhase, rows
<1>6. QueueRevive(t, kind) = [t EXCEPT !.commands = Append(s.commands, c)]
  BY <1>3, <1>4 DEF QueueRevive, ApplyEnqueue
<1>7. [a EXCEPT !.rows = rows] = [t EXCEPT !.commands = Append(s.commands, c)]
  BY <1>1, <1>2 DEF RStore
<1> QED
  BY <1>5, <1>6, <1>7 DEF a, t

\* The revive of the active relocation queued.
LEMMA ReviveQueued ==
  ASSUME NEW s, NEW p, StateOK(s, p), s.active # 0
  PROVE  /\ StateOK(QueueRevive(s, Names[s.active]), p)
         /\ QueueRevive(s, Names[s.active]).rows = s.rows
<1>1. s \in RStore /\ RowsOK(s) /\ (p.state \in {"up", "dying"} => p.identity = s.identity)
  BY DEF StateOK, StoreOK, SameIdentity
<1>2. Names[s.active] \in Keys
  BY <1>1, ActiveRow, NamesDiffer
<1>3. Queues(s, QueueRevive(s, Names[s.active]))
  BY <1>1, <1>2, ApplyEnqueueQueues DEF NewKind, Verbs, QueueRevive
<1> QED
  BY <1>1, <1>3, QueuesStep

\* A move's placement committed.
LEMMA CommitPlacementState ==
  ASSUME NEW s, NEW p, StateOK(s, p), s.active # 0, Active(s).phase = "placing",
         Active(s).kind = "move"
  PROVE  /\ StateOK(CommitPlacement(s, s.active), p)
         /\ Advances(s, CommitPlacement(s, s.active))
<1> DEFINE t == Rewritten(s, "checkout")
           u == SetPhase(t, t.active, "starting")
<1>1. StoreOK(s) /\ p.state = "none"
  BY DEF StateOK, QuietOK, Quiet
<1>2. StoreOK(t) /\ t.rows = s.rows /\ t.active = s.active
  BY <1>1, IdentitySet
<1>3. CommitPlacement(s, s.active) = SetPhase(QueueRevive(t, Names[s.active]), s.active, "starting")
  BY DEF CommitPlacement, Rewritten, QueueRevive
<1> HIDE DEF t
<1>4. CommitPlacement(s, s.active) = QueueRevive(u, Names[s.active])
  <2>1. t \in RStore
    BY <1>2 DEF StoreOK
  <2>2. SetPhase(QueueRevive(t, Names[s.active]), s.active, "starting")
          = QueueRevive(SetPhase(t, s.active, "starting"), Names[s.active])
    BY <2>1, PhaseAfterEnqueue
  <2> QED
    BY <1>2, <1>3, <2>2
<1>5. Active(t) = Active(s)
  BY <1>2 DEF Active
<1>6. /\ StoreOK(u) /\ Advances(t, u) /\ u.active = t.active
      /\ Active(u).phase = "starting" /\ Active(u).kind = Active(t).kind
  BY <1>2, PhaseSet DEF OpenPhases, Fencing
<1> HIDE DEF u
<1>7. StateOK(u, p)
  BY <1>1, <1>5, <1>6 DEF StateOK, QuietOK, Quiet, SameIdentity
<1>8. /\ StateOK(QueueRevive(u, Names[u.active]), p)
      /\ QueueRevive(u, Names[u.active]).rows = u.rows
  BY <1>2, <1>6, <1>7, ReviveQueued
<1> QED
  BY <1>2, <1>4, <1>6, <1>8 DEF Advances

\* A handoff's switch: the row, the budget, the seed and the revive.
LEMMA SwitchState ==
  ASSUME NEW s, NEW p, StateOK(s, p), s.active # 0, Active(s).phase = "summarizing"
  PROVE  /\ StateOK(Switch(s, s.active), p)
         /\ Advances(s, Switch(s, s.active))
<1> DEFINE id == s.active
           b == ResetSpawnFailures(s)
           i == Rewritten(b, b.substrate)
           u == SetPhase(i, i.active, "starting")
           m == WithMail(u, u.mail + 1, Append(u.seeds, id))
<1>1. /\ StoreOK(s) /\ s \in RStore /\ p.state = "none" /\ Active(s).source = Generation(s)
      /\ Current(s).state = "stopped"
  BY DEF StateOK, QuietOK, Quiet, StoreOK
<1>2. /\ StoreOK(b) /\ b \in RStore /\ b.rows = s.rows /\ b.active = id
      /\ b.runtimes = s.runtimes /\ b.flagged = FALSE /\ b.seeds = s.seeds /\ b.mail = s.mail
      /\ b.substrate \in {"cell", "checkout"}
  <2>1. Works(s, b) /\ b.runtimes = s.runtimes /\ b.flagged = FALSE
    BY <1>1, ResetWorks
  <2>2. b \in RStore /\ SameRelocations(s, b)
    BY <2>1 DEF Works
  <2>3. StoreOK(b) /\ b.substrate \in {"cell", "checkout"}
    BY <1>1, <2>1, <2>2, WorksInv, RFields
  <2> QED
    BY <2>1, <2>2, <2>3 DEF SameRelocations
<1> HIDE DEF b
<1>3. /\ StoreOK(i) /\ i.rows = s.rows /\ i.active = id /\ i.runtimes = s.runtimes
      /\ i.flagged = FALSE /\ i.seeds = s.seeds /\ i.mail = s.mail /\ i \in RStore
  <2>1. /\ StoreOK(i) /\ i.rows = s.rows /\ i.active = id /\ i.runtimes = s.runtimes
        /\ i.flagged = FALSE /\ i.seeds = s.seeds /\ i.mail = s.mail
    BY <1>2, IdentitySet
  <2> QED
    BY <2>1 DEF StoreOK
<1>4. i = [b EXCEPT !.identity = id]
  BY <1>2 DEF RStore, Rewritten
<1> HIDE DEF i
<1>5. Active(i) = Active(s)
  BY <1>3 DEF Active
<1>6. /\ StoreOK(u) /\ Advances(s, u) /\ DOMAIN u.rows = DOMAIN s.rows /\ u.active = id
      /\ Active(u).phase = "starting" /\ Active(u).source = Active(s).source
      /\ u.runtimes = s.runtimes /\ u.flagged = FALSE /\ u.seeds = s.seeds /\ u.mail = s.mail
  <2>1. /\ StoreOK(u) /\ Advances(i, u) /\ DOMAIN u.rows = DOMAIN i.rows /\ u.active = i.active
        /\ Active(u).phase = "starting" /\ Active(u).source = Active(i).source
        /\ u.runtimes = i.runtimes /\ u.flagged = i.flagged /\ u.seeds = i.seeds
        /\ u.mail = i.mail
    BY <1>3, PhaseSet DEF OpenPhases, Fencing
  <2> HIDE DEF u
  <2>2. Advances(s, u)
    BY <1>3, <2>1 DEF Advances
  <2> QED
    BY <1>3, <1>5, <2>1, <2>2
<1>7. Switch(s, id) = QueueRevive(m, Names[id])
  <2> DEFINE w == [b EXCEPT !.identity = id, !.mail = @ + 1, !.seeds = Append(@, id)]
  <2>1. Switch(s, id) = SetPhase(QueueRevive(w, Names[id]), id, "starting")
    BY DEF Switch, b, QueueRevive
  <2>2. id \in Nat /\ b.mail \in Nat /\ b.seeds \in Seq(Nat)
    BY <1>1, <1>2, RFields
  <2>3. b.mail + 1 \in Nat /\ Append(b.seeds, id) \in Seq(Nat)
    BY <2>2, AppendProperties
  <2>4. w \in RStore
    BY <1>2, <2>2, <2>3 DEF RStore
  <2>5. SetPhase(w, id, "starting") = m
    <3>1. w.rows = s.rows /\ w = [i EXCEPT !.mail = s.mail + 1, !.seeds = Append(s.seeds, id)]
      BY <1>2, <1>4 DEF RStore
    <3>2. u = [i EXCEPT !.rows = [s.rows EXCEPT ![id].phase = "starting"]]
      BY <1>3 DEF SetPhase
    <3>3. SetPhase(w, id, "starting") = [w EXCEPT !.rows = [s.rows EXCEPT ![id].phase = "starting"]]
      BY <3>1 DEF SetPhase
    <3>4. m = [u EXCEPT !.mail = s.mail + 1, !.seeds = Append(s.seeds, id)]
      BY <1>6 DEF WithMail
    <3> HIDE DEF u, w, m
    <3> QED
      BY <1>3, <3>1, <3>2, <3>3, <3>4 DEF RStore
  <2> HIDE DEF w, m
  <2>6. SetPhase(QueueRevive(w, Names[id]), id, "starting")
          = QueueRevive(SetPhase(w, id, "starting"), Names[id])
    BY <2>4, PhaseAfterEnqueue
  <2> QED
    BY <2>1, <2>5, <2>6
<1> HIDE DEF u
<1>8. /\ StoreOK(m) /\ m.rows = u.rows /\ m.active = id /\ m.runtimes = s.runtimes
      /\ m.flagged = FALSE
  <2> DEFINE seeds == Append(u.seeds, id)
             mail == u.mail + 1
  <2>1. /\ MailOK(s) /\ Fences(s) /\ s.seeds \in Seq(Nat) /\ Len(s.seeds) \in Nat /\ s.mail \in Nat
        /\ id \in Nat /\ id \in DOMAIN s.rows /\ Len(s.rows) \in Nat /\ DOMAIN s.rows = 1 .. Len(s.rows)
    BY <1>1, RFields, RElements, ActiveRow DEF StoreOK, Fences, Fencing
  <2>2. /\ seeds \in Seq(Nat) /\ Len(seeds) = Len(s.seeds) + 1 /\ seeds[Len(s.seeds) + 1] = id
        /\ DOMAIN seeds = 1 .. Len(s.seeds) + 1 /\ DOMAIN s.seeds = 1 .. Len(s.seeds)
        /\ \A j \in 1 .. Len(s.seeds) : seeds[j] = s.seeds[j]
    BY <1>6, <2>1, AppendProperties, LenProperties
  <2>3. mail \in Nat /\ mail = s.mail + 1
    BY <1>6, <2>1
  <2>4. Len(u.rows) = Len(s.rows)
    <3>1. DOMAIN u.rows = 1 .. Len(u.rows) /\ Len(u.rows) \in Nat
      BY <1>6, RElements DEF StoreOK
    <3> QED
      BY <1>6, <2>1, <3>1
  <2>5. m = WithMail(u, mail, seeds)
    OBVIOUS
  <2> HIDE DEF seeds, mail, m
  <2>6. /\ Len(s.seeds) < Len(s.rows) /\ Len(s.seeds) <= s.mail /\ s.mail <= MaxMail + Len(s.seeds)
    BY <2>1 DEF MailOK
  <2>7. Len(seeds) <= mail /\ mail <= MaxMail + Len(seeds) /\ Len(seeds) <= Len(u.rows)
    BY <2>1, <2>2, <2>3, <2>4, <2>6, RelocationAssumption, SMTT(30)
  <2>8. ASSUME NEW j \in DOMAIN seeds PROVE seeds[j] \in DOMAIN u.rows
    <3>1. CASE j = Len(s.seeds) + 1
      BY <1>6, <2>1, <2>2, <3>1
    <3>2. CASE j # Len(s.seeds) + 1
      <4>1. j \in 1 .. Len(s.seeds)
        BY <2>1, <2>2, <3>2
      <4> QED
        BY <1>6, <2>1, <2>2, <4>1 DEF MailOK
    <3> QED
      BY <3>1, <3>2
  <2>9. ~Fences(u)
    BY <1>6 DEF Fences, Fencing
  <2>10. MailFits(u, mail, seeds)
    BY <2>7, <2>8, <2>9 DEF MailFits
  <2>11. StoreOK(u) /\ mail \in Nat /\ seeds \in Seq(Nat)
    BY <1>6, <2>2, <2>3
  <2>12. /\ StoreOK(m) /\ m.rows = u.rows /\ m.active = u.active /\ m.runtimes = u.runtimes
         /\ m.flagged = u.flagged
    BY <2>5, <2>10, <2>11, MailSet
  <2> QED
    BY <1>6, <2>12
<1> HIDE DEF m
<1>9. StateOK(m, p)
  <2>1. Active(m) = Active(u)
    BY <1>6, <1>8 DEF Active
  <2>2. Generation(m) = Generation(s) /\ Current(m) = Current(s)
    BY <1>8 DEF Generation, Current
  <2> QED
    BY <1>1, <1>6, <1>8, <2>1, <2>2 DEF StateOK, QuietOK, Quiet, SameIdentity
<1>10. /\ StateOK(QueueRevive(m, Names[m.active]), p)
       /\ QueueRevive(m, Names[m.active]).rows = m.rows
  BY <1>8, <1>9, ReviveQueued
<1> QED
  BY <1>6, <1>7, <1>8, <1>10 DEF Advances
\* Messages come and go while the relocations stay as they are.
LEMMA MailState ==
  ASSUME NEW s, NEW p, StateOK(s, p), NEW mail \in Nat, NEW seeds \in Seq(Nat),
         MailFits(s, mail, seeds)
  PROVE  /\ StateOK(WithMail(s, mail, seeds), p) /\ WithMail(s, mail, seeds).rows = s.rows
         /\ WithMail(s, mail, seeds).runtimes = s.runtimes
         /\ WithMail(s, mail, seeds).active = s.active
<1> DEFINE r == WithMail(s, mail, seeds)
<1>1. StoreOK(s) /\ s \in RStore /\ RowsOK(s) /\ QuietOK(s, p) /\ SameIdentity(s, p)
  BY DEF StateOK, StoreOK
<1>2. /\ StoreOK(r) /\ r.rows = s.rows /\ r.active = s.active /\ r.identity = s.identity
      /\ r.runtimes = s.runtimes /\ r.flagged = s.flagged
  BY <1>1, MailSet
<1> HIDE DEF r
<1>3. Generation(r) = Generation(s) /\ Generation(s) \in Nat /\ r \in RStore
  BY <1>1, <1>2, RElements DEF Generation, StoreOK
<1>4. Quiet(s) => p.state = "none"
  BY <1>1 DEF QuietOK
<1>5. QuietOK(r, p)
  <2>1. Generation(s) <= Generation(r)
    BY <1>3
  <2>2. Quiet(s) => \/ ~Quiet(r)
                    \/ r.runtimes = s.runtimes /\ p.state = "none" /\ (r.flagged => s.flagged)
    BY <1>2, <1>4
  <2> QED
    BY <1>1, <1>2, <1>3, <2>1, <2>2, QuietKept
<1>6. SameIdentity(r, p)
  BY <1>1, <1>2 DEF SameIdentity
<1>7. StateOK(r, p)
  BY <1>2, <1>5, <1>6 DEF StateOK
<1> QED
  BY <1>2, <1>7 DEF r

\* A message is sent.
LEMMA SendState ==
  ASSUME NEW s, NEW p, StateOK(s, p), s.mail < MaxMail
  PROVE  /\ StateOK(WakeForMail([UnarchiveBee(s) EXCEPT !.mail = @ + 1]), p)
         /\ Advances(s, WakeForMail([UnarchiveBee(s) EXCEPT !.mail = @ + 1]))
<1> DEFINE u == UnarchiveBee(s)
           m == [u EXCEPT !.mail = @ + 1]
           w == WakeForMail(m)
<1>1. s \in RStore /\ StoreOK(s) /\ QuietOK(s, p) /\ SameIdentity(s, p)
  BY DEF StateOK, StoreOK
<1>2. Works(s, u) /\ u.runtimes = s.runtimes /\ u.flagged = s.flagged
  BY <1>1, LifecycleWorks
<1> HIDE DEF u
<1>3. StateOK(u, p) /\ u.rows = s.rows
  <2>1. Quiet(s) => p.state = "none"
    BY <1>1 DEF QuietOK
  <2>2. p.state \in {"up", "dying"} => p.identity = s.identity
    BY <1>1 DEF SameIdentity
  <2> QED
    BY <1>2, <2>1, <2>2, WorksStep
<1>4. u \in RStore /\ MailOK(u) /\ u.mail = s.mail
  BY <1>2, <1>3 DEF StateOK, StoreOK, Works, SameRelocations
<1>5. u.mail + 1 \in Nat /\ u.seeds \in Seq(Nat) /\ MailFits(u, u.mail + 1, u.seeds)
  <2>1. u.mail \in Nat /\ Len(u.seeds) \in Nat /\ u.seeds \in Seq(Nat) /\ MaxMail \in Nat
    BY <1>4, RFields, RElements, RelocationAssumption
  <2>2. Len(u.seeds) <= u.mail + 1 /\ u.mail + 1 <= MaxMail + Len(u.seeds)
    BY <1>4, <2>1 DEF MailOK
  <2>3. u.mail + 1 \in Nat
    BY <2>1
  <2> QED
    BY <1>4, <2>1, <2>2, <2>3 DEF MailFits, MailOK
<1>6. m = WithMail(u, u.mail + 1, u.seeds)
  BY <1>4 DEF WithMail, RStore
<1>7. StateOK(m, p) /\ m.rows = u.rows
  BY <1>3, <1>5, <1>6, MailState
<1> HIDE DEF m
<1>8. Queues(m, w)
  BY <1>7, WakeForMailQueues DEF StateOK, StoreOK
<1> HIDE DEF w
<1>9. StateOK(w, p) /\ w.rows = m.rows
  <2>1. p.state \in {"up", "dying"} => p.identity = m.identity
    BY <1>7 DEF StateOK, SameIdentity
  <2> QED
    BY <1>7, <1>8, <2>1, QueuesStep
<1> QED
  BY <1>3, <1>7, <1>9 DEF w, m, u, Advances

\* The next message taken off, the newest seed first.
LEMMA TakenState ==
  ASSUME NEW s, NEW p, StateOK(s, p), s.mail > 0, NEW seeds,
         seeds = IF s.seeds # <<>> THEN SubSeq(s.seeds, 1, Len(s.seeds) - 1) ELSE <<>>
  PROVE  /\ StateOK(WithMail(s, s.mail - 1, seeds), p)
         /\ WithMail(s, s.mail - 1, seeds).rows = s.rows
         /\ WithMail(s, s.mail - 1, seeds).runtimes = s.runtimes
         /\ WithMail(s, s.mail - 1, seeds).active = s.active
<1>1. s \in RStore /\ MailOK(s)
  BY DEF StateOK, StoreOK
<1>2. /\ s.seeds \in Seq(Nat) /\ Len(s.seeds) \in Nat /\ DOMAIN s.seeds = 1 .. Len(s.seeds)
      /\ s.mail \in Nat /\ MaxMail \in Nat /\ Len(s.rows) \in Nat
  BY <1>1, RFields, RElements, RelocationAssumption
<1>3. /\ Len(s.seeds) <= s.mail /\ s.mail <= MaxMail + Len(s.seeds)
      /\ Len(s.seeds) <= Len(s.rows) /\ (Fences(s) => Len(s.seeds) < Len(s.rows))
      /\ \A i \in DOMAIN s.seeds : s.seeds[i] \in DOMAIN s.rows
  BY <1>1 DEF MailOK
<1>4. s.mail - 1 \in Nat
  BY <1>2
<1>5. CASE s.seeds = <<>>
  <2>1. seeds = <<>> /\ seeds \in Seq(Nat) /\ Len(seeds) = 0 /\ DOMAIN seeds = {}
        /\ Len(s.seeds) = 0
    BY <1>5, EmptySeq
  <2>2. MailFits(s, s.mail - 1, seeds)
    BY <1>2, <1>3, <2>1 DEF MailFits
  <2> QED
    BY <1>4, <2>1, <2>2, MailState
<1>6. CASE s.seeds # <<>>
  <2>1. seeds = SubSeq(s.seeds, 1, Len(s.seeds) - 1) /\ Len(s.seeds) # 0
    BY <1>2, <1>6, EmptySeq
  <2>2. Len(s.seeds) - 1 \in Int /\ \A i \in 1 .. Len(s.seeds) - 1 : s.seeds[i] \in Nat
    <3>1. \A i \in DOMAIN s.seeds : s.seeds[i] \in Nat
      BY <1>2, ElementOfSeq
    <3> QED
      BY <1>2, <3>1
  <2>3. /\ seeds \in Seq(Nat)
        /\ Len(seeds) = (IF 1 <= Len(s.seeds) - 1 THEN Len(s.seeds) - 1 - 1 + 1 ELSE 0)
        /\ \A i \in 1 .. Len(s.seeds) - 1 - 1 + 1 : seeds[i] = s.seeds[1 + i - 1]
    BY <2>1, <2>2, SubSeqProperties
  <2>4. Len(seeds) = Len(s.seeds) - 1
    BY <1>2, <2>1, <2>3
  <2>5. DOMAIN seeds = 1 .. Len(s.seeds) - 1
    BY <2>3, <2>4, LenProperties
  <2>6. ASSUME NEW i \in DOMAIN seeds PROVE seeds[i] \in DOMAIN s.rows
    <3>1. i \in DOMAIN s.seeds /\ seeds[i] = s.seeds[i]
      BY <1>2, <2>3, <2>5
    <3> QED
      BY <1>3, <3>1
  <2>7. Len(seeds) <= s.mail - 1 /\ s.mail - 1 <= MaxMail + Len(seeds) /\ Len(seeds) <= Len(s.rows)
        /\ (Fences(s) => Len(seeds) < Len(s.rows))
    BY <1>2, <1>3, <2>4, SMTT(30)
  <2>8. MailFits(s, s.mail - 1, seeds)
    BY <2>6, <2>7 DEF MailFits
  <2> QED
    BY <1>4, <2>3, <2>8, MailState
<1> QED
  BY <1>5, <1>6

\* A message delivered: what it completes, and the turn it opens.
LEMMA DeliverState ==
  ASSUME NEW s, NEW p, StateOK(s, p), s.mail > 0, Current(s).state \in {"running", "idle"}
  PROVE  /\ StateOK(UpdateRuntimeState(DeliverTo(s), Generation(s), "running", "none", FALSE, FALSE), p)
         /\ Advances(s, UpdateRuntimeState(DeliverTo(s), Generation(s), "running", "none",
                                           FALSE, FALSE))
<1> DEFINE seeds == IF s.seeds # <<>> THEN SubSeq(s.seeds, 1, Len(s.seeds) - 1) ELSE <<>>
           first == IF s.seeds # <<>> THEN s.seeds[Len(s.seeds)] ELSE 0
           m == WithMail(s, s.mail - 1, seeds)
           d == DeliverTo(s)
           r == UpdateRuntimeState(d, Generation(s), "running", "none", FALSE, FALSE)
<1>1. StateOK(m, p) /\ m.rows = s.rows /\ m.runtimes = s.runtimes /\ m.active = s.active
  BY TakenState
<1>2. d = Arrival(m, first)
  BY DEF DeliverTo, WithMail
<1> HIDE DEF m, first
<1>3. d = m \/ (m.active # 0 /\ d = Complete(m, m.active))
  BY <1>2 DEF Arrival
<1>4. /\ StateOK(d, p) /\ Advances(s, d) /\ d.runtimes = s.runtimes /\ ~Quiet(d)
  <2>1. CASE d = m
    <3>1. Generation(m) = Generation(s) /\ Current(m) = Current(s)
      BY <1>1 DEF Generation, Current
    <3>2. ~Quiet(m)
      BY <1>1, <3>1 DEF StateOK, QuietOK
    <3> QED
      BY <1>1, <2>1, <3>2 DEF Advances
  <2>2. CASE m.active # 0 /\ d = Complete(m, m.active)
    <3>1. StoreOK(m)
      BY <1>1 DEF StateOK
    <3>2. /\ StoreOK(d) /\ Advances(m, d) /\ d.active = 0
          /\ d.runtimes = m.runtimes /\ d.identity = m.identity
      BY <2>2, <3>1, Completed
    <3>3. StateOK(d, p)
      BY <1>1, <3>2, OverState
    <3> QED
      BY <1>1, <3>2, <3>3 DEF Quiet, Advances
  <2> QED
    BY <1>3, <2>1, <2>2
<1>5. Generation(d) = Generation(s) /\ Generation(d) > 0 /\ d \in RStore
  BY <1>4 DEF Generation, StateOK, StoreOK, RowsOK
<1> HIDE DEF d
<1>6. Works(d, r)
  <2>1. Works(d, UpdateRuntimeState(d, Generation(d), "running", "none", FALSE, FALSE))
    BY <1>5, UpdateRuntimeStateWorks DEF RuntimeStates
  <2> QED
    BY <1>5, <2>1
<1> HIDE DEF r
<1>7. p.state \in {"up", "dying"} => p.identity = d.identity
  BY <1>4 DEF StateOK, SameIdentity
<1>8. StateOK(r, p) /\ r.rows = d.rows
  BY <1>4, <1>6, <1>7, WorksStep
<1> QED
  BY <1>4, <1>8 DEF r, d, Advances
-----------------------------------------------------------------------------
(* Claims *)

\* A stop that may run finds a runtime to stop: nothing is quiet.
LEMMA StopNotQuiet ==
  ASSUME NEW s, NEW p, StateOK(s, p), NEW i \in Runnable(s), s.commands[i].verb = "stop"
  PROVE  ~Quiet(s)
<1>1. i \in DOMAIN s.commands /\ ~Moot(s, s.commands[i])
  BY DEF Runnable, Open, Claimable
<1>2. s.commands[i].kind # "model"
  BY <1>1 DEF StateOK, StoreOK, QueueOK
<1>3. Current(s).state # "stopped"
  BY <1>1, <1>2 DEF Moot, RuntimeVerbs
<1> QED
  BY <1>3 DEF StateOK, QuietOK

\* A start that may run while the bee is quiet is the destination's: the
\* generation it mints ends the quiet.
LEMMA StartEndsQuiet ==
  ASSUME NEW s, NEW p, NEW r, StateOK(s, p), NEW i \in Runnable(s),
         s.commands[i].verb \in StartVerbs, Works(s, r),
         Current(s).state = "stopped" => Generation(s) < Generation(r), Quiet(s)
  PROVE  ~Quiet(r)
<1>1. ~Fenced(s, s.commands[i])
  BY DEF Runnable, Open
<1>2. s.active # 0 /\ Active(s).source = Generation(s) /\ Current(s).state = "stopped"
  BY DEF StateOK, QuietOK, Quiet
<1>3. Active(s).phase \notin {"placing", "summarizing"}
  <2> SUFFICES ASSUME Active(s).phase \in {"placing", "summarizing"} PROVE FALSE
    OBVIOUS
  <2>1. Fences(s) /\ Active(s).phase # "starting"
    BY <1>2 DEF Fences, Fencing
  <2>2. s.commands[i].verb \in {"spawn", "send_wake"} \/ s.commands[i].verb = "revive"
    BY DEF StartVerbs
  <2> QED
    BY <1>1, <1>2, <2>1, <2>2 DEF Fenced
<1>4. Active(r) = Active(s)
  BY DEF Works, SameRelocations, Active
<1>5. Generation(s) \in Nat /\ Generation(r) \in Nat
  BY RElements DEF StateOK, StoreOK, Works
<1>6. Active(s).source # Generation(r)
  BY <1>2, <1>5
<1> QED
  BY <1>3, <1>4, <1>6 DEF Quiet

\* A start's store before driver.start.
LEMMA StartStore ==
  ASSUME NEW s \in RStore, Generation(s) > 0, NEW i \in Runnable(s)
  PROVE  /\ Works(s, Budgeted(PassOver(s), i)) /\ Works(s, Minted(Budgeted(PassOver(s), i)))
         /\ i \in DOMAIN Budgeted(PassOver(s), i).commands
         /\ i \in DOMAIN Minted(Budgeted(PassOver(s), i)).commands
         /\ Minted(Budgeted(PassOver(s), i)).commands[i].status \in Pending
         /\ Current(s).state = "stopped"
              => Generation(s) < Generation(Minted(Budgeted(PassOver(s), i)))
<1> DEFINE o == PassOver(s)
           b == Budgeted(o, i)
           m == Minted(b)
<1>1. /\ Queues(s, o) /\ DOMAIN o.commands = DOMAIN s.commands /\ i \in DOMAIN s.commands
      /\ o.commands[i] = s.commands[i]
  BY PassOverQueues
<1>2. s.commands[i].status \in Pending
  BY DEF Runnable, Open, Claimable, Pending
<1> HIDE DEF o
<1>3. o \in RStore /\ Works(s, o) /\ o.runtimes = s.runtimes
  BY <1>1 DEF Queues, Works
<1>4. Works(o, b) /\ b.runtimes = o.runtimes /\ b.commands = o.commands
  BY <1>3, ResetWorks, WorksRefl DEF Budgeted
<1> HIDE DEF b
<1>5. Works(s, b) /\ b \in RStore /\ Generation(b) = Generation(s) /\ Current(b) = Current(s)
  BY <1>3, <1>4, WorksTrans DEF Works, Generation, Current
<1>6. /\ Works(b, m) /\ m.commands = b.commands
      /\ Current(b).state = "stopped" => Generation(m) = Generation(b) + 1
  <2>1. Current(b).state = "stopped" => ~Live(b)
    BY DEF Live, LiveStates
  <2>2. /\ Works(b, ReviveBee(b)) /\ Generation(ReviveBee(b)) = Generation(b) + 1
        /\ ReviveBee(b).commands = b.commands /\ Works(b, b)
    BY <1>5, ReviveBeeWorks, WorksRefl
  <2> QED
    BY <2>1, <2>2 DEF Minted
<1> HIDE DEF m
<1>7. Works(s, m)
  BY <1>5, <1>6, WorksTrans
<1>8. i \in DOMAIN b.commands /\ i \in DOMAIN m.commands /\ m.commands[i].status \in Pending
  BY <1>1, <1>2, <1>4, <1>6
<1>9. Current(s).state = "stopped" => Generation(s) < Generation(m)
  <2>1. Generation(s) \in Nat
    BY RElements
  <2> QED
    BY <1>5, <1>6, <2>1
<1> QED
  BY <1>5, <1>7, <1>8, <1>9 DEF m, b, o

-----------------------------------------------------------------------------
(* The steps *)

\* The variables beside the store.
LEMMA ScalarsKept ==
  ASSUME Scalars, Advances(store, store'), proc' \in Process,
         summarizing' \subseteq summarizing, up' \in BOOLEAN,
         faults' \in 0 .. MaxFaults, requests' \in 0 .. MaxRequests, unkilled' \in BOOLEAN
  PROVE  Scalars'
BY DEF Scalars, Ids, Advances

\* A step that changes the store only.
LEMMA StoreStep ==
  ASSUME RInv, StateOK(store', proc), Advances(store, store'),
         UNCHANGED <<proc, summarizing, up, faults, requests, unkilled>>
  PROVE  RInv' /\ Advances(store, store')
<1>1. StateOK(store', proc')
  OBVIOUS
<1>2. Scalars
  BY DEF RInv
<1>3. Scalars'
  BY <1>2, ScalarsKept DEF Scalars
<1> QED
  BY <1>1, <1>3 DEF RInv

\* A request of an operator.
LEMMA RequestStep ==
  ASSUME RInv, NEW r, Request(r), StateOK(r, proc), Advances(store, r)
  PROVE  RInv' /\ Advances(store, store')
<1>1. /\ store' = r /\ UNCHANGED <<proc, summarizing, up, faults, unkilled>>
      /\ requests < MaxRequests /\ requests' = requests + 1
  BY DEF Request, Ask
<1>2. Scalars
  BY DEF RInv
<1>3. requests' \in 0 .. MaxRequests
  BY <1>1, <1>2, RelocationAssumption DEF Scalars
<1>4. Scalars'
  BY <1>1, <1>2, <1>3, ScalarsKept DEF Scalars
<1> QED
  BY <1>1, <1>4 DEF RInv

\* What an operator may ask for.
LEMMA OperatorStep ==
  ASSUME RInv, Operator
  PROVE  RInv' /\ Advances(store, store')
<1>1. StateOK(store, proc)
  BY DEF RInv
<1>2. CASE RpcSend
  <2> DEFINE r == WakeForMail([UnarchiveBee(store) EXCEPT !.mail = @ + 1])
  <2>1. store.mail < MaxMail /\ Request(r)
    BY <1>2 DEF RpcSend
  <2>2. StateOK(r, proc) /\ Advances(store, r)
    BY <1>1, <2>1, SendState
  <2> HIDE DEF r
  <2> QED
    BY <2>1, <2>2, RequestStep
<1>3. ASSUME NEW verb \in Verbs, NEW kind \in Kinds \ {"model"}, Request(Enqueue(store, verb, kind))
      PROVE  RInv' /\ Advances(store, store')
  <2>1. /\ StateOK(Enqueue(store, verb, kind), proc)
        /\ Advances(store, Enqueue(store, verb, kind))
    BY <1>1, EnqueueState
  <2> QED
    BY <1>3, <2>1, RequestStep
<1>4. CASE RpcStop \/ RpcRevive \/ RpcArchive \/ RpcSwapAccount
  BY <1>3, <1>4 DEF RpcStop, RpcRevive, RpcArchive, RpcSwapAccount, Verbs, Kinds
<1>5. ASSUME NEW kind \in {"move", "handoff"}, NEW atIdle \in BOOLEAN, Relocate(kind, atIdle)
      PROVE  RInv' /\ Advances(store, store')
  <2>1. /\ Len(store.rows) < Len(Names) /\ store.active = 0 /\ Request(Admit(store, kind, atIdle))
    BY <1>5 DEF Relocate
  <2>2. /\ StateOK(Admit(store, kind, atIdle), proc)
        /\ Advances(store, Admit(store, kind, atIdle))
    BY <1>1, <2>1, AdmitState
  <2> QED
    BY <2>1, <2>2, RequestStep
<1>6. CASE RpcMove \/ RpcHandoff
  BY <1>5, <1>6 DEF RpcMove, RpcHandoff
<1> QED
  BY <1>2, <1>4, <1>6 DEF Operator
\* What RInv says of the store and the process.
LEMMA InvFacts ==
  ASSUME RInv
  PROVE  /\ StateOK(store, proc) /\ StoreOK(store) /\ store \in RStore /\ RowsOK(store)
         /\ Generation(store) > 0 /\ proc \in Process /\ Scalars
         /\ (Quiet(store) => Current(store).state = "stopped" /\ proc.state = "none")
         /\ (proc.state \in {"up", "dying"} => proc.identity = store.identity)
BY DEF RInv, StateOK, StoreOK, RowsOK, Scalars, QuietOK, SameIdentity

\* A boot and the end of a turn.
LEMMA ObservedStep ==
  ASSUME RInv, Booted \/ TurnEnded
  PROVE  RInv' /\ Advances(store, store')
<1>1. /\ StateOK(store, proc) /\ store \in RStore /\ Generation(store) > 0 /\ ~Quiet(store)
      /\ (proc.state \in {"up", "dying"} => proc.identity = store.identity)
  BY InvFacts DEF Booted, TurnEnded
<1>2. PICK state \in RuntimeStates, pid \in BOOLEAN :
        Observed(UpdateRuntimeState(store, Generation(store), state, "none", FALSE, pid))
  BY DEF Booted, TurnEnded, RuntimeStates
<1> DEFINE r == UpdateRuntimeState(store, Generation(store), state, "none", FALSE, pid)
<1>3. Works(store, r)
  BY <1>1, UpdateRuntimeStateWorks
<1>4. store' = r /\ UNCHANGED <<proc, summarizing, up, faults, requests, unkilled>>
  BY <1>2 DEF Observed
<1> HIDE DEF r
<1>5. StateOK(r, proc) /\ Advances(store, r)
  BY <1>1, <1>3, WorksStep
<1> QED
  BY <1>4, <1>5, StoreStep

\* The process exits.
LEMMA ExitsStep ==
  ASSUME RInv, Exits
  PROVE  RInv' /\ Advances(store, store')
<1>1. /\ StateOK(store, proc) /\ proc \in Process /\ Scalars /\ proc.state \in {"up", "dying"}
      /\ proc.identity = store.identity /\ ~Quiet(store)
  BY InvFacts DEF Exits, HasProcess
<1>2. /\ proc' = [proc EXCEPT !.state = IF up THEN "gone" ELSE "none",
                              !.cause = IF proc.state = "dying" THEN @ ELSE "crashed"]
      /\ UNCHANGED <<store, summarizing, up, requests, unkilled>>
      /\ Spend(proc.state = "up")
  BY DEF Exits
<1>3. proc' \in Process /\ proc'.state \in {"gone", "none"}
  BY <1>1, <1>2 DEF Process, ExitCauses
<1>4. faults' \in 0 .. MaxFaults
  BY <1>1, <1>2, RelocationAssumption DEF Spend, Scalars
<1>5. Advances(store, store')
  BY <1>2 DEF Advances
<1>6. Scalars'
  BY <1>1, <1>2, <1>3, <1>4, <1>5, ScalarsKept DEF Scalars
<1>7. StateOK(store', proc')
  BY <1>1, <1>2, <1>3 DEF StateOK, QuietOK, SameIdentity
<1> QED
  BY <1>5, <1>6, <1>7 DEF RInv

\* The exit is folded.
LEMMA ObserveExitStep ==
  ASSUME RInv, ObserveExit
  PROVE  RInv' /\ Advances(store, store')
<1> DEFINE s == UpdateRuntimeState(store, Generation(store), "stopped", proc.cause, FALSE, FALSE)
<1>1. /\ StateOK(store, proc) /\ proc \in Process /\ Scalars /\ proc.state = "gone"
      /\ store \in RStore /\ Generation(store) > 0 /\ ~Quiet(store)
  BY InvFacts DEF ObserveExit
<1>2. PICK w \in {WakeIfNeeded(s), WakeForMail(s)} : store' = ReviveAfterStop(w)
  BY DEF ObserveExit
<1>3. proc' = NoProc /\ UNCHANGED <<summarizing, up, faults, requests, unkilled>>
  BY DEF ObserveExit
<1>4. Works(store, s)
  <2>1. proc.cause \in ExitCauses \union {"none"}
    BY <1>1 DEF Process
  <2> QED
    BY <1>1, <2>1, UpdateRuntimeStateWorks DEF RuntimeStates
<1> HIDE DEF s
<1>5. s \in RStore
  BY <1>4 DEF Works
<1>6. Queues(s, w)
  BY <1>2, <1>5, WakeIfNeededQueues, WakeForMailQueues
<1>7. w \in RStore /\ Works(s, w)
  BY <1>6 DEF Queues, Works
<1>8. Works(w, ReviveAfterStop(w))
  BY <1>7, ReviveAfterStopQueues DEF Queues
<1>9. Works(store, store')
  <2>1. Works(s, ReviveAfterStop(w))
    BY <1>5, <1>7, <1>8, WorksTrans
  <2> QED
    BY <1>1, <1>2, <1>4, <2>1, WorksTrans
<1>10. NoProc \in Process /\ NoProc.state = "none"
  BY DEF NoProc, Process, ExitCauses
<1>11. StateOK(store', NoProc) /\ Advances(store, store')
  BY <1>1, <1>9, <1>10, WorksStep
<1>12. Scalars'
  BY <1>1, <1>3, <1>10, <1>11, ScalarsKept DEF Scalars
<1> QED
  BY <1>3, <1>11, <1>12 DEF RInv

\* A step of the queue alone.
LEMMA QueueOnlyStep ==
  ASSUME RInv, Queues(store, store'),
         UNCHANGED <<proc, summarizing, up, faults, requests, unkilled>>
  PROVE  RInv' /\ Advances(store, store')
<1>1. StateOK(store, proc) /\ (proc.state \in {"up", "dying"} => proc.identity = store.identity)
  BY InvFacts
<1>2. StateOK(store', proc) /\ Advances(store, store')
  BY <1>1, QueuesStep
<1> QED
  BY <1>2, StoreStep

\* A backoff passes.
LEMMA CommandDueStep ==
  ASSUME RInv, CommandDue
  PROVE  RInv' /\ Advances(store, store')
<1>1. store \in RStore
  BY InvFacts
<1>2. PICK i \in DOMAIN store.commands : store' = [store EXCEPT !.commands[i].due = TRUE]
  BY DEF CommandDue
<1>3. Queues(store, store')
  BY <1>1, <1>2, DueQueues
<1> QED
  BY <1>3, QueueOnlyStep DEF CommandDue

\* The boot that nobody is at work on.
LEMMA BootHangStep ==
  ASSUME RInv, BootHang
  PROVE  RInv' /\ Advances(store, store')
<1> DEFINE r == Enqueue(store, "stop", "hang")
<1>1. StateOK(store, proc)
  BY InvFacts
<1>2. StateOK(r, proc) /\ Advances(store, r)
  BY <1>1, EnqueueState DEF Verbs, Kinds
<1>3. store' = r /\ UNCHANGED <<proc, summarizing, up, faults, requests, unkilled>>
  BY DEF BootHang, Observed
<1> HIDE DEF r
<1> QED
  BY <1>2, <1>3, StoreStep

\* A claim that finds nothing to run.
LEMMA ClaimNothingStep ==
  ASSUME RInv, ClaimNothing
  PROVE  RInv' /\ Advances(store, store')
<1>1. store \in RStore
  BY InvFacts
<1>2. Queues(store, store')
  BY <1>1, PassOverQueues DEF ClaimNothing
<1> QED
  BY <1>2, QueueOnlyStep DEF ClaimNothing

\* The skip of a late boot-hang stop.
LEMMA SkipHangStopStep ==
  ASSUME RInv, NEW i \in DOMAIN store.commands, SkipHangStop(i)
  PROVE  RInv' /\ Advances(store, store')
<1>1. store \in RStore /\ i \in Runnable(store)
  BY InvFacts DEF SkipHangStop, Runs
<1>2. Queues(store, PassOver(store)) /\ i \in DOMAIN PassOver(store).commands
  BY <1>1, PassOverQueues
<1>3. PassOver(store) \in RStore
  BY <1>2 DEF Queues, Works
<1>4. Queues(PassOver(store), SkipBootHangStop(PassOver(store), i))
  BY <1>2, <1>3, SkipBootHangStopQueues
<1>5. Queues(store, store')
  BY <1>1, <1>2, <1>4, QueuesTrans DEF SkipHangStop
<1> QED
  BY <1>5, QueueOnlyStep DEF SkipHangStop

\* An archive.
LEMMA ExecuteArchiveStep ==
  ASSUME RInv, NEW i \in DOMAIN store.commands, ExecuteArchive(i)
  PROVE  RInv' /\ Advances(store, store')
<1> DEFINE o == PassOver(store)
           a == ExecuteArchiveCommand(o)
           r == SetCommand(a, i, "done")
<1>1. /\ store \in RStore /\ i \in Runnable(store) /\ StateOK(store, proc)
      /\ (Quiet(store) => proc.state = "none")
      /\ (proc.state \in {"up", "dying"} => proc.identity = store.identity)
  BY InvFacts DEF ExecuteArchive, Runs
<1>2. Queues(store, o) /\ i \in DOMAIN o.commands
  BY <1>1, PassOverQueues
<1>3. store' = r /\ UNCHANGED <<proc, summarizing, up, faults, requests, unkilled>>
  BY DEF ExecuteArchive
<1> HIDE DEF o
<1>4. o \in RStore /\ Works(store, o) /\ o.runtimes = store.runtimes /\ o.flagged = store.flagged
  BY <1>2 DEF Queues, Works
<1>5. Works(o, a) /\ a.runtimes = o.runtimes /\ a.flagged = o.flagged /\ a.commands = o.commands
  BY <1>4, LifecycleWorks
<1> HIDE DEF a
<1>6. a \in RStore /\ i \in DOMAIN a.commands
  BY <1>2, <1>5 DEF Works
<1>7. Queues(a, r)
  BY <1>6, SetCommandQueues DEF CommandStatuses, Pending
<1>8. Works(a, r) /\ r.runtimes = a.runtimes /\ r.flagged = a.flagged
  BY <1>7 DEF Queues
<1> HIDE DEF r
<1>9. Works(store, r)
  <2>1. Works(store, a)
    BY <1>1, <1>4, <1>5, WorksTrans
  <2> QED
    BY <1>1, <1>8, <2>1, WorksTrans
<1>10. StateOK(r, proc) /\ Advances(store, r)
  <2>1. r.runtimes = store.runtimes /\ r.flagged = store.flagged
    BY <1>4, <1>5, <1>8
  <2> QED
    BY <1>1, <1>9, <2>1, WorksStep
<1> QED
  BY <1>3, <1>10, StoreStep
\* A stop: the process is signalled, or the row is stopped now.
LEMMA ExecuteStopStep ==
  ASSUME RInv, NEW i \in DOMAIN store.commands, ExecuteStop(i)
  PROVE  RInv' /\ Advances(store, store')
<1> DEFINE o == PassOver(store)
           s == SetCommand(o, i, "running")
           cause == CauseOf(store.commands[i])
           stopped == UpdateRuntimeState(s, Generation(s), "stopped", cause, FALSE, FALSE)
           woken == WakeForMail(stopped)
           after == ReviveAfterStop(woken)
<1>1. /\ store \in RStore /\ i \in Runnable(store) /\ StateOK(store, proc) /\ Scalars
      /\ Generation(store) > 0 /\ proc \in Process
      /\ (proc.state \in {"up", "dying"} => proc.identity = store.identity)
      /\ store.commands[i].verb = "stop"
  BY InvFacts DEF ExecuteStop, Runs
<1>2. ~Quiet(store)
  BY <1>1, StopNotQuiet
<1>3. /\ Queues(store, o) /\ i \in DOMAIN o.commands /\ o.commands[i].status \in Pending
  <2>1. store.commands[i].status \in Pending
    BY <1>1 DEF Runnable, Open, Claimable, Pending
  <2> QED
    BY <1>1, <2>1, PassOverQueues
<1>4. /\ IF HasProcess
           THEN /\ store' = SetCommand(s, i, "done")
                /\ proc' = IF proc.state = "dying" THEN proc
                           ELSE [proc EXCEPT !.state = "dying", !.cause = cause]
           ELSE store' = SetCommand(after, i, "done") /\ UNCHANGED proc
      /\ UNCHANGED <<summarizing, up, faults, requests, unkilled>>
  BY DEF ExecuteStop
<1>5. cause \in ExitCauses \union {"none"} /\ cause \in ExitCauses
  BY DEF CauseOf, ExitCauses, StopCauses
<1> HIDE DEF o, cause
<1>6. o \in RStore /\ Works(store, o)
  BY <1>3 DEF Queues, Works
<1>7. Queues(o, s) /\ DOMAIN s.commands = DOMAIN o.commands
  BY <1>3, <1>6, SetCommandQueues DEF CommandStatuses
<1> HIDE DEF s
<1>8. /\ s \in RStore /\ Works(store, s) /\ i \in DOMAIN s.commands /\ Generation(s) > 0
  <2>1. s \in RStore /\ Works(o, s) /\ s.runtimes = o.runtimes /\ o.runtimes = store.runtimes
    BY <1>3, <1>7 DEF Queues, Works
  <2>2. Works(store, s)
    BY <1>1, <1>6, <2>1, WorksTrans
  <2> QED
    BY <1>1, <1>3, <1>7, <2>1, <2>2 DEF Generation
<1>9. CASE HasProcess
  <2>1. Works(s, SetCommand(s, i, "done"))
    BY <1>8, SetCommandQueues DEF CommandStatuses, Pending, Queues
  <2>2. Works(store, store')
    BY <1>1, <1>4, <1>8, <1>9, <2>1, WorksTrans
  <2>3. proc' \in Process /\ proc'.identity = proc.identity /\ proc.identity = store.identity
    BY <1>1, <1>4, <1>5, <1>9 DEF Process, HasProcess
  <2>4. StateOK(store', proc') /\ Advances(store, store')
    BY <1>1, <1>2, <2>2, <2>3, WorksStep
  <2>5. Scalars'
    BY <1>1, <1>4, <2>3, <2>4, ScalarsKept DEF Scalars
  <2> QED
    BY <2>4, <2>5 DEF RInv
<1>10. CASE ~HasProcess
  <2>1. Works(s, stopped)
    BY <1>5, <1>8, UpdateRuntimeStateWorks DEF RuntimeStates
  <2> HIDE DEF stopped
  <2>2. stopped \in RStore
    BY <2>1 DEF Works
  <2>3. Works(stopped, woken)
    BY <2>2, WakeForMailQueues DEF Queues
  <2> HIDE DEF woken
  <2>4. woken \in RStore
    BY <2>3 DEF Works
  <2>5. Works(woken, after)
    BY <2>4, ReviveAfterStopQueues DEF Queues
  <2> HIDE DEF after
  <2>6. Works(s, after)
    <3>1. Works(s, woken)
      BY <1>8, <2>1, <2>3, WorksTrans
    <3> QED
      BY <1>8, <2>5, <3>1, WorksTrans
  <2>7. after \in RStore /\ i \in DOMAIN after.commands
    <3>1. after \in RStore /\ Len(s.commands) <= Len(after.commands)
      BY <2>6 DEF Works, CommandsFollow
    <3>2. /\ DOMAIN s.commands = 1 .. Len(s.commands) /\ Len(s.commands) \in Nat
          /\ DOMAIN after.commands = 1 .. Len(after.commands) /\ Len(after.commands) \in Nat
      BY <1>8, <3>1, RElements
    <3> QED
      BY <1>8, <3>1, <3>2
  <2>8. Works(after, SetCommand(after, i, "done"))
    BY <2>7, SetCommandQueues DEF CommandStatuses, Pending, Queues
  <2>9. Works(store, store')
    <3>1. Works(store, after)
      BY <1>1, <1>8, <2>6, WorksTrans
    <3> QED
      BY <1>1, <1>4, <1>10, <2>8, <3>1, WorksTrans
  <2>10. StateOK(store', proc) /\ Advances(store, store')
    BY <1>1, <1>2, <2>9, WorksStep
  <2> QED
    BY <1>4, <1>10, <2>10, StoreStep
<1> QED
  BY <1>9, <1>10

\* A start that succeeds.
LEMMA ExecuteStartStep ==
  ASSUME RInv, NEW i \in DOMAIN store.commands, ExecuteStart(i)
  PROVE  RInv' /\ Advances(store, store')
<1> DEFINE b == Budgeted(PassOver(store), i)
           m == Minted(b)
           d == SetCommand(m, i, "done")
           r == RecordRuntimeProc(d, Generation(d))
           p == [NoProc EXCEPT !.state = "up", !.identity = store.identity]
<1>1. /\ store \in RStore /\ i \in Runnable(store) /\ StateOK(store, proc) /\ Scalars
      /\ Generation(store) > 0 /\ proc \in Process
      /\ (Quiet(store) => proc.state = "none")
      /\ (proc.state \in {"up", "dying"} => proc.identity = store.identity)
      /\ store.commands[i].verb \in StartVerbs
  BY InvFacts DEF ExecuteStart, Runs
<1>2. /\ Works(store, b) /\ Works(store, m) /\ i \in DOMAIN b.commands /\ i \in DOMAIN m.commands
      /\ Current(store).state = "stopped" => Generation(store) < Generation(m)
  BY <1>1, StartStore
<1>3. /\ IF HasProcess THEN store' = SetCommand(b, i, "done") /\ UNCHANGED proc
                       ELSE store' = r /\ proc' = p
      /\ UNCHANGED <<summarizing, up, faults, requests, unkilled>>
  BY DEF ExecuteStart
<1> HIDE DEF m, b
<1>4. b \in RStore /\ m \in RStore
  BY <1>2 DEF Works
<1>5. CASE HasProcess
  <2>1. Works(b, SetCommand(b, i, "done"))
    BY <1>2, <1>4, SetCommandQueues DEF CommandStatuses, Pending, Queues
  <2>2. Works(store, store')
    BY <1>1, <1>2, <1>3, <1>5, <2>1, WorksTrans
  <2>3. ~Quiet(store)
    BY <1>1, <1>5 DEF HasProcess
  <2>4. StateOK(store', proc) /\ Advances(store, store')
    BY <1>1, <2>2, <2>3, WorksStep
  <2> QED
    BY <1>3, <1>5, <2>4, StoreStep
<1>6. CASE ~HasProcess
  <2>1. Queues(m, d)
    BY <1>2, <1>4, SetCommandQueues DEF CommandStatuses, Pending
  <2> HIDE DEF d
  <2>2. d \in RStore /\ Works(m, d) /\ Generation(d) = Generation(m)
    BY <2>1 DEF Queues, Works, Generation
  <2>3. /\ Generation(store) \in Nat /\ Generation(m) \in Nat /\ Generation(store) <= Generation(m)
    BY <1>1, <1>2, <1>4, RElements DEF Works
  <2>4. Generation(d) > 0
    BY <1>1, <2>2, <2>3
  <2>5. Works(d, r)
    BY <2>2, <2>4, RecordRuntimeProcWorks
  <2> HIDE DEF r
  <2>6. r \in RStore /\ Generation(r) \in Nat /\ Generation(m) <= Generation(r)
    <3>1. r \in RStore /\ Generation(d) <= Generation(r)
      BY <2>5 DEF Works
    <3> QED
      BY <2>2, <3>1, RElements
  <2>7. Works(store, r)
    <3>1. Works(store, d)
      BY <1>1, <1>2, <2>2, WorksTrans
    <3> QED
      BY <1>1, <2>5, <3>1, WorksTrans
  <2>8. Current(store).state = "stopped" => Generation(store) < Generation(r)
    BY <1>2, <2>3, <2>6
  <2>9. Quiet(store) => ~Quiet(r)
    BY <1>1, <2>7, <2>8, StartEndsQuiet
  <2>10. p \in Process /\ p.identity = store.identity
    BY <1>1, RFields DEF NoProc, Process, ExitCauses
  <2> HIDE DEF p
  <2>11. StateOK(r, p) /\ Advances(store, r)
    BY <1>1, <2>7, <2>9, <2>10, WorksStep
  <2>12. Scalars'
    BY <1>1, <1>3, <1>6, <2>10, <2>11, ScalarsKept DEF Scalars
  <2> QED
    BY <1>3, <1>6, <2>11, <2>12 DEF RInv
<1> QED
  BY <1>5, <1>6

\* A fault spent.
LEMMA SpendBound ==
  ASSUME Scalars, NEW fault \in BOOLEAN, Spend(fault)
  PROVE  faults' \in 0 .. MaxFaults
BY RelocationAssumption DEF Spend, Scalars

\* A start that fails, and one that the daemon does not survive.
LEMMA BrokenStartStep ==
  ASSUME RInv, NEW i \in DOMAIN store.commands, StartFails(i) \/ CrashInStart(i)
  PROVE  RInv' /\ Advances(store, store')
<1> DEFINE m == Minted(Budgeted(PassOver(store), i))
<1>1. /\ store \in RStore /\ i \in Runnable(store) /\ StateOK(store, proc) /\ Scalars
      /\ Generation(store) > 0 /\ proc \in Process
      /\ (proc.state \in {"up", "dying"} => proc.identity = store.identity)
      /\ store.commands[i].verb \in StartVerbs
  BY InvFacts DEF StartFails, CrashInStart, Runs
<1>2. /\ Works(store, m) /\ i \in DOMAIN m.commands /\ m.commands[i].status \in Pending
      /\ Current(store).state = "stopped" => Generation(store) < Generation(m)
  BY <1>1, StartStore
<1>3. /\ store' \in {ReportCommandFailure(m, i), SetCommand(m, i, "running")}
      /\ Spend(TRUE) /\ UNCHANGED <<proc, requests, unkilled>>
      /\ summarizing' \in {summarizing, {}} /\ up' \in {up, FALSE}
  BY DEF StartFails, CrashInStart, GoDown
<1> HIDE DEF m
<1>4. m \in RStore
  BY <1>2 DEF Works
<1>5. Works(m, store')
  <2>1. Works(m, ReportCommandFailure(m, i))
    BY <1>2, <1>4, ReportCommandFailureWorks
  <2>2. Works(m, SetCommand(m, i, "running"))
    BY <1>2, <1>4, SetCommandQueues DEF CommandStatuses, Queues
  <2> QED
    BY <1>3, <2>1, <2>2
<1>6. Works(store, store')
  BY <1>1, <1>2, <1>5, WorksTrans
<1>7. Quiet(store) => ~Quiet(store')
  <2>1. /\ Generation(store) \in Nat /\ Generation(m) \in Nat /\ Generation(store') \in Nat
        /\ Generation(m) <= Generation(store')
    BY <1>1, <1>4, <1>5, RElements DEF Works
  <2>2. Current(store).state = "stopped" => Generation(store) < Generation(store')
    BY <1>2, <2>1
  <2> QED
    BY <1>1, <1>6, <2>2, StartEndsQuiet
<1>8. StateOK(store', proc) /\ Advances(store, store')
  BY <1>1, <1>6, <1>7, WorksStep
<1>9. faults' \in 0 .. MaxFaults
  BY <1>1, <1>3, SpendBound
<1>10. Scalars'
  BY <1>1, <1>3, <1>8, <1>9, ScalarsKept DEF Scalars
<1> QED
  BY <1>3, <1>8, <1>10 DEF RInv
\* A relocation in a phase that is not its last is the active one.
LEMMA OpenIsActive ==
  ASSUME NEW s, StoreOK(s), NEW id \in DOMAIN s.rows, s.rows[id].phase \in OpenPhases
  PROVE  s.active = id /\ s.active # 0 /\ Active(s) = s.rows[id]
<1>1. s \in RStore /\ RowsOK(s)
  BY DEF StoreOK
<1>2. DOMAIN s.rows = 1 .. Len(s.rows) /\ Len(s.rows) \in Nat
  BY <1>1, RElements
<1>3. s.active = id
  BY <1>1 DEF RowsOK
<1> QED
  BY <1>2, <1>3 DEF Active

\* The source has stopped.
LEMMA SourceStoppedStep ==
  ASSUME RInv, NEW id \in Ids, SourceStopped(id)
  PROVE  RInv' /\ Advances(store, store')
<1> DEFINE phase == IF store.rows[id].kind = "move" THEN "placing" ELSE "summarizing"
           r == SetPhase(store, id, phase)
<1>1. StateOK(store, proc) /\ StoreOK(store) /\ proc \in Process /\ id \in DOMAIN store.rows
      /\ store.rows[id].phase = "stopping"
  BY InvFacts DEF SourceStopped, Ids
<1>2. store.active = id /\ store.active # 0 /\ Active(store) = store.rows[id]
  BY <1>1, OpenIsActive DEF OpenPhases, Fencing
<1>3. /\ Generation(store) = Active(store).source /\ Current(store).state = "stopped"
      /\ proc.state = "none"
  BY <1>1, <1>2 DEF SourceStopped, SourceGone, HasProcess, Drive, Stepping, Process
<1>4. store' = r /\ UNCHANGED <<proc, summarizing, up, faults, requests, unkilled>>
  BY DEF SourceStopped, Drive
<1>5. phase \in {"placing", "summarizing"}
  OBVIOUS
<1> HIDE DEF phase
<1>6. r = SetPhase(store, store.active, phase)
  BY <1>2
<1> HIDE DEF r
<1>7. phase \in OpenPhases /\ Active(store).phase \in Fencing
  BY <1>1, <1>2, <1>5 DEF OpenPhases, Fencing
<1>8. /\ StoreOK(r) /\ Advances(store, r) /\ r.active = store.active
      /\ Active(r).phase = phase /\ Active(r).source = Active(store).source
      /\ r.runtimes = store.runtimes /\ r.identity = store.identity
  BY <1>1, <1>2, <1>6, <1>7, PhaseSet
<1>9. StateOK(r, proc)
  <2>1. Generation(r) = Generation(store) /\ Current(r) = Current(store)
    BY <1>8 DEF Generation, Current
  <2>2. QuietOK(r, proc)
    BY <1>3, <1>5, <1>8, <2>1 DEF QuietOK
  <2>3. SameIdentity(r, proc)
    BY <1>3 DEF SameIdentity
  <2> QED
    BY <1>8, <2>2, <2>3 DEF StateOK
<1> QED
  BY <1>4, <1>8, <1>9, StoreStep

\* A move is placed.
LEMMA PlaceStep ==
  ASSUME RInv, NEW id \in Ids, Place(id)
  PROVE  RInv' /\ Advances(store, store')
<1> DEFINE r == CommitPlacement(store, store.active)
<1>1. StateOK(store, proc) /\ StoreOK(store) /\ id \in DOMAIN store.rows
      /\ store.rows[id].phase = "placing" /\ store.rows[id].kind = "move"
  BY InvFacts DEF Place, InPhase, Ids
<1>2. store.active = id /\ store.active # 0 /\ Active(store) = store.rows[id]
  BY <1>1, OpenIsActive DEF OpenPhases, Fencing
<1>3. StateOK(r, proc) /\ Advances(store, r)
  BY <1>1, <1>2, CommitPlacementState
<1>4. store' = r /\ UNCHANGED <<proc, summarizing, up, faults, requests, unkilled>>
  BY <1>2 DEF Place, Drive
<1> HIDE DEF r
<1> QED
  BY <1>3, <1>4, StoreStep

\* A placement is refused.
LEMMA PlaceFailsStep ==
  ASSUME RInv, NEW id \in Ids, PlaceFails(id)
  PROVE  RInv' /\ Advances(store, store')
<1> DEFINE r == FailMove(store, store.active, "other")
<1>1. StateOK(store, proc) /\ StoreOK(store) /\ id \in DOMAIN store.rows /\ Scalars
      /\ store.rows[id].phase = "placing"
  BY InvFacts DEF PlaceFails, InPhase, Ids
<1>2. store.active = id /\ store.active # 0
  BY <1>1, OpenIsActive DEF OpenPhases, Fencing
<1>3. StateOK(r, proc) /\ Advances(store, r)
  BY <1>1, <1>2, FailState
<1>4. store' = r /\ Spend(TRUE) /\ UNCHANGED <<proc, summarizing, up, requests, unkilled>>
  BY <1>2 DEF PlaceFails
<1> HIDE DEF r
<1>5. faults' \in 0 .. MaxFaults
  BY <1>1, <1>4, SpendBound
<1>6. Scalars'
  BY <1>1, <1>3, <1>4, <1>5, ScalarsKept DEF Scalars
<1> QED
  BY <1>3, <1>4, <1>6 DEF RInv

\* A transcript is handed to the summarizer.
LEMMA SummarizeStep ==
  ASSUME RInv, NEW id \in Ids, Summarize(id)
  PROVE  RInv' /\ Advances(store, store')
<1>1. /\ summarizing' = summarizing \union {id}
      /\ UNCHANGED <<store, proc, up, faults, requests, unkilled>>
  BY DEF Summarize
<1>2. Scalars'
  BY <1>1 DEF RInv, Scalars, Ids
<1> QED
  BY <1>1, <1>2 DEF RInv, Advances

\* The summarizer answers, or fails.
LEMMA SummarizerStep ==
  ASSUME RInv, NEW id \in Ids, Summarized(id) \/ SummarizerFails(id)
  PROVE  RInv' /\ Advances(store, store')
<1>1. StateOK(store, proc) /\ StoreOK(store) /\ id \in DOMAIN store.rows /\ Scalars
      /\ store \in RStore
  BY InvFacts DEF Ids
<1>2. /\ summarizing' \subseteq summarizing /\ UNCHANGED <<proc, up, requests, unkilled>>
      /\ faults' \in 0 .. MaxFaults
  <2>1. CASE Summarized(id)
    BY <1>1, <2>1 DEF Summarized, Scalars
  <2>2. CASE SummarizerFails(id)
    BY <1>1, <2>2, SpendBound DEF SummarizerFails
  <2> QED
    BY <2>1, <2>2
<1>3. StateOK(store', proc) /\ Advances(store, store')
  <2>1. CASE store' = store
    BY <1>1, <2>1 DEF Advances
  <2>2. CASE store' # store
    <3>1. store.rows[id].phase \in OpenPhases
      <4>1. store.rows[id] \in Row
        BY <1>1, RElements
      <4> QED
        BY <2>2, <4>1 DEF Summarized, SummarizerFails, OpenPhases, Fencing, Row
    <3>2. store.active = id /\ store.active # 0 /\ Active(store) = store.rows[id]
      BY <1>1, <3>1, OpenIsActive
    <3>3. CASE store' = FailHandoff(store, id, "other")
      <4>1. /\ StateOK(FailHandoff(store, store.active, "other"), proc)
            /\ Advances(store, FailHandoff(store, store.active, "other"))
        BY <1>1, <3>2, FailState
      <4> QED
        BY <3>2, <3>3, <4>1
    <3>4. CASE store' = Switch(store, id) /\ store.rows[id].phase = "summarizing"
      <4>1. /\ StateOK(Switch(store, store.active), proc)
            /\ Advances(store, Switch(store, store.active))
        BY <1>1, <3>2, <3>4, SwitchState
      <4> QED
        BY <3>2, <3>4, <4>1
    <3> QED
      BY <2>2, <3>3, <3>4 DEF Summarized, SummarizerFails
  <2> QED
    BY <2>1, <2>2
<1>4. Scalars'
  BY <1>1, <1>2, <1>3, ScalarsKept DEF Scalars
<1> QED
  BY <1>2, <1>3, <1>4 DEF RInv

\* The destination failed for good: a handoff's target has been tried.
LEMMA StartingFailsStep ==
  ASSUME RInv, NEW id \in Ids, StartingFails(id)
  PROVE  RInv' /\ Advances(store, store')
<1> DEFINE r == FailRelocation(store, store.active, "spawn_failed")
<1>1. /\ StateOK(store, proc) /\ StoreOK(store) /\ id \in DOMAIN store.rows /\ store \in RStore
      /\ RowsOK(store) /\ store.rows[id].phase = "starting" /\ store.flagged
  BY InvFacts DEF StartingFails, Ids
<1>2. store.active = id /\ store.active # 0 /\ Active(store) = store.rows[id]
  BY <1>1, OpenIsActive DEF OpenPhases, Fencing
<1>3. Active(store).kind = "handoff" => Active(store).source < Generation(store)
  <2>1. ~Quiet(store)
    BY <1>1, <1>2 DEF StateOK, QuietOK
  <2>2. Active(store).kind = "handoff" => Active(store).source # Generation(store)
    BY <1>1, <1>2, <2>1 DEF Quiet
  <2>3. /\ Active(store).source \in Nat /\ Generation(store) \in Nat
        /\ Active(store).source <= Generation(store)
    <3>1. store.rows[id] \in Row /\ Generation(store) \in Nat
      BY <1>1, RElements
    <3> QED
      BY <1>1, <1>2, <3>1 DEF RowsOK, Row
  <2> QED
    BY <2>2, <2>3
<1>4. StateOK(r, proc) /\ Advances(store, r)
  <2>1. /\ StateOK(FailMove(store, store.active, "spawn_failed"), proc)
        /\ Advances(store, FailMove(store, store.active, "spawn_failed"))
        /\ StateOK(FailHandoff(store, store.active, "spawn_failed"), proc)
        /\ Advances(store, FailHandoff(store, store.active, "spawn_failed"))
    BY <1>1, <1>2, <1>3, FailState
  <2> QED
    BY <2>1 DEF FailRelocation
<1>5. store' = r /\ UNCHANGED <<proc, summarizing, up, faults, requests, unkilled>>
  BY <1>2 DEF StartingFails, Drive
<1> HIDE DEF r
<1> QED
  BY <1>4, <1>5, StoreStep

\* The destination is tried again.
LEMMA StartingRetriesStep ==
  ASSUME RInv, NEW id \in Ids, StartingRetries(id)
  PROVE  RInv' /\ Advances(store, store')
<1>1. store \in RStore
  BY InvFacts
<1>2. Queues(store, store')
  BY <1>1, WakeIfNeededQueues DEF StartingRetries, Drive
<1> QED
  BY <1>2, QueueOnlyStep DEF StartingRetries, Drive

\* A move arrives.
LEMMA MoveArrivesStep ==
  ASSUME RInv, NEW id \in Ids, MoveArrives(id)
  PROVE  RInv' /\ Advances(store, store')
<1> DEFINE r == Complete(store, store.active)
<1>1. StateOK(store, proc) /\ StoreOK(store) /\ id \in DOMAIN store.rows
      /\ store.rows[id].phase = "starting"
  BY InvFacts DEF MoveArrives, InPhase, Ids
<1>2. store.active = id /\ store.active # 0
  BY <1>1, OpenIsActive DEF OpenPhases, Fencing
<1>3. StoreOK(r) /\ Advances(store, r) /\ r.active = 0 /\ r.identity = store.identity
  BY <1>1, <1>2, Completed
<1>4. store' = r /\ UNCHANGED <<proc, summarizing, up, faults, requests, unkilled>>
  BY <1>2 DEF MoveArrives, Drive
<1> HIDE DEF r
<1>5. StateOK(r, proc)
  BY <1>1, <1>3, OverState
<1> QED
  BY <1>3, <1>4, <1>5, StoreStep

\* A message is delivered.
LEMMA DeliverStep ==
  ASSUME RInv, Deliver
  PROVE  RInv' /\ Advances(store, store')
<1> DEFINE r == UpdateRuntimeState(DeliverTo(store), Generation(store), "running", "none", FALSE, FALSE)
<1>1. StateOK(store, proc) /\ store.mail > 0 /\ Current(store).state \in {"running", "idle"}
  BY InvFacts DEF Deliver
<1>2. StateOK(r, proc) /\ Advances(store, r)
  BY <1>1, DeliverState
<1>3. store' = r /\ UNCHANGED <<proc, summarizing, up, faults, requests, unkilled>>
  BY DEF Deliver, Observed
<1> HIDE DEF r
<1> QED
  BY <1>2, <1>3, StoreStep

\* The daemon dies.
LEMMA CrashStep ==
  ASSUME RInv, Crash
  PROVE  RInv' /\ Advances(store, store')
<1>1. /\ StateOK(store, proc) /\ proc \in Process /\ Scalars
      /\ (Quiet(store) => proc.state = "none")
      /\ (proc.state \in {"up", "dying"} => proc.identity = store.identity)
  BY InvFacts
<1>2. /\ store' = store /\ up' = FALSE /\ summarizing' = {} /\ requests' = requests /\ Spend(TRUE)
      /\ \/ proc' = (IF proc.state = "gone" THEN NoProc ELSE proc) /\ unkilled' = unkilled
         \/ /\ proc.state = "dying" /\ unkilled' = TRUE
            /\ proc' = [proc EXCEPT !.state = "up", !.cause = "crashed"]
  BY DEF Crash, GoDown
<1>3. /\ proc' \in Process /\ (proc.state = "none" => proc'.state = "none")
      /\ (proc'.state \in {"up", "dying"} => proc'.identity = store.identity)
  <2>1. NoProc \in Process /\ NoProc.state = "none"
    BY DEF NoProc, Process, ExitCauses
  <2>2. CASE proc' = (IF proc.state = "gone" THEN NoProc ELSE proc)
    BY <1>1, <2>1, <2>2
  <2>3. CASE proc.state = "dying" /\ proc' = [proc EXCEPT !.state = "up", !.cause = "crashed"]
    BY <1>1, <2>3 DEF Process, ExitCauses
  <2> QED
    BY <1>2, <2>2, <2>3
<1>4. StateOK(store', proc')
  BY <1>1, <1>2, <1>3 DEF StateOK, QuietOK, SameIdentity
<1>5. faults' \in 0 .. MaxFaults
  BY <1>1, <1>2, SpendBound
<1>6. Advances(store, store')
  BY <1>2 DEF Advances
<1>7. Scalars'
  BY <1>1, <1>2, <1>3, <1>5, <1>6, ScalarsKept DEF Scalars
<1> QED
  BY <1>4, <1>6, <1>7 DEF RInv

\* The daemon comes back.
LEMMA RestartStep ==
  ASSUME RInv, Restart
  PROVE  RInv' /\ Advances(store, store')
<1> DEFINE b == BootRequeueRunningCommands(store)
           s == ReconcileAtBoot(b, HasProcess)
           w == WakeForMail(s)
           r == ReviveAfterStop(w)
<1>1. /\ StateOK(store, proc) /\ proc \in Process /\ Scalars /\ store \in RStore
      /\ Generation(store) > 0
      /\ (Quiet(store) => proc.state = "none" /\ Current(store).state = "stopped")
      /\ (proc.state \in {"up", "dying"} => proc.identity = store.identity)
  BY InvFacts
<1>2. /\ store' = r /\ up' = TRUE /\ proc' = (IF HasProcess THEN proc ELSE NoProc)
      /\ UNCHANGED <<summarizing, faults, requests, unkilled>>
  BY DEF Restart
<1>3. Queues(store, b)
  BY <1>1, BootRequeueQueues
<1> HIDE DEF b
<1>4. /\ b \in RStore /\ Works(store, b) /\ b.runtimes = store.runtimes /\ b.flagged = store.flagged
      /\ Generation(b) > 0 /\ Current(b) = Current(store)
  BY <1>1, <1>3 DEF Queues, Works, Generation, Current
<1>5. Works(b, s) /\ (Current(b).state = "stopped" => s = b)
  <2>1. HasProcess \in BOOLEAN
    BY DEF HasProcess
  <2> QED
    BY <1>4, <2>1, ReconcileAtBootWorks
<1> HIDE DEF s
<1>6. s \in RStore
  BY <1>5 DEF Works
<1>7. Queues(s, w)
  BY <1>6, WakeForMailQueues
<1> HIDE DEF w
<1>8. w \in RStore
  BY <1>7 DEF Queues, Works
<1>9. Queues(w, r)
  BY <1>8, ReviveAfterStopQueues
<1> HIDE DEF r
<1>10. Queues(s, r)
  BY <1>6, <1>7, <1>9, QueuesTrans
<1>11. Works(s, r) /\ r.runtimes = s.runtimes /\ r.flagged = s.flagged
  BY <1>10 DEF Queues
<1>12. Works(store, r)
  <2>1. Works(store, s)
    BY <1>1, <1>4, <1>5, WorksTrans
  <2> QED
    BY <1>1, <1>11, <2>1, WorksTrans
<1>13. /\ proc' \in Process /\ (proc.state = "none" => proc'.state = "none")
       /\ (proc'.state \in {"up", "dying"} => proc'.identity = store.identity)
  <2>1. NoProc \in Process /\ NoProc.state = "none"
    BY DEF NoProc, Process, ExitCauses
  <2> QED
    BY <1>1, <1>2, <2>1 DEF HasProcess
<1>14. Quiet(store) => r.runtimes = store.runtimes /\ proc'.state = "none"
                       /\ (r.flagged => store.flagged)
  BY <1>1, <1>4, <1>5, <1>11, <1>13
<1>15. StateOK(r, proc') /\ Advances(store, r)
  BY <1>1, <1>12, <1>13, <1>14, WorksStep
<1>16. Scalars'
  BY <1>1, <1>2, <1>13, <1>15, ScalarsKept DEF Scalars
<1> QED
  BY <1>2, <1>15, <1>16 DEF RInv
-----------------------------------------------------------------------------
(* The theorems *)

\* The initial states satisfy the invariant.
LEMMA InitInv ==
  ASSUME Init
  PROVE  RInv
<1>1. PICK live \in BOOLEAN :
        /\ store = [lifecycle |-> "active", failures |-> 0, flagged |-> FALSE,
                    commands |-> <<>>, mail |-> 0,
                    runtimes |-> <<[state |-> IF live THEN "idle" ELSE "stopped",
                                    exitCause |-> IF live THEN "none" ELSE "stopped_by_system",
                                    evidence |-> "real", pid |-> TRUE]>>,
                    rows |-> <<>>, active |-> 0,
                    substrate |-> "cell", identity |-> 0, seeds |-> <<>>]
        /\ proc = [NoProc EXCEPT !.state = IF live THEN "up" ELSE "none"]
  BY DEF Init
<1> DEFINE rt == [state |-> IF live THEN "idle" ELSE "stopped",
                  exitCause |-> IF live THEN "none" ELSE "stopped_by_system",
                  evidence |-> "real", pid |-> TRUE]
<1>2. rt \in Runtime
  BY DEF Runtime, RuntimeStates, ExitCauses, StopCauses
<1> HIDE DEF rt
<1>3. /\ store.runtimes = <<rt>> /\ store.commands = <<>> /\ store.rows = <<>>
      /\ store.seeds = <<>> /\ store.mail = 0 /\ store.active = 0 /\ store.identity = 0
  BY <1>1 DEF rt
<1>4. <<rt>> \in Seq(Runtime) /\ Len(<<rt>>) = 1
  BY <1>2
<1>5. /\ <<>> \in Seq(RCommand) /\ <<>> \in Seq(Row) /\ <<>> \in Seq(Nat) /\ Len(<<>>) = 0
      /\ DOMAIN <<>> = {}
  BY EmptySeq
<1>6. store \in RStore
  BY <1>1, <1>3, <1>4, <1>5 DEF RStore
<1>7. Generation(store) = 1
  BY <1>3, <1>4 DEF Generation
<1>8. RowsOK(store)
  <2>1. Len(Names) \in Nat
    BY RelocationAssumption, LenProperties
  <2> QED
    BY <1>3, <1>5, <1>7, <2>1 DEF RowsOK
<1>9. MailOK(store)
  BY <1>3, <1>5, RelocationAssumption DEF MailOK, Fences
<1>10. QueueOK(store)
  BY <1>3, <1>5 DEF QueueOK
<1>11. proc \in Process /\ proc.identity = 0
  BY <1>1 DEF NoProc, Process, ExitCauses
<1>12. QuietOK(store, proc) /\ SameIdentity(store, proc)
  BY <1>3, <1>11 DEF QuietOK, Quiet, SameIdentity
<1>13. Scalars
  <2>1. summarizing = {} /\ up = TRUE /\ faults = 0 /\ requests = 0 /\ unkilled = FALSE
    BY DEF Init
  <2>2. faults \in 0 .. MaxFaults /\ requests \in 0 .. MaxRequests
    BY <2>1, RelocationAssumption
  <2>3. up \in BOOLEAN /\ unkilled \in BOOLEAN /\ summarizing \subseteq Ids
    BY <2>1
  <2> QED
    BY <1>11, <2>2, <2>3 DEF Scalars
<1> QED
  BY <1>6, <1>8, <1>9, <1>10, <1>12, <1>13 DEF RInv, StateOK, StoreOK

\* Every step keeps it.
LEMMA NextInv ==
  ASSUME RInv, [Next]_vars
  PROVE  RInv' /\ Advances(store, store')
<1>1. CASE Operator
  BY <1>1, OperatorStep
<1>2. CASE Booted \/ TurnEnded
  BY <1>2, ObservedStep
<1>3. CASE Exits
  BY <1>3, ExitsStep
<1>4. CASE ObserveExit
  BY <1>4, ObserveExitStep
<1>5. CASE CommandDue
  BY <1>5, CommandDueStep
<1>6. CASE BootHang
  BY <1>6, BootHangStep
<1>7. CASE Execute
  <2>1. CASE ClaimNothing
    BY <2>1, ClaimNothingStep
  <2>2. ASSUME NEW i \in DOMAIN store.commands,
               ExecuteStop(i) \/ SkipHangStop(i) \/ ExecuteArchive(i) \/ ExecuteStart(i)
        PROVE  RInv' /\ Advances(store, store')
    BY <2>2, ExecuteStopStep, SkipHangStopStep, ExecuteArchiveStep, ExecuteStartStep
  <2> QED
    BY <1>7, <2>1, <2>2 DEF Execute
<1>8. CASE Reconcile
  <2>1. PICK id \in Ids : \/ SourceStopped(id) \/ Place(id) \/ Summarize(id)
                          \/ StartingFails(id) \/ StartingRetries(id) \/ MoveArrives(id)
    BY <1>8 DEF Reconcile
  <2> QED
    BY <2>1, SourceStoppedStep, PlaceStep, SummarizeStep, StartingFailsStep,
       StartingRetriesStep, MoveArrivesStep
<1>9. CASE \E id \in Ids : Summarized(id)
  BY <1>9, SummarizerStep
<1>10. CASE Deliver
  BY <1>10, DeliverStep
<1>11. CASE Fault
  <2>1. CASE \E id \in Ids : PlaceFails(id) \/ SummarizerFails(id)
    BY <2>1, PlaceFailsStep, SummarizerStep
  <2>2. CASE \E i \in DOMAIN store.commands : StartFails(i) \/ CrashInStart(i)
    BY <2>2, BrokenStartStep
  <2>3. CASE Crash
    BY <2>3, CrashStep
  <2> QED
    BY <1>11, <2>1, <2>2, <2>3 DEF Fault
<1>12. CASE Restart
  BY <1>12, RestartStep
<1>13. CASE UNCHANGED vars
  BY <1>13 DEF vars, RInv, Scalars, Ids, Advances
<1> QED
  BY <1>1, <1>2, <1>3, <1>4, <1>5, <1>6, <1>7, <1>8, <1>9, <1>10, <1>11, <1>12, <1>13 DEF Next

\* The invariant of relocations holds in every reachable state.
LEMMA RelocationInvariant == Spec => []RInv
<1>1. Init => RInv
  BY InitInv
<1>2. RInv /\ [Next]_vars => RInv'
  BY NextInv
<1> QED
  BY <1>1, <1>2, PTL DEF Spec

\* Every variable has its type, at most one relocation is open and the bee is
\* bound to it: bees.active_move_id and active_handoff_id name the one row that
\* is neither complete nor failed, over any interleaving of requests and faults.
THEOREM RelocationTypeCorrect == Spec => []TypeOK
<1>1. RInv => TypeOK
  <2> SUFFICES ASSUME RInv PROVE TypeOK
    OBVIOUS
  <2>1. /\ store \in RStore /\ RowsOK(store) /\ MailOK(store) /\ Scalars
    BY DEF RInv, StateOK, StoreOK
  <2>2. /\ store.lifecycle \in {"active", "archived"} /\ store.substrate \in {"cell", "checkout"}
        /\ store.mail \in Nat /\ store.active \in Nat /\ store.identity \in Nat
        /\ store.rows \in Seq(Row) /\ store.seeds \in Seq(Nat)
    BY <2>1, RFields
  <2>3. \A i \in DOMAIN store.commands : store.commands[i].kind \in Kinds \union Keys
    <3>1. \A i \in DOMAIN store.commands : store.commands[i] \in RCommand
      BY <2>1, RElements
    <3> QED
      BY <3>1 DEF RCommand
  <2>4. /\ Len(store.rows) \in Nat /\ Ids = 1 .. Len(store.rows) /\ Len(store.seeds) \in Nat
        /\ DOMAIN store.seeds = 1 .. Len(store.seeds) /\ Len(Names) \in Nat
    BY <2>1, RElements, RelocationAssumption, LenProperties DEF Ids
  <2>5. /\ Len(store.rows) <= Len(Names) /\ store.active \in {0, Len(store.rows)}
        /\ store.identity <= Len(store.rows)
        /\ \A id \in Ids : store.rows[id].phase \in OpenPhases <=> store.active = id
    BY <2>1 DEF RowsOK, Ids
  <2>6. store.active \in {0} \union Ids /\ store.identity \in {0} \union Ids
    BY <2>2, <2>4, <2>5
  <2>7. /\ Len(store.seeds) <= store.mail /\ store.mail <= MaxMail + Len(store.seeds)
        /\ Len(store.seeds) <= Len(store.rows)
        /\ \A i \in DOMAIN store.seeds : store.seeds[i] \in Ids
    BY <2>1 DEF MailOK, Ids
  <2>8. store.mail \in 0 .. MaxMail + Len(Names)
    BY <2>2, <2>4, <2>5, <2>7, RelocationAssumption
  <2>9. store.seeds \in Seq(Ids)
    <3>1. store.seeds \in [1 .. Len(store.seeds) -> Nat]
      BY <2>2, LenProperties
    <3>2. store.seeds \in [1 .. Len(store.seeds) -> Ids]
      BY <2>4, <2>7, <3>1
    <3> QED
      BY <2>4, <3>2, MappedSeq
  <2>10. \A id \in Ids : store.rows[id].phase \in {"starting"} \union Fencing <=> store.active = id
    BY <2>5 DEF OpenPhases
  <2>11. /\ proc \in Process /\ summarizing \subseteq Ids /\ up \in BOOLEAN
         /\ faults \in 0 .. MaxFaults /\ requests \in 0 .. MaxRequests /\ unkilled \in BOOLEAN
    BY <2>1 DEF Scalars
  <2> QED
    BY <2>2, <2>3, <2>5, <2>6, <2>7, <2>8, <2>9, <2>10, <2>11 DEF TypeOK
<1> QED
  BY <1>1, RelocationInvariant, PTL

\* While a bee's row is about to be rewritten nothing of the source runs or
\* starts, whatever was queued before, whatever mail comes and wherever the
\* daemon crashes (the fences of claimNextCommand and applyWakeIfNeeded).
THEOREM SourceStaysDownCorrect == Spec => []SourceStaysDown
<1>1. RInv => SourceStaysDown
  <2> SUFFICES ASSUME RInv, NEW id \in Ids, store.rows[id].phase \in {"placing", "summarizing"}
               PROVE  SourceGone(id)
    BY DEF SourceStaysDown
  <2>1. StateOK(store, proc) /\ StoreOK(store) /\ id \in DOMAIN store.rows
    BY InvFacts DEF Ids
  <2>2. store.active = id /\ store.active # 0 /\ Active(store) = store.rows[id]
    BY <2>1, OpenIsActive DEF OpenPhases, Fencing
  <2>3. Quiet(store)
    BY <2>2 DEF Quiet
  <2> QED
    BY <2>1, <2>2, <2>3 DEF SourceGone, StateOK, QuietOK, HasProcess
<1> QED
  BY <1>1, RelocationInvariant, PTL

\* A process is what the bee's row says it is: no placement commit, switch or
\* late summary rewrites the row under a process that was started before it.
THEOREM RunsAsRecordedCorrect == Spec => []RunsAsRecorded
<1>1. RInv => RunsAsRecorded
  BY DEF RInv, StateOK, SameIdentity, RunsAsRecorded, HasProcess
<1> QED
  BY <1>1, RelocationInvariant, PTL

\* What an operator called off leaves no pending command behind (the supersede
\* of enqueueCommand settles the stop and the revive of the relocation).
THEOREM CalledOffIsOffCorrect == Spec => []CalledOffIsOff
<1>1. RInv => CalledOffIsOff
  BY DEF RInv, StateOK, StoreOK, QueueOK, CalledOffIsOff, Ids
<1> QED
  BY <1>1, RelocationInvariant, PTL

\* A handoff that failed with spawn_failed had minted a generation of its
\* target: switchBeeHandoff gives the budget back, so the failures of the old
\* harness are not held against the new one.
THEOREM BlamesTheTargetCorrect == Spec => []BlamesTheTarget
<1>1. RInv => BlamesTheTarget
  <2> SUFFICES ASSUME RInv, NEW id \in Ids, store.rows[id].kind = "handoff",
                      store.rows[id].code = "spawn_failed"
               PROVE  Generation(store) > store.rows[id].source
    BY DEF BlamesTheTarget
  <2>1. store \in RStore /\ RowsOK(store) /\ id \in DOMAIN store.rows
    BY InvFacts DEF Ids
  <2>2. store.rows[id].source < Generation(store)
    BY <2>1 DEF RowsOK
  <2>3. Generation(store) \in Nat /\ store.rows[id] \in Row
    BY <2>1, RElements
  <2> QED
    BY <2>2, <2>3 DEF Row
<1> QED
  BY <1>1, RelocationInvariant, PTL

\* A receipt that says complete or failed is never rewritten and never lost: a
\* step changes at most the row of the active relocation (Advances), and the
\* active relocation is open.
THEOREM ReceiptsAreFinalCorrect == Spec => ReceiptsAreFinal
<1>1. RInv /\ [Next]_vars =>
        [\A id \in Ids : store.rows[id].phase \in {"complete", "failed"}
                           => id \in Ids' /\ store'.rows[id] = store.rows[id]]_vars
  <2> SUFFICES ASSUME RInv, [Next]_vars, NEW id \in Ids,
                      store.rows[id].phase \in {"complete", "failed"}, ~UNCHANGED vars
               PROVE  id \in Ids' /\ store'.rows[id] = store.rows[id]
    OBVIOUS
  <2>1. Advances(store, store')
    BY NextInv
  <2>2. RowsOK(store) /\ id \in DOMAIN store.rows
    BY InvFacts DEF Ids
  <2>3. store.rows[id].phase \notin OpenPhases
    BY DEF OpenPhases, Fencing
  <2>4. id # store.active
    BY <2>2, <2>3 DEF RowsOK
  <2> QED
    BY <2>1, <2>2, <2>4 DEF Advances, Ids
<1> QED
  BY <1>1, RelocationInvariant, PTL DEF Spec, ReceiptsAreFinal
=============================================================================
