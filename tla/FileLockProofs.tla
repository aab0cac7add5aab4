--------------------------- MODULE FileLockProofs ---------------------------
(***************************************************************************)
(* Safety of the file lock for every set of clients and every number of    *)
(* generations.  The inductive invariant says of each client what its      *)
(* locals know for ever (Knows), and of each client what the files on disk *)
(* are for as long as no guard removal has misfired (Excludes): a client   *)
(* between acquireMutationGuard and the release of its guard has that      *)
(* guard on disk, one past the fingerprint check or holding the lock has   *)
(* its record at the lock's path.                                          *)
(***************************************************************************)
EXTENDS FileLock, TLAPS

Acting == Entering \union Guarded

\* What client c has read and decided stays true: the record of a generation
\* never changes, a dead owner stays dead, a holder has seen its own record.
Knows(c) ==
  /\ Seen(c).gen <= next
  /\ \A r \in lock : r.gen = Seen(c).gen => r = Seen(c)
  /\ local[c].pc \in {"idle", "publish", "look", "stat"} => local[c].op = "steal"
  /\ local[c].pc = "gValidate" => local[c].op = "steal"
  /\ local[c].pc = "gMove" => local[c].op # "refresh"
  /\ At(c, "gRemove") => local[c].judged \in dead
  /\ c \notin dead /\ local[c].op = "steal" /\ local[c].pc \in Acting => Seen(c).owner \in dead
  /\ local[c].pc = "held" \/ (local[c].op # "steal" /\ local[c].pc \in Acting) => Seen(c).owner = c

\* What client c relies on, unless a guard removal has misfired.
Excludes(c) ==
  /\ c \notin dead /\ local[c].pc \in Guarded => [gen |-> Seen(c).gen, owner |-> c] \in guards
  /\ c \notin dead /\ local[c].pc \in Checked => lock = {Seen(c)}
  /\ Holds(c) => lock = {Seen(c)}

IInv ==
  /\ TypeOK
  /\ \A r \in lock : 1 <= r.gen /\ r.gen <= next
  /\ \A c \in Clients : Knows(c)
  /\ misfired \/ \A c \in Clients : Excludes(c)

-----------------------------------------------------------------------------
(* How the locals of one client change. *)

Others(c) == \A d \in Clients \ {c} : local'[d] = local[d]

\* Only the location of a client's locals changes.
LEMMA PcFacts ==
  ASSUME NEW r \in Locals, NEW l \in Locations
  PROVE  LET s == [r EXCEPT !.pc = l]
         IN  /\ s \in Locals /\ s.pc = l /\ s.op = r.op /\ s.seen = r.seen
             /\ s.birth = r.birth /\ s.judged = r.judged
BY DEF Locals

\* Goto moves one client and leaves its other locals alone.
LEMMA GotoFacts ==
  ASSUME TypeOK, NEW c \in Clients, NEW l \in Locations, Goto(c, l)
  PROVE  /\ local' \in [Clients -> Locals] /\ Others(c)
         /\ local'[c].pc = l /\ local'[c].op = local[c].op /\ local'[c].seen = local[c].seen
         /\ local'[c].judged = local[c].judged /\ local'[c].birth = local[c].birth
<1> DEFINE s == [local[c] EXCEPT !.pc = l]
<1>1. local \in [Clients -> Locals] /\ local' = [local EXCEPT ![c] = s]
  BY Zenon DEF TypeOK, Goto
<1>2. /\ s \in Locals /\ s.pc = l /\ s.op = local[c].op /\ s.seen = local[c].seen
      /\ s.birth = local[c].birth /\ s.judged = local[c].judged
  BY <1>1, PcFacts
<1> HIDE DEF s
<1> QED
  BY <1>1, <1>2 DEF Others

\* A record is read or published.
LEMMA SeenFacts ==
  ASSUME TypeOK, NEW c \in Clients, NEW l \in Locations, NEW v \in Record,
         Sees(c, l, v)
  PROVE  /\ local' \in [Clients -> Locals] /\ Others(c)
         /\ local'[c].pc = l /\ local'[c].seen = v
         /\ local'[c].op = local[c].op /\ local'[c].birth = local[c].birth /\ local'[c].judged = local[c].judged
<1> DEFINE s == [local[c] EXCEPT !.pc = l, !.seen = v]
<1>1. local \in [Clients -> Locals] /\ local' = [local EXCEPT ![c] = s]
  BY DEF TypeOK, Sees
<1>2. ASSUME NEW r \in Locals
      PROVE  LET t == [r EXCEPT !.pc = l, !.seen = v]
             IN  /\ t \in Locals /\ t.pc = l /\ t.seen = v
                 /\ t.op = r.op /\ t.birth = r.birth /\ t.judged = r.judged
  BY DEF Locals
<1>3. local[c] \in Locals
  BY <1>1
<1>4. /\ s \in Locals /\ s.pc = l /\ s.seen = v
      /\ s.op = local[c].op /\ s.birth = local[c].birth /\ s.judged = local[c].judged
  BY <1>2, <1>3
<1> HIDE DEF s
<1> QED
  BY <1>1, <1>4 DEF Others

\* The age of the record is read.
LEMMA BirthFacts ==
  ASSUME TypeOK, NEW c \in Clients, NEW l \in Locations, NEW v \in BOOLEAN,
         Dates(c, l, v)
  PROVE  /\ local' \in [Clients -> Locals] /\ Others(c)
         /\ local'[c].pc = l /\ local'[c].birth = v
         /\ local'[c].op = local[c].op /\ local'[c].seen = local[c].seen /\ local'[c].judged = local[c].judged
<1> DEFINE s == [local[c] EXCEPT !.pc = l, !.birth = v]
<1>1. local \in [Clients -> Locals] /\ local' = [local EXCEPT ![c] = s]
  BY DEF TypeOK, Dates
<1>2. ASSUME NEW r \in Locals
      PROVE  LET t == [r EXCEPT !.pc = l, !.birth = v]
             IN  /\ t \in Locals /\ t.pc = l /\ t.birth = v
                 /\ t.op = r.op /\ t.seen = r.seen /\ t.judged = r.judged
  BY DEF Locals
<1>3. local[c] \in Locals
  BY <1>1
<1>4. /\ s \in Locals /\ s.pc = l /\ s.birth = v
      /\ s.op = local[c].op /\ s.seen = local[c].seen /\ s.judged = local[c].judged
  BY <1>2, <1>3
<1> HIDE DEF s
<1> QED
  BY <1>1, <1>4 DEF Others

\* A guarded operation is begun or is over.
LEMMA OpFacts ==
  ASSUME TypeOK, NEW c \in Clients, NEW l \in Locations, NEW v \in Ops,
         Turns(c, l, v)
  PROVE  /\ local' \in [Clients -> Locals] /\ Others(c)
         /\ local'[c].pc = l /\ local'[c].op = v
         /\ local'[c].seen = local[c].seen /\ local'[c].birth = local[c].birth /\ local'[c].judged = local[c].judged
<1> DEFINE s == [local[c] EXCEPT !.pc = l, !.op = v]
<1>1. local \in [Clients -> Locals] /\ local' = [local EXCEPT ![c] = s]
  BY DEF TypeOK, Turns
<1>2. ASSUME NEW r \in Locals
      PROVE  LET t == [r EXCEPT !.pc = l, !.op = v]
             IN  /\ t \in Locals /\ t.pc = l /\ t.op = v
                 /\ t.seen = r.seen /\ t.birth = r.birth /\ t.judged = r.judged
  BY DEF Locals
<1>3. local[c] \in Locals
  BY <1>1
<1>4. /\ s \in Locals /\ s.pc = l /\ s.op = v
      /\ s.seen = local[c].seen /\ s.birth = local[c].birth /\ s.judged = local[c].judged
  BY <1>2, <1>3
<1> HIDE DEF s
<1> QED
  BY <1>1, <1>4 DEF Others

\* A guard is read, or the reading forgotten.
LEMMA JudgedFacts ==
  ASSUME TypeOK, NEW c \in Clients, NEW l \in Locations, NEW v \in Clients,
         Judges(c, l, v)
  PROVE  /\ local' \in [Clients -> Locals] /\ Others(c)
         /\ local'[c].pc = l /\ local'[c].judged = v
         /\ local'[c].op = local[c].op /\ local'[c].seen = local[c].seen /\ local'[c].birth = local[c].birth
<1> DEFINE s == [local[c] EXCEPT !.pc = l, !.judged = v]
<1>1. local \in [Clients -> Locals] /\ local' = [local EXCEPT ![c] = s]
  BY DEF TypeOK, Judges
<1>2. ASSUME NEW r \in Locals
      PROVE  LET t == [r EXCEPT !.pc = l, !.judged = v]
             IN  /\ t \in Locals /\ t.pc = l /\ t.judged = v
                 /\ t.op = r.op /\ t.seen = r.seen /\ t.birth = r.birth
  BY DEF Locals
<1>3. local[c] \in Locals
  BY <1>1
<1>4. /\ s \in Locals /\ s.pc = l /\ s.judged = v
      /\ s.op = local[c].op /\ s.seen = local[c].seen /\ s.birth = local[c].birth
  BY <1>2, <1>3
<1> HIDE DEF s
<1> QED
  BY <1>1, <1>4 DEF Others

\* Leave resets the locals of one client.
LEMMA LeaveFacts ==
  ASSUME TypeOK, NEW c \in Clients, NEW l \in Locations, Leave(c, l)
  PROVE  /\ local' \in [Clients -> Locals] /\ Others(c)
         /\ local'[c].pc = l /\ local'[c].op = "steal"
         /\ local'[c].seen = [gen |-> 0, owner |-> c] /\ local'[c].judged = c
<1>1. Outside(c, l) \in Locals
  BY MaxGenAssumption DEF Outside, Locals, Ops, Record
<1> QED
  BY <1>1 DEF TypeOK, Leave, Others, Outside

-----------------------------------------------------------------------------
(* What one client does to the others. *)

\* What a client knows survives the steps of the others: records are new or
\* stay, the dead stay dead.
LEMMA OtherKnows ==
  ASSUME IInv, NEW c \in Clients, NEW d \in Clients \ {c}, Others(c),
         next' \in Nat, next <= next', dead \subseteq dead',
         \A r \in lock' : r \in lock \/ r.gen = next + 1
  PROVE  Knows(d)'
<1>1. Knows(d) /\ local'[d] = local[d] /\ next \in Nat /\ Seen(d).gen \in Nat
  BY MaxGenAssumption DEF IInv, TypeOK, Others, Locals, Record, Seen
<1> QED
  BY <1>1 DEF Knows, Seen, At

\* What a client relies on survives while the lock and its guard stay.
LEMMA OtherExcludes ==
  ASSUME NEW c \in Clients, NEW d \in Clients \ {c}, Others(c), Excludes(d),
         dead \subseteq dead', lock' = lock,
         d \notin dead /\ local[d].pc \in Guarded
           => ([gen |-> Seen(d).gen, owner |-> d] \in guards
               => [gen |-> Seen(d).gen, owner |-> d] \in guards')
  PROVE  Excludes(d)'
<1>1. local'[d] = local[d]
  BY DEF Others
<1> QED
  BY <1>1 DEF Excludes, Seen, Holds, Checked, Guarded

\* A step that only changes the locals of one client.
LEMMA Quiet ==
  ASSUME IInv, NEW c \in Clients, UNCHANGED quiet,
         local' \in [Clients -> Locals], Others(c),
         Knows(c)', misfired \/ Excludes(c)'
  PROVE  IInv'
<1>1. TypeOK'
  BY DEF IInv, TypeOK, quiet, files, processes
<1>2. next \in Nat /\ UNCHANGED <<lock, guards, next, dead, misfired>>
  BY MaxGenAssumption DEF IInv, TypeOK, quiet, files, processes
<1>3. ASSUME NEW d \in Clients PROVE Knows(d)'
  BY <1>2, OtherKnows
<1>4. ASSUME NEW d \in Clients, ~misfired PROVE Excludes(d)'
  BY <1>2, <1>4, OtherExcludes DEF IInv
<1> QED
  BY <1>1, <1>2, <1>3, <1>4 DEF IInv

-----------------------------------------------------------------------------
(* The steps that change nothing but the locals of their client. *)

\* Facts every step of a client starts from.
LEMMA Given ==
  ASSUME IInv, NEW c \in Clients
  PROVE  /\ TypeOK /\ Knows(c) /\ (misfired \/ Excludes(c))
         /\ local[c] \in Locals /\ local[c].pc \in Locations /\ local[c].op \in Ops
         /\ Seen(c) \in Record /\ local[c].judged \in Clients
         /\ Seen(c).gen \in Nat /\ next \in Nat
BY MaxGenAssumption DEF IInv, TypeOK, Locals, Record, Seen

\* A client that leaves the loop or turns in it knows and relies on nothing.
LEMMA LeavePreserves ==
  ASSUME IInv, NEW c \in Clients, UNCHANGED quiet,
         NEW l \in {"idle", "publish", "failed"}, Leave(c, l)
  PROVE  IInv'
<1>1. l \in Locations
  BY DEF Locations
<1>2. /\ local' \in [Clients -> Locals] /\ Others(c)
      /\ local'[c].pc = l /\ local'[c].op = "steal"
      /\ local'[c].seen = [gen |-> 0, owner |-> c]
  BY <1>1, LeaveFacts, Given
<1>3. UNCHANGED <<lock, next, dead>> /\ next \in Nat /\ \A r \in lock : 1 <= r.gen
  BY Given DEF quiet, files, processes, IInv
<1>4. \A r \in lock : r.gen # 0
  BY <1>3
<1>5. Knows(c)'
  BY <1>2, <1>3, <1>4 DEF Knows, Seen, At, Acting, Entering, Guarded, Checked
<1>6. Excludes(c)'
  BY <1>2 DEF Excludes, Holds, Entering, Guarded, Checked
<1> QED
  BY <1>2, <1>5, <1>6, Quiet

\* TryAgain is either of two ways to leave.
LEMMA TryAgainPreserves ==
  ASSUME IInv, NEW c \in Clients, UNCHANGED quiet, TryAgain(c)
  PROVE  IInv'
BY LeavePreserves DEF TryAgain

\* Begin: a call of withFileLock enters the loop.
LEMMA BeginPreserves ==
  ASSUME IInv, NEW c \in Clients, Begin(c)
  PROVE  IInv'
<1>1. "publish" \in Locations /\ UNCHANGED quiet /\ Goto(c, "publish")
  BY DEF Locations, Begin
<1>2. /\ local' \in [Clients -> Locals] /\ Others(c)
      /\ local'[c].pc = "publish" /\ local'[c].op = local[c].op /\ local'[c].seen = local[c].seen
  BY <1>1, GotoFacts, Given
<1>3. Knows(c)' /\ (misfired \/ Excludes(c)')
  BY <1>1, <1>2, Given DEF Begin, At, Knows, Excludes, Holds, Seen, Acting, Entering, Guarded, Checked,
                           quiet, files, processes
<1> QED
  BY <1>1, <1>2, <1>3, Quiet

\* LockExists: the link failed, the loop goes to read the record.
LEMMA LockExistsPreserves ==
  ASSUME IInv, NEW c \in Clients, LockExists(c)
  PROVE  IInv'
<1>1. "look" \in Locations /\ UNCHANGED quiet /\ Goto(c, "look")
  BY DEF Locations, LockExists
<1>2. /\ local' \in [Clients -> Locals] /\ Others(c)
      /\ local'[c].pc = "look" /\ local'[c].op = local[c].op /\ local'[c].seen = local[c].seen
  BY <1>1, GotoFacts, Given
<1>3. Knows(c)' /\ (misfired \/ Excludes(c)')
  BY <1>1, <1>2, Given DEF LockExists, At, Knows, Excludes, Holds, Seen, Acting, Entering, Guarded,
                           Checked, quiet, files, processes
<1> QED
  BY <1>1, <1>2, <1>3, Quiet

\* ReadLock: the record read is the only record of its generation.
LEMMA ReadLockPreserves ==
  ASSUME IInv, NEW c \in Clients, ReadLock(c)
  PROVE  IInv'
<1>1. UNCHANGED quiet /\ At(c, "look")
  BY DEF ReadLock
<1>2. CASE TryAgain(c)
  BY <1>1, <1>2, TryAgainPreserves
<1>3. ASSUME NEW r \in lock, Sees(c, "stat", r)
      PROVE  IInv'
  <2>1. "stat" \in Locations /\ r \in Record /\ r.gen <= next /\ \A q \in lock : q = r
    BY DEF Locations, IInv, TypeOK
  <2>2. /\ local' \in [Clients -> Locals] /\ Others(c)
        /\ local'[c].pc = "stat" /\ local'[c].op = local[c].op /\ local'[c].seen = r
    BY <1>3, <2>1, SeenFacts, Given
  <2>3. Knows(c)' /\ (misfired \/ Excludes(c)')
    BY <1>1, <2>1, <2>2, Given DEF At, Knows, Excludes, Holds, Seen, Acting, Entering, Guarded,
                                   Checked, quiet, files, processes
  <2> QED
    BY <1>1, <2>2, <2>3, Quiet
<1> QED
  BY <1>2, <1>3 DEF ReadLock

\* StatLock: a client goes on to steal only from a dead owner.
LEMMA StatLockPreserves ==
  ASSUME IInv, NEW c \in Clients, StatLock(c)
  PROVE  IInv'
<1>1. UNCHANGED quiet /\ At(c, "stat")
  BY DEF StatLock
<1>2. CASE TryAgain(c)
  BY <1>1, <1>2, TryAgainPreserves
<1>3. CASE /\ Dates(c, "gPublish", old)
           /\ CanSafelyReclaim(Seen(c).owner, old)
  <2>1. "gPublish" \in Locations /\ old \in BOOLEAN /\ Seen(c).owner \in dead
    BY <1>3, Given DEF Locations, Entering, TypeOK, CanSafelyReclaim
  <2>2. /\ local' \in [Clients -> Locals] /\ Others(c)
        /\ local'[c].pc = "gPublish" /\ local'[c].op = local[c].op /\ local'[c].seen = local[c].seen
    BY <1>3, <2>1, BirthFacts, Given
  <2>3. Knows(c)' /\ (misfired \/ Excludes(c)')
    BY <1>1, <2>1, <2>2, Given DEF At, Knows, Excludes, Holds, Seen, Acting, Entering, Guarded,
                                   Checked, quiet, files, processes
  <2> QED
    BY <1>1, <2>2, <2>3, Quiet
<1> QED
  BY <1>2, <1>3 DEF StatLock

\* Return: the heartbeat's client holds the lock again, the others leave.
LEMMA ReturnFacts ==
  ASSUME IInv, NEW c \in Clients, Return(c), local[c].pc \in Acting
  PROVE  \/ TryAgain(c)
         \/ /\ local' \in [Clients -> Locals] /\ Others(c)
            /\ local'[c].seen = local[c].seen
            /\ \/ local[c].op = "refresh" /\ local'[c].pc = "held" /\ local'[c].op = "steal"
               \/ local[c].op = "release" /\ local'[c].pc = "confirm" /\ local'[c].op = "release"
<1>1. "held" \in Locations /\ "confirm" \in Locations /\ "steal" \in Ops
  BY DEF Locations, Ops
<1>2. CASE local[c].op = "refresh" /\ Turns(c, "held", "steal")
  BY <1>1, <1>2, OpFacts, Given
<1>3. CASE local[c].op = "release" /\ Goto(c, "confirm")
  BY <1>1, <1>3, GotoFacts, Given
<1> QED
  BY <1>2, <1>3 DEF Return

\* Return preserves the invariant wherever it is taken from.
LEMMA ReturnPreserves ==
  ASSUME IInv, NEW c \in Clients, UNCHANGED quiet, c \notin dead, Return(c), local[c].pc \in Acting
  PROVE  IInv'
<1>1. CASE TryAgain(c)
  BY <1>1, TryAgainPreserves
<1>2. CASE /\ local' \in [Clients -> Locals] /\ Others(c)
           /\ local'[c].seen = local[c].seen
           /\ \/ local[c].op = "refresh" /\ local'[c].pc = "held" /\ local'[c].op = "steal"
              \/ local[c].op = "release" /\ local'[c].pc = "confirm" /\ local'[c].op = "release"
  <2>1. Knows(c)' /\ (misfired \/ Excludes(c)')
    BY <1>2, Given DEF At, Knows, Excludes, Holds, Seen, Acting, Entering, Guarded, Checked,
                       quiet, files, processes
  <2> QED
    BY <1>2, <2>1, Quiet
<1> QED
  BY <1>1, <1>2, ReturnFacts

\* RetryGuard: a new attempt at the guard keeps what the last one knew.
LEMMA RetryGuardPreserves ==
  ASSUME IInv, NEW c \in Clients, UNCHANGED quiet, c \notin dead,
         local[c].pc \in Entering, RetryGuard(c)
  PROVE  IInv'
<1>1. CASE Return(c)
  BY <1>1, ReturnPreserves DEF Acting
<1>2. CASE Judges(c, "gPublish", c)
  <2>1. "gPublish" \in Locations
    BY DEF Locations, Entering
  <2>2. /\ local' \in [Clients -> Locals] /\ Others(c)
        /\ local'[c].pc = "gPublish" /\ local'[c].op = local[c].op /\ local'[c].seen = local[c].seen
    BY <1>2, <2>1, JudgedFacts, Given
  <2>3. Knows(c)' /\ (misfired \/ Excludes(c)')
    BY <2>2, Given, ZenonT(60) DEF At, Knows, Excludes, Holds, Seen, Acting, Entering, Guarded, Checked,
                       quiet, files, processes
  <2> QED
    BY <2>2, <2>3, Quiet
<1> QED
  BY <1>1, <1>2 DEF RetryGuard

\* ReadGuard: the owner of the guard in the way is noted.
LEMMA ReadGuardPreserves ==
  ASSUME IInv, NEW c \in Clients, ReadGuard(c)
  PROVE  IInv'
<1>1. UNCHANGED quiet /\ c \notin dead /\ local[c].pc = "gRead" /\ local[c].pc \in Entering
  BY DEF ReadGuard, At, Entering
<1>2. CASE RetryGuard(c)
  BY <1>1, <1>2, RetryGuardPreserves
<1>3. ASSUME NEW r \in GuardAt(Seen(c).gen), Judges(c, "gProbe", r.owner)
      PROVE  IInv'
  <2>1. "gProbe" \in Locations /\ r.owner \in Clients
    BY Given DEF Locations, Entering, GuardAt, TypeOK, Record
  <2>2. /\ local' \in [Clients -> Locals] /\ Others(c)
        /\ local'[c].pc = "gProbe" /\ local'[c].op = local[c].op /\ local'[c].seen = local[c].seen
    BY <1>3, <2>1, JudgedFacts, Given
  <2>3. Knows(c) /\ (misfired \/ Excludes(c)) /\ UNCHANGED <<lock, guards, next, dead>>
    BY <1>1, Given DEF quiet, files, processes
  <2>4. Knows(c)'
    BY <1>1, <2>2, <2>3 DEF At, Knows, Seen, Acting, Entering, Guarded, Checked
  <2>5. misfired \/ Excludes(c)'
    BY <1>1, <2>2, <2>3 DEF Excludes, Holds, Seen, Entering, Guarded, Checked
  <2> QED
    BY <1>1, <2>2, <2>4, <2>5, Quiet
<1> QED
  BY <1>2, <1>3 DEF ReadGuard

\* ProbeGuardOwner: a guard is removed only after its owner was found dead.
LEMMA ProbeGuardOwnerPreserves ==
  ASSUME IInv, NEW c \in Clients, ProbeGuardOwner(c)
  PROVE  IInv'
<1>1. UNCHANGED quiet /\ c \notin dead /\ local[c].pc = "gProbe" /\ local[c].pc \in Entering
  BY DEF ProbeGuardOwner, At, Entering
<1>2. CASE RetryGuard(c)
  BY <1>1, <1>2, RetryGuardPreserves
<1>3. CASE CanSafelyReclaim(local[c].judged, TRUE) /\ Goto(c, "gRemove")
  <2>1. "gRemove" \in Locations /\ local[c].judged \in dead
    BY <1>3 DEF Locations, Entering, CanSafelyReclaim
  <2>2. /\ local' \in [Clients -> Locals] /\ Others(c)
        /\ local'[c].pc = "gRemove" /\ local'[c].op = local[c].op /\ local'[c].seen = local[c].seen
        /\ local'[c].judged = local[c].judged
    BY <1>3, <2>1, GotoFacts, Given
  <2>3. Knows(c)' /\ (misfired \/ Excludes(c)')
    BY <1>1, <2>1, <2>2, Given, ZenonT(60) DEF At, Knows, Excludes, Holds, Seen, Acting, Entering, Guarded,
                                   Checked, quiet, files, processes
  <2> QED
    BY <1>1, <2>2, <2>3, Quiet
<1> QED
  BY <1>2, <1>3 DEF ProbeGuardOwner

\* CheckIdentity: past the fingerprint check the record seen is the lock's.
LEMMA CheckIdentityPreserves ==
  ASSUME IInv, NEW c \in Clients, CheckIdentity(c)
  PROVE  IInv'
<1> DEFINE l == IF \E r \in lock : r.gen = Seen(c).gen THEN "gStat" ELSE "gDrop"
<1>1. UNCHANGED quiet /\ c \notin dead /\ local[c].pc = "gCheck" /\ Goto(c, l)
  BY DEF CheckIdentity, At
<1>2. /\ l \in {"gStat", "gDrop"} /\ l \in Locations
      /\ l = "gStat" => lock = {Seen(c)}
  <2>1. ASSUME l = "gStat" PROVE lock = {Seen(c)}
    <3>1. PICK r \in lock : r.gen = Seen(c).gen
      BY <2>1
    <3>2. r = Seen(c) /\ \A q \in lock : q = r
      BY <3>1, Given DEF Knows, TypeOK
    <3> QED
      BY <3>1, <3>2
  <2> QED
    BY <2>1 DEF Locations, Guarded, Checked
<1> HIDE DEF l
<1>3. /\ local' \in [Clients -> Locals] /\ Others(c)
      /\ local'[c].pc = l /\ local'[c].op = local[c].op /\ local'[c].seen = local[c].seen
  BY <1>1, <1>2, GotoFacts, Given
<1>4. Knows(c)' /\ (misfired \/ Excludes(c)')
  BY <1>1, <1>2, <1>3, Given DEF At, Knows, Excludes, Holds, Seen, Acting, Entering, Guarded,
                                 Checked, quiet, files, processes
<1> QED
  BY <1>1, <1>3, <1>4, Quiet

\* StatIdentity: what is done under the guard is what the client came for.
LEMMA StatIdentityPreserves ==
  ASSUME IInv, NEW c \in Clients, StatIdentity(c)
  PROVE  IInv'
<1> DEFINE l == IF lock = {} THEN "gDrop"
                ELSE CASE local[c].op = "steal"   -> "gValidate"
                       [] local[c].op = "refresh" -> "gTouch"
                       [] local[c].op = "release" -> "gMove"
<1>1. UNCHANGED quiet /\ c \notin dead /\ local[c].pc = "gStat" /\ Goto(c, l)
  BY DEF StatIdentity, At
<1>2. /\ l \in {"gDrop", "gValidate", "gTouch", "gMove"} /\ l \in Locations
      /\ (l = "gValidate" => local[c].op = "steal")
      /\ (l = "gMove" => local[c].op = "release")
  BY Given DEF Locations, Guarded, Checked, Ops
<1> HIDE DEF l
<1>3. /\ local' \in [Clients -> Locals] /\ Others(c)
      /\ local'[c].pc = l /\ local'[c].op = local[c].op /\ local'[c].seen = local[c].seen
  BY <1>1, <1>2, GotoFacts, Given
<1>4. Knows(c)' /\ (misfired \/ Excludes(c)')
  BY <1>1, <1>2, <1>3, Given DEF At, Knows, Excludes, Holds, Seen, Acting, Entering, Guarded,
                                 Checked, quiet, files, processes
<1> QED
  BY <1>1, <1>3, <1>4, Quiet

\* Validate: the probe under the guard.
LEMMA ValidatePreserves ==
  ASSUME IInv, NEW c \in Clients, Validate(c)
  PROVE  IInv'
<1> DEFINE l == IF CanSafelyReclaim(Seen(c).owner, local[c].birth) THEN "gMove" ELSE "gDrop"
<1>1. UNCHANGED quiet /\ c \notin dead /\ local[c].pc = "gValidate" /\ Goto(c, l)
  BY DEF Validate, At
<1>2. l \in {"gMove", "gDrop"} /\ l \in Locations
  BY DEF Locations, Guarded, Checked
<1> HIDE DEF l
<1>3. /\ local' \in [Clients -> Locals] /\ Others(c)
      /\ local'[c].pc = l /\ local'[c].op = local[c].op /\ local'[c].seen = local[c].seen
  BY <1>1, <1>2, GotoFacts, Given
<1>4. Knows(c)' /\ (misfired \/ Excludes(c)')
  BY <1>1, <1>2, <1>3, Given DEF At, Knows, Excludes, Holds, Seen, Acting, Entering, Guarded,
                                 Checked, quiet, files, processes
<1> QED
  BY <1>1, <1>3, <1>4, Quiet

\* DropGuard: the guard is read before it is removed.
LEMMA DropGuardPreserves ==
  ASSUME IInv, NEW c \in Clients, DropGuard(c)
  PROVE  IInv'
<1>1. UNCHANGED quiet /\ c \notin dead /\ local[c].pc = "gDrop" /\ local[c].pc \in Acting
  BY DEF DropGuard, At, Acting, Guarded
<1>2. CASE Return(c)
  BY <1>1, <1>2, ReturnPreserves
<1>3. CASE Goto(c, "gUnlink")
  <2>1. "gUnlink" \in Locations
    BY DEF Locations, Guarded
  <2>2. /\ local' \in [Clients -> Locals] /\ Others(c)
        /\ local'[c].pc = "gUnlink" /\ local'[c].op = local[c].op /\ local'[c].seen = local[c].seen
    BY <1>3, <2>1, GotoFacts, Given
  <2>3. Knows(c)' /\ (misfired \/ Excludes(c)')
    BY <1>1, <2>2, Given DEF At, Knows, Excludes, Holds, Seen, Acting, Entering, Guarded, Checked,
                             quiet, files, processes
  <2> QED
    BY <1>1, <2>2, <2>3, Quiet
<1> QED
  BY <1>2, <1>3 DEF DropGuard

\* EnterGuard: the holder goes for the guard of its own record.
LEMMA EnterGuardPreserves ==
  ASSUME IInv, NEW c \in Clients, NEW what \in {"refresh", "release"}, EnterGuard(c, what)
  PROVE  IInv'
<1>1. UNCHANGED quiet /\ c \notin dead /\ local[c].pc = "held" /\ Turns(c, "gPublish", what)
  BY DEF EnterGuard, At
<1>2. "gPublish" \in Locations /\ what \in Ops
  BY DEF Locations, Entering, Ops
<1>3. /\ local' \in [Clients -> Locals] /\ Others(c)
      /\ local'[c].pc = "gPublish" /\ local'[c].op = what /\ local'[c].seen = local[c].seen
  BY <1>1, <1>2, OpFacts, Given
<1>4. Knows(c)' /\ (misfired \/ Excludes(c)')
  BY <1>1, <1>3, Given DEF At, Knows, Excludes, Holds, Seen, Acting, Entering, Guarded, Checked,
                           quiet, files, processes
<1> QED
  BY <1>1, <1>3, <1>4, Quiet

\* ConfirmRelease: the call is over, or its release has failed.
LEMMA ConfirmReleasePreserves ==
  ASSUME IInv, NEW c \in Clients, ConfirmRelease(c)
  PROVE  IInv'
BY LeavePreserves DEF ConfirmRelease

-----------------------------------------------------------------------------
(* The steps that change the files. *)

\* PublishLock: nobody relies on an empty path, and the record is a new one.
LEMMA PublishLockPreserves ==
  ASSUME IInv, NEW c \in Clients, PublishLock(c)
  PROVE  IInv'
<1> DEFINE mine == [gen |-> next + 1, owner |-> c]
<1>1. /\ At(c, "publish") /\ lock = {} /\ next < MaxGen /\ lock' = {mine}
      /\ Sees(c, "held", mine) /\ next' = next + 1 /\ old' = FALSE
      /\ UNCHANGED <<guards, dead, recycled, misfired>>
  BY DEF PublishLock, processes
<1>2. "held" \in Locations /\ mine \in Record /\ next' \in 0 .. MaxGen /\ next' \in Nat
  BY <1>1, Given, MaxGenAssumption DEF Locations, Record, TypeOK
<1>3. mine.gen = next + 1 /\ mine.owner = c
  OBVIOUS
<1> HIDE DEF mine
<1>4. /\ local' \in [Clients -> Locals] /\ Others(c)
      /\ local'[c].pc = "held" /\ local'[c].seen = mine /\ local'[c].op = local[c].op
  BY <1>1, <1>2, SeenFacts, Given
<1>5. TypeOK'
  BY <1>1, <1>2, <1>4 DEF IInv, TypeOK
<1>6. \A r \in lock' : 1 <= r.gen /\ r.gen <= next'
  BY <1>1, <1>3, Given
<1>7. ASSUME NEW d \in Clients PROVE Knows(d)'
  <2>1. CASE d = c
    <3>1. local[c].op = "steal" /\ c \notin dead'
      BY <1>1, Given DEF Knows, At
    <3> QED
      BY <1>1, <1>2, <1>3, <1>4, <2>1, <3>1 DEF Knows, Seen, At, Acting, Entering, Guarded, Checked
  <2>2. CASE d # c
    BY <1>1, <1>2, <1>3, <1>4, <2>2, Given, OtherKnows
  <2> QED
    BY <2>1, <2>2
<1>8. ASSUME NEW d \in Clients, ~misfired PROVE Excludes(d)'
  <2>1. CASE d = c
    BY <1>1, <1>4, <2>1, Given DEF Excludes, Seen, Holds, Entering, Guarded, Checked
  <2>2. CASE d # c
    <3>1. Excludes(d) /\ local'[d] = local[d]
      BY <1>4, <1>8, <2>2 DEF IInv, Others
    <3> QED
      BY <1>1, <3>1 DEF Excludes, Seen, Holds
  <2> QED
    BY <2>1, <2>2
<1> QED
  BY <1>1, <1>5, <1>6, <1>7, <1>8 DEF IInv

\* PublishGuard: a guard is added where none is.
LEMMA PublishGuardPreserves ==
  ASSUME IInv, NEW c \in Clients, PublishGuard(c)
  PROVE  IInv'
<1> DEFINE mine == [gen |-> Seen(c).gen, owner |-> c]
<1>1. /\ c \notin dead /\ local[c].pc = "gPublish"
      /\ UNCHANGED <<lock, next, old, dead, recycled, misfired>>
  BY DEF PublishGuard, At, processes
<1>2. CASE Goto(c, "gRead") /\ UNCHANGED guards
  <2>1. "gRead" \in Locations /\ UNCHANGED quiet
    BY <1>1, <1>2 DEF Locations, Entering, quiet, files, processes
  <2>2. /\ local' \in [Clients -> Locals] /\ Others(c)
        /\ local'[c].pc = "gRead" /\ local'[c].op = local[c].op /\ local'[c].seen = local[c].seen
    BY <1>2, <2>1, GotoFacts, Given
  <2>3. Knows(c)' /\ (misfired \/ Excludes(c)')
    BY <1>1, <1>2, <2>2, Given DEF At, Knows, Excludes, Holds, Seen, Acting, Entering, Guarded, Checked
  <2> QED
    BY <2>1, <2>2, <2>3, Quiet
<1>3. CASE GuardAt(Seen(c).gen) = {} /\ guards' = guards \union {mine} /\ Goto(c, "gCheck")
  <2>1. /\ "gCheck" \in Locations /\ mine \in Record /\ mine.gen = Seen(c).gen
        /\ \A r \in guards : r.gen # Seen(c).gen
    BY <1>3, Given DEF Locations, Guarded, Record, GuardAt
  <2>2. /\ local' \in [Clients -> Locals] /\ Others(c)
        /\ local'[c].pc = "gCheck" /\ local'[c].op = local[c].op /\ local'[c].seen = local[c].seen
    BY <1>3, <2>1, GotoFacts, Given
  <2>3. Knows(c)'
    BY <1>1, <2>2, Given DEF At, Knows, Seen, Acting, Entering, Guarded, Checked
  <2>8. misfired \/ Excludes(c)'
    BY <1>1, <1>3, <2>2, Given DEF Excludes, Holds, Seen, Entering, Guarded, Checked
  <2> HIDE DEF mine
  <2>4. guards' \subseteq Record /\ \A r, s \in guards' : r.gen = s.gen => r = s
    BY <1>3, <2>1, Given DEF TypeOK
  <2>5. TypeOK'
    BY <1>1, <2>2, <2>4 DEF IInv, TypeOK
  <2>6. ASSUME NEW d \in Clients PROVE Knows(d)'
    BY <1>1, <2>2, <2>3, Given, OtherKnows
  <2>7. ASSUME NEW d \in Clients, ~misfired PROVE Excludes(d)'
    BY <1>1, <1>3, <2>2, <2>7, <2>8, OtherExcludes DEF IInv
  <2> QED
    BY <1>1, <2>5, <2>6, <2>7 DEF IInv
<1> QED
  BY <1>2, <1>3 DEF PublishGuard

\* The guard of c's generation is gone from the path: short of a misfire, no
\* live client was between its acquisition and its release of that guard.
LEMMA GuardGone ==
  ASSUME IInv, NEW c \in Clients, NEW o \in Clients, c \notin dead,
         UNCHANGED <<lock, next, old, dead, recycled>>,
         guards' = guards \ GuardAt(Seen(c).gen),
         misfired' = (misfired \/ \E r \in GuardAt(Seen(c).gen) : r.owner # o),
         o \in dead \union {c},
         local' \in [Clients -> Locals], Others(c),
         Knows(c)', misfired \/ Excludes(c)'
  PROVE  IInv'
<1>1. TypeOK'
  BY DEF IInv, TypeOK
<1>2. ASSUME NEW d \in Clients PROVE Knows(d)'
  BY Given, OtherKnows
<1>3. ASSUME NEW d \in Clients, ~misfired' PROVE Excludes(d)'
  <2>1. ~misfired /\ \A r \in GuardAt(Seen(c).gen) : r.owner = o
    BY <1>3
  <2>2. CASE d = c
    BY <2>1, <2>2
  <2>3. CASE d # c
    <3> DEFINE g == [gen |-> Seen(d).gen, owner |-> d]
    <3>1. ASSUME d \notin dead, g \in guards PROVE g \notin GuardAt(Seen(c).gen)
      <4>1. g.owner = d /\ d # o
        BY <2>3, <3>1
      <4> QED
        BY <2>1, <4>1
    <3>2. Excludes(d) /\ d \in Clients \ {c}
      BY <2>1, <2>3 DEF IInv
    <3>3. d \notin dead /\ local[d].pc \in Guarded => (g \in guards => g \in guards')
      BY <3>1
    <3> HIDE DEF g
    <3> QED
      BY <3>2, <3>3, OtherExcludes DEF g
  <2> QED
    BY <2>2, <2>3
<1> QED
  BY <1>1, <1>2, <1>3 DEF IInv

\* ReclaimGuard: without a misfire the guard removed is the dead client's.
LEMMA ReclaimGuardPreserves ==
  ASSUME IInv, NEW c \in Clients, ReclaimGuard(c)
  PROVE  IInv'
<1> DEFINE o == local[c].judged
<1>1. /\ c \notin dead /\ local[c].pc = "gRemove"
      /\ UNCHANGED <<lock, next, old, dead, recycled>>
      /\ guards' = guards \ GuardAt(Seen(c).gen)
      /\ misfired' = (misfired \/ \E r \in GuardAt(Seen(c).gen) : r.owner # o)
      /\ Judges(c, "gPublish", c)
  BY DEF ReclaimGuard, At, processes
<1>2. "gPublish" \in Locations /\ o \in Clients /\ o \in dead
  BY <1>1, Given DEF Locations, Entering, Knows, At
<1> HIDE DEF o
<1>3. /\ local' \in [Clients -> Locals] /\ Others(c)
      /\ local'[c].pc = "gPublish" /\ local'[c].op = local[c].op /\ local'[c].seen = local[c].seen
  BY <1>1, <1>2, JudgedFacts, Given
<1>4. Knows(c)'
  BY <1>1, <1>3, Given DEF At, Knows, Seen, Acting, Entering, Guarded, Checked
<1>5. misfired \/ Excludes(c)'
  BY <1>1, <1>3, Given DEF Excludes, Holds, Seen, Entering, Guarded, Checked
<1> QED
  BY <1>1, <1>2, <1>3, <1>4, <1>5, GuardGone

\* UnlinkGuard: without a misfire the guard removed is the client's own.
LEMMA UnlinkGuardPreserves ==
  ASSUME IInv, NEW c \in Clients, UnlinkGuard(c)
  PROVE  IInv'
<1>1. /\ c \notin dead /\ local[c].pc = "gUnlink" /\ local[c].pc \in Acting
      /\ UNCHANGED <<lock, next, old, dead, recycled>>
      /\ guards' = guards \ GuardAt(Seen(c).gen)
      /\ misfired' = (misfired \/ \E r \in GuardAt(Seen(c).gen) : r.owner # c)
      /\ Return(c)
  BY DEF UnlinkGuard, At, processes, Acting, Guarded
<1>2. CASE TryAgain(c)
  <2>1. PICK l \in {"publish", "idle"} : Leave(c, l)
    BY <1>2 DEF TryAgain
  <2>2. l \in Locations
    BY DEF Locations
  <2>3. /\ local' \in [Clients -> Locals] /\ Others(c)
        /\ local'[c].pc = l /\ local'[c].op = "steal"
        /\ local'[c].seen = [gen |-> 0, owner |-> c]
    BY <2>1, <2>2, LeaveFacts, Given
  <2>4. \A r \in lock : 1 <= r.gen
    BY DEF IInv
  <2>5. Knows(c)'
    BY <1>1, <2>3, <2>4, Given DEF Knows, Seen, At, Acting, Entering, Guarded, Checked
  <2>6. Excludes(c)'
    BY <2>3 DEF Excludes, Holds, Entering, Guarded, Checked
  <2> QED
    BY <1>1, <2>3, <2>5, <2>6, GuardGone
<1>3. CASE /\ local' \in [Clients -> Locals] /\ Others(c)
           /\ local'[c].seen = local[c].seen
           /\ \/ local[c].op = "refresh" /\ local'[c].pc = "held" /\ local'[c].op = "steal"
              \/ local[c].op = "release" /\ local'[c].pc = "confirm" /\ local'[c].op = "release"
  <2>1. Knows(c)'
    BY <1>1, <1>3, Given DEF At, Knows, Seen, Acting, Entering, Guarded, Checked
  <2>2. misfired \/ Excludes(c)'
    BY <1>1, <1>3, Given DEF Excludes, Holds, Seen, Entering, Guarded, Checked
  <2> QED
    BY <1>1, <1>3, <2>1, <2>2, GuardGone
<1> QED
  BY <1>1, <1>2, <1>3, ReturnFacts

\* A live client about to move the lock, short of a misfire: the lock is the
\* record it has seen, its owner is itself or dead, and nobody else is past
\* the fingerprint check or holds the lock.
LEMMA MoverAlone ==
  ASSUME IInv, NEW c \in Clients, At(c, "gMove"), ~misfired
  PROVE  /\ lock = {Seen(c)} /\ Seen(c).owner \in dead \union {c}
         /\ \A d \in Clients \ {c} :
              d \notin dead => local[d].pc \notin Checked /\ ~Holds(d)
<1>1. /\ c \notin dead /\ local[c].pc = "gMove" /\ local[c].pc \in Acting
      /\ local[c].pc \in Checked /\ local[c].pc \in Guarded
  BY DEF At, Acting, Guarded, Checked
<1>2. lock = {Seen(c)} /\ [gen |-> Seen(c).gen, owner |-> c] \in guards
  BY <1>1, Given DEF Excludes
<1>3. Seen(c).owner \in dead \union {c}
  BY <1>1, Given DEF Knows
<1>4. ASSUME NEW d \in Clients \ {c}, d \notin dead, local[d].pc \in Checked PROVE FALSE
  <2>1. lock = {Seen(d)} /\ [gen |-> Seen(d).gen, owner |-> d] \in guards
    BY <1>4, Given DEF Excludes, Guarded
  <2>2. Seen(d) = Seen(c)
    BY <1>2, <2>1
  <2>3. [gen |-> Seen(c).gen, owner |-> d] = [gen |-> Seen(c).gen, owner |-> c]
    BY <1>2, <2>1, <2>2 DEF IInv, TypeOK
  <2> QED
    BY <2>3
<1>5. ASSUME NEW d \in Clients \ {c}, Holds(d) PROVE FALSE
  <2>1. lock = {Seen(d)} /\ d \notin dead
    BY <1>5, Given DEF Excludes, Holds
  <2>2. Seen(d).owner = d
    BY <1>5, Given DEF Knows, Holds, Acting
  <2>3. Seen(c) = Seen(d)
    BY <1>2, <2>1
  <2> QED
    BY <1>3, <2>1, <2>2, <2>3
<1> QED
  BY <1>2, <1>3, <1>4, <1>5

\* MoveLock: the path is emptied under the feet of nobody.
LEMMA MoveLockPreserves ==
  ASSUME IInv, NEW c \in Clients, MoveLock(c)
  PROVE  IInv'
<1>1. /\ c \notin dead /\ local[c].pc = "gMove" /\ At(c, "gMove") /\ lock' = {} /\ old' = FALSE
      /\ Goto(c, "gDrop") /\ UNCHANGED <<guards, next, dead, recycled, misfired>>
  BY DEF MoveLock, At, processes
<1>2. "gDrop" \in Locations
  BY DEF Locations, Guarded
<1>3. /\ local' \in [Clients -> Locals] /\ Others(c)
      /\ local'[c].pc = "gDrop" /\ local'[c].op = local[c].op /\ local'[c].seen = local[c].seen
  BY <1>1, <1>2, GotoFacts, Given
<1>4. Knows(c)'
  BY <1>1, <1>3, Given DEF Knows, Seen, At, Acting, Entering, Guarded, Checked
<1>5. misfired \/ Excludes(c)'
  BY <1>1, <1>3, Given DEF Excludes, Knows, Holds, Seen, Entering, Guarded, Checked
<1>6. TypeOK'
  BY <1>1, <1>3 DEF IInv, TypeOK
<1>7. ASSUME NEW d \in Clients PROVE Knows(d)'
  BY <1>1, <1>3, <1>4, Given, OtherKnows
<1>8. ASSUME NEW d \in Clients, ~misfired PROVE Excludes(d)'
  <2>1. CASE d = c
    BY <1>5, <1>8, <2>1
  <2>2. CASE d # c
    <3>1. Excludes(d) /\ local'[d] = local[d]
      BY <1>3, <1>8, <2>2 DEF IInv, Others
    <3>2. d \notin dead => local[d].pc \notin Checked /\ ~Holds(d)
      BY <1>1, <1>8, <2>2, MoverAlone
    <3> QED
      BY <1>1, <3>1, <3>2 DEF Excludes, Seen, Holds
  <2> QED
    BY <2>1, <2>2
<1> QED
  BY <1>1, <1>6, <1>7, <1>8 DEF IInv

\* Touch: the heartbeat makes the record young again.
LEMMA TouchPreserves ==
  ASSUME IInv, NEW c \in Clients, Touch(c)
  PROVE  IInv'
<1>1. /\ c \notin dead /\ local[c].pc = "gTouch" /\ old' = FALSE /\ Goto(c, "gDrop")
      /\ UNCHANGED <<lock, guards, next, dead, recycled, misfired>>
  BY DEF Touch, At, processes
<1>2. "gDrop" \in Locations
  BY DEF Locations, Guarded
<1>3. /\ local' \in [Clients -> Locals] /\ Others(c)
      /\ local'[c].pc = "gDrop" /\ local'[c].op = local[c].op /\ local'[c].seen = local[c].seen
  BY <1>1, <1>2, GotoFacts, Given
<1>4. Knows(c)'
  BY <1>1, <1>3, Given DEF Knows, Seen, At, Acting, Entering, Guarded, Checked
<1>5. misfired \/ Excludes(c)'
  BY <1>1, <1>3, Given DEF Excludes, Holds, Seen, Entering, Guarded, Checked
<1>6. TypeOK'
  BY <1>1, <1>3 DEF IInv, TypeOK
<1>7. ASSUME NEW d \in Clients PROVE Knows(d)'
  BY <1>1, <1>3, <1>4, Given, OtherKnows
<1>8. ASSUME NEW d \in Clients, ~misfired PROVE Excludes(d)'
  BY <1>1, <1>3, <1>5, <1>8, OtherExcludes DEF IInv
<1> QED
  BY <1>1, <1>6, <1>7, <1>8 DEF IInv

-----------------------------------------------------------------------------
(* The steps of the operating system. *)

\* Crash: a dead client relies on nothing, and its records stay where they are.
LEMMA CrashPreserves ==
  ASSUME IInv, NEW c \in Clients, Crash(c)
  PROVE  IInv'
<1>1. /\ dead' = dead \union {c} /\ Leave(c, "idle") /\ "idle" \in Locations
      /\ UNCHANGED <<lock, guards, next, old, recycled, misfired>>
  BY DEF Crash, files, Locations
<1>2. /\ local' \in [Clients -> Locals] /\ Others(c)
      /\ local'[c].pc = "idle" /\ local'[c].op = "steal"
      /\ local'[c].seen = [gen |-> 0, owner |-> c]
  BY <1>1, LeaveFacts, Given
<1>3. TypeOK'
  BY <1>1, <1>2 DEF IInv, TypeOK
<1>4. \A r \in lock : 1 <= r.gen
  BY DEF IInv
<1>5. Knows(c)'
  BY <1>1, <1>2, <1>4, Given DEF Knows, Seen, At, Acting, Entering, Guarded, Checked
<1>6. Excludes(c)'
  BY <1>2 DEF Excludes, Holds, Entering, Guarded, Checked
<1>7. ASSUME NEW d \in Clients PROVE Knows(d)'
  BY <1>1, <1>2, <1>5, Given, OtherKnows
<1>8. ASSUME NEW d \in Clients, ~misfired PROVE Excludes(d)'
  BY <1>1, <1>2, <1>6, <1>8, OtherExcludes DEF IInv
<1> QED
  BY <1>1, <1>3, <1>7, <1>8 DEF IInv

\* Time and the recycling of pids touch no record.
LEMMA WorldPreserves ==
  ASSUME IInv, Age \/ \E c \in Clients : RecyclePid(c)
  PROVE  IInv'
<1>1. UNCHANGED <<lock, guards, next, dead, local, misfired>>
  BY DEF Age, RecyclePid, files, processes
<1>2. recycled' \subseteq dead /\ old' \in BOOLEAN
  BY DEF Age, RecyclePid, files, processes, IInv, TypeOK
<1>3. TypeOK'
  BY <1>1, <1>2 DEF IInv, TypeOK
<1> QED
  BY <1>1, <1>3 DEF IInv, Knows, Excludes, Holds, Seen, At

-----------------------------------------------------------------------------
(* The invariant and the theorems. *)

\* The invariant holds of an empty directory.
LEMMA InitIInv == Init => IInv
<1> SUFFICES ASSUME Init PROVE IInv
  OBVIOUS
<1>1. ASSUME NEW c \in Clients PROVE Outside(c, "idle") \in Locals
  BY MaxGenAssumption DEF Outside, Locals, Locations, Ops, Record
<1>2. TypeOK
  <2>1. local \in [Clients -> Locals]
    BY <1>1, Zenon DEF Init
  <2>2. next \in 0 .. MaxGen
    BY MaxGenAssumption DEF Init
  <2> QED
    BY <2>1, <2>2 DEF Init, TypeOK
<1>3. ASSUME NEW c \in Clients PROVE Knows(c) /\ Excludes(c)
  <2>1. local[c] = Outside(c, "idle")
    BY DEF Init
  <2>2. local[c].pc = "idle" /\ local[c].op = "steal" /\ Seen(c) = [gen |-> 0, owner |-> c]
    BY <2>1 DEF Outside, Seen
  <2> QED
    BY <2>2 DEF Init, Knows, Excludes, Holds, At, Acting, Entering, Guarded, Checked
<1> QED
  BY <1>2, <1>3 DEF Init, IInv

\* Every step of withFileLock, of any client, preserves the invariant.
LEMMA NextIInv == IInv /\ [Next]_vars => IInv'
<1> SUFFICES ASSUME IInv, [Next]_vars PROVE IInv'
  OBVIOUS
<1>1. CASE UNCHANGED vars
  BY <1>1 DEF vars, quiet, files, processes, IInv, TypeOK, Knows, Excludes, Holds, Seen, At
<1>2. ASSUME NEW c \in Clients, Step(c) PROVE IInv'
  <2>1. CASE PublishLock(c) \/ LockExists(c) \/ ReadLock(c) \/ StatLock(c)
    BY <2>1, PublishLockPreserves, LockExistsPreserves, ReadLockPreserves, StatLockPreserves
  <2>2. CASE PublishGuard(c) \/ ReadGuard(c) \/ ProbeGuardOwner(c) \/ ReclaimGuard(c)
    BY <2>2, PublishGuardPreserves, ReadGuardPreserves, ProbeGuardOwnerPreserves,
       ReclaimGuardPreserves
  <2>3. CASE CheckIdentity(c) \/ StatIdentity(c) \/ Validate(c) \/ MoveLock(c)
    BY <2>3, CheckIdentityPreserves, StatIdentityPreserves, ValidatePreserves, MoveLockPreserves
  <2>4. CASE Touch(c) \/ DropGuard(c) \/ UnlinkGuard(c) \/ ConfirmRelease(c)
    BY <2>4, TouchPreserves, DropGuardPreserves, UnlinkGuardPreserves, ConfirmReleasePreserves
  <2> QED
    BY <1>2, <2>1, <2>2, <2>3, <2>4 DEF Step
<1>3. ASSUME NEW c \in Clients, Begin(c) \/ Heartbeat(c) \/ Release(c) PROVE IInv'
  BY <1>3, BeginPreserves, EnterGuardPreserves DEF Heartbeat, Release
<1>4. ASSUME NEW c \in Clients, Crash(c) PROVE IInv'
  BY <1>4, CrashPreserves
<1>5. ASSUME NEW c \in Clients, RecyclePid(c) PROVE IInv'
  BY <1>5, WorldPreserves
<1>6. CASE Age
  BY <1>6, WorldPreserves
<1> QED
  BY <1>1, <1>2, <1>3, <1>4, <1>5, <1>6 DEF Next

\* Short of a misfire the invariant leaves one holder, and it is on record.
LEMMA IInvSafe == IInv => HolderSafe
<1> SUFFICES ASSUME IInv, ~misfired PROVE OneHolder /\ HolderOnRecord
  BY DEF HolderSafe
<1>1. ASSUME NEW c \in Clients, Holds(c)
      PROVE  lock = {Seen(c)} /\ Seen(c).owner = c
  BY <1>1, Given DEF Excludes, Knows, Holds, Acting
<1>2. ASSUME NEW c \in Clients, NEW d \in Clients, Holds(c), Holds(d) PROVE c = d
  <2>1. lock = {Seen(c)} /\ lock = {Seen(d)} /\ Seen(c).owner = c /\ Seen(d).owner = d
    BY <1>1, <1>2
  <2> QED
    BY <2>1
<1> QED
  BY <1>1, <1>2 DEF OneHolder, HolderOnRecord

\* The invariant of the file lock, for any clients and any number of records.
THEOREM LockInvariant == Spec => []IInv
  BY InitIInv, NextIInv, PTL DEF Spec

\* acquireFileLock, the guard, the heartbeat and the release keep the files at
\* their paths and every client's locals well formed: one record at the
\* lock's path, one guard per generation.
THEOREM TypeCorrect == Spec => []TypeOK
<1>1. IInv => TypeOK
  BY DEF IInv
<1> QED
  BY <1>1, LockInvariant, PTL

\* withFileLock runs one callback at a time and under its own record, unless a
\* guard was removed that was not the one its remover had judged.
THEOREM MutualExclusion == Spec => []HolderSafe
  BY IInvSafe, LockInvariant, PTL

\* removeFileLockIfOwner's rename takes the record its caller has seen, which
\* is its own or a dead client's, unless a guard removal has misfired.
THEOREM RenameIsExact == Spec => MovesWhatItSaw
<1>1. ASSUME IInv, NEW c \in Clients, At(c, "gMove")
      PROVE  misfired \/ (lock = {Seen(c)} /\ Seen(c).owner \in dead \union {c})
  BY <1>1, MoverAlone
<1>2. IInv /\ [Next]_vars
        => [\A c \in Clients : At(c, "gMove") /\ ~At(c, "gMove")' /\ c \notin dead'
              => misfired \/ (lock = {Seen(c)} /\ Seen(c).owner \in dead \union {c})]_vars
  BY <1>1
<1> QED
  BY <1>2, LockInvariant, PTL DEF Spec, MovesWhatItSaw

=============================================================================
