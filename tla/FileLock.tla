------------------------------ MODULE FileLock ------------------------------
(***************************************************************************)
(* The file lock of v2/core/src/lock.ts, at the grain of its file system   *)
(* calls.  Deployment, runtime activation, account homes and gateway seeds *)
(* serialise processes with it.                                            *)
(*                                                                         *)
(*   lock     the record at the lock's path: none, or one                  *)
(*   guards   the records at the paths <lock>.mutate-<fingerprint>; a      *)
(*            guard's path is its gen                                      *)
(*   next     last generation issued: every record has a random token, so  *)
(*            its fingerprint names it, and a number stands for it         *)
(*   dead     clients whose process is gone; recycled: those whose pid     *)
(*            belongs to another process by now                            *)
(*   old      the lock's mtime is more than staleMs ago                    *)
(*                                                                         *)
(* A client is one call of withFileLock.  Clients of one process die       *)
(* together, which is one of the orders in which they can die here.  Its   *)
(* locals: pc; seen, the identity it read (its own, once it holds the      *)
(* lock); birth, what it read of the mtime; judged, the owner of a guard   *)
(* it read; op, what it does under the guard.                              *)
(*                                                                         *)
(* misfired is history: a guard was removed that was not the guard its     *)
(* remover had judged.                                                     *)
(***************************************************************************)
EXTENDS Naturals

CONSTANTS Clients,
          MaxGen       \* bound: records published at the lock's path

ASSUME MaxGenAssumption == MaxGen \in Nat

VARIABLES lock, guards, next, dead, recycled, old,
          local, misfired

files == <<lock, guards, next, old>>
processes == <<dead, recycled>>
quiet == <<files, processes, misfired>>
vars == <<quiet, local>>

Gens == 1 .. MaxGen

Record == [gen: 0 .. MaxGen, owner: Clients]

Ops == {"steal", "refresh", "release"}

\* Inside acquireMutationGuard, and from its success to the guard's removal.
Entering == {"gPublish", "gRead", "gProbe", "gRemove"}
Checked == {"gStat", "gValidate", "gMove", "gTouch"}
Guarded == {"gCheck", "gDrop", "gUnlink"} \union Checked

Locations == {"idle", "publish", "look", "stat", "held", "confirm", "failed"}
             \union Entering \union Guarded

Locals == [pc: Locations, op: Ops, seen: Record, birth: BOOLEAN, judged: Clients]

\* Outside a hold and a reclaim the other locals are out of scope.
Outside(c, l) == [pc |-> l, op |-> "steal", seen |-> [gen |-> 0, owner |-> c],
                  birth |-> FALSE, judged |-> c]

\* At a path is at most one record: link never overwrites.
TypeOK ==
  /\ lock \subseteq Record /\ guards \subseteq Record
  /\ \A r, s \in lock : r = s
  /\ \A r, s \in guards : r.gen = s.gen => r = s
  /\ next \in 0 .. MaxGen /\ old \in BOOLEAN
  /\ dead \subseteq Clients /\ recycled \subseteq dead
  /\ local \in [Clients -> Locals]
  /\ misfired \in BOOLEAN

Init ==
  /\ lock = {} /\ guards = {} /\ next = 0 /\ old = FALSE
  /\ dead = {} /\ recycled = {}
  /\ local = [c \in Clients |-> Outside(c, "idle")]
  /\ misfired = FALSE

-----------------------------------------------------------------------------
(* Helpers *)

At(c, l) == local[c].pc = l /\ c \notin dead

Goto(c, l) == local' = [local EXCEPT ![c].pc = l]

\* Goto, with one more local assigned on the way.
Sees(c, l, r) == local' = [local EXCEPT ![c].pc = l, ![c].seen = r]
Dates(c, l, b) == local' = [local EXCEPT ![c].pc = l, ![c].birth = b]
Turns(c, l, o) == local' = [local EXCEPT ![c].pc = l, ![c].op = o]
Judges(c, l, o) == local' = [local EXCEPT ![c].pc = l, ![c].judged = o]

Leave(c, l) == local' = [local EXCEPT ![c] = Outside(c, l)]

Seen(c) == local[c].seen

GuardAt(gen) == {r \in guards : r.gen = gen}

\* Mutant: an old mtime is taken for the death of the owner.
ReclaimByAge(owner, checkBirth) == owner \in dead \/ checkBirth

\* A dead pid proves it; a live one only if its birth is another and the
\* caller asks for the birth.
CanSafelyReclaim(owner, checkBirth) ==
  owner \in dead /\ (owner \in recycled => checkBirth)

-----------------------------------------------------------------------------
(* acquireFileLock *)

Begin(c) ==
  /\ At(c, "idle")
  /\ Goto(c, "publish")
  /\ UNCHANGED quiet

\* The link of a complete record: it fails where a file is.
PublishLock(c) ==
  /\ At(c, "publish") /\ lock = {} /\ next < MaxGen
  /\ LET mine == [gen |-> next + 1, owner |-> c]
     IN  /\ lock' = {mine}
         /\ Sees(c, "held", mine)
  /\ next' = next + 1 /\ old' = FALSE
  /\ UNCHANGED <<guards, processes, misfired>>

LockExists(c) ==
  /\ At(c, "publish") /\ lock # {}
  /\ Goto(c, "look")
  /\ UNCHANGED quiet

\* Another turn of the loop, or FileLockTimeoutError.
TryAgain(c) == Leave(c, "publish") \/ Leave(c, "idle")

\* readFileLockIdentity: the record first, the mtime of whatever is there next.
ReadLock(c) ==
  /\ At(c, "look")
  /\ \/ lock = {} /\ TryAgain(c)
     \/ \E r \in lock : Sees(c, "stat", r)
  /\ UNCHANGED quiet

StatLock(c) ==
  /\ At(c, "stat")
  /\ IF lock # {} /\ CanSafelyReclaim(Seen(c).owner, old)
       THEN Dates(c, "gPublish", old)
       ELSE TryAgain(c)
  /\ UNCHANGED quiet

-----------------------------------------------------------------------------
(* acquireMutationGuard *)

\* Mutant: the guard is written over the one that is there.
OverwriteGuard(c) ==
  /\ At(c, "gPublish")
  /\ guards' = guards \union {[gen |-> Seen(c).gen, owner |-> c]}
  /\ Goto(c, "gCheck")
  /\ UNCHANGED <<lock, next, old, processes, misfired>>

PublishGuard(c) ==
  /\ At(c, "gPublish")
  /\ \/ /\ GuardAt(Seen(c).gen) = {}
        /\ guards' = guards \union {[gen |-> Seen(c).gen, owner |-> c]}
        /\ Goto(c, "gCheck")
     \/ /\ GuardAt(Seen(c).gen) # {}
        /\ Goto(c, "gRead") /\ UNCHANGED guards
  /\ UNCHANGED <<lock, next, old, processes, misfired>>

\* Where withGuardedFileLockOwner returns to.
Return(c) ==
  \/ local[c].op = "steal" /\ TryAgain(c)
  \/ local[c].op = "refresh" /\ Turns(c, "held", "steal")
  \/ local[c].op = "release" /\ Goto(c, "confirm")

\* No guard to reclaim: try again, unless the deadline has passed.
RetryGuard(c) == Judges(c, "gPublish", c) \/ Return(c)

ReadGuard(c) ==
  /\ At(c, "gRead")
  /\ \/ GuardAt(Seen(c).gen) = {} /\ RetryGuard(c)
     \/ \E r \in GuardAt(Seen(c).gen) : Judges(c, "gProbe", r.owner)
  /\ UNCHANGED quiet

ProbeGuardOwner(c) ==
  /\ At(c, "gProbe")
  /\ IF CanSafelyReclaim(local[c].judged, TRUE) THEN Goto(c, "gRemove") ELSE RetryGuard(c)
  /\ UNCHANGED quiet

\* reclaimDeadMutationGuard removes by path what it judged by content.
ReclaimGuard(c) ==
  /\ At(c, "gRemove")
  /\ guards' = guards \ GuardAt(Seen(c).gen)
  /\ misfired' = (misfired \/ \E r \in GuardAt(Seen(c).gen) : r.owner # local[c].judged)
  /\ Judges(c, "gPublish", c)
  /\ UNCHANGED <<lock, next, old, processes>>

-----------------------------------------------------------------------------
(* withGuardedFileLockOwnerContext and the three things done under a guard *)

\* Mutant: the identity is not compared again under the guard.
CheckWithoutFingerprint(c) ==
  /\ At(c, "gCheck")
  /\ Goto(c, "gStat")
  /\ UNCHANGED quiet

CheckIdentity(c) ==
  /\ At(c, "gCheck")
  /\ Goto(c, IF \E r \in lock : r.gen = Seen(c).gen THEN "gStat" ELSE "gDrop")
  /\ UNCHANGED quiet

StatIdentity(c) ==
  /\ At(c, "gStat")
  /\ Goto(c, IF lock = {} THEN "gDrop"
             ELSE CASE local[c].op = "steal"   -> "gValidate"
                    [] local[c].op = "refresh" -> "gTouch"
                    [] local[c].op = "release" -> "gMove")
  /\ UNCHANGED quiet

\* stealDeadLock's validate: the probe again, with the age read before.
Validate(c) ==
  /\ At(c, "gValidate")
  /\ Goto(c, IF CanSafelyReclaim(Seen(c).owner, local[c].birth) THEN "gMove" ELSE "gDrop")
  /\ UNCHANGED quiet

\* The rename moves whatever is at the path.
MoveLock(c) ==
  /\ At(c, "gMove")
  /\ lock' = {} /\ old' = FALSE
  /\ Goto(c, "gDrop")
  /\ UNCHANGED <<guards, next, processes, misfired>>

Touch(c) ==
  /\ At(c, "gTouch")
  /\ old' = FALSE
  /\ Goto(c, "gDrop")
  /\ UNCHANGED <<lock, guards, next, processes, misfired>>

\* The guard's release reads it and removes it if it is still its own.
DropGuard(c) ==
  /\ At(c, "gDrop")
  /\ IF [gen |-> Seen(c).gen, owner |-> c] \in guards
       THEN Goto(c, "gUnlink")
       ELSE Return(c)
  /\ UNCHANGED quiet

\* Mutant: the guard's file is left behind.
UnlinkNothing(c) ==
  /\ At(c, "gUnlink")
  /\ Return(c)
  /\ UNCHANGED quiet

UnlinkGuard(c) ==
  /\ At(c, "gUnlink")
  /\ guards' = guards \ GuardAt(Seen(c).gen)
  /\ misfired' = (misfired \/ \E r \in GuardAt(Seen(c).gen) : r.owner # c)
  /\ Return(c)
  /\ UNCHANGED <<lock, next, old, processes>>

-----------------------------------------------------------------------------
(* The holder *)

EnterGuard(c, what) ==
  /\ At(c, "held")
  /\ Turns(c, "gPublish", what)
  /\ UNCHANGED quiet

Heartbeat(c) == EnterGuard(c, "refresh")

\* The callback is done and the last heartbeat drained.
Release(c) == EnterGuard(c, "release")

\* FileLockReleaseError if the own record is still there.
ConfirmRelease(c) ==
  /\ At(c, "confirm")
  /\ Leave(c, IF Seen(c) \in lock THEN "failed" ELSE "idle")
  /\ UNCHANGED quiet

-----------------------------------------------------------------------------
(* The operating system *)

Crash(c) ==
  /\ c \notin dead /\ local[c].pc # "idle"
  /\ dead' = dead \union {c}
  /\ Leave(c, "idle")
  /\ UNCHANGED <<files, recycled, misfired>>

RecyclePid(c) ==
  /\ c \in dead \ recycled
  /\ recycled' = recycled \union {c}
  /\ UNCHANGED <<files, dead, local, misfired>>

Age ==
  /\ lock # {} /\ ~old
  /\ old' = TRUE
  /\ UNCHANGED <<lock, guards, next, processes, local, misfired>>

\* What a client does once it has begun, until it holds the lock or gives up.
Step(c) ==
  \/ PublishLock(c) \/ LockExists(c) \/ ReadLock(c) \/ StatLock(c)
  \/ PublishGuard(c) \/ ReadGuard(c) \/ ProbeGuardOwner(c) \/ ReclaimGuard(c)
  \/ CheckIdentity(c) \/ StatIdentity(c) \/ Validate(c) \/ MoveLock(c)
  \/ Touch(c) \/ DropGuard(c) \/ UnlinkGuard(c) \/ ConfirmRelease(c)

Next ==
  \/ \E c \in Clients : \/ Step(c)
                        \/ Begin(c) \/ Heartbeat(c) \/ Release(c)
                        \/ Crash(c) \/ RecyclePid(c)
  \/ Age

Spec == Init /\ [][Next]_vars

\* A live client goes on, and time passes.
FairSpec == Spec /\ WF_vars(Age) /\ \A c \in Clients : WF_vars(Step(c))

-----------------------------------------------------------------------------
(* Properties *)

\* The client's callback runs: between acquisition and release.
Holds(c) ==
  /\ c \notin dead
  /\ \/ local[c].pc = "held"
     \/ local[c].op = "refresh" /\ local[c].pc \in Entering \union Guarded

\* A callback runs alone: no two live clients hold the lock, whatever dies when.
OneHolder == \A c, d \in Clients : Holds(c) /\ Holds(d) => c = d

\* The record on disk is the holder's, so that contenders see who holds the lock.
HolderOnRecord == \A c \in Clients : Holds(c) => lock = {Seen(c)}

\* Short of a misfired guard removal (withGuardedFileLockOwner lets one client
\* at a time act on a generation), a callback runs alone and is on record.
HolderSafe == misfired \/ (OneHolder /\ HolderOnRecord)

\* A client's record is taken off the path by itself or after its death, and
\* by one client only: no rename hits a record its caller did not see.
MovesWhatItSaw ==
  [][\A c \in Clients : At(c, "gMove") /\ ~At(c, "gMove")' /\ c \notin dead'
       => misfired \/ (lock = {Seen(c)} /\ Seen(c).owner \in dead \union {c})]_vars

Waits(c) ==
  /\ c \notin dead
  /\ \/ local[c].pc \in {"publish", "look", "stat"}
     \/ local[c].op = "steal" /\ local[c].pc \in Entering \union Guarded

\* The lock of a dead client does not outlive it while somebody waits for it.
DeadLockReclaimed ==
  \A g \in Gens :
    (\E r \in lock : r.gen = g /\ r.owner \in dead)
      ~> (\/ \A r \in lock : r.gen # g
          \/ \A c \in Clients : ~Waits(c))
=============================================================================
