# Honeybee daemon core: a TLA+ development

Honeybee v2 runs coding agents ("bees") on a machine. A long-lived daemon keeps
every bee's durable state in a SQLite store, runs the bee's agent as a detached
process through a driver, and brings the two back together after crashes of a
process, of the daemon or of the machine. This directory models that core: the
store, the command queue, the driver and the loop that ties them together, one
bee at a time; and four protocols built on it: the delivery of mail, the
relocation of a bee, its action queue, and the file lock that processes share.

## 1. Inventory

| part | source | state | operations | what is hard |
|---|---|---|---|---|
| closed state model | `v2/core/src/types.ts` | - | states, transitions, exit causes, verbs | nothing outside the lists (B2, I2) |
| core store: bees, runtimes | `v2/core/src/store.ts` | `bees`, `runtimes`, `flags` | create, archive, delete, generations, boot evidence, spawn-failure budget, reconcile at boot | what counts as a failed boot; rows against processes after a restart |
| core store: commands | `v2/core/src/store.ts` | `commands` | enqueue, supersede, claim, moot, complete, fail with backoff, requeue at boot | replays, stale targets, a stop racing a start |
| core store: mailbox | `v2/core/src/store.ts` | `mailbox` | send (with its wake), mark delivered | mail for a runtime that is about to die |
| daemon core loop | `v2/daemon/src/loops.ts` | - (drained observations) | boot, observe, policies, execute commands, deliver | a crash between any two transactions of a handler |
| runtime host driver | `v2/driver-hsr/src/driver.ts`, `runner-host.ts` | processes, held starts, queued observations | start, prepared, launch, signals, stop, exit, adopt, deliver | callbacks between steps, observations that arrive late |
| lifecycle verbs | `v2/daemon/src/daemon.ts` | - | stop, revive, archive, delete, send, swapAccount, reconfigure | requests between any two steps |
| cells | `v2/driver-cell/src` | cells, warm pool | prepare, capture, retain, remove | asynchronous preparation, cancellation |
| mail delivery | `loops.ts`, `store.ts`, `driver-hsr` (`driver.ts`, `runner-host.ts`, `delivery-receipts.ts`) | confirmation intents, holds; the host's receipts and journal | plan, deliver, confirm, poll, hold, resend, adopt | at most one consumption of a message when daemon, socket and host fail in turn |
| handoffs, moves | `handoff.ts`, `store.ts`, `loops.ts` | phases | admit, stop, place or summarise, start, complete, supersede | fences against lifecycle commands; mail behind the fence |
| action queue | `actions.ts`, `store.ts`, `loops.ts`, `driver-cell/src/capture.ts` | actions, queue | enqueue, dispatch, claim, report, capture, settle, retry, reorder | effects on a git repository whose receipt is lost; late reports |
| file lock | `v2/core/src/lock.ts` | lock record, mutation guards | acquire, heartbeat, release, reclaim | owners that die anywhere, recycled pids (runtime activation, account homes, gateway seeds and deployment use it; that one daemon owns the store is SQLite's own lock) |
| accounts | `accountsService.ts`, `credentialHandoff.ts`, ... | accounts, leases, admissions | admit, select, lease, hand over | epochs, expiry, replay |
| auth and quota recovery | `authResume.ts`, `quotaRecovery.ts` | interruptions, recoveries | claim, rotate, resume | an automatic restart against an operator |
| retention, update, naming, RPC, CLI, adapters, schema, audit | see PROJECT.json | | | mostly I/O, parsing or derived data |

The parts interact as follows. An RPC handler or a policy of the loop *enqueues*
a command; the loop *claims* it and its handler calls store methods (each one
transaction) and driver methods. The driver never calls back into the store: it
queues *observations* (booted, turn started, turn ended, exited), which the loop
drains and folds at the beginning of its next step. What a dead runtime still
owes (mail, a boot retry, a restart) becomes a new command. After a daemon
crash, the store requeues what was running, the daemon *adopts* the processes
whose pid the rows recorded, and the loop reconciles the other rows.

Correctness, by part: the state model stays closed; the queue drains, settles a
command once and never starts what a later user stop revoked; the budget counts
failed boots and nothing else; the driver never runs two processes for a bee or
one behind a stopped row; mail arrives or the bee is visibly blocked, and is
taken once; a promised restart happens; a bee is rewritten only while nothing of
it runs, and a relocation ends; actions run in order and their records are true;
the lock has one holder. PROJECT.json lists the hazards line by line.

## 2. Modules

| module | models |
|---|---|
| `CoreTypes` | the closed lists of `types.ts` |
| `CoreStore` | the durable state of one bee and the store's methods, as operators from store to store: one SQLite transaction each |
| `RuntimeHost` | the driver as one bee sees it: process, held start, queued observations; also processes no driver knows any more (`orphans`) |
| `DaemonCore` | the loop over both, with operators, callbacks, clock, crashes and boot; the properties |
| `RuntimeLifecycle` | the abstract specification: a log of generations |
| `MCDaemonCore` | instances for TLC |
| `CoreStoreProofs`, `DaemonCoreProofs` | lemmas about the methods of store and driver; types, closed state model, refinement |
| `DaemonQueueProofs`, `DaemonProcessProofs` | theorems about the queue and the spawn budget, and about the processes behind the rows |
| `DeliveryReceipts` | the runner host's receipts of `delivery-receipts.ts` |
| `MailDelivery` (`MCMailDelivery`), `MailDeliveryProofs` | two ends of the delivery of mail, message by message, and its theorems |
| `Relocation` (`MCRelocation`), `RelocationProofs` | moves and handoffs over `CoreStore`, and their theorems |
| `ActionQueue` (`MCActionQueue`), `ActionQueueProofs` | the action lane of one bee, with the cell and the origin it lands on, and its theorems |
| `FileLock` (`MCFileLock`), `FileLockProofs` | the lock at the grain of file system calls, and its theorems |

Sections 2.1 to 2.5 say how state and actions correspond to the code.

### 2.1 The core

One bee is enough for these parts: every table and every driver map is keyed by
the bee's id, and no modelled method reads another bee's rows. The only coupling
is the shared limit of commands per step (`commandsPerStep`), which is taken not
to bind.

**State.** `store` has the bee's lifecycle, its runtimes (generation g is
`runtimes[g]`), the spawn-failure counter and flag, all its commands (settled
ones too: rules look back at them) and the number of undelivered messages.
`host` has the driver's process, the start it holds back and its queued
observations. `pc`, `cmd`, `gen` are the position of the daemon inside a step.

**Atomicity.** The daemon is single-threaded and a step is synchronous, so RPC
handlers and driver callbacks run at `pc = "rest"`. A crash can come at every
`pc`: the actions of `Step` are exactly the transactions and driver calls of a
handler in their order, so the stop of a runtime without a process is three
actions (`ExecuteStopFact`, `ExecuteStopWake`, `ExecuteStopRevive`), a start is
mint, start and record. The fold of a batch of observations is one transaction
in the code; the model folds one per action and allows no crash in between.

**Abstractions of data.** A command's arguments are its `kind` (who asks and
why) and `thenRevive`; `next_attempt_at` is `due`; a pid is whether one was
recorded; messages are a count; times are nondeterministic choices (an idle
window has elapsed, the boot deadline has passed). What the harness does is
fixed by the constants `Cell` (start needs an asynchronous preparation),
`ReadyAtSpawn` (input before any output) and `AcceptsMidTurn`.

**Environment.** A process may end by itself, fail to boot, die unnoticed; a
preparation or `driver.start` may fail; the daemon and the machine may crash.
These are *faults*, spent from `MaxFaults` and limited to `FaultKinds`. An exit
of a process that was told to stop, and a boot deadline nothing could have met,
are not faults. Operators, and turns the agent opens by itself, are requests
spent from `MaxRequests`.

**Abstract specification.** `RuntimeLifecycle` is what an observer of the
`runtimes` table may rely on: a log in which only the last entry moves, along
`RUNTIME_TRANSITIONS`; stopped is final; a new generation begins only after the
one before has stopped; and `stopped_by_user` or `stopped_by_system` is recorded
only for a generation some stop was asked for. `DaemonCore` implements it under
the mapping `log <- Log(store)`, `asked <- Asked(store)`.

### 2.2 Mail delivery

`MailDelivery` follows messages one by one, where `CoreStore` counts them. The
daemon's side has the row of each message (queued, with a confirmation intent,
held, delivered), the driver's memory of what it wrote and what was confirmed,
and the cursor up to which it has read the host's journal. The host's side has
the frames on the socket, the receipts (`DeliveryReceipts`), the journal, and
what the agent has taken. `harness` says what kind it is (`confirms`, `tagged`;
Init allows all four). One action is one handler: a delivery is plan, write and mark, with crashes
between; the host reads a frame; the driver folds a journal entry; a poll asks
and is answered; thirty seconds pass; the operator resends or drops. A frame of
an old connection is read before those of the next one: the host serves one
connection and reads what it holds first; a question among them is answered to
nobody (`Unanswered`). History is kept per message id: how often the agent took
it (`executed`), and how often a daemon died between an unconfirmed write of it
and its mark (`repeats`). A resend is a message of its own: it has a new id, and
the place in the queue of the one it replaces.

### 2.3 Relocation

`Relocation` extends `CoreStore` (its store, its queue, its claim rules) with
the rows of moves and handoffs, the bee's substrate and identity, and the seed
message of a handoff. A handler is one action, except that a daemon may die
between the mint of a generation and its start; `DaemonCore` has the handlers
transaction by transaction. A delivery and the completion of a relocation it
causes are one action, as they are in the code's loop. The summarizer answers
asynchronously, also after its handoff was called off.

### 2.4 Action queue

`ActionQueue` has the rows of one lane, the mailbox entries that carry
instructions, the tokens agents and claimants know, the cell's HEAD and the
branch landed on. `commits` is the graph of commits of both: a commit has its
ancestors (`Past`, what `isAncestor` sees) and the commits whose changes it has
(`Holds`); a rebased landing has the work of the cell and not its commits as
ancestors. The agent may at any moment commit on HEAD, amend it, merge the
target, or move HEAD to any other commit (reset, switch of branch, a pull that
moves forward); the owner of the origin may add a commit to the target. A capture is
three steps (attempt opened, origin changed, action settled), its rerun after a
lost receipt is three as well (origin asked, origin changed, action settled), and
the origin is changed with what HEAD is then; between the steps the agent may do
all of that, the daemon may die, the settling transaction may fail. Reports come
from whoever ever read a token, at any time, also of attempts that are over.

### 2.5 File lock

In `FileLock` each action is one call of `lock.ts` to the file system: read the
lock, link a new record, publish a guard, judge an owner, rename, remove. Every
record has a generation; `next` counts them, `guards` are the guard files by
generation, `dead` the clients that died, `recycled` those whose pid another
process got, `old` that the lock's mtime is past its stale time, `local` what
each client has read and where it is. `misfired` is history: a guard was removed that its
remover had not judged (section 5).

## 3. Runs

| run | instance | shows |
|---|---|---|
| `boot` | cell, silent harness, 3 faults (exit, hang, crash, prepare), 1 request (865,002 states) | the budget, both ways: never passed without the flag, never charged without a failed boot; the flag is earned; no zombie row, no stray process |
| `life` | no cell; any 3 of 5 kinds of fault and 9 of request (1,765,388 states) | type correctness; one pending wake per generation; `driver.start` never over a process after a mint; a user stop supersedes earlier starts for good; settled is final; the closed state model; only processes without a recorded pid are ever orphaned; no process behind a stopped or deleted row; refinement of the lifecycle |
| `liveness` | no cell, fair, 1 fault, 1 request (18,970 states) | mail is delivered or the bee flagged; the queue drains again and again; an executed stop-then-revive reaches the next generation |
| `mail` | 2 messages, 4 kinds of harness, 2 host generations, 2 faults (373,101 states) | no message id is taken twice, but for a crash after an unconfirmed write; what is marked delivered was taken; order is kept over holds and resends; no message waits silently |
| `relocation` | 2 relocations, 1 mail, 2 requests, 2 faults, `MaxAttempts = 2` (271,632 states) | nothing of the bee runs while it is rewritten; a runtime runs as the bee's row says; what was called off leaves nothing behind; a failure blames the target only for the target's boot; a receipt that is over is never rewritten; every relocation settles; fenced mail gets through |
| `actions` | 2 actions of every executor, 2 attempts, 3 commits, any 3 of 2 requests and 2 faults (815,357 states) | one action at a time and none past a failure; references fail for good reasons; a late report settles nothing; what a capture records is true of the origin; a capture lets go of the lane |
| `file_lock` | 3 clients, 3 generations (238,849 states) | one holder, and renames move what was judged, as long as no guard is removed under its owner; a dead holder's lock is taken over |
| `swap_lost`, `stuck_mail`, `two_processes`, `file_lock_guard`, `capture_failed` | minimal | violations, section 5 |

**Bounds.** `MaxAttempts = 2` makes one failure a retry and the second the flag,
so both sides of the budget are reached; `boot` has three faults to go past it.
`life` puts faults and requests of every kind together and bounds their sum (the
constraint `Together`): two faults and a request let a fault hit the recovery from
another while somebody asks for something, one fault and two requests let one
request revoke or repeat another across a crash, which is the depth of every rule
in the queue (each relates at most two commands). What comes with a cell is apart,
in `boot`: preparations, which can fail, and the hang of a silent boot.
`MaxRepeats = 1`: a policy repeats its stop in each step while the process is
still dying (the earlier stop is settled, the row still live); the kill timer
bounds that in the code, one repetition bounds it here. The theorems need none of
these bounds.

The other runs. `mail`: two messages are the least for an order, two host
generations for a journal that outlives its host, two faults for a crash during
the recovery from a lost connection; a message can be encoded again once, so an
answer about the old line can meet the new one. `relocation`: a second
relocation can meet what the first left behind, and two requests let an operator
call it off and come back. `actions`: two rows are the least for an order to
matter with a reference; two attempts for a report of the first during the
second. What is enqueued is one of a small palette, or two of them one after the
other: agent work with a rebased landing that may go first; an external operation
with the landing of what it reports; the archive, and a later request to land what
it reported, which is nothing. The graph starts with the commit the cell was
cloned at and one on top of it, between which HEAD can go back and forth; a third
by hand (`MaxCommits` bounds these, a landing adds its own) is an amended commit,
one on top, one on a branch just taken, a merge of the target or one that the
owner of the target makes. So each way in which HEAD leaves what an attempt was
opened for is there, before the landing, after it and in the second attempt; that
`capture_failed` needs no more shows that they meet a lost receipt. Requests and
faults are bounded as in `life`. Neither is ever fair, so the constraint
removes no behaviour that fairness asks for. `file_lock`: three clients are the
least for a guard that outlives its owner with two clients to reclaim it. In these
a state in which all clients, messages or requests are used up has no next step,
so they do not check for deadlock; their liveness properties say what must not get
stuck.

Each passing run's every property is violated by a
seeded change of the code listed under "mutants", under the same bounds.

**Fairness** (`DaemonCore!Fairness`). The daemon's step is weakly fair (the loop
is driven by a timer) and so is boot (a service manager restarts the daemon).
Callbacks and timers can run only between steps and so are enabled again and
again rather than for ever: strong fairness, which is what an event loop with a
queue gives. A healthy process boots and ends its turns, a process that was
signalled exits (the kill timer), a preparation ends, a backoff elapses, the
deadline of a boot that nobody is working on passes. Faults are never fair, nor
are requests, nor exits nobody asked for.

Elsewhere: `FileLock` has weak fairness of each live client's next call and of
the clock that makes records old; `MailDelivery` of the daemon's steps and
timeouts, of connecting and reading on both ends, of restart and wake; in
`Relocation` of the daemon's progress as a whole (an event loop that does not
starve one handler for ever is needed only where two compete, and none do for
long: the handlers of one relocation are ordered by its phase); `ActionQueue` of
the loop's step, of boot, of the archive command and of the end of an operation
in the cell. Agents, claimants, operators and faults are never fair.

## 4. Theorems

All proved by TLAPS for every value of the constants.

**The core**, from `MaxAttemptsAssumption` (a positive budget), `HostAssumption` (the harness constants are Boolean) and
`BoundsAssumption` (the bounds are naturals).

- `TypeCorrect`: `Spec => []TypeOK`.
- `ClosedCorrect`: `Spec => []ClosedStateModel`.
- `SettledCorrect`: `Spec => SettledIsFinal`.
- `Refinement`: `Spec => ImplementsLifecycle`.

None of these is inductive. The inductive invariant `IInv` has four parts.
*StoreInv*: the store is well typed and closed, and a deleted bee has nothing
pending. *HostInv*: the driver's state is well typed, and every stop cause in
its process or in a queued exit is explained by a stop command for that
generation in the store, or the bee is gone; without it an exit could be folded
with a cause nobody asked for, and the refinement would fail. *Scalars*: the
other variables have their types. *Control*: what each `pc` relies on (the
claimed command exists and is running, its target is the current generation,
the bee is there, mail is left at "accepted"); without it the next transaction
of a half-done handler would be arbitrary.

`CoreStoreProofs` shows for each store method that it keeps StoreInv and how it
changes the queue and the log: `Grows` (commands are only appended), `Rewrites`
(settled ones keep their status), `Follows` (both), `SetsCurrent` (only the
current row moves). `DaemonCoreProofs` shows for each driver method that it
keeps HostInv, and then goes through the actions: each preserves
`IInv` (`NextPreserves`), and each is a `RuntimeLifecycle` step or a stutter.
`IInv` was checked with TLC on instances with and without a cell before it was
proved.

**The file lock**, from `MaxGenAssumption` (the bound is a natural number) alone,
so for any number of clients and generations: `TypeCorrect`, `MutualExclusion`
(`HolderSafe`) and `RenameIsExact` (`MovesWhatItSaw`). The inductive invariant
has three parts besides the types: the record at the lock's path has been issued;
`Knows(c)`, what client c has read and decided and stays true (the record of a
generation never changes, an owner judged dead stays dead, a holder has seen its
own record); and, unless `misfired`, `Excludes(c)`: while c is inside a guarded
section its guard is on disk, and once it has checked the record, or holds the
lock, the record on disk is the one it saw. At most one guard exists per
generation, so two clients cannot both be past the check of one generation.
Without `Knows` a client in the middle of a reclaim could move anything; without
the guard on disk two renames of one generation could both succeed.

**The action queue**, from `QueueAssumption` (requests are sequences of items, the
bounds are naturals), so for any palette of requests, any claimants and any
number of actions, attempts, commits, requests and faults: `QueueTypes`
(`TypeOK`), `QueueIsSequential` (`Sequential`), `ReferencesAreHonest`
(`RefsHonest`), `OutcomesAreCurrent` (`OutcomeIsCurrent`) and `CapturesAreHonest`
(`LandHonest`). The inductive invariant has five parts. *LaneInv*: rows are well
formed, positions are distinct, everything before a started row has ended, a
reference points backwards as long as both rows are open, and an attempt exists
only where the reference resolved. Without distinct positions the nearest
predecessor would not be one row; without the references a reorder or a retry
could fail an action for an input that was merely late. *RowTrue*: what a row
records of the outside is true: a success is in the target, and no landing of a
failed attempt contains the HEAD it was opened for. *Outside*: the types, and the
commits are a graph (*Graph*: ancestors come earlier, their ancestors and changes
are the commit's own), in which every commit the target was moved to is an
ancestor of where it is. That is the argument of the recovery: had the HEAD of
the attempt landed, it would be an ancestor of the target now, so a probe that
does not find it is right about it. It needs that nobody moves the target back
(section 6), and it is about that HEAD only, not about what HEAD was when
`captureWork` read it (section 5). *MailInv*: instructions and tokens belong to
rows of agents and claimants, so no late report reaches a capture. *Control*:
inside a capture nothing with the HEAD of the attempt has landed until the
effect, and the report is about the target. New commits, an amended one included,
keep the graph (`GrownFacts`, `CommitKeeps`), and every step moves the target
forward or not at all (`ForwardRows`). Rows change only as `Follows` allows, which keeps LaneInv
(`LaneStep`); `EnqueueActions` and `ReorderActions` change the order itself and
have proofs of their own.

**The queue and the budget** (`DaemonQueueProofs`), from the same assumptions:
`OneWakeCorrect` (`OneWakePerGeneration`), `UserStopCorrect`
(`UserStopSupersedes`), `FlagCorrect` (`FlagEarned`) and, for budgets of more
than one attempt, `BudgetCorrect` (`BudgetHolds`). The inductive invariant `QInv`
adds to `IInv`: no command aims at a generation that is not minted (else a mint
could make an old wake current); no wake waits for a live runtime (else its exit
would queue a second one); the only spawn is the admission's, command 1; at most
the claimed command is running (else a user stop, which settles queued starts,
could miss a running one); a counter at the budget has its flag, a flag its
reason; and the runtime that may be counted next is one that the counter leaves
room for. The hypothesis `MaxAttempts > 1` is needed: with a budget of one, a
spawn that is replayed after a crash (the daemon died between recording its pid
and settling it, and the process failed meanwhile) mints generation 2 of a bee
that is flagged already, and the failure of that one passes the budget; TLC
shows it in 22 states when `MaxAttempts = 1`. The default is 5
(`v2/daemon/src/config.ts:574`).

**Processes** (`DaemonProcessProofs`), from the same assumptions: `FailuresCorrect`
(`FailuresEarned`) and `ZombieCorrect` (`NoZombie`). `PInv` says of the current
generation: what it did is followed in the queue by its exit, or it runs; while
its row is booting it has no proof of life, and the driver has not seen a turn of
it without a queued boot; past booting it runs or its exit is queued; and the
counter is at most the number of rows that failed. Without the order of the
queued observations a turn's end could move a booting row past boot, and an exit
would then not be counted or be counted for a row that is not blamed.

Also there, under `NoCellRevive` (bees in place, or cells whose operators send no
revive): `StartCorrect` (`StartFindsNoProcess`), `StrayCorrect`
(`NoStrayProcess`), `OrphansCorrect` (`OnlyUnrecordedOrphans`). The hypothesis
excludes the disagreement of section 5, in which a revive meets a start cancelled
in the same step; both of its halves are instances the runs check. `HInv` says:
the driver has a process or a preparation, not both (`Single`); what it has is
the live, current runtime's, and with that one's exit queued it has nothing
(`Owned`); a start that the driver took is the command being executed (`Taken`),
and after a cancelled one no start is left in this step (`Cancelled`), which is
what keeps a second start from meeting a stale exit; what a deleted bee leaves is
being stopped (`Deleted`); a lost process has a stopped row without a pid
(`Lost`). `QInv`, `PInv` and `HInv` were checked with TLC before they were
proved.

**Mail delivery** (`MailDeliveryProofs`), from `ReceiptsAssumption` and
`BoundsAssumption` (lines are numbered from 1, the bounds are naturals), so for
any number of messages, encodings, generations and faults: `MailTypeCorrect`
(`TypeOK`), `MailOnceCorrect` (`AtMostOnce`), `MailTakenCorrect`
(`DeliveredWasTaken`) and `MailOrderCorrect` (`InOrder`). The argument counts the
copies of a message (`Copies`): taken, waiting in the agent's input, written on
the socket. `CopiesOK`: there is at most one, not counting `repeats`, and none of
a message that may still be written (`Unspent`: planned, ready again, or queued
without an intent). The difficulty is how a spent message becomes unspent, by an
answer that the host sent earlier. `ReplyOK` says that an answer "not written" or
"refused" is still true when it is used: `QuietOK` that nothing is written for a
message while it is asked about, `AskOK` that a question is under way once and
behind every write, `AccountOK` that the receipts tell of every copy the agent
has or had (a pruned one by `retired`). Without `AccountOK` a new generation's
empty receipts could clear a message of the old one; it is restricted to messages
that can still be asked about (`Tracked`). `TakenOK` says that whatever claims an
acceptance (the journal, a receipt, an answer, the driver's memory) is right;
`AheadOK` that what has an intent, is being delivered or is on its way has no
queued message before it, for which `OrderOK` gives a resend the place it needs.
The exception of `AtMostOnce` is exactly a step of the model, `Crash` with
`busy.stage = "mark"` and a harness that confirms nothing. `MInv`, the
conjunction, was checked with TLC before it was proved.

**Relocation** (`RelocationProofs`), from `RelocationAssumption` alone (the
names of relocations, which stand for their idempotency keys, differ from each
other and from the kinds of other commands; the bounds are naturals), so for any
budget and any number of moves, handoffs, messages, requests and faults:
`RelocationTypeCorrect` (`TypeOK`), `SourceStaysDownCorrect`,
`RunsAsRecordedCorrect`, `CalledOffIsOffCorrect`, `BlamesTheTargetCorrect` and
the action property `ReceiptsAreFinalCorrect`. The inductive invariant `RInv`
has six parts besides the types of the other variables. *RowsOK*: the active
relocation is the latest and the only one that is open, it has no failure code,
and no relocation starts from a generation not minted yet. Without it a
supersede, which fails the active relocation, could leave another one open.
*MailOK*: one seed per relocation, and none of a relocation that fences still.
*QueueOK*: no pending command belongs to a relocation that was called off. That
is `CalledOffIsOff`, and it is inductive only because a command with a
relocation's key is queued for the active one alone, which the lemmas about
enqueueing carry along (`NewKind`, `CommandsFollow`). *QuietOK*: from the end of
the source until a move is placed, or the generation of a handoff's target is
minted, the current row is the source's, it is stopped, there is no process, and
a switched handoff is not flagged. `SourceStaysDown` is the part of it before
the switch; the part after is needed for `BlamesTheTarget` (a flag seen later is
the target's). *SameIdentity* is `RunsAsRecorded`; it needs QuietOK, because a
commit or a switch rewrites the row. *RStore* has the store's types. Each method
of the store is shown to keep these, by a lemma over any store that satisfies
them, and to change at most the active row (`Advances`), which together with
RowsOK gives `ReceiptsAreFinal`. `RInv` was checked with TLC on an instance
larger than the run's (10.5 million states) before it was proved.

So every invariant and every action property that a passing run checks is a
theorem, and so is the refinement. Only model-checked are the liveness
properties, because the prover does not do fairness and ENABLED: `MailDelivered`,
`QueueDrains` and `RestartSurvives` of the core, `DeadLockReclaimed`,
`MailSettles`, `RelocationSettles`, `MailNotStranded` and `CaptureSettles`.

## 5. Disagreements between code and documentation

Five runs end in a counterexample of something the repository says of itself.

- `swap_lost`: `bee.swapAccount` queues `stop {thenRevive}`; the runtime exits
  by itself first; the claim settles the stop as `already_stopped` and nobody
  revives the bee.
- `stuck_mail`: a `readyAtSpawn` process is adopted while its row is booting and
  before the runner host knows its agent's pid; the driver leaves it in phase
  booting and refuses all mail, while the row shows it as running.
- `two_processes`: a cell bee's pid is not recorded before it has booted; if the
  daemon dies before that, the process is orphaned and the next generation runs
  beside it.
- `file_lock_guard`: a holder died inside its heartbeat's guard. Two clients
  judge that guard dead; the first removes it and publishes its own, the second
  removes by path what is now the first one's guard and publishes too; both take
  the lock. `lock.ts:176-177` argues that removal by a generation's path is safe
  against later *locks*; it is not safe against a later *guard* of the same
  generation.
- `capture_failed`: an attempt is opened for one HEAD (`loops.ts:1703`), and
  `captureWork` reads HEAD again (`capture.ts:99`). In between the agent leaves
  that commit (amend, reset, switch of branch); what HEAD is now lands, and the
  daemon dies before the action is settled. The probe asks for the first HEAD,
  which the target does not have, HEAD is another one, and the action is failed
  with "the capture did not land and the work moved" (`loops.ts:1801`), although
  the branch moved. `loops.ts:1770-1772` and `action-queue-contract.md:331-334`
  conclude from the probe's no that the origin is bit-identical. An operator who
  retries lands twice what may have been meant once, or nothing.

`MailDelivered` likewise holds for harnesses that announce themselves
(`liveness`) and fails for adopted silent ones (`stuck_mail`).

Met while modelling, without a run of their own:

- A stop cancels a start in preparation, a revive in the same step starts the
  same generation again (`loops.ts:1290-1303`), the exit of the cancelled start
  (`driver-hsr/src/driver.ts:1031`) is folded against it, and its process is
  launched behind a stopped row. `NoStrayProcess` fails in the instance of
  `boot` when `revive` is among its requests; it holds in `boot` and `life` as
  they are, where no revive can meet a preparation.
- `reconcileMoves` looks at `spawn_failed` in the same pass in which
  `commitBeePlacement` moved the bee (`loops.ts:1369`): a flag of the source
  fails the move. `BlamesTheTarget` is therefore stated for handoffs only.
- The kill timer of a stop is in the driver's memory (`driver.ts:1042`): a
  process that ignores TERM, after a daemon restart, keeps a relocation in
  `stopping` for ever, which `handoff-contract.md:259-262` does not foresee. One
  of the two exceptions of `RelocationSettles`.
- A handoff that stops at idle meets a runtime that never boots: the queued stop
  keeps the boot-hang policy away (`loops.ts:1052`) and waits for the boot
  (`store.ts:5813`). The other exception (`Wedged`).
- A user stop sent to a bee that is stopped already settles the queued wake of
  accepted mail, which waits until something else wakes the bee.
- A rebased landing whose receipt is lost: the probe asks for ancestry, which a
  rebase does not leave. If HEAD has not moved the rerun finds nothing left to
  land and succeeds; if it has, the record says that the capture did not land
  although it did, as in `capture_failed`. That run is about merges because
  there the documents' argument is meant to hold. `LandHonest` is therefore
  stated for what contains the HEAD of the attempt: neither a rebased landing nor
  the landing of another HEAD does.
- The rerun of a capture does not ask again whether HEAD is the commit the action
  was given (`loops.ts:1720` against `1798-1805`): a daemon that dies between
  `beginCellCaptureAttempt` and that check lands after all what the check would
  have refused.
- A capture that was opened when the cell had gone (`expectedHead` null) and lost
  its receipt is never reconciled, only retried with force.

## 6. Not modelled

In the core: identity recovery of unreadable processes, `deferBootHangStop` and
late binding of starts, readiness recovery, the claim fences of thread
operations, `reconnect_tools`, auth and quota recovery (with the revive that
keeps the budget), idempotency keys, the execution fence, a deferred launch that
throws inside the exit callback, a crash inside boot (boot's transactions are
idempotent), and the simulator's own faults.

In mail: urgency and interrupts, human-first order, batches, the multiline
fallback, the quota gate, holds for `host_auth_failed` and `message_too_large`,
intents of hosts without receipts from older versions, ties of `enqueuedAt`.

In relocation: the deletion of the bee meanwhile, what the context contains
(and the extractive one that is built synchronously), the placement instruction,
the checks of the destination, account admission of the target, and the
condition that a boot without mail counts as taking the placement instruction
only for two of the agents (`loops.ts:1387-1391`).

In the action queue: reminders, progress notes, the history of attempts, the
deletion of the bee, a daemon without a capture executor, a capture that throws
in the clean-up after the branch has moved, several bees' lanes (they share
nothing but the loop). Of git: the owner of the origin never moves the target
back (a rewind would let the probe miss what had landed), a commit's changes are
named by the commit, so an amended commit is a new change and a conflict is a
choice, a cell always has a HEAD, and a target branch that does not exist yet is
one at the commit the cell was cloned at (its creation is a fast-forward).

In the file lock: records that cannot be read, of another host or of an older
format, which are never reclaimed, and errors of rename.

Whole parts: see the components with status `not_modelled` in PROJECT.json and
their reasons. They are the larger part of the repository's lines: RPC
validation and rendering, the command line, account scoring and provider
clients, adapters' parsers, retention scans, naming and transcripts. Most of it
is parsing, formatting and I/O with no protocol of its own; the exceptions are
in the plan.

## 7. Plan

Done: the core, mail delivery, relocation, the action queue, the file lock, and
the proofs of their safety properties. Left, in this order:

1. Account admission, leases and credential handoff: epochs, expiry, replay.
2. Auth interruption and quota recovery, composed with the queue: an automatic
   restart against an operator.
3. The execution fence (an intent ledger that gates launches) and runtime
   activation (a file-swap protocol under `FileLock`).
4. Cell retention: scans against cells that come into use.
