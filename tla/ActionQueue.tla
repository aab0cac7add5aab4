----------------------------- MODULE ActionQueue -----------------------------
(***************************************************************************)
(* The action queue of one bee: work an operator lines up (v2/core/src/    *)
(* actions.ts and store.ts), released one at a time by the daemon's loop   *)
(* (v2/daemon/src/loops.ts) to its executor:                               *)
(*   agent     an instruction mailed to the agent, which reports           *)
(*   capture   the cell's HEAD landed on a branch of the origin, by the    *)
(*             daemon itself with git (v2/driver-cell/src/capture.ts)      *)
(*   archive   the bee's archive command                                   *)
(*   external  offered to whoever claims it, who reports                   *)
(*                                                                         *)
(* lane holds the rows; an id is an index, the order is by position.       *)
(* mailbox has the instructions not delivered yet and known the tokens     *)
(* that agents and claimants have read: reports may come at any time after,*)
(* again, and late.  An attempt's token is named by the attempt's number.  *)
(*                                                                         *)
(* commits has the commits of the cell and of the origin in the order they *)
(* were made: past are the ancestors of a commit and itself, holds those   *)
(* whose changes it has (a rebased commit is no ancestor).  head and target*)
(* are the commits that the cell's HEAD and the branch landed on are at;   *)
(* the agent may move HEAD to any commit and rewrite the newest, the owner *)
(* of the origin only adds to the branch.                                  *)
(*                                                                         *)
(* The loop and the RPC handlers are synchronous: pc is "rest" between     *)
(* them.  A capture opens its attempt, changes the origin and settles in   *)
(* three steps, and the agent may move HEAD, and the daemon die, in        *)
(* between.                                                                *)
(*                                                                         *)
(* said and landed are history: the attempts somebody entitled to has      *)
(* reported as succeeded, and those that moved the target branch, with the *)
(* commit they moved it to.                                                *)
(***************************************************************************)
EXTENDS Integers, Sequences, FiniteSets

CONSTANTS Requests,      \* what operators enqueue: sequences of items
          Claimants,     \* external executors
          MaxActions,    \* bound: actions of the lane
          MaxAttempt,    \* bound: attempts of an action
          MaxCommits,    \* bound: commits there are when a person or agent makes one
          MaxRequests,   \* bound: requests of operators other than enqueue
          MaxFaults      \* bound: crashes and failing operations

Executors == {"agent", "capture", "archive", "external"}

\* refItem names an earlier item of the same request, refAction an action of the
\* lane; 0 is no reference.  required: success must report the output.
Item == [executor: Executors, refItem: Nat, refAction: Nat, required: BOOLEAN,
         mode: {"merge", "rebase"}]

ASSUME QueueAssumption ==
  /\ Requests \subseteq Seq(Item) /\ "bee" \notin Claimants /\ "none" \notin Claimants
  /\ MaxActions \in Nat /\ MaxAttempt \in Nat \ {0} /\ MaxCommits \in Nat
  /\ MaxRequests \in Nat /\ MaxFaults \in Nat

VARIABLES lane, paused, lifecycle, mailbox, known, commits, head, target, placed, busy,
          pc, work, requests, faults, said, landed

vars == <<lane, paused, lifecycle, mailbox, known, commits, head, target, placed, busy,
          pc, work, requests, faults, said, landed>>

Nothing == -1

Active == {"running", "waiting"}
Final == {"succeeded", "cancelled"}

Row == [executor: Executors, ref: Nat, required: BOOLEAN, mode: {"merge", "rebase"},
        position: Nat,
        status: {"queued", "running", "waiting", "succeeded", "failed", "cancelled"},
        reason: {"none", "input", "executor", "uncertain"},
        attempt: Nat, token: Nat, dispatched: BOOLEAN, delivered: BOOLEAN,
        claimedBy: Claimants \union {"none"}, question: {"none", "open", "closed"},
        command: {"none", "queued", "done", "failed"},
        expectedHead: Nat \union {Nothing}, output: Nat \union {Nothing},
        failure: {"none", "input_unresolved", "other"}]

Ids == DOMAIN lane

Past(c) == commits[c].past
Holds(c) == commits[c].holds

TypeOK ==
  /\ lane \in Seq(Row) /\ Len(lane) <= MaxActions
  /\ \A a \in Ids : lane[a].attempt <= MaxAttempt /\ lane[a].position <= Len(lane)
  /\ paused \in BOOLEAN /\ lifecycle \in {"active", "archived"}
  /\ mailbox \subseteq Ids \X (1 .. MaxAttempt)
  /\ known \subseteq Ids \X (1 .. MaxAttempt) \X (Claimants \union {"bee"})
  /\ commits \in Seq([past: SUBSET Nat, holds: SUBSET Nat])
  /\ \A c \in DOMAIN commits :
       c \in Past(c) /\ Past(c) \subseteq Holds(c) /\ Holds(c) \subseteq 1 .. c
  /\ head \in DOMAIN commits /\ target \in DOMAIN commits /\ placed \in BOOLEAN /\ busy \in BOOLEAN
  /\ pc \in {"rest", "begun", "again", "effected", "down"}
  /\ work \in [id: Nat, cellHead: {0} \union DOMAIN commits,
               report: {"none", "landed", "nothing_to_capture", "unlanded"}]
  /\ requests \in 0 .. MaxRequests /\ faults \in 0 .. MaxFaults
  /\ said \subseteq Ids \X (0 .. MaxAttempt)
  /\ landed \subseteq Ids \X (1 .. MaxAttempt) \X DOMAIN commits

NoWork == [id |-> 0, cellHead |-> 0, report |-> "none"]

Init ==
  /\ lane = <<>> /\ paused = FALSE /\ lifecycle = "active"
  /\ mailbox = {} /\ known = {}
  /\ commits = <<[past |-> {1}, holds |-> {1}], [past |-> {1, 2}, holds |-> {1, 2}]>>
  /\ head = 2 /\ target = 1
  /\ placed = TRUE /\ busy = FALSE
  /\ pc = "rest" /\ work = NoWork /\ requests = 0 /\ faults = 0
  /\ said = {} /\ landed = {}

-----------------------------------------------------------------------------
(* Rows *)

\* Mutant: the append cursor is one ahead.
RowSkippingOne(item, id, base) ==
  [executor |-> item.executor, required |-> item.required, mode |-> item.mode,
   ref |-> IF item.refItem > 0 THEN base + item.refItem ELSE item.refAction,
   position |-> id + 1, status |-> "queued", reason |-> "none", attempt |-> 0, token |-> 0,
   dispatched |-> FALSE, delivered |-> FALSE, claimedBy |-> "none", question |-> "none",
   command |-> "none", expectedHead |-> Nothing, output |-> Nothing, failure |-> "none"]

\* A row as enqueueActions inserts it, at the end of the lane.
NewRow(item, id, base) ==
  [executor |-> item.executor, required |-> item.required, mode |-> item.mode,
   ref |-> IF item.refItem > 0 THEN base + item.refItem ELSE item.refAction,
   position |-> id, status |-> "queued", reason |-> "none", attempt |-> 0, token |-> 0,
   dispatched |-> FALSE, delivered |-> FALSE, claimedBy |-> "none", question |-> "none",
   command |-> "none", expectedHead |-> Nothing, output |-> Nothing, failure |-> "none"]

\* What enqueueActions refuses: a reference that does not point backwards.
RefsBackwards(items, base) ==
  \A i \in DOMAIN items : items[i].refItem < i /\ items[i].refAction <= base

\* The nearest action before a that was not cancelled has succeeded, or there is none.
PredecessorDone(l, a) ==
  LET before == {b \in DOMAIN l : l[b].position < l[a].position /\ l[b].status # "cancelled"}
  IN  before = {} \/ \E b \in before : /\ \A c \in before : l[c].position <= l[b].position
                                       /\ l[b].status = "succeeded"

\* resolveActionInputs: the action referred to has succeeded with the output.
Resolves(l, a) ==
  l[a].ref # 0 => l[l[a].ref].status = "succeeded" /\ l[l[a].ref].output # Nothing

\* A new attempt.  Its token is minted only where somebody will report.
Opened(r, status, reason) ==
  [r EXCEPT !.status = status, !.reason = reason, !.attempt = @ + 1,
            !.token = IF r.executor \in {"agent", "external"} THEN r.attempt + 1 ELSE 0,
            !.dispatched = TRUE, !.delivered = FALSE, !.claimedBy = "none",
            !.question = "none", !.expectedHead = Nothing, !.output = Nothing,
            !.failure = "none"]

\* Mutant: the token of the attempt before survives a retry.
RequeuedWithToken(r) ==
  [r EXCEPT !.status = "queued", !.reason = "none", !.dispatched = FALSE,
            !.delivered = FALSE, !.claimedBy = "none", !.question = "none",
            !.command = "none", !.expectedHead = Nothing, !.output = Nothing,
            !.failure = "none"]

\* retryAction: the attempt is closed and its token void; the next one is opened
\* when the row is released again.
Requeued(r) ==
  [r EXCEPT !.status = "queued", !.reason = "none", !.token = 0, !.dispatched = FALSE,
            !.delivered = FALSE, !.claimedBy = "none", !.question = "none",
            !.command = "none", !.expectedHead = Nothing, !.output = Nothing,
            !.failure = "none"]

Waiting(r, reason) == [r EXCEPT !.status = "waiting", !.reason = reason]

Failed(r, failure) ==
  [r EXCEPT !.status = "failed", !.reason = "none", !.failure = failure]

Succeeded(r, output) ==
  [r EXCEPT !.status = "succeeded", !.reason = "none", !.output = output,
            !.failure = "none"]

Put(a, r) == lane' = [lane EXCEPT ![a] = r]

\* An undelivered instruction of the current attempt leaves the mailbox.
Withdrawn(r, a) == IF r.dispatched /\ ~r.delivered THEN mailbox \ {<<a, r.attempt>>} ELSE mailbox

\* The outputs a success may report: the commit, which a commit must.
Outputs(r) == IF r.required THEN {head} ELSE {head, Nothing}

\* The agent, the cell, the origin: what a step of the queue leaves alone.
outside == <<commits, head, placed, busy>>
history == <<said, landed>>

-----------------------------------------------------------------------------
(* The scheduler: reconcileActionLane, once per step of the loop *)

\* The head of the queue, when no action is active and the one before has succeeded.
Releasable(l) ==
  {a \in DOMAIN l :
     /\ l[a].status = "queued" /\ PredecessorDone(l, a)
     /\ \A b \in DOMAIN l : l[b].status # "queued" \/ l[a].position <= l[b].position
     /\ \A b \in DOMAIN l : l[b].status \notin Active}

Released(a) == pc = "rest" /\ ~paused /\ a \in Releasable(lane)

\* A reference that does not resolve fails the action instead of leaving a hole.
FailUnresolved(a) ==
  /\ Released(a) /\ ~Resolves(lane, a)
  /\ Put(a, Failed(lane[a], "input_unresolved"))
  /\ UNCHANGED <<paused, lifecycle, mailbox, known, target, pc, work, requests, faults,
                 outside, history>>

\* The instruction is sent with the attempt's token; send() unarchives the bee.
DispatchAgentAction(a) ==
  /\ Released(a) /\ Resolves(lane, a) /\ lane[a].executor = "agent"
  /\ Put(a, Opened(lane[a], "running", "none"))
  /\ mailbox' = mailbox \union {<<a, lane[a].attempt + 1>>}
  /\ lifecycle' = "active"
  /\ UNCHANGED <<paused, known, target, pc, work, requests, faults, outside, history>>

\* The bee's archive command, unless the bee is archived already.
DispatchArchiveAction(a) ==
  /\ Released(a) /\ Resolves(lane, a) /\ lane[a].executor = "archive"
  /\ Put(a, IF lifecycle = "archived"
            THEN Succeeded(Opened(lane[a], "running", "none"), 0)
            ELSE [Opened(lane[a], "running", "none") EXCEPT !.command = "queued"])
  /\ UNCHANGED <<paused, lifecycle, mailbox, known, target, pc, work, requests, faults,
                 outside, history>>

ReconcileArchiveAction(a) ==
  /\ pc = "rest" /\ a \in Ids /\ lane[a].executor = "archive" /\ lane[a].status = "running"
  /\ lane[a].command # "queued"
  /\ Put(a, IF lane[a].command = "done" THEN Succeeded(lane[a], 0) ELSE Failed(lane[a], "other"))
  /\ UNCHANGED <<paused, lifecycle, mailbox, known, target, pc, work, requests, faults,
                 outside, history>>

\* An offer that stays until somebody claims it.
OfferExternal(a) ==
  /\ Released(a) /\ Resolves(lane, a) /\ lane[a].executor = "external"
  /\ Put(a, Opened(lane[a], "waiting", "executor"))
  /\ UNCHANGED <<paused, lifecycle, mailbox, known, target, pc, work, requests, faults,
                 outside, history>>

-----------------------------------------------------------------------------
(* Captures *)

HeldForExecutor(a) ==
  /\ pc = "rest" /\ a \in Ids /\ lane[a].executor = "capture"
  /\ lane[a].status = "waiting" /\ lane[a].reason = "executor"

\* A cell with an operation in flight is waited for.
HoldCapture(a) ==
  /\ Released(a) /\ Resolves(lane, a) /\ lane[a].executor = "capture" /\ placed /\ busy
  /\ Put(a, Waiting(lane[a], "executor"))
  /\ UNCHANGED <<paused, lifecycle, mailbox, known, target, pc, work, requests, faults,
                 outside, history>>

\* The attempt is opened, with the HEAD it is about, before the origin is touched.
BeginCellCaptureAttempt(a) ==
  /\ (Released(a) /\ lane[a].executor = "capture") \/ HeldForExecutor(a)
  /\ Resolves(lane, a) /\ ~(placed /\ busy)
  /\ Put(a, [Opened(lane[a], "running", "none") EXCEPT
               !.expectedHead = IF placed THEN head ELSE Nothing])
  /\ pc' = "begun" /\ work' = [NoWork EXCEPT !.id = a, !.cellHead = head]
  /\ UNCHANGED <<paused, lifecycle, mailbox, known, target, requests, faults, outside, history>>

\* The cell is gone, or its HEAD is not the commit the action was given.
Precluded(r) ==
  \/ r.expectedHead = Nothing
  \/ r.ref # 0 /\ lane[r.ref].output # r.expectedHead

RefuseCapture ==
  /\ pc = "begun" /\ Precluded(lane[work.id])
  /\ Put(work.id, Failed(lane[work.id], "other"))
  /\ pc' = "rest" /\ work' = NoWork
  /\ UNCHANGED <<paused, lifecycle, mailbox, known, target, requests, faults, outside, history>>

\* The commits with a new one on top of the given ancestors and changes.
Grown(past, holds) ==
  LET n == Len(commits) + 1
  IN  Append(commits, [past |-> past \union {n}, holds |-> holds \union {n}])

\* captureWork on commit h: what it reports, and the commits and the target it
\* leaves.  The branch is moved forward to h where that is possible; otherwise h is
\* merged with it, or the changes of h are replayed on it, unless they conflict.
Captures(mode, h) ==
  LET Result(report, cs, to) == [report |-> report, commits |-> cs, target |-> to]
      nothing == Result("nothing_to_capture", commits, target)
      new == Len(commits) + 1
      holds == Holds(target) \union Holds(h)
  IN  IF h \in Past(target) THEN {nothing}
      ELSE IF target \in Past(h) THEN {Result("landed", commits, h)}
      ELSE {Result("unlanded", commits, target),
            IF mode = "merge"
            THEN Result("landed", Grown(Past(target) \union Past(h), holds), new)
            ELSE IF Holds(h) \subseteq Holds(target) THEN nothing
            ELSE Result("landed", Grown(Past(target), holds), new)}

\* captureWork reads HEAD again: what the agent made of it since the attempt was
\* opened is what lands.  It may also refuse (the target is checked out, or has
\* moved) or throw, and then leaves the origin as it was.
ExecuteCapture(a) ==
  /\ \/ \E c \in Captures(lane[a].mode, head) :
          /\ commits' = c.commits /\ target' = c.target /\ faults' = faults
          /\ work' = [id |-> a, cellHead |-> head, report |-> c.report]
          /\ landed' = IF c.report = "landed" THEN landed \union {<<a, lane[a].attempt, c.target>>}
                       ELSE landed
     \/ /\ faults < MaxFaults /\ faults' = faults + 1
        /\ work' = [id |-> a, cellHead |-> head, report |-> "unlanded"]
        /\ UNCHANGED <<commits, target, landed>>
  /\ pc' = "effected"
  /\ UNCHANGED <<lane, paused, lifecycle, mailbox, known, head, placed, busy, requests, said>>

RunCapture ==
  /\ (pc = "begun" /\ ~Precluded(lane[work.id])) \/ pc = "again"
  /\ ExecuteCapture(work.id)

\* settleAction from the capture's report
SettleCapture ==
  /\ pc = "effected"
  /\ Put(work.id, IF work.report = "unlanded" THEN Failed(lane[work.id], "other")
                  ELSE Succeeded(lane[work.id], work.cellHead))
  /\ pc' = "rest" /\ work' = NoWork
  /\ UNCHANGED <<paused, lifecycle, mailbox, known, target, requests, faults, outside, history>>

\* The settling transaction fails; the step ends and the loop goes on.
SettleThrows ==
  /\ pc = "effected" /\ faults < MaxFaults /\ faults' = faults + 1
  /\ pc' = "rest" /\ work' = NoWork
  /\ UNCHANGED <<lane, paused, lifecycle, mailbox, known, target, requests, outside, history>>

\* A running capture seen by a later step has lost its receipt.
LoseReceipt(a) ==
  /\ pc = "rest" /\ a \in Ids /\ lane[a].executor = "capture" /\ lane[a].status = "running"
  /\ Put(a, Waiting(lane[a], "uncertain"))
  /\ UNCHANGED <<paused, lifecycle, mailbox, known, target, pc, work, requests, faults,
                 outside, history>>

Uncertain(a) ==
  /\ pc = "rest" /\ a \in Ids /\ lane[a].executor = "capture"
  /\ lane[a].status = "waiting" /\ lane[a].reason = "uncertain"
  /\ lane[a].expectedHead # Nothing /\ placed

\* The outcome is settled, or else the attempt runs again on the HEAD it was opened
\* for; whether its input was that commit is not asked again.
Reconciled(a, r) ==
  /\ Put(a, r)
  /\ UNCHANGED <<paused, lifecycle, mailbox, known, target, pc, work, requests, faults,
                 outside, history>>

CaptureAgain(a) ==
  /\ head = lane[a].expectedHead
  /\ pc' = "again" /\ work' = [NoWork EXCEPT !.id = a, !.cellHead = head]
  /\ UNCHANGED <<lane, paused, lifecycle, mailbox, known, target, requests, faults, outside,
                 history>>

\* Mutant: a capture of unknown outcome is failed when the HEAD has moved, before
\* anybody asks the origin.
ReconcileHeadFirst(a) ==
  /\ Uncertain(a) /\ ~busy
  /\ \/ head # lane[a].expectedHead /\ Reconciled(a, Failed(lane[a], "other"))
     \/ CaptureAgain(a)

\* Mutant: the origin is asked, but an unlanded capture is left for later.
ReconcileProbeOnly(a) ==
  /\ Uncertain(a) /\ lane[a].expectedHead \in Past(target)
  /\ Reconciled(a, Succeeded(lane[a], lane[a].expectedHead))

\* The origin is asked whether the target contains the HEAD of the attempt: then it
\* has succeeded; otherwise the same attempt runs again, if the HEAD is still that.
ReconcileUncertainCapture(a) ==
  /\ Uncertain(a)
  /\ \/ /\ lane[a].expectedHead \in Past(target)
        /\ Reconciled(a, Succeeded(lane[a], lane[a].expectedHead))
     \/ /\ lane[a].expectedHead \notin Past(target) /\ ~busy
        /\ \/ head # lane[a].expectedHead /\ Reconciled(a, Failed(lane[a], "other"))
           \/ CaptureAgain(a)

\* Boot: the outcome of a capture that was running is unknown.
Boot ==
  /\ pc = "down" /\ pc' = "rest" /\ work' = NoWork
  /\ lane' = [a \in Ids |-> IF lane[a].executor = "capture" /\ lane[a].status = "running"
                            THEN Waiting(lane[a], "uncertain") ELSE lane[a]]
  /\ UNCHANGED <<paused, lifecycle, mailbox, known, target, requests, faults, outside, history>>

Crash ==
  /\ pc # "down" /\ faults < MaxFaults /\ faults' = faults + 1 /\ pc' = "down"
  /\ UNCHANGED <<lane, paused, lifecycle, mailbox, known, target, work, requests, outside,
                 history>>

-----------------------------------------------------------------------------
(* The agent, claimants, and the commands of the bee *)

\* The delivery loop hands over an instruction and marks it delivered, which is
\* evidence for the row and never completion.
Deliver(a, n) ==
  /\ pc = "rest" /\ <<a, n>> \in mailbox
  /\ mailbox' = mailbox \ {<<a, n>>} /\ known' = known \union {<<a, n, "bee">>}
  /\ lane' = IF lane[a].dispatched /\ lane[a].attempt = n /\ lane[a].status \in Active
             THEN [lane EXCEPT ![a].delivered = TRUE] ELSE lane
  /\ UNCHANGED <<paused, lifecycle, target, pc, work, requests, faults, outside, history>>

\* The daemon dies after the agent has the instruction and before the mark.
DeliverUnmarked(a, n) ==
  /\ pc = "rest" /\ <<a, n>> \in mailbox
  /\ faults < MaxFaults /\ faults' = faults + 1 /\ pc' = "down"
  /\ known' = known \union {<<a, n, "bee">>}
  /\ UNCHANGED <<lane, paused, lifecycle, mailbox, target, work, requests, outside, history>>

\* What the agent does with git in its cell, whatever the daemon is doing.
AgentOnly == UNCHANGED <<lane, paused, lifecycle, mailbox, known, target, placed, busy, pc, work,
                         requests, faults, history>>

\* A commit on HEAD, one in its place (amend, not of the commit the cell was cloned
\* at), or a merge of the target branch.
Commit ==
  /\ placed /\ Len(commits) < MaxCommits /\ head' = Len(commits) + 1
  /\ \/ commits' = Grown(Past(head), Holds(head))
     \/ /\ head # 1
        /\ commits' = LET before == Past(head) \ {head}
                      IN  Grown(before, UNION {Holds(c) : c \in before})
     \/ /\ target \notin Past(head)
        /\ commits' = Grown(Past(head) \union Past(target), Holds(head) \union Holds(target))
  /\ AgentOnly

\* HEAD goes to another commit: a reset, a switch of branch, a pull that only moves
\* it forward.
Checkout ==
  /\ placed /\ head' \in DOMAIN commits \ {head} /\ UNCHANGED commits
  /\ AgentOnly

\* A claim of an offer; a second claim by the same executor changes nothing.
ClaimAction(a, e) ==
  /\ pc = "rest" /\ a \in Ids /\ lane[a].executor = "external"
  /\ lane[a].status = "waiting" /\ lane[a].reason = "executor" /\ lane[a].claimedBy = "none"
  /\ Put(a, [lane[a] EXCEPT !.status = "running", !.reason = "none", !.claimedBy = e])
  /\ known' = known \union {<<a, lane[a].attempt, e>>}
  /\ UNCHANGED <<paused, lifecycle, mailbox, target, pc, work, requests, faults, outside, history>>

\* Mutant: a report is not checked against the attempt.
AuthenticAnyAttempt(a, n, who) ==
  /\ <<a, n, who>> \in known /\ lane[a].token # 0
  /\ IF lane[a].executor = "agent" THEN who = "bee" ELSE who = lane[a].claimedBy

\* Whose reports reportAction accepts: the current attempt, the bee or the claimant
\* the attempt was given to, and its token.
Authentic(a, n, who) ==
  /\ <<a, n, who>> \in known /\ n = lane[a].attempt
  /\ IF lane[a].executor = "agent" THEN who = "bee" ELSE who = lane[a].claimedBy
  /\ lane[a].token = n

\* A question parks the attempt; asked again while it is open, it changes nothing.
ReportQuestion(a, n, who) ==
  /\ pc = "rest" /\ Authentic(a, n, who) /\ lane[a].status \notin Final \union {"failed"}
  /\ ~(lane[a].status = "waiting" /\ lane[a].reason = "input" /\ lane[a].question = "open")
  /\ Put(a, [Waiting(lane[a], "input") EXCEPT !.question = "open"])
  /\ UNCHANGED <<paused, lifecycle, mailbox, known, target, pc, work, requests, faults, outside,
                 history>>

\* A result settles an attempt that is open; for a settled one it is refused, or
\* recognised as a repetition, and changes nothing.
ReportResult(a, n, who) ==
  /\ pc = "rest" /\ Authentic(a, n, who) /\ lane[a].status \notin Final \union {"failed"}
  /\ \/ /\ \E output \in Outputs(lane[a]) : Put(a, Succeeded(lane[a], output))
        /\ said' = said \union {<<a, n>>}
     \/ Put(a, Failed(lane[a], "other")) /\ said' = said
     \/ /\ lane[a].reason # "uncertain"
        /\ Put(a, Waiting(lane[a], "uncertain")) /\ said' = said
  /\ UNCHANGED <<paused, lifecycle, mailbox, known, target, pc, work, requests, faults, outside,
                 landed>>

\* The archive command runs: an archived bee is left as it is.
ExecuteArchiveCommand(a) ==
  /\ pc = "rest" /\ a \in Ids /\ lane[a].command = "queued"
  /\ \/ /\ Put(a, [lane[a] EXCEPT !.command = "done"])
        /\ lifecycle' = "archived" /\ faults' = faults
     \/ /\ faults < MaxFaults /\ faults' = faults + 1
        /\ Put(a, [lane[a] EXCEPT !.command = "failed"]) /\ UNCHANGED lifecycle
  /\ UNCHANGED <<paused, mailbox, known, target, pc, work, requests, outside, history>>

-----------------------------------------------------------------------------
(* Operators *)

\* enqueueActions: one transaction for the items of a request.  (A request sent
\* again is recognised by its key and changes nothing.)
EnqueueActions(items) ==
  /\ pc = "rest" /\ items # <<>> /\ Len(lane) + Len(items) <= MaxActions
  /\ RefsBackwards(items, Len(lane))
  /\ lane' = lane \o [i \in DOMAIN items |-> NewRow(items[i], Len(lane) + i, Len(lane))]
  /\ UNCHANGED <<paused, lifecycle, mailbox, known, target, pc, work, requests, faults, outside,
                 history>>

Request == pc = "rest" /\ requests < MaxRequests /\ requests' = requests + 1

SetPaused ==
  /\ Request /\ paused' = ~paused
  /\ UNCHANGED <<lane, lifecycle, mailbox, known, target, pc, work, faults, outside, history>>

\* deriveActionControls: outright, or with force for an attempt that is under way.
\* A running archive is never cancelled.
Cancellable(r) ==
  r.status \in {"queued", "failed"} \/ (r.status \in Active /\ r.executor # "archive")

CancelAction(a) ==
  /\ Request /\ a \in Ids /\ Cancellable(lane[a])
  /\ mailbox' = IF lane[a].executor = "agent" THEN Withdrawn(lane[a], a) ELSE mailbox
  /\ Put(a, [lane[a] EXCEPT !.status = "cancelled", !.reason = "none", !.token = 0])
  /\ UNCHANGED <<paused, lifecycle, known, target, pc, work, faults, outside, history>>

\* A failed action again, or with force one whose outcome is uncertain.
RetryAction(a) ==
  /\ Request /\ a \in Ids /\ lane[a].attempt < MaxAttempt
  /\ lane[a].status = "failed" \/ lane[a].reason = "uncertain"
  /\ Put(a, Requeued(lane[a]))
  /\ UNCHANGED <<paused, lifecycle, mailbox, known, target, pc, work, faults, outside, history>>

\* The operator settles an agent's action, over a failure too; the answer to an
\* open question goes out as mail.
CompleteAction(a) ==
  /\ Request /\ a \in Ids /\ lane[a].executor = "agent"
  /\ lane[a].status \in {"running", "failed"} \/ lane[a].reason = "input"
  /\ \E output \in Outputs(lane[a]) :
       Put(a, [Succeeded(lane[a], output) EXCEPT
                 !.token = IF lane[a].status = "failed" THEN 0 ELSE @,
                 !.question = IF @ = "open" THEN "closed" ELSE @])
  /\ mailbox' = Withdrawn(lane[a], a)
  /\ lifecycle' = IF lane[a].question = "open" THEN "active" ELSE lifecycle
  /\ said' = said \union {<<a, lane[a].attempt>>}
  /\ UNCHANGED <<paused, known, target, pc, work, faults, outside, landed>>

\* Mutant: an order is taken although a reference would point forwards.
OrderKeepsNothing(order) == TRUE

\* order is the new position of each queued action.
OrderKeepsRefs(order) ==
  \A a \in DOMAIN order : lane[a].ref \in DOMAIN order => order[lane[a].ref] < order[a]

\* The queued actions exchange positions; no other row moves.
ReorderActions ==
  LET queued == {a \in Ids : lane[a].status = "queued"}
      positions == {lane[a].position : a \in queued}
  IN  /\ Request
      /\ \E order \in [queued -> positions] :
           /\ \A a, b \in queued : order[a] = order[b] => a = b
           /\ OrderKeepsRefs(order)
           /\ \E a \in queued : order[a] # lane[a].position
           /\ lane' = [a \in Ids |-> IF a \in queued THEN [lane[a] EXCEPT !.position = order[a]]
                                     ELSE lane[a]]
      /\ UNCHANGED <<paused, lifecycle, mailbox, known, target, pc, work, faults, outside, history>>

\* answerQuestion: the answer is mail, and the attempt that waits for it resumes.
AnswerQuestion(a) ==
  /\ Request /\ a \in Ids /\ lane[a].question = "open"
  /\ Put(a, IF lane[a].reason = "input"
            THEN [lane[a] EXCEPT !.question = "closed", !.status = "running", !.reason = "none"]
            ELSE [lane[a] EXCEPT !.question = "closed"])
  /\ lifecycle' = "active"
  /\ UNCHANGED <<paused, mailbox, known, target, pc, work, faults, outside, history>>

\* Withdrawn by the agent, or dismissed (which is mail): the attempt waits on.
CloseQuestion(a) ==
  /\ Request /\ a \in Ids /\ lane[a].question = "open"
  /\ Put(a, [lane[a] EXCEPT !.question = "closed"])
  /\ lifecycle' \in {lifecycle, "active"}
  /\ UNCHANGED <<paused, mailbox, known, target, pc, work, faults, outside, history>>

\* mail.cancel of an instruction fails the attempt it belongs to.
CancelMessage(a, n) ==
  /\ Request /\ <<a, n>> \in mailbox /\ mailbox' = mailbox \ {<<a, n>>}
  /\ lane' = IF lane[a].dispatched /\ lane[a].attempt = n /\ lane[a].status \in Active
                /\ ~lane[a].delivered
             THEN [lane EXCEPT ![a] = Failed(@, "other")] ELSE lane
  /\ UNCHANGED <<paused, lifecycle, known, target, pc, work, faults, outside, history>>

\* Outside the queue: the bee is archived, or leaves its cell; a command runs in the
\* cell; the owner of the origin commits to the target.
Elsewhere ==
  /\ Request
  /\ \/ lifecycle' = "archived" /\ UNCHANGED <<commits, target, placed, busy>>
     \/ placed' = FALSE /\ UNCHANGED <<lifecycle, commits, target, busy>>
     \/ ~busy /\ busy' = TRUE /\ UNCHANGED <<lifecycle, commits, target, placed>>
     \/ /\ Len(commits) < MaxCommits
        /\ commits' = Grown(Past(target), Holds(target)) /\ target' = Len(commits) + 1
        /\ UNCHANGED <<lifecycle, placed, busy>>
  /\ UNCHANGED <<lane, paused, mailbox, known, head, pc, work, faults, history>>

CellIdle ==
  /\ busy /\ busy' = FALSE
  /\ UNCHANGED <<lane, paused, lifecycle, mailbox, known, commits, head, target, placed, pc, work,
                 requests, faults, history>>

-----------------------------------------------------------------------------
(* The specification *)

Schedule(a) ==
  \/ FailUnresolved(a) \/ DispatchAgentAction(a) \/ DispatchArchiveAction(a)
  \/ ReconcileArchiveAction(a) \/ OfferExternal(a)
  \/ HoldCapture(a) \/ BeginCellCaptureAttempt(a) \/ LoseReceipt(a)
  \/ ReconcileUncertainCapture(a)

Step == (\E a \in Ids : Schedule(a)) \/ RefuseCapture \/ RunCapture \/ SettleCapture

Operate(a) ==
  \/ CancelAction(a) \/ RetryAction(a) \/ CompleteAction(a)
  \/ AnswerQuestion(a) \/ CloseQuestion(a)

Reporting ==
  \E k \in known : ReportQuestion(k[1], k[2], k[3]) \/ ReportResult(k[1], k[2], k[3])

Mailing == \E m \in mailbox : \/ Deliver(m[1], m[2]) \/ DeliverUnmarked(m[1], m[2])
                              \/ CancelMessage(m[1], m[2])

Next ==
  \/ Step \/ SettleThrows \/ Boot \/ Crash \/ Mailing \/ Reporting \/ Commit \/ Checkout
  \/ \E a \in Ids : Operate(a) \/ ExecuteArchiveCommand(a)
  \/ \E a \in Ids, e \in Claimants : ClaimAction(a, e)
  \/ \E items \in Requests : EnqueueActions(items)
  \/ SetPaused \/ ReorderActions \/ Elsewhere \/ CellIdle

Spec == Init /\ [][Next]_vars

\* The loop is driven by a timer, a daemon that died is started again, the archive
\* command is executed by the loop, and an operation in the cell ends.
Fairness ==
  /\ WF_vars(Step) /\ WF_vars(Boot) /\ WF_vars(CellIdle)
  /\ WF_vars(\E a \in Ids : ExecuteArchiveCommand(a))

FairSpec == Spec /\ Fairness

-----------------------------------------------------------------------------
(* Properties *)

\* The lane is one sequence: an action is started only when every action before it
\* has succeeded or been cancelled, and that stays so while it runs and after,
\* whatever is retried, reordered, reported late or appended meanwhile (so at most
\* one action is under way, and nothing runs past a failure).
Sequential ==
  \A a, b \in Ids :
    lane[a].position < lane[b].position /\ lane[b].status \notin {"queued", "cancelled"}
      => lane[a].status \in Final

\* References fail for good reasons only: an action whose input could not be
\* resolved refers to one that was cancelled or that succeeded without the output,
\* never to one that simply had not run yet, whatever order operators chose.
RefsHonest ==
  \A a \in Ids : lane[a].failure = "input_unresolved" =>
    LET r == lane[lane[a].ref]
    IN  r.status = "cancelled" \/ (r.status = "succeeded" /\ r.output = Nothing)

\* An outcome belongs to its attempt: a reported success is one that was reported
\* for the attempt the row records, by its agent or claimant or by the operator; a
\* late report of an attempt that was retried settles nothing.
OutcomeIsCurrent ==
  \A a \in Ids : lane[a].executor \in {"agent", "external"} /\ lane[a].status = "succeeded"
                  => <<a, lane[a].attempt>> \in said

\* What a capture says of the origin is true, through lost receipts, crashes between
\* effect and record, and whatever the agent does with HEAD meanwhile: the work of
\* one that succeeded is in the target; one that failed has landed nothing that
\* contains the HEAD its attempt was opened for.  (The attempt may have landed
\* something else: that HEAD rebased, or what the agent had replaced it by before
\* captureWork read it again.  FailedNeverLanded says what becomes of that.)
LandHonest ==
  \A a \in Ids : lane[a].executor = "capture" =>
    /\ lane[a].status = "succeeded" => lane[a].output \in Holds(target)
    /\ lane[a].status = "failed" =>
         \A l \in landed :
           l[1] = a /\ l[2] = lane[a].attempt => lane[a].expectedHead \notin Past(l[3])

\* A merge that is recorded as failed has not moved the target branch: when the probe
\* does not find the HEAD of the attempt there, the origin is as it was before
\* (reconcileUncertainCapture's comment, and the recovery of the contract).
FailedNeverLanded ==
  \A a \in Ids : lane[a].executor = "capture" /\ lane[a].mode = "merge" /\ lane[a].status = "failed"
    => ~\E l \in landed : l[1] = a /\ l[2] = lane[a].attempt

\* A capture that holds the lane lets go of it: it is run, and when its receipt is
\* lost it is settled from the origin or run again, as long as the cell is there.
CaptureSettles ==
  \A a \in 1 .. MaxActions :
    (/\ a \in Ids /\ lane[a].executor = "capture" /\ lane[a].status \in Active
     /\ lane[a].reason = "executor" \/ lane[a].expectedHead # Nothing)
      ~> (~placed \/ (a \in Ids /\ lane[a].status \notin Active))

=============================================================================
