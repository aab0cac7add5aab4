---------------------------- MODULE MailDelivery ----------------------------
(***************************************************************************)
(* How the messages of one bee reach its agent: the mailbox and the        *)
(* delivery confirmation intents of the store (v2/core/src/store.ts), the  *)
(* delivery loop and the reconciliation of intents (v2/daemon/src/loops.ts)*)
(* the driver's side of the connection (v2/driver-hsr/src/driver.ts), the  *)
(* runner host with its receipts and its journal (runner-host.ts), and the *)
(* agent.  DaemonCore has the lifecycle; here a runtime is live or it has  *)
(* stopped, and mail revives it.                                           *)
(*                                                                         *)
(*   box, order         the mailbox rows: status and queue_order           *)
(*   intents            delivery_confirmation_intents; "lane" is held with *)
(*                      reason lane_unavailable                            *)
(*   gen, row           the current generation; its row is live            *)
(*   host, receipts,    the runner host of this generation: alive, what it *)
(*   stdin, journal     wrote, what the agent has not read, its answers    *)
(*   up, busy, ready    the daemon: running, inside a delivery, and the    *)
(*                      map confirmationReady                              *)
(*   driver             the driver's Runtime record for this generation    *)
(*   toHost, toDriver   the two directions of the socket                   *)
(*                                                                         *)
(* harness is fixed: confirms is the adapter's confirmsDelivery, tagged    *)
(* the host's delivery_status capability.  The encoding of a message       *)
(* depends on the turn, so every plan chooses one of Encodings.            *)
(*                                                                         *)
(* Frames that reached the kernel before a connection was lost are read by *)
(* the host before anything of the next connection.                        *)
(*                                                                         *)
(* executed and repeats are history: how often the agent took a message,   *)
(* and how often a crash came between a write that needs no confirmation   *)
(* and its delivered mark.                                                 *)
(***************************************************************************)
EXTENDS DeliveryReceipts, Integers, Sequences, FiniteSets

CONSTANTS MaxGen,        \* bound: generations
          MaxFaults      \* bound: crashes, lost connections, exits, refusals

ASSUME BoundsAssumption == MaxGen \in Nat \ {0} /\ MaxFaults \in Nat

VARIABLES harness, box, order, intents, gen, row,
          host, receipts, stdin, journal,
          up, busy, ready, driver, toHost, toDriver,
          executed, repeats, faults

mailbox == <<box, order>>
process == <<host, receipts, stdin, journal>>
daemon == <<up, busy, ready>>
wire == <<toHost, toDriver>>
history == <<executed, repeats>>
vars == <<harness, mailbox, intents, gen, row, process, daemon, driver, wire, history, faults>>

NoIntent == [state |-> "none", gen |-> 0, digest |-> 0, retries |-> 0]

Intent == [state: {"none", "awaiting", "held", "lane"}, gen: 0 .. MaxGen,
           digest: Encodings \union {0}, retries: 0 .. 1]

NoReply == [digest |-> 0, state |-> "none"]

Replies == [digest: Encodings \union {0},
            state: {"none", "not_written", "written", "accepted", "refused", "unknown"}]

\* known: procs has the runtime.  conn: the socket is open and authenticated.
\* confirmed, asked, replies: confirmedDeliveries, and pending and replies of
\* deliveryProtocol.  cursor: how much of the journal was read.
Driver == [known: BOOLEAN, degraded: BOOLEAN, conn: BOOLEAN, cursor: Nat,
           confirmed: SUBSET Ids, asked: SUBSET Ids, replies: [Ids -> Replies]]

NoDriver == [known |-> FALSE, degraded |-> FALSE, conn |-> FALSE, cursor |-> 0,
             confirmed |-> {}, asked |-> {}, replies |-> [m \in Ids |-> NoReply]]

Idle == [stage |-> "idle", id |-> 0]

\* unanswered: a status question whose connection was lost.
Frame == [op: {"write", "tagged", "status", "unanswered"}, id: Ids, digest: Encodings \union {0}]

TypeOK ==
  /\ harness \in [confirms: BOOLEAN, tagged: BOOLEAN]
  /\ box \in [Ids -> {"none", "queued", "delivered", "removed"}]
  /\ order \in [Ids -> Ids]
  /\ intents \in [Ids -> Intent]
  /\ gen \in 1 .. MaxGen /\ row \in {"live", "stopped"}
  /\ host \in BOOLEAN /\ receipts \in Receipts
  /\ stdin \in Seq(Ids) /\ journal \in Seq([id: Ids, answer: {"accepted", "refused"}])
  /\ up \in BOOLEAN /\ busy \in [stage: {"idle", "write", "mark"}, id: 0 .. MaxMessages]
  /\ ready \subseteq Ids /\ driver \in Driver
  /\ toHost \in Seq(Frame)
  /\ toDriver \in Seq([id: Ids, digest: Encodings, state: {"not_written", "written",
                                                           "accepted", "refused", "unknown"}])
  /\ executed \in [Ids -> Nat] /\ repeats \in [Ids -> Nat]
  /\ faults \in 0 .. MaxFaults

Init ==
  /\ harness \in [confirms: BOOLEAN, tagged: BOOLEAN]
  /\ box = [m \in Ids |-> "none"]
  /\ order = [m \in Ids |-> m]
  /\ intents = [m \in Ids |-> NoIntent]
  /\ gen = 1 /\ row = "live"
  /\ host = TRUE /\ receipts = NoReceipts /\ stdin = <<>> /\ journal = <<>>
  /\ up = TRUE /\ busy = Idle /\ ready = {}
  /\ driver = [NoDriver EXCEPT !.known = TRUE]
  /\ toHost = <<>> /\ toDriver = <<>>
  /\ executed = [m \in Ids |-> 0] /\ repeats = [m \in Ids |-> 0]
  /\ faults = 0

-----------------------------------------------------------------------------
(* Reading *)

Queued == {m \in Ids : box[m] = "queued"}

Before(m, n) == order[m] < order[n] \/ (order[m] = order[n] /\ m < n)

\* Mutant: a message that is held does not keep the ones behind it waiting.
FirstUnheld(m) ==
  /\ m \in Queued
  /\ \A n \in Queued \ {m} : Before(m, n) \/ intents[n].state \in {"held", "lane"}

\* The delivery loop takes the first pending message, and nothing behind it.
First(m) == m \in Queued /\ \A n \in Queued \ {m} : Before(m, n)

Current(m) == intents[m].state # "none" /\ intents[m].gen = gen /\ row = "live"

Working == up /\ busy = Idle

\* deliveryConfirmationsForMessage: an intent of another generation is held.
Held(m) ==
  /\ intents[m].state # "none"
  /\ intents[m].state \in {"held", "lane"} \/ intents[m].gen # gen

Hold(m, state) ==
  /\ intents' = [intents EXCEPT ![m].state = state]
  /\ ready' = ready \ {m}

Fresh == {m \in Ids : box[m] = "none" /\ \A n \in 1 .. m - 1 : box[n] # "none"}

-----------------------------------------------------------------------------
(* Senders and operators *)

Send(m) ==
  /\ Working /\ m \in Fresh
  /\ box' = [box EXCEPT ![m] = "queued"]
  /\ UNCHANGED <<harness, order, intents, gen, row, process, daemon, driver,
                 wire, history, faults>>

\* cancelMessage refuses a message with an intent.
Cancel(m) ==
  /\ Working /\ m \in Queued /\ intents[m].state = "none"
  /\ box' = [box EXCEPT ![m] = "removed"]
  /\ UNCHANGED <<harness, order, intents, gen, row, process, daemon, driver,
                 wire, history, faults>>

\* resolveDeliveryConfirmation: drop, and resend_anyway under a new id.
Drop(m) ==
  /\ Working /\ m \in Queued /\ Held(m)
  /\ box' = [box EXCEPT ![m] = "removed"]
  /\ intents' = [intents EXCEPT ![m] = NoIntent]
  /\ ready' = ready \ {m}
  /\ UNCHANGED <<harness, order, gen, row, process, up, busy, driver,
                 wire, history, faults>>

Resend(m, n) ==
  /\ Working /\ m \in Queued /\ Held(m) /\ n \in Fresh
  /\ box' = [box EXCEPT ![m] = "removed", ![n] = "queued"]
  /\ order' = [order EXCEPT ![n] = order[m]]
  /\ intents' = [intents EXCEPT ![m] = NoIntent]
  /\ ready' = ready \ {m}
  /\ UNCHANGED <<harness, gen, row, process, up, busy, driver, wire, history, faults>>

-----------------------------------------------------------------------------
(* The delivery loop *)

\* prepareDeliveryConfirmationIntent, or a replan once the host has said that
\* the last attempt was not written.  A harness that confirms nothing has no
\* intent.  The plan needs the connection, and so does the write after it.
Prepare(m) ==
  /\ Working /\ row = "live" /\ First(m)
  /\ driver.known /\ ~driver.degraded /\ driver.conn
  /\ \/ ~harness.confirms /\ UNCHANGED <<intents, ready>>
     \/ /\ harness.confirms
        /\ \/ intents[m].state = "none"
           \/ Current(m) /\ intents[m].state = "awaiting" /\ m \in ready
        /\ \E digest \in Encodings :
             intents' = [intents EXCEPT ![m] = [@ EXCEPT !.state = "awaiting", !.gen = gen,
                                                          !.digest = digest]]
        /\ ready' = ready \ {m}
  /\ busy' = [stage |-> "write", id |-> m]
  /\ UNCHANGED <<harness, mailbox, gen, row, process, up, driver, wire, history, faults>>

\* driver.deliver: a message already confirmed is not written again.  A line
\* written to a host that is gone is lost.
Deliver(m) ==
  /\ up /\ busy = [stage |-> "write", id |-> m]
  /\ IF harness.confirms /\ m \in driver.confirmed
       THEN /\ driver' = [driver EXCEPT !.confirmed = @ \ {m}]
            /\ busy' = [stage |-> "mark", id |-> m]
            /\ UNCHANGED toHost
       ELSE /\ toHost' = IF host THEN Append(toHost,
                 [op |-> IF harness.confirms /\ harness.tagged THEN "tagged" ELSE "write",
                  id |-> m, digest |-> intents[m].digest])
                         ELSE toHost
            /\ busy' = IF harness.confirms THEN Idle ELSE [stage |-> "mark", id |-> m]
            /\ UNCHANGED driver
  /\ UNCHANGED <<harness, mailbox, intents, gen, row, process, up, ready, toDriver,
                 history, faults>>

\* commitMessageDelivery
MarkDelivered(m) ==
  /\ up /\ busy = [stage |-> "mark", id |-> m]
  /\ busy' = Idle
  /\ IF box[m] = "queued" /\ row = "live" /\ intents[m].gen \in {0, gen}
       THEN /\ box' = [box EXCEPT ![m] = "delivered"]
            /\ intents' = [intents EXCEPT ![m] = NoIntent]
            /\ ready' = ready \ {m}
       ELSE UNCHANGED <<box, intents, ready>>
  /\ UNCHANGED <<harness, order, gen, row, process, up, driver, wire, history, faults>>

-----------------------------------------------------------------------------
(* reconcileDeliveryConfirmations *)

HoldStale(m) ==
  /\ Working /\ intents[m].state # "none" /\ ~Current(m)
  /\ intents[m].state # "held" \/ m \in ready
  /\ Hold(m, "held")
  /\ UNCHANGED <<harness, mailbox, gen, row, process, up, busy, driver, wire, history, faults>>

\* Thirty seconds pass without a lane for a message that may be sent again.
LaneTimeout(m) ==
  /\ Working /\ Current(m) /\ m \in ready
  /\ Hold(m, "lane")
  /\ UNCHANGED <<harness, mailbox, gen, row, process, up, busy, driver, wire, history, faults>>

\* What the driver is asked about; a lane that is not back is not asked.
Polled(m) ==
  /\ Working /\ Current(m) /\ m \notin ready /\ driver.known
  /\ intents[m].state = "lane" => driver.conn /\ ~driver.degraded

\* consumeDeliveryConfirmation
PollConfirmed(m) ==
  /\ Polled(m) /\ m \in driver.confirmed
  /\ driver' = [driver EXCEPT !.confirmed = @ \ {m}]
  /\ busy' = [stage |-> "mark", id |-> m]
  /\ UNCHANGED <<harness, mailbox, intents, gen, row, process, up, ready, wire, history, faults>>

Unconfirmed(m) == Polled(m) /\ m \notin driver.confirmed

PollAsk(m) ==
  /\ Unconfirmed(m) /\ harness.tagged /\ driver.conn
  /\ driver.replies[m] = NoReply /\ m \notin driver.asked
  /\ driver' = [driver EXCEPT !.asked = @ \union {m}]
  /\ toHost' = Append(toHost, [op |-> "status", id |-> m, digest |-> intents[m].digest])
  /\ UNCHANGED <<harness, mailbox, intents, gen, row, process, daemon, toDriver, history, faults>>

\* Mutant: a line that was written counts as delivered.
ReplyOfWritten(m) ==
  LET reply == driver.replies[m]
  IN  IF reply.state = "written" THEN "accepted" ELSE reply.state

\* What the host's answer says of the attempt on record.
ReplyOf(m) ==
  LET reply == driver.replies[m]
  IN  IF reply.digest # intents[m].digest THEN "unknown" ELSE reply.state

\* Mutant: a refused message is tried again and again.
RetryAlways(m) == [intents[m] EXCEPT !.state = "awaiting", !.retries = @ + 1]

\* retryRefusedDeliveryConfirmation: once, then the message is held.
RetryRefused(m) ==
  IF intents[m].retries >= 1
    THEN [intents[m] EXCEPT !.state = "held"]
    ELSE [intents[m] EXCEPT !.state = "awaiting", !.retries = 1]

\* A runtime that can only be asked gives the message back to the queue.
GiveBack(m) ==
  IF driver.degraded THEN NoIntent ELSE [intents[m] EXCEPT !.state = "awaiting"]

PollReply(m) ==
  /\ Unconfirmed(m) /\ harness.tagged /\ driver.conn /\ driver.replies[m] # NoReply
  /\ driver' = [driver EXCEPT !.replies[m] = NoReply]
  /\ \/ /\ ReplyOf(m) = "written"
        /\ UNCHANGED <<intents, ready, busy>>
     \/ /\ ReplyOf(m) = "accepted"
        /\ busy' = [stage |-> "mark", id |-> m]
        /\ UNCHANGED <<intents, ready>>
     \/ /\ ReplyOf(m) = "not_written"
        /\ intents' = [intents EXCEPT ![m] = GiveBack(m)]
        /\ ready' = IF driver.degraded THEN ready ELSE ready \union {m}
        /\ UNCHANGED busy
     \/ /\ ReplyOf(m) = "refused"
        /\ intents' = [intents EXCEPT ![m] = RetryRefused(m)]
        /\ ready' = IF RetryRefused(m).state = "awaiting" THEN ready \union {m} ELSE ready
        /\ UNCHANGED busy
     \/ /\ ReplyOf(m) = "unknown"
        /\ Hold(m, "held")
        /\ UNCHANGED busy
  /\ UNCHANGED <<harness, mailbox, gen, row, process, up, wire, history, faults>>

\* Mutant: an answer is awaited for as long as it takes.
PollNoTimeout(m) == FALSE /\ Unconfirmed(m) /\ UNCHANGED vars

\* Thirty seconds pass without an answer.
PollTimeout(m) ==
  /\ Unconfirmed(m) /\ intents[m].state = "awaiting"
  /\ harness.tagged /\ driver.conn => driver.replies[m] = NoReply
  /\ Hold(m, "held")
  /\ UNCHANGED <<harness, mailbox, gen, row, process, up, busy, driver, wire, history, faults>>

-----------------------------------------------------------------------------
(* The driver *)

Connect ==
  /\ Working /\ driver.known /\ ~driver.conn /\ host
  /\ driver' = [driver EXCEPT !.conn = TRUE, !.asked = {},
                              !.replies = [m \in Ids |-> NoReply]]
  /\ UNCHANGED <<harness, mailbox, intents, gen, row, process, daemon, wire, history, faults>>

\* pumpHostTail: one answer of the agent, in the order of the journal.
Read(d) ==
  LET line == journal[d.cursor + 1]
  IN  [d EXCEPT !.cursor = @ + 1,
                !.confirmed = IF line.answer = "accepted" THEN @ \union {line.id}
                                                          ELSE @ \ {line.id}]

Pump ==
  /\ Working /\ driver.known /\ ~driver.degraded /\ driver.cursor < Len(journal)
  /\ driver' = Read(driver)
  /\ UNCHANGED <<harness, mailbox, intents, gen, row, process, daemon, wire, history, faults>>

ReceiveReply ==
  /\ Working /\ driver.conn /\ toDriver # <<>>
  /\ toDriver' = Tail(toDriver)
  /\ LET reply == Head(toDriver)
     IN  driver' = IF reply.id \in driver.asked
                     THEN [driver EXCEPT !.asked = @ \ {reply.id},
                                         !.replies[reply.id] = [digest |-> reply.digest,
                                                                state |-> reply.state]]
                     ELSE driver
  /\ UNCHANGED <<harness, mailbox, intents, gen, row, process, daemon, toHost, history, faults>>

\* The exit of the host is folded: the row stops.
ObserveExit ==
  /\ Working /\ driver.known /\ ~host
  /\ row' = "stopped" /\ driver' = NoDriver
  /\ UNCHANGED <<harness, mailbox, intents, gen, process, daemon, wire, history, faults>>

\* Undelivered mail wakes the bee: the next generation, with its own host.
Revive ==
  /\ Working /\ row = "stopped" /\ Queued # {} /\ gen < MaxGen
  /\ gen' = gen + 1 /\ row' = "live" /\ host' = TRUE
  /\ receipts' = NoReceipts /\ stdin' = <<>> /\ journal' = <<>>
  /\ driver' = [NoDriver EXCEPT !.known = TRUE]
  /\ UNCHANGED <<harness, mailbox, intents, daemon, wire, history, faults>>

-----------------------------------------------------------------------------
(* The runner host and the agent *)

HostRead ==
  /\ host /\ toHost # <<>>
  /\ LET frame == Head(toHost)
         written == \/ frame.op = "write"
                    \/ frame.op = "tagged" /\ MayBegin(receipts, frame.id, frame.digest)
     IN  /\ toDriver' = IF frame.op = "status" /\ driver.conn
                          THEN Append(toDriver, [id |-> frame.id, digest |-> frame.digest,
                                                 state |-> Status(receipts, frame.id, frame.digest)])
                          ELSE toDriver
         /\ receipts' = IF written /\ frame.op = "tagged"
                          THEN Begin(receipts, frame.id, frame.digest) ELSE receipts
         /\ stdin' = IF written THEN Append(stdin, frame.id) ELSE stdin
  /\ toHost' = Tail(toHost)
  /\ UNCHANGED <<harness, mailbox, intents, gen, row, host, journal, daemon, driver, history, faults>>

PruneReceipt(m) ==
  /\ host /\ faults < MaxFaults /\ receipts.of[m].state # "none"
  /\ receipts' = Prune(receipts, m)
  /\ faults' = faults + 1
  /\ UNCHANGED <<harness, mailbox, intents, gen, row, host, stdin, journal, daemon, driver,
                 wire, history>>

\* The agent takes the next message, and answers if its protocol has answers.
AgentAccept ==
  /\ host /\ stdin # <<>>
  /\ LET m == Head(stdin)
     IN  /\ executed' = [executed EXCEPT ![m] = @ + 1]
         /\ journal' = IF harness.confirms THEN Append(journal, [id |-> m, answer |-> "accepted"])
                                           ELSE journal
         /\ receipts' = Observe(receipts, m, "accepted")
  /\ stdin' = Tail(stdin)
  /\ UNCHANGED <<harness, mailbox, intents, gen, row, host, daemon, driver, wire,
                 repeats, faults>>

AgentRefuse ==
  /\ host /\ stdin # <<>> /\ harness.confirms /\ faults < MaxFaults
  /\ journal' = Append(journal, [id |-> Head(stdin), answer |-> "refused"])
  /\ receipts' = Observe(receipts, Head(stdin), "refused")
  /\ stdin' = Tail(stdin)
  /\ faults' = faults + 1
  /\ UNCHANGED <<harness, mailbox, intents, gen, row, host, daemon, driver, wire, history>>

-----------------------------------------------------------------------------
(* Faults *)

Unanswered(frame) == IF frame.op = "status" THEN [frame EXCEPT !.op = "unanswered"] ELSE frame

\* What of the frames under way still reaches the host: the first ones.  The
\* answer to a question of a closed connection reaches nobody.
Lost ==
  /\ \E k \in 0 .. Len(toHost) : toHost' = [i \in 1 .. k |-> Unanswered(toHost[i])]
  /\ toDriver' = <<>>

Disconnect ==
  /\ Working /\ driver.conn /\ faults < MaxFaults
  /\ driver' = [driver EXCEPT !.conn = FALSE, !.asked = {},
                              !.replies = [m \in Ids |-> NoReply]]
  /\ Lost
  /\ faults' = faults + 1
  /\ UNCHANGED <<harness, mailbox, intents, gen, row, process, daemon, history>>

\* The daemon dies.  The cursor it persisted may be behind what it had read.
Crash ==
  /\ up /\ faults < MaxFaults
  /\ up' = FALSE /\ busy' = Idle /\ ready' = {}
  /\ \E cursor \in 0 .. driver.cursor : driver' = [NoDriver EXCEPT !.cursor = cursor]
  /\ Lost
  /\ repeats' = IF busy.stage = "mark" /\ ~harness.confirms
                  THEN [repeats EXCEPT ![busy.id] = @ + 1] ELSE repeats
  /\ faults' = faults + 1
  /\ UNCHANGED <<harness, mailbox, intents, gen, row, process, executed>>

\* recoverAdapterContext: what the journal says up to the cursor.
ConfirmedUpTo(cursor) ==
  {m \in Ids : \E i \in 1 .. cursor :
     /\ journal[i] = [id |-> m, answer |-> "accepted"]
     /\ \A j \in i + 1 .. cursor : journal[j].id # m}

\* Boot: the host is adopted, degraded if its journal cannot be used; without
\* a host the row is reconciled.
Restart ==
  /\ ~up
  /\ up' = TRUE
  /\ \/ /\ row = "live" /\ host
        /\ \/ driver' = [driver EXCEPT !.known = TRUE,
                                       !.confirmed = ConfirmedUpTo(driver.cursor)]
           \/ driver' = [NoDriver EXCEPT !.known = TRUE, !.degraded = TRUE]
        /\ UNCHANGED row
     \/ /\ row = "live" /\ ~host
        /\ row' = "stopped" /\ driver' = NoDriver
     \/ row = "stopped" /\ UNCHANGED <<row, driver>>
  /\ UNCHANGED <<harness, mailbox, intents, gen, process, busy, ready, wire, history, faults>>

\* The agent exits, having taken some of what it was sent without an answer.
Exits ==
  /\ host
  /\ host' = FALSE /\ stdin' = <<>> /\ toHost' = <<>> /\ toDriver' = <<>>
  /\ driver' = [driver EXCEPT !.conn = FALSE, !.asked = {},
                              !.replies = [m \in Ids |-> NoReply]]
  /\ \E k \in 0 .. Len(stdin) :
       executed' = [m \in Ids |-> executed[m] + Cardinality({i \in 1 .. k : stdin[i] = m})]
  /\ UNCHANGED <<harness, mailbox, intents, gen, row, receipts, journal, daemon, repeats>>

HostExit == Exits /\ faults < MaxFaults /\ faults' = faults + 1

\* degradedMailPolicy: mail for a runtime that cannot take it stops the
\* runtime, unless an attempt at this generation is still unsettled.
StopDegraded ==
  /\ Working /\ driver.degraded /\ row = "live" /\ Queued # {}
  /\ \A m \in Ids : ~Current(m)
  /\ Exits /\ UNCHANGED faults

-----------------------------------------------------------------------------

DaemonStep(m) ==
  \/ Prepare(m) \/ Deliver(m) \/ MarkDelivered(m) \/ HoldStale(m)
  \/ PollConfirmed(m) \/ PollAsk(m) \/ PollReply(m)

Next ==
  \/ \E m \in Ids : \/ Send(m) \/ Cancel(m) \/ Drop(m)
                    \/ \E n \in Ids : Resend(m, n)
                    \/ DaemonStep(m) \/ LaneTimeout(m) \/ PollTimeout(m)
                    \/ PruneReceipt(m)
  \/ Connect \/ Pump \/ ReceiveReply \/ ObserveExit \/ Revive
  \/ HostRead \/ AgentAccept \/ AgentRefuse
  \/ Disconnect \/ Crash \/ Restart \/ HostExit \/ StopDegraded

Spec == Init /\ [][Next]_vars

\* The daemon steps, retries its connection and is restarted by its service
\* manager; hosts and agents read their input; time passes.
FairSpec ==
  /\ Spec
  /\ \A m \in Ids : WF_vars(DaemonStep(m)) /\ WF_vars(PollTimeout(m)) /\ WF_vars(LaneTimeout(m))
  /\ WF_vars(Connect) /\ WF_vars(Pump) /\ WF_vars(ReceiveReply)
  /\ WF_vars(ObserveExit) /\ WF_vars(Revive) /\ WF_vars(Restart)
  /\ WF_vars(HostRead) /\ WF_vars(AgentAccept) /\ WF_vars(StopDegraded)

-----------------------------------------------------------------------------
(* Properties *)

\* No message is taken twice, whatever crashes, is lost, is pruned or comes
\* late, unless the harness confirms nothing and a crash comes between the
\* write and the delivered mark.  What the operator resends has a new id.
AtMostOnce == \A m \in Ids : executed[m] <= 1 + repeats[m]

\* For a confirming harness a message marked delivered was taken by the agent.
DeliveredWasTaken ==
  harness.confirms => \A m \in Ids : box[m] = "delivered" => executed[m] > 0

\* A message on its way to the agent is the first of the queue, or no longer
\* in it: a held message keeps what is behind it back, and a resend takes the
\* place of the message it replaces.
InOrder == \A i \in DOMAIN stdin : \A m \in Queued : ~Before(m, stdin[i])

\* Every message is delivered, removed, or behind one that is held for the
\* operator to see.
MailSettles ==
  \A m \in Ids :
    box[m] = "queued" ~> (\/ box[m] # "queued" \/ \E n \in Queued : Held(n)
                          \/ row = "stopped" /\ gen = MaxGen)
=============================================================================
