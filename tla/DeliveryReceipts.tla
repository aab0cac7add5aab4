-------------------------- MODULE DeliveryReceipts --------------------------
(***************************************************************************)
(* The receipts that a runner host keeps of the messages it wrote to its   *)
(* agent (v2/driver-hsr/src/delivery-receipts.ts), so that a daemon that   *)
(* lost its memory or its connection can ask what became of a message.     *)
(*                                                                         *)
(*   of       the receipt of each message: its digest and what is known    *)
(*   retired  retiredThrough: the highest id among the receipts that were  *)
(*            pruned by age or by number                                   *)
(*                                                                         *)
(* A digest stands for the line that was written.                          *)
(***************************************************************************)
EXTENDS Naturals

CONSTANTS MaxMessages,   \* bound: ids issued
          Encodings      \* the lines one message can be encoded as

ASSUME ReceiptsAssumption == MaxMessages \in Nat /\ Encodings \subseteq Nat \ {0}

Ids == 1 .. MaxMessages

ReceiptStates == {"none", "written", "accepted", "refused"}

Receipts == [of: [Ids -> [digest: Encodings \union {0}, state: ReceiptStates]],
             retired: 0 .. MaxMessages]

NoReceipt == [digest |-> 0, state |-> "none"]

NoReceipts == [of |-> [m \in Ids |-> NoReceipt], retired |-> 0]

\* Mutant: a pruned receipt is forgotten.
StatusForgetful(receipts, m, digest) ==
  LET r == receipts.of[m]
  IN  CASE r.state = "none"   -> "not_written"
        [] r.digest = digest  -> r.state
        [] r.state = "refused" -> "not_written"
        [] OTHER -> "unknown"

Status(receipts, m, digest) ==
  LET r == receipts.of[m]
  IN  CASE r.state = "none"   -> IF m <= receipts.retired THEN "unknown" ELSE "not_written"
        [] r.state # "none" /\ r.digest = digest -> r.state
        [] r.state # "none" /\ r.digest # digest ->
             IF r.state = "refused" THEN "not_written" ELSE "unknown"

\* begin returns whether the line is written to the agent.
MayBegin(receipts, m, digest) ==
  \/ Status(receipts, m, digest) = "not_written"
  \/ receipts.of[m].state = "refused"

Begin(receipts, m, digest) ==
  [receipts EXCEPT !.of[m] = [digest |-> digest, state |-> "written"]]

\* The agent's answer to the request that a message was encoded as.
Observe(receipts, m, answer) ==
  IF receipts.of[m].state = "written"
    THEN [receipts EXCEPT !.of[m].state = answer]
    ELSE receipts

\* prune drops the oldest receipts; which one is the oldest is left open.
Prune(receipts, m) ==
  [of |-> [receipts.of EXCEPT ![m] = NoReceipt],
   retired |-> IF m > receipts.retired THEN m ELSE receipts.retired]
=============================================================================
