------------------------- MODULE MailDeliveryProofs -------------------------
(***************************************************************************)
(* Proofs about MailDelivery: its type invariant, and that messages are    *)
(* taken at most once, in order, and before they are marked delivered.     *)
(*                                                                         *)
(* The argument counts the copies of a message: how often it was taken,    *)
(* how often it waits in the agent's input and how often it is written on  *)
(* its way to the host.  A message that may still be written (Unspent) has *)
(* no copy but those of an unconfirmed repeat.  A confirming harness gets  *)
(* back to that state only by an answer of the host that says so, and such *)
(* an answer stays true until it is used, because nothing is written for a *)
(* message while the host is asked about it.                               *)
(***************************************************************************)
EXTENDS MailDelivery, FiniteSetTheorems, SequenceTheorems, TLAPS

-----------------------------------------------------------------------------
(* The inductive invariant *)

\* How many elements of s are in X.
Occ(s, X) == Cardinality({i \in DOMAIN s : s[i] \in X})

Writes(m) == {f \in Frame : f.op \in {"write", "tagged"} /\ f.id = m}

Copies(m) == executed[m] + Occ(stdin, {m}) + Occ(toHost, Writes(m))

\* Another copy of m may be written before the host is asked about it.
Unspent(m) ==
  \/ busy = [stage |-> "write", id |-> m]
  \/ m \in ready
  \/ /\ box[m] \in {"none", "queued"} /\ intents[m].state = "none"
     /\ busy # [stage |-> "mark", id |-> m]

Tagged == harness.confirms /\ harness.tagged

\* No queued message comes before x, which was sent.
Ahead(x) == box[x] # "none" /\ \A m \in Queued : ~Before(m, x)

OrderOK ==
  /\ \A m \in Ids : order[m] <= m
  /\ \A m \in Ids : box[m] = "none" => order[m] = m /\ \A n \in Ids : n > m => box[n] = "none"

AheadOK ==
  /\ busy.stage # "idle" => Ahead(busy.id)
  /\ \A m \in Ids : intents[m].state # "none" => Ahead(m)
  /\ \A i \in DOMAIN toHost : toHost[i].op \in {"write", "tagged"} => Ahead(toHost[i].id)
  /\ \A i \in DOMAIN stdin : Ahead(stdin[i])

BusyOK ==
  /\ busy.stage = "idle" => busy = Idle
  /\ busy.stage # "idle" =>
       /\ up /\ row = "live" /\ busy.id \in Ids /\ box[busy.id] = "queued"
       /\ busy.id \notin ready
       /\ harness.confirms => intents[busy.id].state # "none" /\ intents[busy.id].gen = gen

IntentOK ==
  /\ \A m \in Ids : /\ intents[m].gen <= gen
                    /\ IF intents[m].state = "none" THEN intents[m] = NoIntent
                                                   ELSE box[m] = "queued"
  /\ ~harness.confirms => ready = {} /\ \A m \in Ids : intents[m] = NoIntent
  /\ harness.confirms => \A m \in Ids : repeats[m] = 0

LinkOK ==
  /\ row = "stopped" => ~host
  /\ ~host => toHost = <<>> /\ stdin = <<>> /\ ~driver.conn
  /\ ~up => ~driver.conn
  /\ ~driver.conn => /\ toDriver = <<>> /\ driver.asked = {}
                     /\ \A m \in Ids : driver.replies[m] = NoReply

FrameOK ==
  \A i \in DOMAIN toHost :
    /\ toHost[i].op \in {"tagged", "status"} => Tagged
    /\ toHost[i].op = "write" => ~Tagged

\* The receipts tell of every copy that the agent took or has to read.
Accounted(m) ==
  executed[m] + Occ(stdin, {m}) > 0 =>
    \/ receipts.of[m].state \in {"written", "accepted"}
    \/ receipts.of[m].state = "none" /\ m <= receipts.retired

Tracked(m) ==
  \/ \E i \in DOMAIN toHost : toHost[i].id = m
  \/ intents[m].state # "none" /\ intents[m].gen = gen
  \/ box[m] \in {"none", "queued"} /\ intents[m].state = "none"

AccountOK == Tagged => \A m \in Ids : Tracked(m) => Accounted(m)

\* A question or its answer is under way once, and behind what was written.
AskOK ==
  /\ \A i \in DOMAIN toHost : toHost[i].op = "status" =>
       /\ toHost[i].id \in driver.asked
       /\ \A j \in DOMAIN toHost : j > i => \/ toHost[j].op = "unanswered"
                                            \/ toHost[j].id # toHost[i].id
       /\ \A j \in DOMAIN toDriver : toDriver[j].id # toHost[i].id
  /\ \A i \in DOMAIN toDriver :
       /\ toDriver[i].id \in driver.asked
       /\ \A j \in DOMAIN toDriver : j > i => toDriver[j].id # toDriver[i].id
  /\ \A m \in Ids : driver.replies[m] # NoReply => m \notin driver.asked

QuietOK == \A m \in Ids : m \in driver.asked \/ driver.replies[m] # NoReply => ~Unspent(m)

Nothing == {"not_written", "refused"}

\* An answer that lets a message be written again is still true.
ReplyOK ==
  /\ \A i \in DOMAIN toDriver : toDriver[i].state \in Nothing => Copies(toDriver[i].id) = 0
  /\ \A m \in Ids : driver.replies[m].state \in Nothing => Copies(m) = 0

CopiesOK ==
  \A m \in Ids : /\ Copies(m) <= 1 + repeats[m]
                 /\ Unspent(m) => Copies(m) <= repeats[m]

\* Whatever says that a message was accepted is right.
TakenOK ==
  harness.confirms =>
    /\ busy.stage = "mark" => executed[busy.id] > 0
    /\ \A m \in Ids :
         \/ executed[m] > 0
         \/ /\ box[m] # "delivered" /\ m \notin driver.confirmed
            /\ driver.replies[m].state # "accepted" /\ receipts.of[m].state # "accepted"
    /\ \A i \in DOMAIN toDriver : toDriver[i].state = "accepted" => executed[toDriver[i].id] > 0
    /\ \A i \in DOMAIN journal : journal[i].answer = "accepted" => executed[journal[i].id] > 0

CursorOK == driver.cursor <= Len(journal)

\* The digest of an attempt on record, and of a question about it, is a line's.
DigestOK ==
  /\ \A m \in Ids : intents[m].state # "none" => intents[m].digest \in Encodings
  /\ \A i \in DOMAIN toHost : toHost[i].op = "status" => toHost[i].digest \in Encodings

-----------------------------------------------------------------------------
(* Counting in sequences *)

\* The positions that Occ counts are finitely many.
LEMMA OccFinite ==
  ASSUME NEW S, NEW s \in Seq(S), NEW X
  PROVE  /\ IsFiniteSet({i \in DOMAIN s : s[i] \in X})
         /\ Occ(s, X) \in Nat
<1>1. DOMAIN s = 1 .. Len(s) /\ Len(s) \in Nat
  BY LenProperties
<1>2. IsFiniteSet(1 .. Len(s))
  BY <1>1, FS_Interval
<1>3. {i \in DOMAIN s : s[i] \in X} \in SUBSET (1 .. Len(s))
  BY <1>1
<1>4. IsFiniteSet({i \in DOMAIN s : s[i] \in X})
  BY <1>2, <1>3, FS_Subset
<1> QED
  BY <1>4, FS_CardinalityType DEF Occ

\* Nothing is counted exactly when no element is in the set.
LEMMA OccZero ==
  ASSUME NEW S, NEW s \in Seq(S), NEW X
  PROVE  Occ(s, X) = 0 <=> \A i \in DOMAIN s : s[i] \notin X
<1>1. IsFiniteSet({i \in DOMAIN s : s[i] \in X})
  BY OccFinite
<1>2. Occ(s, X) = 0 <=> {i \in DOMAIN s : s[i] \in X} = {}
  BY <1>1, FS_EmptySet DEF Occ
<1> QED
  BY <1>2

\* Nothing is counted in the empty sequence.
LEMMA OccEmpty ==
  ASSUME NEW X
  PROVE  Occ(<<>>, X) = 0
<1>1. {i \in DOMAIN <<>> : (<<>>)[i] \in X} = {}
  BY EmptySeq, LenProperties
<1> QED
  BY <1>1, FS_EmptySet DEF Occ

\* Appending counts the new element.
LEMMA OccAppend ==
  ASSUME NEW S, NEW s \in Seq(S), NEW x \in S, NEW X
  PROVE  Occ(Append(s, x), X) = Occ(s, X) + (IF x \in X THEN 1 ELSE 0)
<1> DEFINE t == Append(s, x)
           A == {i \in DOMAIN s : s[i] \in X}
           B == {i \in DOMAIN t : t[i] \in X}
<1>1. /\ DOMAIN s = 1 .. Len(s) /\ Len(s) \in Nat
      /\ DOMAIN t = 1 .. (Len(s) + 1)
      /\ \A i \in 1 .. Len(s) : t[i] = s[i]
      /\ t[Len(s) + 1] = x
  BY AppendProperties, LenProperties
<1>2. IsFiniteSet(A) /\ Cardinality(A) \in Nat
  BY OccFinite DEF Occ
<1>3. Len(s) + 1 \notin A
  BY <1>1
<1> HIDE DEF t
<1>4. CASE x \in X
  <2>1. B = A \cup {Len(s) + 1}
    BY <1>1, <1>4
  <2> HIDE DEF A, B
  <2>2. Cardinality(B) = Cardinality(A) + 1
    BY <2>1, <1>2, <1>3, FS_AddElement
  <2> QED
    BY <2>2, <1>4 DEF Occ, A, B, t
<1>5. CASE x \notin X
  <2>1. B = A
    BY <1>1, <1>5
  <2>2. Occ(s, X) = Cardinality(A) /\ Occ(Append(s, x), X) = Cardinality(B)
    BY DEF Occ, t
  <2> HIDE DEF A, B
  <2> QED
    BY <2>1, <2>2, <1>5, <1>2
<1> QED
  BY <1>4, <1>5

\* Taking the head off uncounts it.
LEMMA OccTail ==
  ASSUME NEW S, NEW s \in Seq(S), s # <<>>, NEW X
  PROVE  Occ(s, X) = Occ(Tail(s), X) + (IF Head(s) \in X THEN 1 ELSE 0)
<1> DEFINE t == Tail(s)
           A == {i \in DOMAIN s : s[i] \in X}
           B == {i \in DOMAIN t : t[i] \in X}
           f == [i \in B |-> i + 1]
<1>1. /\ DOMAIN s = 1 .. Len(s) /\ Len(s) \in Nat \ {0}
      /\ DOMAIN t = 1 .. (Len(s) - 1)
      /\ \A i \in 1 .. (Len(s) - 1) : t[i] = s[i + 1]
      /\ Head(s) = s[1]
  BY HeadTailProperties, LenProperties, EmptySeq
<1>2. IsFiniteSet(A) /\ Cardinality(A) \in Nat
  BY OccFinite DEF Occ
<1>3. IsFiniteSet(B) /\ Cardinality(B) \in Nat
  <2>1. t \in Seq(S)
    BY HeadTailProperties
  <2> HIDE DEF t
  <2> QED
    BY <2>1, OccFinite DEF Occ
<1> HIDE DEF t
<1>4. f \in Bijection(B, A \ {1})
  <2>1. f \in [B -> A \ {1}]
    BY <1>1
  <2>2. \A i, j \in B : f[i] = f[j] => i = j
    BY <1>1
  <2>3. \A k \in A \ {1} : \E i \in B : f[i] = k
    <3>1. SUFFICES ASSUME NEW k \in A \ {1} PROVE \E i \in B : f[i] = k
      OBVIOUS
    <3>2. k - 1 \in B /\ f[k - 1] = k
      BY <1>1, <3>1
    <3> QED
      BY <3>2
  <2> HIDE DEF A, B, f
  <2> QED
    BY <2>1, <2>2, <2>3 DEF Bijection, Injection, Surjection, IsInjective
<1>5. Cardinality(A \ {1}) = Cardinality(B)
  BY <1>3, <1>4, FS_Bijection DEF ExistsBijection
<1>6. 1 \in A <=> Head(s) \in X
  BY <1>1
<1>7. Cardinality(A \ {1}) = IF 1 \in A THEN Cardinality(A) - 1 ELSE Cardinality(A)
  BY <1>2, FS_RemoveElement
<1>8. Occ(s, X) = Cardinality(A) /\ Occ(Tail(s), X) = Cardinality(B)
  BY DEF Occ, t
<1> HIDE DEF A, B
<1> QED
  BY <1>2, <1>3, <1>5, <1>6, <1>7, <1>8

\* A prefix whose elements count only where the old ones did counts no more.
LEMMA OccPrefix ==
  ASSUME NEW S, NEW s \in Seq(S), NEW k \in 0 .. Len(s), NEW X, NEW t,
         DOMAIN t = 1 .. k, \A i \in 1 .. k : t[i] \in X => s[i] \in X
  PROVE  Occ(t, X) <= Occ(s, X)
<1> DEFINE A == {i \in DOMAIN s : s[i] \in X}
           B == {i \in DOMAIN t : t[i] \in X}
<1>1. DOMAIN s = 1 .. Len(s) /\ Len(s) \in Nat
  BY LenProperties
<1>2. IsFiniteSet(A)
  BY OccFinite
<1>3. B \in SUBSET A
  BY <1>1
<1> HIDE DEF A, B
<1>4. Cardinality(B) <= Cardinality(A)
  BY <1>2, <1>3, FS_Subset
<1> QED
  BY <1>4 DEF Occ, A, B

\* What an agent took of its input was in it.
LEMMA OccTaken ==
  ASSUME NEW S, NEW s \in Seq(S), NEW k \in 0 .. Len(s), NEW x
  PROVE  /\ Cardinality({i \in 1 .. k : s[i] = x}) \in Nat
         /\ Cardinality({i \in 1 .. k : s[i] = x}) <= Occ(s, {x})
<1> DEFINE A == {i \in DOMAIN s : s[i] \in {x}}
           B == {i \in 1 .. k : s[i] = x}
<1>1. DOMAIN s = 1 .. Len(s) /\ Len(s) \in Nat
  BY LenProperties
<1>2. IsFiniteSet(A)
  BY OccFinite
<1>3. B \in SUBSET A
  BY <1>1
<1> HIDE DEF A, B
<1>4. IsFiniteSet(B) /\ Cardinality(B) <= Cardinality(A)
  BY <1>2, <1>3, FS_Subset
<1>5. Cardinality(B) \in Nat
  BY <1>4, FS_CardinalityType
<1> QED
  BY <1>4, <1>5 DEF Occ, A, B

-----------------------------------------------------------------------------
(* Types *)

Entry == [id: Ids, answer: {"accepted", "refused"}]

Answer == [id: Ids, digest: Encodings,
           state: {"not_written", "written", "accepted", "refused", "unknown"}]

Busy == [stage: {"idle", "write", "mark"}, id: 0 .. MaxMessages]

\* The constant values of the model have their types.
LEMMA ValueTypes ==
  /\ NoDriver \in Driver /\ [NoDriver EXCEPT !.known = TRUE] \in Driver
  /\ [NoDriver EXCEPT !.known = TRUE, !.degraded = TRUE] \in Driver
  /\ \A c \in Nat : [NoDriver EXCEPT !.cursor = c] \in Driver
  /\ NoReceipts \in Receipts /\ NoIntent \in Intent /\ Idle \in Busy
  /\ NoReply \in Replies /\ Ids \subseteq Nat /\ 0 \notin Ids
  /\ \A m \in Ids : [stage |-> "write", id |-> m] \in Busy /\ [stage |-> "mark", id |-> m] \in Busy
<1>1. NoReply \in Replies
  BY DEF NoReply, Replies
<1>2. NoDriver \in Driver
  BY <1>1 DEF NoDriver, Driver
<1>3. /\ [NoDriver EXCEPT !.known = TRUE] \in Driver
      /\ [NoDriver EXCEPT !.known = TRUE, !.degraded = TRUE] \in Driver
      /\ \A c \in Nat : [NoDriver EXCEPT !.cursor = c] \in Driver
  BY <1>2 DEF Driver
<1>4. NoReceipts \in Receipts
  BY ReceiptsAssumption DEF NoReceipts, Receipts, NoReceipt, ReceiptStates
<1>5. NoIntent \in Intent
  BY BoundsAssumption DEF NoIntent, Intent
<1>6. Ids \subseteq Nat /\ 0 \notin Ids /\ Ids \subseteq 0 .. MaxMessages /\ 0 \in 0 .. MaxMessages
  BY ReceiptsAssumption DEF Ids
<1>7. /\ Idle \in Busy
      /\ \A m \in Ids : /\ [stage |-> "write", id |-> m] \in Busy
                        /\ [stage |-> "mark", id |-> m] \in Busy
  BY <1>6 DEF Idle, Busy
<1> QED
  BY <1>1, <1>2, <1>3, <1>4, <1>5, <1>6, <1>7

\* Changing one field of the driver's record keeps its type.
LEMMA DriverTypes ==
  ASSUME NEW d \in Driver
  PROVE  /\ \A S \in SUBSET Ids : /\ [d EXCEPT !.confirmed = S] \in Driver
                                  /\ [d EXCEPT !.asked = S] \in Driver
                                  /\ [d EXCEPT !.known = TRUE, !.confirmed = S] \in Driver
         /\ \A b \in BOOLEAN :
              [d EXCEPT !.conn = b, !.asked = {}, !.replies = [m \in Ids |-> NoReply]] \in Driver
         /\ \A m \in Ids, r \in Replies : [d EXCEPT !.replies[m] = r] \in Driver
         /\ \A m \in Ids, r \in Replies, S \in SUBSET Ids :
              [d EXCEPT !.asked = S, !.replies[m] = r] \in Driver
BY ValueTypes DEF Driver

\* Receipts stay receipts.
LEMMA ReceiptTypes ==
  ASSUME NEW r \in Receipts, NEW m \in Ids
  PROVE  /\ \A d \in Encodings \union {0} : /\ Begin(r, m, d) \in Receipts
         /\ \A a \in {"accepted", "refused"} : Observe(r, m, a) \in Receipts
         /\ Prune(r, m) \in Receipts
         /\ \A d \in Encodings \union {0} :
              Status(r, m, d) \in {"not_written", "written", "accepted", "refused", "unknown"}
<1> USE ReceiptsAssumption
<1>1. \A d \in Encodings \union {0} : Begin(r, m, d) \in Receipts
  BY DEF Begin, Receipts, ReceiptStates
<1>2. \A a \in {"accepted", "refused"} : Observe(r, m, a) \in Receipts
  BY DEF Observe, Receipts, ReceiptStates
<1>3. Prune(r, m) \in Receipts
  BY DEF Prune, Receipts, ReceiptStates, NoReceipt, Ids
<1>4. \A d \in Encodings \union {0} :
         Status(r, m, d) \in {"not_written", "written", "accepted", "refused", "unknown"}
  <2>1. r.of[m].state \in ReceiptStates
    BY DEF Receipts
  <2> QED
    BY <2>1 DEF Status, ReceiptStates
<1> QED
  BY <1>1, <1>2, <1>3, <1>4

\* TypeOK in terms of the sets above.
LEMMA Typed ==
  TypeOK <=>
    /\ harness \in [confirms: BOOLEAN, tagged: BOOLEAN]
    /\ box \in [Ids -> {"none", "queued", "delivered", "removed"}]
    /\ order \in [Ids -> Ids]
    /\ intents \in [Ids -> Intent]
    /\ gen \in 1 .. MaxGen /\ row \in {"live", "stopped"}
    /\ host \in BOOLEAN /\ receipts \in Receipts
    /\ stdin \in Seq(Ids) /\ journal \in Seq(Entry)
    /\ up \in BOOLEAN /\ busy \in Busy
    /\ ready \subseteq Ids /\ driver \in Driver
    /\ toHost \in Seq(Frame) /\ toDriver \in Seq(Answer)
    /\ executed \in [Ids -> Nat] /\ repeats \in [Ids -> Nat]
    /\ faults \in 0 .. MaxFaults
BY DEF TypeOK, Entry, Answer, Busy

\* The initial state is typed.
LEMMA TypeInit == Init => TypeOK
<1> SUFFICES ASSUME Init PROVE TypeOK
  OBVIOUS
<1>1. <<>> \in Seq(Ids) /\ <<>> \in Seq(Entry) /\ <<>> \in Seq(Frame) /\ <<>> \in Seq(Answer)
  BY EmptySeq
<1> QED
  BY <1>1, ValueTypes, BoundsAssumption, Typed DEF Init

\* The frame that Deliver writes.
Written(m) == [op |-> IF harness.confirms /\ harness.tagged THEN "tagged" ELSE "write",
               id |-> m, digest |-> intents[m].digest]

\* What senders, operators and the delivery loop do keeps the types.
LEMMA TypeLoop ==
  ASSUME TypeOK, NEW m \in Ids,
         \/ Send(m) \/ Cancel(m) \/ Drop(m) \/ (\E n \in Ids : Resend(m, n))
         \/ Prepare(m) \/ Deliver(m) \/ MarkDelivered(m)
  PROVE  TypeOK'
<1> USE ValueTypes
<1>1. CASE Send(m)
  <2>1. box' \in [Ids -> {"none", "queued", "delivered", "removed"}]
    BY <1>1 DEF Send, TypeOK
  <2> QED
    BY <1>1, <2>1 DEF Send, process, daemon, wire, history, TypeOK
<1>2. CASE Cancel(m)
  <2>1. box' \in [Ids -> {"none", "queued", "delivered", "removed"}]
    BY <1>2 DEF Cancel, TypeOK
  <2> QED
    BY <1>2, <2>1 DEF Cancel, process, daemon, wire, history, TypeOK
<1>3. CASE Drop(m)
  <2>1. box' \in [Ids -> {"none", "queued", "delivered", "removed"}]
    BY <1>3 DEF Drop, TypeOK
  <2>2. intents' \in [Ids -> Intent] /\ ready' \subseteq Ids
    BY <1>3 DEF Drop, TypeOK
  <2> QED
    BY <1>3, <2>1, <2>2 DEF Drop, process, wire, history, TypeOK
<1>4. CASE \E n \in Ids : Resend(m, n)
  <2>0. PICK n \in Ids : Resend(m, n)
    BY <1>4
  <2>1. box' \in [Ids -> {"none", "queued", "delivered", "removed"}] /\ order' \in [Ids -> Ids]
    BY <2>0 DEF Resend, TypeOK
  <2>2. intents' \in [Ids -> Intent] /\ ready' \subseteq Ids
    BY <2>0 DEF Resend, TypeOK
  <2> QED
    BY <2>0, <2>1, <2>2 DEF Resend, process, wire, history, TypeOK
<1>5. CASE Prepare(m)
  <2>1. ASSUME NEW digest \in Encodings
        PROVE  [intents[m] EXCEPT !.state = "awaiting", !.gen = gen, !.digest = digest] \in Intent
    <3>1. intents[m] \in Intent /\ gen \in 0 .. MaxGen
      BY BoundsAssumption DEF TypeOK
    <3> QED
      BY <3>1 DEF Intent
  <2>2. intents' \in [Ids -> Intent] /\ ready' \subseteq Ids
    <3>1. intents \in [Ids -> Intent] /\ ready \subseteq Ids
      BY DEF TypeOK
    <3> QED
      BY <1>5, <2>1, <3>1 DEF Prepare
  <2>3. busy' \in Busy
    BY <1>5 DEF Prepare
  <2> QED
    BY <1>5, <2>2, <2>3 DEF Prepare, mailbox, process, wire, history, TypeOK, Busy
<1>6. CASE Deliver(m)
  <2>1. intents[m].digest \in Encodings \union {0}
    BY DEF TypeOK, Intent
  <2>2. /\ [op |-> "tagged", id |-> m, digest |-> intents[m].digest] \in Frame
        /\ [op |-> "write", id |-> m, digest |-> intents[m].digest] \in Frame
    BY <2>1 DEF Frame
  <2>3. toHost' \in Seq(Frame)
    <3>1. toHost \in Seq(Frame)
      BY DEF TypeOK
    <3>2. \/ toHost' = toHost
          \/ toHost' = Append(toHost, Written(m))
      BY <1>6 DEF Deliver, Written
    <3>3. Written(m) \in Frame
      BY <2>2 DEF Written
    <3> QED
      BY <3>1, <3>2, <3>3, AppendProperties
  <2>4. driver' \in Driver
    <3>1. driver \in Driver
      BY DEF TypeOK
    <3>2. driver.confirmed \ {m} \in SUBSET Ids
      BY <3>1 DEF Driver
    <3> QED
      BY <1>6, <3>1, <3>2, DriverTypes DEF Deliver
  <2>5. busy' \in Busy
    BY <1>6 DEF Deliver
  <2> QED
    BY <1>6, <2>3, <2>4, <2>5 DEF Deliver, mailbox, process, history, TypeOK, Busy
<1>7. CASE MarkDelivered(m)
  <2>1. box' \in [Ids -> {"none", "queued", "delivered", "removed"}]
    BY <1>7 DEF MarkDelivered, TypeOK
  <2>2. intents' \in [Ids -> Intent] /\ ready' \subseteq Ids
    <3>1. intents \in [Ids -> Intent] /\ ready \subseteq Ids
      BY DEF TypeOK
    <3> QED
      BY <1>7, <3>1 DEF MarkDelivered
  <2>3. busy' \in Busy
    BY <1>7 DEF MarkDelivered
  <2> QED
    BY <1>7, <2>1, <2>2, <2>3 DEF MarkDelivered, process, wire, history, TypeOK, Busy
<1> QED
  BY <1>1, <1>2, <1>3, <1>4, <1>5, <1>6, <1>7

\* A retried intent is an intent.
LEMMA RetriedType ==
  ASSUME NEW i \in Intent
  PROVE  [i EXCEPT !.state = "awaiting", !.retries = 1] \in Intent
<1>1. ASSUME NEW r \in 0 .. 1, NEW s \in {"none", "awaiting", "held", "lane"}
      PROVE  [i EXCEPT !.state = s, !.retries = r] \in Intent
  BY <1>1 DEF Intent
<1> QED
  BY <1>1

\* What the reconciliation of intents does keeps the types.
LEMMA TypePoll ==
  ASSUME TypeOK, NEW m \in Ids,
         \/ HoldStale(m) \/ LaneTimeout(m) \/ PollConfirmed(m) \/ PollAsk(m)
         \/ PollReply(m) \/ PollTimeout(m)
  PROVE  TypeOK'
<1> USE ValueTypes
<1>a. intents \in [Ids -> Intent] /\ ready \subseteq Ids /\ driver \in Driver /\ toHost \in Seq(Frame)
  BY DEF TypeOK
<1>b. ASSUME NEW state \in {"awaiting", "held", "lane"}, Hold(m, state)
      PROVE  intents' \in [Ids -> Intent] /\ ready' \subseteq Ids
  <2>1. [intents[m] EXCEPT !.state = state] \in Intent
    BY <1>a, <1>b DEF Intent
  <2> QED
    BY <1>a, <1>b, <2>1 DEF Hold
<1>c. driver.confirmed \ {m} \in SUBSET Ids /\ driver.asked \union {m} \in SUBSET Ids
  BY <1>a DEF Driver
<1>1. CASE HoldStale(m)
  <2>1. intents' \in [Ids -> Intent] /\ ready' \subseteq Ids
    BY <1>1, <1>b DEF HoldStale
  <2> QED
    BY <1>1, <2>1 DEF HoldStale, mailbox, process, wire, history, TypeOK
<1>2. CASE LaneTimeout(m)
  <2>1. intents' \in [Ids -> Intent] /\ ready' \subseteq Ids
    BY <1>2, <1>b DEF LaneTimeout
  <2> QED
    BY <1>2, <2>1 DEF LaneTimeout, mailbox, process, wire, history, TypeOK
<1>3. CASE PollConfirmed(m)
  <2>1. driver' \in Driver
    BY <1>3, <1>a, <1>c, DriverTypes DEF PollConfirmed
  <2>2. busy' \in Busy
    BY <1>3 DEF PollConfirmed
  <2> QED
    BY <1>3, <2>1, <2>2 DEF PollConfirmed, mailbox, process, wire, history, TypeOK, Busy
<1>4. CASE PollAsk(m)
  <2>1. driver' \in Driver
    BY <1>4, <1>a, <1>c, DriverTypes DEF PollAsk
  <2>2. [op |-> "status", id |-> m, digest |-> intents[m].digest] \in Frame
    BY <1>a DEF Intent, Frame
  <2>3. toHost' \in Seq(Frame)
    BY <1>4, <1>a, <2>2, AppendProperties DEF PollAsk
  <2> QED
    BY <1>4, <2>1, <2>3 DEF PollAsk, mailbox, process, daemon, history, TypeOK
<1>5. CASE PollReply(m)
  <2>1. driver' \in Driver
    BY <1>5, <1>a, DriverTypes DEF PollReply
  <2>2. GiveBack(m) \in Intent /\ RetryRefused(m) \in Intent
    <3>1. intents[m] \in Intent
      BY <1>a
    <3>2. \A state \in {"awaiting", "held"} : [intents[m] EXCEPT !.state = state] \in Intent
      BY <3>1 DEF Intent
    <3>3. [intents[m] EXCEPT !.state = "awaiting", !.retries = 1] \in Intent
      BY <3>1, RetriedType
    <3> QED
      BY <3>2, <3>3 DEF GiveBack, RetryRefused
  <2>3. intents' \in [Ids -> Intent] /\ ready' \subseteq Ids
    BY <1>5, <1>a, <1>b, <2>2 DEF PollReply
  <2>4. busy' \in Busy
    <3>1. busy \in Busy
      BY DEF TypeOK, Busy
    <3> QED
      BY <1>5, <3>1 DEF PollReply
  <2> QED
    BY <1>5, <2>1, <2>3, <2>4 DEF PollReply, mailbox, process, wire, history, TypeOK, Busy
<1>6. CASE PollTimeout(m)
  <2>1. intents' \in [Ids -> Intent] /\ ready' \subseteq Ids
    BY <1>6, <1>b DEF PollTimeout
  <2> QED
    BY <1>6, <2>1 DEF PollTimeout, mailbox, process, wire, history, TypeOK
<1> QED
  BY <1>1, <1>2, <1>3, <1>4, <1>5, <1>6

\* What the driver does keeps the types.
LEMMA TypeDriver ==
  ASSUME TypeOK, Connect \/ Pump \/ ReceiveReply \/ ObserveExit \/ Revive
  PROVE  TypeOK'
<1> USE ValueTypes
<1>a. driver \in Driver /\ journal \in Seq(Entry) /\ toDriver \in Seq(Answer)
  BY DEF TypeOK, Entry, Answer
<1>1. CASE Connect
  <2>1. driver' \in Driver
    BY <1>1, <1>a, DriverTypes DEF Connect
  <2> QED
    BY <1>1, <2>1 DEF Connect, mailbox, process, daemon, wire, history, TypeOK
<1>2. CASE Pump
  <2>1. driver.cursor + 1 \in DOMAIN journal /\ DOMAIN journal = 1 .. Len(journal)
    BY <1>2, <1>a, LenProperties DEF Pump, Driver
  <2>2. journal[driver.cursor + 1] \in Entry
    BY <1>a, <2>1, ElementOfSeq
  <2>3. driver' \in Driver
    <3>1. journal[driver.cursor + 1].id \in Ids
      BY <2>2 DEF Entry
    <3> DEFINE C == IF journal[driver.cursor + 1].answer = "accepted"
                      THEN driver.confirmed \union {journal[driver.cursor + 1].id}
                      ELSE driver.confirmed \ {journal[driver.cursor + 1].id}
    <3>a. driver.confirmed \in SUBSET Ids /\ driver.cursor \in Nat
      BY <1>a DEF Driver
    <3>2. C \in SUBSET Ids /\ driver.cursor + 1 \in Nat
      BY <3>1, <3>a
    <3>3. driver' = [driver EXCEPT !.cursor = driver.cursor + 1, !.confirmed = C]
      BY <1>2 DEF Pump, Read
    <3> HIDE DEF C
    <3> QED
      BY <1>a, <3>2, <3>3 DEF Driver
  <2> QED
    BY <1>2, <2>3 DEF Pump, mailbox, process, daemon, wire, history, TypeOK
<1>3. CASE ReceiveReply
  <2>1. Head(toDriver) \in Answer /\ toDriver' \in Seq(Answer)
    BY <1>3, <1>a, HeadTailProperties DEF ReceiveReply
  <2>2. /\ Head(toDriver).id \in Ids
        /\ [digest |-> Head(toDriver).digest, state |-> Head(toDriver).state] \in Replies
    BY <2>1 DEF Answer, Replies
  <2>3. driver.asked \ {Head(toDriver).id} \in SUBSET Ids
    BY <1>a DEF Driver
  <2>4. driver' \in Driver
    BY <1>3, <1>a, <2>2, <2>3, DriverTypes DEF ReceiveReply
  <2> QED
    BY <1>3, <2>1, <2>4 DEF ReceiveReply, mailbox, process, daemon, history, TypeOK, Answer
<1>4. CASE ObserveExit
  BY <1>4 DEF ObserveExit, mailbox, process, daemon, wire, history, TypeOK
<1>5. CASE Revive
  <2>1. gen' \in 1 .. MaxGen
    BY <1>5, BoundsAssumption DEF Revive, TypeOK
  <2>2. stdin' \in Seq(Ids) /\ journal' \in Seq(Entry)
    BY <1>5, EmptySeq DEF Revive
  <2> QED
    BY <1>5, <2>1, <2>2 DEF Revive, mailbox, daemon, wire, history, TypeOK, Entry
<1> QED
  BY <1>1, <1>2, <1>3, <1>4, <1>5

\* The head of a sequence is its first element.
LEMMA HeadFirst ==
  ASSUME NEW S, NEW s \in Seq(S), s # <<>>
  PROVE  1 \in DOMAIN s /\ Head(s) = s[1] /\ s[1] \in S
<1>1. Len(s) \in Nat \ {0} /\ DOMAIN s = 1 .. Len(s)
  BY EmptySeq, LenProperties
<1> QED
  BY <1>1, HeadTailProperties

\* What hosts and agents do keeps the types.
LEMMA TypeHost ==
  ASSUME TypeOK, DigestOK,
         \/ HostRead \/ AgentAccept \/ AgentRefuse \/ (\E m \in Ids : PruneReceipt(m))
  PROVE  TypeOK'
<1>a. /\ receipts \in Receipts /\ stdin \in Seq(Ids) /\ journal \in Seq(Entry)
      /\ toHost \in Seq(Frame) /\ toDriver \in Seq(Answer) /\ executed \in [Ids -> Nat]
      /\ faults \in 0 .. MaxFaults
  BY DEF TypeOK, Entry, Answer
<1>1. CASE HostRead
  <2> DEFINE frame == Head(toHost)
  <2>1. frame \in Frame /\ toHost' \in Seq(Frame)
    BY <1>1, <1>a, HeadTailProperties DEF HostRead
  <2>2. frame.id \in Ids /\ frame.digest \in Encodings \union {0}
    BY <2>1 DEF Frame
  <2>3. stdin' \in Seq(Ids)
    BY <1>1, <1>a, <2>2, AppendProperties DEF HostRead
  <2>4. receipts' \in Receipts
    BY <1>1, <1>a, <2>2, ReceiptTypes DEF HostRead
  <2>5. toDriver' \in Seq(Answer)
    <3> DEFINE a == [id |-> frame.id, digest |-> frame.digest,
                     state |-> Status(receipts, frame.id, frame.digest)]
    <3>1. Status(receipts, frame.id, frame.digest)
            \in {"not_written", "written", "accepted", "refused", "unknown"}
      BY <1>a, <2>2, ReceiptTypes
    <3>2. frame.op = "status" => frame.digest \in Encodings
      <4>1. toHost # <<>>
        BY <1>1 DEF HostRead
      <4>2. 1 \in DOMAIN toHost /\ frame = toHost[1]
        BY <1>a, <4>1, HeadFirst
      <4> QED
        BY <4>2 DEF DigestOK
    <3>3. frame.op = "status" => a \in Answer
      BY <2>2, <3>1, <3>2 DEF Answer
    <3>4. \/ toDriver' = toDriver
          \/ frame.op = "status" /\ toDriver' = Append(toDriver, a)
      BY <1>1 DEF HostRead
    <3> HIDE DEF a, frame
    <3>5. toDriver \in Seq(Answer)
      BY <1>a
    <3>6. a \in Answer => Append(toDriver, a) \in Seq(Answer)
      BY <3>5, AppendProperties
    <3> QED
      BY <3>3, <3>4, <3>5, <3>6
  <2> QED
    BY <1>1, <2>1, <2>3, <2>4, <2>5
       DEF HostRead, mailbox, daemon, history, TypeOK, Answer
<1>2. CASE AgentAccept
  <2>1. Head(stdin) \in Ids /\ stdin' \in Seq(Ids)
    BY <1>2, <1>a, HeadTailProperties DEF AgentAccept
  <2>2. executed' \in [Ids -> Nat]
    BY <1>2, <1>a, <2>1 DEF AgentAccept
  <2>3. receipts' \in Receipts
    BY <1>2, <1>a, <2>1, ReceiptTypes DEF AgentAccept
  <2>4. [id |-> Head(stdin), answer |-> "accepted"] \in Entry
    BY <2>1 DEF Entry
  <2>5. journal' \in Seq(Entry)
    BY <1>2, <1>a, <2>4, AppendProperties DEF AgentAccept
  <2> QED
    BY <1>2, <2>1, <2>2, <2>3, <2>5 DEF AgentAccept, mailbox, daemon, wire, TypeOK, Entry
<1>3. CASE AgentRefuse
  <2>1. Head(stdin) \in Ids /\ stdin' \in Seq(Ids)
    BY <1>3, <1>a, HeadTailProperties DEF AgentRefuse
  <2>2. faults' \in 0 .. MaxFaults
    BY <1>3, <1>a, BoundsAssumption DEF AgentRefuse
  <2>3. receipts' \in Receipts
    BY <1>3, <1>a, <2>1, ReceiptTypes DEF AgentRefuse
  <2>4. [id |-> Head(stdin), answer |-> "refused"] \in Entry
    BY <2>1 DEF Entry
  <2>5. journal' \in Seq(Entry)
    BY <1>3, <1>a, <2>4, AppendProperties DEF AgentRefuse
  <2> QED
    BY <1>3, <2>1, <2>2, <2>3, <2>5 DEF AgentRefuse, mailbox, daemon, wire, history, TypeOK, Entry
<1>4. CASE \E m \in Ids : PruneReceipt(m)
  <2>1. receipts' \in Receipts
    BY <1>4, <1>a, ReceiptTypes DEF PruneReceipt
  <2>2. faults' \in 0 .. MaxFaults
    BY <1>4, <1>a, BoundsAssumption DEF PruneReceipt
  <2> QED
    BY <1>4, <2>1, <2>2 DEF PruneReceipt, mailbox, daemon, wire, history, TypeOK
<1> QED
  BY <1>1, <1>2, <1>3, <1>4

\* What is left of the frames under way is a sequence of frames.
LEMMA LostType ==
  ASSUME TypeOK, Lost
  PROVE  /\ toHost' \in Seq(Frame) /\ toDriver' = <<>>
         /\ \E k \in 0 .. Len(toHost) :
              /\ DOMAIN toHost' = 1 .. k
              /\ \A i \in 1 .. k : toHost'[i] = Unanswered(toHost[i])
<1>1. PICK k \in 0 .. Len(toHost) : toHost' = [i \in 1 .. k |-> Unanswered(toHost[i])]
  BY DEF Lost
<1>2. toHost \in Seq(Frame) /\ Len(toHost) \in Nat /\ k \in Nat
  BY LenProperties DEF TypeOK
<1>3. \A i \in 1 .. k : Unanswered(toHost[i]) \in Frame
  <2>1. ASSUME NEW i \in 1 .. k PROVE toHost[i] \in Frame
    BY <1>2, ElementOfSeq
  <2>2. \A f \in Frame : Unanswered(f) \in Frame
    BY DEF Unanswered, Frame
  <2> QED
    BY <2>1, <2>2
<1>4. toHost' \in Seq(Frame)
  BY <1>1, <1>2, <1>3
<1>5. DOMAIN toHost' = 1 .. k /\ \A i \in 1 .. k : toHost'[i] = Unanswered(toHost[i])
  BY <1>1
<1> QED
  BY <1>4, <1>5 DEF Lost

\* The agent takes a number of copies that is no larger than what it was sent.
LEMMA TakenType ==
  ASSUME stdin \in Seq(Ids), NEW k \in 0 .. Len(stdin), NEW m \in Ids
  PROVE  /\ Cardinality({i \in 1 .. k : stdin[i] = m}) \in Nat
         /\ Cardinality({i \in 1 .. k : stdin[i] = m}) <= Occ(stdin, {m})
BY OccTaken

\* Crashes, restarts, lost connections and exits keep the types.
LEMMA TypeFaults ==
  ASSUME TypeOK, Disconnect \/ Crash \/ Restart \/ HostExit \/ StopDegraded
  PROVE  TypeOK'
<1> USE ValueTypes
<1>a. /\ driver \in Driver /\ stdin \in Seq(Ids) /\ executed \in [Ids -> Nat]
      /\ faults \in 0 .. MaxFaults /\ repeats \in [Ids -> Nat]
  BY DEF TypeOK
<1>b. <<>> \in Seq(Ids) /\ <<>> \in Seq(Frame) /\ <<>> \in Seq(Answer)
  BY EmptySeq
<1>1. CASE Disconnect
  <2>1. toHost' \in Seq(Frame) /\ toDriver' \in Seq(Answer)
    BY <1>1, <1>b, LostType DEF Disconnect
  <2>2. driver' \in Driver
    BY <1>1, <1>a, DriverTypes DEF Disconnect
  <2>3. faults' \in 0 .. MaxFaults
    BY <1>1, <1>a, BoundsAssumption DEF Disconnect
  <2> QED
    BY <1>1, <2>1, <2>2, <2>3 DEF Disconnect, mailbox, process, daemon, history, TypeOK, Answer
<1>2. CASE Crash
  <2>1. toHost' \in Seq(Frame) /\ toDriver' \in Seq(Answer)
    BY <1>2, <1>b, LostType DEF Crash
  <2>2. driver' \in Driver
    <3>1. driver.cursor \in Nat
      BY <1>a DEF Driver
    <3>2. PICK c \in 0 .. driver.cursor : driver' = [NoDriver EXCEPT !.cursor = c]
      BY <1>2 DEF Crash
    <3>3. c \in Nat
      BY <3>1
    <3> QED
      BY <3>2, <3>3
  <2>3. faults' \in 0 .. MaxFaults
    BY <1>2, <1>a, BoundsAssumption DEF Crash
  <2>4. repeats' \in [Ids -> Nat]
    <3>1. \A b : [repeats EXCEPT ![b] = @ + 1] \in [Ids -> Nat]
      <4>1. repeats \in [Ids -> Nat]
        BY <1>a
      <4>2. \A b \in Ids : [repeats EXCEPT ![b] = @ + 1] \in [Ids -> Nat]
        BY <4>1
      <4>3. ASSUME NEW b, b \notin Ids PROVE [repeats EXCEPT ![b] = @ + 1] = repeats
        BY <4>1, <4>3
      <4> QED
        BY <4>1, <4>2, <4>3
    <3> QED
      BY <1>2, <1>a, <3>1 DEF Crash
  <2> QED
    BY <1>2, <2>1, <2>2, <2>3, <2>4 DEF Crash, mailbox, process, TypeOK, Answer, Busy
<1>3. CASE Restart
  <2>1. ConfirmedUpTo(driver.cursor) \in SUBSET Ids
    BY DEF ConfirmedUpTo
  <2>2. driver' \in Driver
    <3>1. [driver EXCEPT !.known = TRUE, !.confirmed = ConfirmedUpTo(driver.cursor)] \in Driver
      BY <1>a, <2>1, DriverTypes
    <3> QED
      BY <1>3, <1>a, <3>1 DEF Restart
  <2>3. row' \in {"live", "stopped"}
    BY <1>3 DEF Restart, TypeOK
  <2> QED
    BY <1>3, <2>2, <2>3 DEF Restart, mailbox, process, wire, history, TypeOK
<1>4. ASSUME Exits, faults' \in 0 .. MaxFaults
      PROVE  TypeOK'
  <2>1. driver' \in Driver
    BY <1>4, <1>a, DriverTypes DEF Exits
  <2>2. executed' \in [Ids -> Nat]
    <3>1. PICK k \in 0 .. Len(stdin) : executed' =
             [m \in Ids |-> executed[m] + Cardinality({i \in 1 .. k : stdin[i] = m})]
      BY <1>4 DEF Exits
    <3>2. ASSUME NEW m \in Ids
          PROVE  executed[m] + Cardinality({i \in 1 .. k : stdin[i] = m}) \in Nat
      <4>1. Cardinality({i \in 1 .. k : stdin[i] = m}) \in Nat
        BY <1>a, TakenType
      <4>2. executed[m] \in Nat
        BY <1>a
      <4> QED
        BY <4>1, <4>2
    <3> QED
      BY <3>1, <3>2
  <2> QED
    BY <1>4, <1>b, <2>1, <2>2 DEF Exits, mailbox, daemon, TypeOK, Answer
<1>5. CASE HostExit
  <2>1. faults' \in 0 .. MaxFaults
    BY <1>5, <1>a, BoundsAssumption DEF HostExit
  <2> QED
    BY <1>4, <1>5, <2>1 DEF HostExit
<1>6. CASE StopDegraded
  BY <1>4, <1>6, <1>a DEF StopDegraded
<1> QED
  BY <1>1, <1>2, <1>3, <1>5, <1>6

\* Stuttering keeps the types.
LEMMA TypeStutter ==
  ASSUME TypeOK, UNCHANGED vars
  PROVE  TypeOK'
BY DEF TypeOK, vars, mailbox, process, daemon, wire, history

-----------------------------------------------------------------------------
(* The step lemmas use these facts *)

MInv ==
  /\ TypeOK /\ DigestOK /\ OrderOK /\ AheadOK /\ BusyOK /\ IntentOK /\ LinkOK /\ FrameOK
  /\ AccountOK /\ AskOK /\ QuietOK /\ ReplyOK /\ CopiesOK /\ TakenOK /\ CursorOK

\* The elements of a sequence without its head.
LEMMA TailAt ==
  ASSUME NEW S, NEW s \in Seq(S), s # <<>>
  PROVE  /\ DOMAIN Tail(s) = 1 .. Len(s) - 1 /\ DOMAIN s = 1 .. Len(s) /\ Len(s) \in Nat
         /\ \A i \in DOMAIN Tail(s) : i + 1 \in DOMAIN s /\ Tail(s)[i] = s[i + 1]
<1>1. /\ DOMAIN s = 1 .. Len(s) /\ Len(s) \in Nat \ {0}
      /\ Tail(s) \in Seq(S) /\ Len(Tail(s)) = Len(s) - 1
      /\ \A i \in 1 .. Len(Tail(s)) : Tail(s)[i] = s[i + 1]
  BY HeadTailProperties, LenProperties, EmptySeq
<1>2. DOMAIN Tail(s) = 1 .. Len(Tail(s))
  BY <1>1, LenProperties
<1> QED
  BY <1>1, <1>2

\* The elements of a sequence with one more.
LEMMA AppendAt ==
  ASSUME NEW S, NEW s \in Seq(S), NEW x \in S
  PROVE  /\ DOMAIN Append(s, x) = 1 .. Len(s) + 1 /\ DOMAIN s = 1 .. Len(s) /\ Len(s) \in Nat
         /\ \A i \in DOMAIN s : Append(s, x)[i] = s[i]
         /\ Append(s, x)[Len(s) + 1] = x
         /\ \A i \in DOMAIN Append(s, x) : i \in DOMAIN s \/ i = Len(s) + 1
<1>1. /\ DOMAIN s = 1 .. Len(s) /\ Len(s) \in Nat
      /\ Append(s, x) \in Seq(S) /\ Len(Append(s, x)) = Len(s) + 1
      /\ \A i \in 1 .. Len(s) : Append(s, x)[i] = s[i]
      /\ Append(s, x)[Len(s) + 1] = x
  BY AppendProperties, LenProperties
<1>2. DOMAIN Append(s, x) = 1 .. Len(Append(s, x))
  BY <1>1, LenProperties
<1> QED
  BY <1>1, <1>2

\* What busy is, field by field.
LEMMA BusyShape ==
  ASSUME TypeOK
  PROVE  /\ \A s, m : busy = [stage |-> s, id |-> m] <=> busy.stage = s /\ busy.id = m
         /\ busy.stage \in {"idle", "write", "mark"}
         /\ busy = Idle => busy.stage = "idle"
<1>1. busy \in Busy
  BY DEF TypeOK, Busy
<1> QED
  BY <1>1 DEF Busy, Idle

\* Unspent, field by field.
LEMMA UnspentShape ==
  ASSUME TypeOK, NEW m
  PROVE  Unspent(m) <=> \/ busy.stage = "write" /\ busy.id = m
                        \/ m \in ready
                        \/ /\ box[m] \in {"none", "queued"} /\ intents[m].state = "none"
                           /\ ~(busy.stage = "mark" /\ busy.id = m)
BY BusyShape DEF Unspent

\* Copies are counted in natural numbers.
LEMMA CopiesType ==
  ASSUME TypeOK, NEW m \in Ids
  PROVE  /\ executed[m] \in Nat /\ Occ(stdin, {m}) \in Nat /\ Occ(toHost, Writes(m)) \in Nat
         /\ Copies(m) \in Nat /\ repeats[m] \in Nat
<1>1. executed[m] \in Nat /\ repeats[m] \in Nat
  BY DEF TypeOK
<1>2. Occ(stdin, {m}) \in Nat
  BY OccFinite DEF TypeOK
<1>3. Occ(toHost, Writes(m)) \in Nat
  BY OccFinite DEF TypeOK
<1> QED
  BY <1>1, <1>2, <1>3 DEF Copies

\* And after a step too.
LEMMA CopiesTypeNext ==
  ASSUME TypeOK', NEW m \in Ids
  PROVE  /\ executed'[m] \in Nat /\ Occ(stdin', {m}) \in Nat /\ Occ(toHost', Writes(m)) \in Nat
         /\ Copies(m)' \in Nat /\ repeats'[m] \in Nat
         /\ Copies(m)' = executed'[m] + Occ(stdin', {m}) + Occ(toHost', Writes(m))
<1>1. executed'[m] \in Nat /\ repeats'[m] \in Nat
  BY DEF TypeOK
<1>2. Occ(stdin', {m}) \in Nat
  BY OccFinite DEF TypeOK
<1>3. Occ(toHost', Writes(m)) \in Nat
  BY OccFinite DEF TypeOK
<1>4. Copies(m)' = executed'[m] + Occ(stdin', {m}) + Occ(toHost', Writes(m))
  BY DEF Copies, Occ
<1> QED
  BY <1>1, <1>2, <1>3, <1>4

\* Nothing becomes queued before x, so x stays ahead.
LEMMA AheadKept ==
  ASSUME NEW x, Ahead(x), Queued' \subseteq Queued, order' = order, box'[x] # "none"
  PROVE  Ahead(x)'
BY DEF Ahead, Before

\* The copies and what depends on them alone.
LEMMA CopiesKept ==
  ASSUME UNCHANGED <<executed, stdin, toHost>>
  PROVE  \A m : Copies(m)' = Copies(m)
BY DEF Copies, Occ, Writes, Frame
\* The elements of the sequences have their types.
LEMMA Elements ==
  ASSUME TypeOK
  PROVE  /\ \A i \in DOMAIN toHost : toHost[i] \in Frame /\ toHost[i].id \in Ids
         /\ \A i \in DOMAIN stdin : stdin[i] \in Ids
         /\ \A i \in DOMAIN toDriver : toDriver[i] \in Answer /\ toDriver[i].id \in Ids
         /\ \A i \in DOMAIN journal : journal[i] \in Entry /\ journal[i].id \in Ids
<1>1. /\ toHost \in Seq(Frame) /\ stdin \in Seq(Ids) /\ toDriver \in Seq(Answer)
      /\ journal \in Seq(Entry)
  BY DEF TypeOK, Answer, Entry
<1>2. \A S : \A s \in Seq(S) : \A i \in DOMAIN s : s[i] \in S
  BY ElementOfSeq, LenProperties
<1>3. /\ \A i \in DOMAIN toHost : toHost[i] \in Frame
      /\ \A i \in DOMAIN stdin : stdin[i] \in Ids
      /\ \A i \in DOMAIN toDriver : toDriver[i] \in Answer
      /\ \A i \in DOMAIN journal : journal[i] \in Entry
  BY <1>1, <1>2
<1>4. /\ \A f \in Frame : f.id \in Ids
      /\ \A f \in Answer : f.id \in Ids
      /\ \A f \in Entry : f.id \in Ids
  BY DEF Frame, Answer, Entry
<1> QED
  BY <1>3, <1>4

\* A step of the store and of the daemon's memory, in general: what it lets be
\* written could be written before, or the host said that it has no copy.
LEMMA StoreStep ==
  ASSUME MInv, TypeOK', DigestOK', OrderOK', BusyOK', IntentOK',
         UNCHANGED <<harness, gen, row, host, receipts, stdin, journal, up, toHost,
                     toDriver, executed, repeats>>,
         driver'.conn = driver.conn, driver'.asked = driver.asked,
         driver'.cursor = driver.cursor, driver'.confirmed \subseteq driver.confirmed,
         \A n \in Ids : driver'.replies[n] \in {driver.replies[n], NoReply},
         \A x \in Ids : Ahead(x) => Ahead(x)',
         busy'.stage # "idle" => Ahead(busy.id)',
         \A n \in Ids : Unspent(n)' => \/ Unspent(n)
                                       \/ /\ Copies(n) = 0 /\ n \notin driver.asked
                                          /\ driver'.replies[n] = NoReply,
         \A n \in Ids : Tracked(n)' => Tracked(n),
         \A n \in Ids : intents'[n].state # "none" => intents[n].state # "none" \/ Ahead(n)',
         harness.confirms =>
           /\ busy'.stage = "mark" => executed[busy'.id] > 0
           /\ \A n \in Ids : box'[n] = "delivered" => executed[n] > 0
  PROVE  MInv'
<1>1. \A n \in Ids : Copies(n)' = Copies(n) /\ (Accounted(n)' <=> Accounted(n))
  BY CopiesKept DEF Accounted, Occ
<1>2. /\ \A i \in DOMAIN toHost : toHost[i].id \in Ids
      /\ \A i \in DOMAIN stdin : stdin[i] \in Ids
      /\ \A i \in DOMAIN toDriver : toDriver[i].id \in Ids
  BY Elements DEF MInv
<1>3. AheadOK'
  BY <1>2 DEF MInv, AheadOK
<1>4. LinkOK' /\ FrameOK' /\ CursorOK'
  BY DEF MInv, LinkOK, FrameOK, Tagged, CursorOK
<1>5. AskOK'
  BY DEF MInv, AskOK
<1>6. AccountOK'
  BY <1>1 DEF MInv, AccountOK, Tagged
<1>7. QuietOK'
  BY DEF MInv, QuietOK
<1>8. CopiesOK'
  <2>1. \A n \in Ids : repeats[n] \in Nat
    BY CopiesType DEF MInv
  <2> QED
    BY <1>1, <2>1 DEF MInv, CopiesOK
<1>9. ReplyOK'
  <2>1. NoReply.state \notin Nothing
    BY DEF NoReply, Nothing
  <2> QED
    BY <1>1, <1>2, <2>1 DEF MInv, ReplyOK
<1>10. TakenOK'
  <2>1. NoReply.state # "accepted"
    BY DEF NoReply
  <2> QED
    BY <2>1 DEF MInv, TakenOK
<1> QED
  BY <1>3, <1>4, <1>5, <1>6, <1>7, <1>8, <1>9, <1>10 DEF MInv

\* A step outside of the store: messages stay as unspent as they are.
LEMMA WireStep ==
  ASSUME MInv, TypeOK',
         UNCHANGED <<harness, box, order, intents, gen, row, up, busy, ready, repeats>>,
         \A n \in Ids : Copies(n)' <= Copies(n)
  PROVE  /\ OrderOK' /\ BusyOK' /\ IntentOK' /\ CopiesOK'
         /\ \A n \in Ids : (Unspent(n)' <=> Unspent(n)) /\ (Ahead(n)' <=> Ahead(n))
<1>1. OrderOK' /\ BusyOK' /\ IntentOK'
  BY DEF MInv, OrderOK, BusyOK, IntentOK
<1>2. \A n \in Ids : (Unspent(n)' <=> Unspent(n)) /\ (Ahead(n)' <=> Ahead(n))
  BY DEF Unspent, Ahead, Before, Queued
<1>3. CopiesOK'
  <2>1. \A n \in Ids : Copies(n) \in Nat /\ Copies(n)' \in Nat /\ repeats[n] \in Nat
    BY CopiesType, CopiesTypeNext DEF MInv
  <2> QED
    BY <1>2, <2>1 DEF MInv, CopiesOK
<1> QED
  BY <1>1, <1>2, <1>3

\* A step of the driver alone.
LEMMA DriverStep ==
  ASSUME MInv, TypeOK',
         UNCHANGED <<harness, box, order, intents, gen, row, up, busy, ready, repeats,
                     toHost, stdin, executed>>
  PROVE  /\ OrderOK' /\ BusyOK' /\ IntentOK' /\ CopiesOK' /\ AheadOK' /\ DigestOK' /\ FrameOK'
         /\ \A n \in Ids : (Unspent(n)' <=> Unspent(n)) /\ Copies(n)' = Copies(n)
<1>1. \A n \in Ids : Copies(n)' = Copies(n)
  BY CopiesKept
<1>2. \A n \in Ids : Copies(n)' <= Copies(n)
  <2>1. \A n \in Ids : Copies(n) \in Nat
    BY CopiesType DEF MInv
  <2> QED
    BY <1>1, <2>1
<1>3. /\ OrderOK' /\ BusyOK' /\ IntentOK' /\ CopiesOK'
      /\ \A n \in Ids : Unspent(n)' <=> Unspent(n)
  BY <1>2, WireStep
<1>4. AheadOK'
  BY DEF MInv, AheadOK, Ahead, Before, Queued
<1>5. DigestOK' /\ FrameOK'
  BY DEF MInv, DigestOK, FrameOK, Tagged
<1> QED
  BY <1>1, <1>3, <1>4, <1>5

-----------------------------------------------------------------------------
(* Senders and operators *)

\* A new message comes after everything that is on its way.
LEMMA SendStep ==
  ASSUME MInv, NEW m \in Ids, Send(m)
  PROVE  MInv'
<1>0. TypeOK'
  BY TypeLoop DEF MInv
<1>1. /\ busy.stage = "idle" /\ box[m] = "none" /\ box' = [box EXCEPT ![m] = "queued"]
      /\ \A n \in 1 .. m - 1 : box[n] # "none"
      /\ UNCHANGED <<harness, order, intents, gen, row, host, receipts, stdin, journal, up, busy,
                     ready, driver, toHost, toDriver, executed, repeats, faults>>
  BY BusyShape DEF MInv, Send, Working, Fresh, process, daemon, wire, history
<1>2. box \in [Ids -> {"none", "queued", "delivered", "removed"}] /\ order \in [Ids -> Ids]
  BY DEF MInv, TypeOK
<1>3. \A n \in Ids : /\ box'[n] = "none" <=> box[n] = "none" /\ n # m
                     /\ box'[n] \in {"none", "queued"} <=> box[n] \in {"none", "queued"}
                     /\ box'[n] = "delivered" <=> box[n] = "delivered"
                     /\ n # m => box'[n] = box[n]
  BY <1>1, <1>2
<1>4. \A n \in Ids : (Unspent(n)' => Unspent(n)) /\ (Tracked(n)' => Tracked(n))
  BY <1>1, <1>3 DEF Unspent, Tracked
<1>6. OrderOK'
  <2>1. \A n \in Ids : n < m => box[n] # "none"
    BY <1>1, ValueTypes DEF Ids
  <2> QED
    BY <1>1, <1>2, <1>3, <2>1, ValueTypes DEF MInv, OrderOK
<1>7. \A x \in Ids : Ahead(x) => Ahead(x)'
  <2> SUFFICES ASSUME NEW x \in Ids, Ahead(x) PROVE Ahead(x)'
    OBVIOUS
  <2>1. box[x] # "none" /\ x \in Nat /\ m \in Nat /\ x # m /\ order[m] = m /\ order[x] <= x
    BY <1>1, ValueTypes DEF Ahead, MInv, OrderOK
  <2>2. x < m
    BY <1>1, <2>1, ValueTypes DEF MInv, OrderOK
  <2>3. order[x] \in Nat
    BY <1>2, ValueTypes
  <2>4. ASSUME NEW n \in Queued' PROVE ~Before(n, x)'
    <3>1. n \in Ids /\ (n = m \/ n \in Queued)
      BY <1>3, <2>4 DEF Queued
    <3>2. CASE n = m
      BY <1>1, <2>1, <2>2, <2>3, <3>2 DEF Before
    <3>3. CASE n \in Queued
      BY <1>1, <3>3 DEF Ahead, Before
    <3> QED
      BY <3>1, <3>2, <3>3
  <2> QED
    BY <1>3, <2>1, <2>4 DEF Ahead
<1>9. DigestOK' /\ IntentOK' /\ BusyOK'
  BY <1>1 DEF MInv, DigestOK, IntentOK, BusyOK
<1>10. harness.confirms => \A n \in Ids : box'[n] = "delivered" => executed[n] > 0
  BY <1>3 DEF MInv, TakenOK
<1> QED
  BY <1>0, <1>1, <1>4, <1>6, <1>7, <1>9, <1>10, StoreStep

\* A message leaves the queue without being written.
LEMMA RemoveStep ==
  ASSUME MInv, NEW m \in Ids, Cancel(m) \/ Drop(m)
  PROVE  MInv'
<1>0. TypeOK'
  BY TypeLoop DEF MInv
<1>1. /\ busy.stage = "idle" /\ box[m] = "queued" /\ box' = [box EXCEPT ![m] = "removed"]
      /\ UNCHANGED <<harness, order, gen, row, host, receipts, stdin, journal, up, busy,
                     driver, toHost, toDriver, executed, repeats, faults>>
  BY BusyShape DEF MInv, Cancel, Drop, Working, Queued, process, daemon, wire, history
<1>2. /\ box \in [Ids -> {"none", "queued", "delivered", "removed"}]
      /\ intents \in [Ids -> Intent]
  BY DEF MInv, TypeOK
<1>3. /\ intents' \in {intents, [intents EXCEPT ![m] = NoIntent]} /\ ready' \in {ready, ready \ {m}}
      /\ intents' = intents \/ m \notin ready'
  BY DEF Cancel, Drop, daemon
<1>4. \A n \in Ids \ {m} : box'[n] = box[n] /\ intents'[n] = intents[n]
  BY <1>1, <1>2, <1>3
<1>5. box'[m] = "removed" /\ intents'[m] = NoIntent
  <2>1. Cancel(m) => intents' = intents /\ intents[m] = NoIntent
    BY DEF Cancel, MInv, IntentOK
  <2>2. Drop(m) => intents' = [intents EXCEPT ![m] = NoIntent]
    BY DEF Drop
  <2> QED
    BY <1>1, <1>2, <2>1, <2>2
<1>6. NoIntent.state = "none" /\ NoIntent.gen = 0
  BY DEF NoIntent
<1>a. \A n \in Ids : intents'[n].state # "none" => intents[n].state # "none"
  BY <1>4, <1>5, <1>6
<1>7. \A n \in Ids : Unspent(n)' => Unspent(n)
  <2>1. ASSUME NEW n \in Ids, n # m, Unspent(n)' PROVE Unspent(n)
    BY <1>1, <1>3, <1>4, <2>1 DEF Unspent
  <2>2. ASSUME Unspent(m)' PROVE Unspent(m)
    BY <1>0, <1>1, <1>3, <1>5, <2>2, BusyShape DEF Unspent, MInv
  <2> QED
    BY <2>1, <2>2
<1>8. \A n \in Ids : Tracked(n)' => Tracked(n)
  BY <1>1, <1>4, <1>5, <1>6 DEF Tracked
<1>9. \A x \in Ids : Ahead(x) => Ahead(x)'
  <2>1. Queued' \subseteq Queued
    BY <1>1, <1>4, <1>5 DEF Queued
  <2>2. \A x \in Ids : box[x] # "none" => box'[x] # "none"
    BY <1>4, <1>5
  <2> QED
    BY <1>1, <2>1, <2>2, AheadKept DEF Ahead
<1>10. OrderOK'
  BY <1>1, <1>4, <1>5 DEF MInv, OrderOK
<1>11. BusyOK'
  BY <1>1 DEF MInv, BusyOK
<1>12. DigestOK' /\ IntentOK'
  <2>1. gen \in Nat
    BY DEF MInv, TypeOK
  <2> QED
    BY <1>1, <1>3, <1>4, <1>5, <1>6, <2>1 DEF MInv, DigestOK, IntentOK
<1>13. harness.confirms => \A n \in Ids : box'[n] = "delivered" => executed[n] > 0
  BY <1>4, <1>5 DEF MInv, TakenOK
<1> QED
  BY <1>0, <1>1, <1>a, <1>7, <1>8, <1>9, <1>10, <1>11, <1>12, <1>13, StoreStep

\* A resend takes the place of the message it replaces.
LEMMA ResendStep ==
  ASSUME MInv, NEW m \in Ids, NEW n \in Ids, Resend(m, n)
  PROVE  MInv'
<1>0. TypeOK'
  BY TypeLoop DEF MInv
<1>1. /\ busy.stage = "idle" /\ box[m] = "queued" /\ box[n] = "none" /\ m # n
      /\ box' = [box EXCEPT ![m] = "removed", ![n] = "queued"]
      /\ order' = [order EXCEPT ![n] = order[m]]
      /\ intents' = [intents EXCEPT ![m] = NoIntent]
      /\ ready' = ready \ {m}
      /\ \A k \in 1 .. n - 1 : box[k] # "none"
      /\ UNCHANGED <<harness, gen, row, host, receipts, stdin, journal, up, busy,
                     driver, toHost, toDriver, executed, repeats, faults>>
  BY BusyShape DEF MInv, Resend, Working, Queued, Fresh, process, wire, history
<1>2. /\ box \in [Ids -> {"none", "queued", "delivered", "removed"}]
      /\ intents \in [Ids -> Intent] /\ order \in [Ids -> Ids]
  BY DEF MInv, TypeOK
<1>3. /\ \A k \in Ids \ {m, n} : box'[k] = box[k]
      /\ \A k \in Ids \ {m} : intents'[k] = intents[k]
      /\ \A k \in Ids \ {n} : order'[k] = order[k]
      /\ box'[m] = "removed" /\ box'[n] = "queued" /\ intents'[m] = NoIntent
      /\ order'[n] = order[m]
  BY <1>1, <1>2
<1>4. NoIntent.state = "none" /\ NoIntent.gen = 0
  BY DEF NoIntent
<1>a. \A k \in Ids : intents'[k].state # "none" => intents[k].state # "none"
  BY <1>3, <1>4
<1>5. \A k \in Ids : k \in Nat /\ order[k] \in Nat
  BY <1>2, ValueTypes
<1>6. m < n /\ \A k \in Ids : k < n => box[k] # "none"
  BY <1>1, <1>5, ValueTypes DEF Ids, MInv, OrderOK
<1>7. OrderOK'
  <2>1. order[m] <= m /\ m < n
    BY <1>6 DEF MInv, OrderOK
  <2>2. \A k \in Ids : order'[k] <= k
    BY <1>3, <1>5, <2>1 DEF MInv, OrderOK
  <2>3. ASSUME NEW k \in Ids, box'[k] = "none"
        PROVE  order'[k] = k /\ \A j \in Ids : j > k => box'[j] = "none"
    <3>1. k # m /\ k # n /\ box[k] = "none"
      BY <1>3, <2>3
    <3>2. ~(k < n) /\ ~(m > k)
      BY <1>1, <1>6, <3>1 DEF MInv, OrderOK
    <3> QED
      BY <1>3, <1>5, <3>1, <3>2 DEF MInv, OrderOK
  <2> QED
    BY <2>2, <2>3 DEF OrderOK
<1>8. \A x \in Ids : Ahead(x) => Ahead(x)'
  <2> SUFFICES ASSUME NEW x \in Ids, Ahead(x) PROVE Ahead(x)'
    OBVIOUS
  <2>1. x # n /\ box'[x] # "none" /\ order'[x] = order[x]
    BY <1>1, <1>3 DEF Ahead
  <2>2. ASSUME NEW k \in Queued' PROVE ~Before(k, x)'
    <3>1. k \in Ids /\ (k = n \/ (k \in Queued /\ k # m))
      BY <1>3, <2>2 DEF Queued
    <3>2. CASE k = n
      <4>1. ~Before(m, x)
        BY <1>1 DEF Ahead, Queued
      <4> QED
        BY <1>3, <1>5, <1>6, <2>1, <3>2, <4>1 DEF Before
    <3>3. CASE k \in Queued /\ k # n
      BY <1>3, <2>1, <3>1, <3>3 DEF Ahead, Before
    <3> QED
      BY <3>1, <3>2, <3>3
  <2> QED
    BY <2>1, <2>2 DEF Ahead
<1>9. \A k \in Ids : Unspent(k)' => Unspent(k)
  <2>1. ASSUME NEW k \in Ids, k # m, Unspent(k)' PROVE Unspent(k)
    BY <1>1, <1>3, <2>1 DEF Unspent
  <2>2. ASSUME Unspent(m)' PROVE Unspent(m)
    BY <1>0, <1>1, <1>3, <2>2, BusyShape DEF Unspent, MInv
  <2> QED
    BY <2>1, <2>2
<1>10. \A k \in Ids : Tracked(k)' => Tracked(k)
  BY <1>1, <1>3, <1>4 DEF Tracked
<1>11. BusyOK'
  BY <1>1 DEF MInv, BusyOK
<1>12. DigestOK' /\ IntentOK'
  <2>1. gen \in Nat
    BY DEF MInv, TypeOK
  <2> QED
    BY <1>1, <1>2, <1>3, <1>4, <2>1 DEF MInv, DigestOK, IntentOK
<1>13. harness.confirms => \A k \in Ids : box'[k] = "delivered" => executed[k] > 0
  BY <1>3 DEF MInv, TakenOK
<1> QED
  BY <1>0, <1>1, <1>a, <1>7, <1>8, <1>9, <1>10, <1>11, <1>12, <1>13, StoreStep

-----------------------------------------------------------------------------
(* The delivery loop and the reconciliation of intents *)

\* Only the first message of the queue is prepared, and it is unspent.
LEMMA PrepareStep ==
  ASSUME MInv, NEW m \in Ids, Prepare(m)
  PROVE  MInv'
<1>0. TypeOK'
  BY TypeLoop DEF MInv
<1>1. /\ busy.stage = "idle" /\ box[m] = "queued" /\ up /\ row = "live" /\ First(m)
      /\ busy' = [stage |-> "write", id |-> m]
      /\ UNCHANGED <<harness, box, order, gen, row, host, receipts, stdin, journal, up,
                     driver, toHost, toDriver, executed, repeats, faults>>
  BY BusyShape DEF MInv, Prepare, Working, Queued, First, mailbox, process, wire, history
<1>2. /\ intents \in [Ids -> Intent] /\ order \in [Ids -> Ids] /\ gen \in Nat
      /\ Encodings \subseteq Nat \ {0}
  BY ReceiptsAssumption DEF MInv, TypeOK
<1>3. CASE ~harness.confirms
  <2>1. UNCHANGED <<intents, ready>> /\ ready = {} /\ intents[m] = NoIntent
    BY <1>3 DEF Prepare, MInv, IntentOK
  <2>2. Unspent(m)
    BY <1>1, <2>1, BusyShape DEF Unspent, NoIntent, MInv
  <2>3. \A n \in Ids : Unspent(n)' => Unspent(n)
    <3>1. ASSUME NEW n \in Ids, n # m, Unspent(n)' PROVE Unspent(n)
      BY <1>0, <1>1, <2>1, <3>1, UnspentShape, BusyShape DEF MInv, Unspent
    <3> QED
      BY <2>2, <3>1
  <2>4. \A n \in Ids : Tracked(n)' => Tracked(n)
    BY <1>1, <2>1 DEF Tracked
  <2>5. \A x \in Ids : Ahead(x) => Ahead(x)'
    BY <1>1 DEF Ahead, Before, Queued
  <2>6. Ahead(m)'
    BY <1>1, <1>2, ValueTypes DEF Ahead, First, Before, Queued
  <2>7. DigestOK' /\ OrderOK' /\ IntentOK'
    BY <1>1, <2>1 DEF MInv, DigestOK, OrderOK, IntentOK
  <2>8. BusyOK'
    BY <1>1, <1>3, <2>1 DEF BusyOK
  <2>9. harness.confirms => \A n \in Ids : box'[n] = "delivered" => executed[n] > 0
    BY <1>3
  <2> QED
    BY <1>0, <1>1, <2>1, <2>3, <2>4, <2>5, <2>6, <2>7, <2>8, <2>9, <1>3, StoreStep
<1>4. CASE harness.confirms
  <2>1. PICK digest \in Encodings :
          intents' = [intents EXCEPT ![m] = [@ EXCEPT !.state = "awaiting", !.gen = gen,
                                                      !.digest = digest]]
    BY <1>4, Zenon DEF Prepare
  <2>2. ready' = ready \ {m} /\ (intents[m].state = "none" \/ (Current(m) /\ m \in ready))
    BY <1>4, Zenon DEF Prepare
  <2>3. intents'[m].state = "awaiting" /\ intents'[m].gen = gen /\ intents'[m].digest = digest
    <3>1. intents[m] \in Intent
      BY <1>2
    <3> QED
      BY <1>2, <2>1, <3>1 DEF Intent
  <2>4. \A n \in Ids \ {m} : intents'[n] = intents[n]
    BY <1>2, <2>1
  <2>5. Unspent(m) /\ Tracked(m)
    BY <1>1, <2>2, BusyShape DEF Unspent, MInv, Tracked, Current
  <2>6. \A n \in Ids : (Unspent(n)' => Unspent(n)) /\ (Tracked(n)' => Tracked(n))
    <3>1. ASSUME NEW n \in Ids, n # m, Unspent(n)' PROVE Unspent(n)
      BY <1>0, <1>1, <2>2, <2>4, <3>1, BusyShape DEF MInv, Unspent
    <3>2. ASSUME NEW n \in Ids, n # m, Tracked(n)' PROVE Tracked(n)
      BY <1>1, <2>4, <3>2 DEF Tracked
    <3> QED
      BY <2>5, <3>1, <3>2
  <2>7. \A x \in Ids : Ahead(x) => Ahead(x)'
    BY <1>1 DEF Ahead, Before, Queued
  <2>8. Ahead(m)'
    BY <1>1, <1>2, ValueTypes DEF Ahead, First, Before, Queued
  <2>9. DigestOK' /\ OrderOK' /\ IntentOK'
    BY <1>1, <1>2, <1>4, <2>2, <2>3, <2>4 DEF MInv, DigestOK, OrderOK, IntentOK
  <2>10. BusyOK'
    BY <1>1, <2>2, <2>3 DEF BusyOK
  <2>11. harness.confirms => \A n \in Ids : box'[n] = "delivered" => executed[n] > 0
    BY <1>1 DEF MInv, TakenOK
  <2> QED
    BY <1>0, <1>1, <2>4, <2>6, <2>7, <2>8, <2>9, <2>10, <2>11, StoreStep
<1> QED
  BY <1>3, <1>4

\* What is marked was taken, if its harness confirms, and is spent.
LEMMA MarkStep ==
  ASSUME MInv, NEW m \in Ids, MarkDelivered(m)
  PROVE  MInv'
<1>0. TypeOK'
  BY TypeLoop DEF MInv
<1>1. /\ busy.stage = "mark" /\ busy.id = m /\ busy' = Idle
      /\ UNCHANGED <<harness, order, gen, row, host, receipts, stdin, journal, up,
                     driver, toHost, toDriver, executed, repeats, faults>>
  BY DEF MarkDelivered, process, wire, history
<1>2. box[m] = "queued" /\ row = "live" /\ intents[m].gen \in {0, gen}
  <2>1. ~harness.confirms => intents[m].gen = 0
    BY DEF MInv, IntentOK, NoIntent
  <2> QED
    BY <1>1, <2>1 DEF MInv, BusyOK
<1>3. /\ box' = [box EXCEPT ![m] = "delivered"]
      /\ intents' = [intents EXCEPT ![m] = NoIntent]
      /\ ready' = ready \ {m}
  BY <1>2 DEF MarkDelivered
<1>4. /\ box \in [Ids -> {"none", "queued", "delivered", "removed"}]
      /\ intents \in [Ids -> Intent] /\ gen \in Nat
  BY DEF MInv, TypeOK
<1>5. /\ \A n \in Ids \ {m} : box'[n] = box[n] /\ intents'[n] = intents[n]
      /\ box'[m] = "delivered" /\ intents'[m] = NoIntent
  BY <1>3, <1>4
<1>6. NoIntent.state = "none" /\ NoIntent.gen = 0 /\ busy'.stage = "idle"
  BY <1>1 DEF NoIntent, Idle
<1>7. \A n \in Ids : (Unspent(n)' => Unspent(n)) /\ (Tracked(n)' => Tracked(n))
  <2>1. ASSUME NEW n \in Ids, n # m, Unspent(n)' PROVE Unspent(n)
    BY <1>0, <1>1, <1>3, <1>5, <1>6, <2>1, BusyShape DEF MInv, Unspent
  <2>2. ~Unspent(m)'
    BY <1>0, <1>1, <1>3, <1>5, <1>6 DEF MInv, Unspent, Idle
  <2>3. \A n \in Ids : Tracked(n)' => Tracked(n)
    BY <1>1, <1>5, <1>6 DEF Tracked
  <2> QED
    BY <2>1, <2>2, <2>3
<1>8. \A x \in Ids : Ahead(x) => Ahead(x)'
  <2>1. Queued' \subseteq Queued
    BY <1>5 DEF Queued
  <2>2. \A x \in Ids : box[x] # "none" => box'[x] # "none"
    BY <1>5
  <2> QED
    BY <1>1, <2>1, <2>2, AheadKept DEF Ahead
<1>9. OrderOK'
  BY <1>1, <1>2, <1>5 DEF MInv, OrderOK
<1>10. BusyOK'
  BY <1>1, <1>6 DEF BusyOK
<1>11. DigestOK' /\ IntentOK'
  BY <1>1, <1>3, <1>4, <1>5, <1>6 DEF MInv, DigestOK, IntentOK
<1>12. harness.confirms => \A n \in Ids : box'[n] = "delivered" => executed[n] > 0
  BY <1>1, <1>5 DEF MInv, TakenOK
<1>13. \A n \in Ids : intents'[n].state # "none" => intents[n].state # "none"
  BY <1>5, <1>6
<1> QED
  BY <1>0, <1>1, <1>6, <1>7, <1>8, <1>9, <1>10, <1>11, <1>12, <1>13, StoreStep

\* A message is held: it may not be written for now.
LEMMA HoldStep ==
  ASSUME MInv, NEW m \in Ids, HoldStale(m) \/ LaneTimeout(m) \/ PollTimeout(m)
  PROVE  MInv'
<1>0. TypeOK'
  BY TypePoll DEF MInv
<1>1. /\ busy.stage = "idle" /\ intents[m].state # "none"
      /\ UNCHANGED <<harness, box, order, gen, row, host, receipts, stdin, journal, up, busy,
                     driver, toHost, toDriver, executed, repeats, faults>>
  BY BusyShape DEF MInv, HoldStale, LaneTimeout, PollTimeout, Unconfirmed, Polled, Current, Working,
                   mailbox, process, wire, history
<1>2. PICK state \in {"held", "lane"} : Hold(m, state)
  BY DEF HoldStale, LaneTimeout, PollTimeout
<1>3. intents \in [Ids -> Intent]
  BY DEF MInv, TypeOK
<1>4. /\ intents'[m].state = state /\ intents'[m].gen = intents[m].gen
      /\ intents'[m].digest = intents[m].digest
      /\ \A n \in Ids \ {m} : intents'[n] = intents[n]
      /\ ready' = ready \ {m}
  <2>1. intents[m] \in Intent
    BY <1>3
  <2> QED
    BY <1>2, <1>3, <2>1 DEF Hold, Intent
<1>5. \A n \in Ids : (Unspent(n)' => Unspent(n)) /\ (Tracked(n)' => Tracked(n))
  <2>1. ASSUME NEW n \in Ids, n # m PROVE (Unspent(n)' => Unspent(n)) /\ (Tracked(n)' => Tracked(n))
    BY <1>1, <1>4, <2>1 DEF Unspent, Tracked
  <2>2. Unspent(m)' => Unspent(m)
    BY <1>1, <1>2, <1>4 DEF Unspent
  <2>3. Tracked(m)' => Tracked(m)
    BY <1>1, <1>2, <1>4 DEF Tracked
  <2> QED
    BY <2>1, <2>2, <2>3
<1>6. \A x \in Ids : Ahead(x) => Ahead(x)'
  BY <1>1 DEF Ahead, Before, Queued
<1>7. DigestOK' /\ OrderOK' /\ IntentOK' /\ BusyOK'
  <2>1. DigestOK' /\ OrderOK' /\ BusyOK'
    BY <1>1, <1>2, <1>4 DEF MInv, DigestOK, OrderOK, BusyOK
  <2>2. harness.confirms
    BY <1>1 DEF MInv, IntentOK, NoIntent
  <2>3. IntentOK'
    BY <1>1, <1>2, <1>4, <2>2 DEF MInv, IntentOK
  <2> QED
    BY <2>1, <2>3
<1>8. harness.confirms => \A n \in Ids : box'[n] = "delivered" => executed[n] > 0
  BY <1>1 DEF MInv, TakenOK
<1>9. \A n \in Ids : intents'[n].state # "none" => intents[n].state # "none"
  BY <1>1, <1>4
<1> QED
  BY <1>0, <1>1, <1>5, <1>6, <1>7, <1>8, <1>9, StoreStep

\* A message that was confirmed is marked instead of written.
LEMMA ConfirmedStep ==
  ASSUME MInv, NEW m \in Ids,
         \/ PollConfirmed(m)
         \/ Deliver(m) /\ harness.confirms /\ m \in driver.confirmed
  PROVE  MInv'
<1>0. TypeOK'
  BY TypePoll, TypeLoop DEF MInv
<1>1. /\ UNCHANGED <<harness, box, order, intents, gen, row, host, receipts, stdin, journal, up,
                     ready, toHost, toDriver, executed, repeats, faults>>
      /\ driver' = [driver EXCEPT !.confirmed = @ \ {m}]
      /\ busy' = [stage |-> "mark", id |-> m]
      /\ m \in driver.confirmed
  BY DEF PollConfirmed, Deliver, mailbox, process, wire, history
<1>2. /\ harness.confirms /\ intents[m].state # "none" /\ intents[m].gen = gen /\ row = "live"
      /\ up /\ m \notin ready /\ ~(busy.stage = "mark")
  <2>1. CASE PollConfirmed(m)
    BY <2>1, BusyShape DEF PollConfirmed, Polled, Working, Current, MInv, IntentOK, NoIntent
  <2>2. CASE Deliver(m) /\ harness.confirms
    <3>1. busy.stage = "write" /\ busy.id = m
      BY <2>2 DEF Deliver
    <3> QED
      BY <2>2, <3>1 DEF MInv, BusyOK
  <2> QED
    BY <2>1, <2>2
<1>3. executed[m] > 0
  BY <1>1, <1>2 DEF MInv, TakenOK, TypeOK
<1>4. box[m] = "queued" /\ Ahead(m)
  BY <1>2 DEF MInv, IntentOK, AheadOK
<1>5. driver \in Driver
  BY DEF MInv, TypeOK
<1>6. /\ driver'.conn = driver.conn /\ driver'.asked = driver.asked
      /\ driver'.cursor = driver.cursor /\ driver'.confirmed \subseteq driver.confirmed
      /\ driver'.replies = driver.replies
  BY <1>1, <1>5 DEF Driver
<1>7. \A x \in Ids : Ahead(x) => Ahead(x)'
  BY <1>1 DEF Ahead, Before, Queued
<1>8. \A n \in Ids : Unspent(n)' => Unspent(n)
  <2>1. ASSUME NEW n \in Ids, Unspent(n)' PROVE Unspent(n)
    BY <1>1, <1>2, <2>1, BusyShape DEF MInv, Unspent
  <2> QED
    BY <2>1
<1>9. \A n \in Ids : Tracked(n)' => Tracked(n)
  BY <1>1 DEF Tracked
<1>10. DigestOK' /\ OrderOK' /\ IntentOK' /\ BusyOK'
  BY <1>1, <1>2, <1>4 DEF MInv, DigestOK, OrderOK, IntentOK, BusyOK
<1>11. busy'.stage = "mark" /\ busy'.id = m
  BY <1>1
<1>12. \A n \in Ids : box'[n] = "delivered" => executed[n] > 0
  BY <1>1, <1>2 DEF MInv, TakenOK
<1>13. Ahead(busy.id)'
  BY <1>4, <1>7, <1>11
<1> QED
  BY <1>0, <1>1, <1>3, <1>6, <1>7, <1>8, <1>9, <1>10, <1>11, <1>12, <1>13, StoreStep

\* The host's answer is used.  It lets the message be written again only if
\* there is no copy of it.
LEMMA ReplyStep ==
  ASSUME MInv, NEW m \in Ids, PollReply(m)
  PROVE  MInv'
<1>0. TypeOK'
  BY TypePoll DEF MInv
<1>1. /\ UNCHANGED <<harness, box, order, gen, row, host, receipts, stdin, journal, up,
                     toHost, toDriver, executed, repeats, faults>>
      /\ driver' = [driver EXCEPT !.replies[m] = NoReply]
      /\ driver.replies[m] # NoReply
      /\ busy.stage = "idle" /\ up /\ row = "live" /\ intents[m].state # "none"
      /\ intents[m].gen = gen /\ m \notin ready
  BY BusyShape DEF PollReply, Unconfirmed, Polled, Working, Current, MInv,
                   mailbox, process, wire, history
<1>2. driver \in Driver /\ intents \in [Ids -> Intent] /\ intents[m] \in Intent
  BY DEF MInv, TypeOK
<1>3. harness.confirms /\ box[m] = "queued" /\ Ahead(m)
  BY <1>1 DEF MInv, IntentOK, NoIntent, AheadOK
<1>4. /\ driver'.conn = driver.conn /\ driver'.asked = driver.asked
      /\ driver'.cursor = driver.cursor /\ driver'.confirmed = driver.confirmed
      /\ \A n \in Ids : driver'.replies[n] = IF n = m THEN NoReply ELSE driver.replies[n]
  BY <1>1, <1>2 DEF Driver
<1>5. m \notin driver.asked
  BY <1>1 DEF MInv, AskOK
<1>6. \A x \in Ids : Ahead(x) => Ahead(x)'
  BY <1>1 DEF Ahead, Before, Queued
<1>7. ReplyOf(m) \in Nothing => Copies(m) = 0
  BY DEF MInv, ReplyOK, ReplyOf, Nothing
<1>8. ReplyOf(m) = "accepted" => executed[m] > 0
  <2>1. ReplyOf(m) = "accepted" => driver.replies[m].state = "accepted"
    BY DEF ReplyOf
  <2> QED
    BY <1>3, <2>1 DEF MInv, TakenOK
<1>9. /\ \A n \in Ids \ {m} : intents'[n] = intents[n] /\ (n \in ready' <=> n \in ready)
      /\ busy' = busy \/ (busy' = [stage |-> "mark", id |-> m] /\ ReplyOf(m) = "accepted"
                            /\ UNCHANGED <<intents, ready>>)
      /\ intents'[m].gen \in {intents[m].gen, 0} /\ intents'[m].digest \in {intents[m].digest, 0}
      /\ intents'[m].state = "none" => intents'[m] = NoIntent /\ ReplyOf(m) \in Nothing
      /\ intents'[m].state # "none" => intents'[m].digest = intents[m].digest
      /\ m \in ready' => ReplyOf(m) \in Nothing
  <2>1. CASE ReplyOf(m) = "written" /\ UNCHANGED <<intents, ready, busy>>
    BY <1>1, <2>1
  <2>2. CASE /\ ReplyOf(m) = "accepted"
             /\ busy' = [stage |-> "mark", id |-> m]
             /\ UNCHANGED <<intents, ready>>
    BY <1>1, <2>2
  <2>3. CASE /\ ReplyOf(m) = "not_written"
             /\ intents' = [intents EXCEPT ![m] = GiveBack(m)]
             /\ ready' = IF driver.degraded THEN ready ELSE ready \union {m}
             /\ UNCHANGED busy
    <3>1. /\ GiveBack(m).gen \in {intents[m].gen, 0}
          /\ GiveBack(m).digest \in {intents[m].digest, 0}
          /\ GiveBack(m).state = "none" => GiveBack(m) = NoIntent
          /\ GiveBack(m).state # "none" => GiveBack(m).digest = intents[m].digest
      BY <1>2 DEF GiveBack, Intent, NoIntent
    <3>2. intents'[m] = GiveBack(m) /\ \A n \in Ids \ {m} : intents'[n] = intents[n]
      BY <1>2, <2>3
    <3> QED
      BY <2>3, <3>1, <3>2 DEF Nothing
  <2>4. CASE /\ ReplyOf(m) = "refused"
             /\ intents' = [intents EXCEPT ![m] = RetryRefused(m)]
             /\ ready' = IF RetryRefused(m).state = "awaiting" THEN ready \union {m} ELSE ready
             /\ UNCHANGED busy
    <3>1. /\ RetryRefused(m).gen = intents[m].gen
          /\ RetryRefused(m).digest = intents[m].digest
          /\ RetryRefused(m).state # "none"
      BY <1>2 DEF RetryRefused, Intent
    <3>2. intents'[m] = RetryRefused(m) /\ \A n \in Ids \ {m} : intents'[n] = intents[n]
      BY <1>2, <2>4
    <3> QED
      BY <2>4, <3>1, <3>2 DEF Nothing
  <2>5. CASE ReplyOf(m) = "unknown" /\ Hold(m, "held") /\ UNCHANGED busy
    <3>1. /\ intents'[m].gen = intents[m].gen /\ intents'[m].digest = intents[m].digest
          /\ intents'[m].state = "held" /\ \A n \in Ids \ {m} : intents'[n] = intents[n]
      BY <1>2, <2>5 DEF Hold, Intent
    <3> QED
      BY <2>5, <3>1 DEF Hold
  <2> QED
    BY <2>1, <2>2, <2>3, <2>4, <2>5 DEF PollReply
<1>10. \A n \in Ids : Unspent(n)' => \/ Unspent(n)
                                     \/ /\ Copies(n) = 0 /\ n \notin driver.asked
                                        /\ driver'.replies[n] = NoReply
  <2>1. ASSUME NEW n \in Ids, n # m, Unspent(n)' PROVE Unspent(n)
    BY <1>1, <1>9, <2>1, BusyShape DEF MInv, Unspent
  <2>2. ASSUME Unspent(m)' PROVE ReplyOf(m) \in Nothing
    BY <1>1, <1>9, <2>2, BusyShape DEF MInv, Unspent
  <2> QED
    BY <1>4, <1>5, <1>7, <2>1, <2>2
<1>11. \A n \in Ids : Tracked(n)' => Tracked(n)
  <2>1. ASSUME NEW n \in Ids, n # m, Tracked(n)' PROVE Tracked(n)
    BY <1>1, <1>9, <2>1 DEF Tracked
  <2>2. Tracked(m)
    BY <1>1 DEF Tracked
  <2> QED
    BY <2>1, <2>2
<1>12. NoIntent.state = "none" /\ NoIntent.gen = 0 /\ gen \in Nat
  BY DEF NoIntent, MInv, TypeOK
<1>13. DigestOK' /\ OrderOK' /\ IntentOK'
  <2>1. DigestOK' /\ OrderOK'
    BY <1>1, <1>9 DEF MInv, DigestOK, OrderOK
  <2>2. IntentOK'
    BY <1>1, <1>3, <1>9, <1>12 DEF MInv, IntentOK
  <2> QED
    BY <2>1, <2>2
<1>14. BusyOK'
  BY <1>1, <1>3, <1>9 DEF MInv, BusyOK
<1>15. /\ busy'.stage # "idle" => busy'.stage = "mark" /\ busy'.id = m /\ executed[m] > 0
       /\ busy'.stage # "idle" => Ahead(busy.id)'
  BY <1>1, <1>3, <1>6, <1>8, <1>9
<1>16. \A n \in Ids : box'[n] = "delivered" => executed[n] > 0
  BY <1>1, <1>3 DEF MInv, TakenOK
<1>17. \A n \in Ids : intents'[n].state # "none" => intents[n].state # "none"
  BY <1>1, <1>9
<1> QED
  BY <1>0, <1>1, <1>4, <1>6, <1>10, <1>11, <1>13, <1>14, <1>15, <1>16, <1>17, StoreStep

\* What a frame more adds to the copies.
LEMMA CopiesAppend ==
  ASSUME TypeOK, TypeOK', NEW f \in Frame, toHost' = Append(toHost, f),
         UNCHANGED <<executed, stdin>>, NEW n \in Ids
  PROVE  Copies(n)' = Copies(n) + (IF f \in Writes(n) THEN 1 ELSE 0)
<1>1. toHost \in Seq(Frame)
  BY DEF TypeOK
<1>2. Occ(toHost', Writes(n)) = Occ(toHost, Writes(n)) + (IF f \in Writes(n) THEN 1 ELSE 0)
  BY <1>1, OccAppend
<1>3. Occ(stdin', {n}) = Occ(stdin, {n})
  OBVIOUS
<1> QED
  BY <1>2, <1>3, CopiesType, CopiesTypeNext DEF Copies

\* The frames of an appended sequence are the old ones and the new one.
LEMMA FramesAppend ==
  ASSUME TypeOK, NEW f \in Frame, toHost' = Append(toHost, f)
  PROVE  /\ Len(toHost) \in Nat
         /\ \A i \in DOMAIN toHost : i \in DOMAIN toHost' /\ toHost'[i] = toHost[i] /\ i <= Len(toHost)
         /\ Len(toHost) + 1 \in DOMAIN toHost' /\ toHost'[Len(toHost) + 1] = f
         /\ \A i \in DOMAIN toHost' :
              \/ i \in DOMAIN toHost /\ toHost'[i] = toHost[i]
              \/ i = Len(toHost) + 1 /\ toHost'[i] = f
         /\ DOMAIN toHost \subseteq Nat
<1>1. toHost \in Seq(Frame)
  BY DEF TypeOK
<1> QED
  BY <1>1, AppendAt

\* A message is written once it is unspent, and then it is spent.
LEMMA WriteStep ==
  ASSUME MInv, NEW m \in Ids, Deliver(m), ~(harness.confirms /\ m \in driver.confirmed)
  PROVE  MInv'
<1>0. TypeOK'
  BY TypeLoop DEF MInv
<1>1. /\ UNCHANGED <<harness, box, order, intents, gen, row, host, receipts, stdin, journal, up,
                     ready, driver, toDriver, executed, repeats, faults>>
      /\ busy = [stage |-> "write", id |-> m]
      /\ busy' = IF harness.confirms THEN Idle ELSE [stage |-> "mark", id |-> m]
      /\ IF host THEN toHost' = Append(toHost, Written(m)) ELSE toHost' = toHost
  BY DEF Deliver, Written, mailbox, process, history
<1>2. /\ up /\ row = "live" /\ box[m] = "queued" /\ m \notin ready /\ Ahead(m)
      /\ harness.confirms => intents[m].state # "none" /\ intents[m].gen = gen
  BY <1>1 DEF MInv, BusyOK, AheadOK
<1>3. Unspent(m) /\ m \notin driver.asked /\ driver.replies[m] = NoReply /\ Copies(m) <= repeats[m]
  BY <1>1 DEF MInv, Unspent, QuietOK, CopiesOK
<1>4. \A n \in Ids : (Unspent(n)' => Unspent(n)) /\ ~Unspent(m)'
  <2>1. ASSUME NEW n \in Ids, n # m, Unspent(n)' PROVE Unspent(n)
    BY <1>1, <2>1 DEF Unspent, Idle
  <2>2. ~Unspent(m)'
    <3>1. CASE harness.confirms
      BY <1>1, <1>2, <3>1 DEF Unspent, Idle
    <3>2. CASE ~harness.confirms
      BY <1>1, <1>2, <3>2 DEF Unspent
    <3> QED
      BY <3>1, <3>2
  <2> QED
    BY <2>1, <2>2
<1>5. \A x \in Ids : Ahead(x) => Ahead(x)'
  BY <1>1 DEF Ahead, Before, Queued
<1>6. OrderOK' /\ IntentOK' /\ BusyOK'
  <2>1. OrderOK' /\ IntentOK'
    BY <1>1 DEF MInv, OrderOK, IntentOK
  <2>2. BusyOK'
    BY <1>1, <1>2 DEF BusyOK, Idle
  <2> QED
    BY <2>1, <2>2
<1>7. TakenOK' /\ CursorOK'
  BY <1>1 DEF MInv, TakenOK, CursorOK, Idle
<1>8. QuietOK'
  BY <1>1, <1>4 DEF MInv, QuietOK
<1>9. Written(m) \in Frame /\ Written(m).id = m
  BY DEF Written, Frame, MInv, TypeOK, Intent
<1>10. \A n \in Ids : n # m => Written(m) \notin Writes(n)
  BY <1>9 DEF Writes
<1>a. /\ \A i \in DOMAIN toHost : toHost[i].id \in Ids
      /\ \A i \in DOMAIN stdin : stdin[i] \in Ids
      /\ \A i \in DOMAIN toDriver : toDriver[i].id \in Ids
  BY Elements DEF MInv
<1>b. \A n \in Ids : Copies(n) \in Nat /\ repeats[n] \in Nat /\ Copies(n)' \in Nat
  BY <1>0, CopiesType, CopiesTypeNext DEF MInv
<1>11. \A n \in Ids : Copies(n)' <= Copies(n) + 1 /\ (n # m => Copies(n)' = Copies(n))
  <2>1. CASE ~host
    BY <1>1, <1>b, <2>1, CopiesKept
  <2>2. CASE host
    BY <1>0, <1>1, <1>9, <1>10, <1>b, <2>2, CopiesAppend DEF MInv
  <2> QED
    BY <2>1, <2>2
<1>12. CopiesOK'
  <2>1. ASSUME NEW n \in Ids
        PROVE  /\ Copies(n)' <= 1 + repeats[n]
               /\ Unspent(n)' => Copies(n)' <= repeats[n]
    BY <1>3, <1>4, <1>11, <1>b DEF MInv, CopiesOK
  <2> QED
    BY <1>1, <2>1 DEF CopiesOK
<1>13. ReplyOK'
  <2>1. \A i \in DOMAIN toDriver : toDriver[i].id # m
    BY <1>3 DEF MInv, AskOK
  <2>2. NoReply.state \notin Nothing
    BY DEF NoReply, Nothing
  <2> QED
    BY <1>1, <1>3, <1>11, <1>a, <2>1, <2>2 DEF MInv, ReplyOK
<1>14. CASE ~host
  <2>1. DigestOK' /\ LinkOK' /\ FrameOK' /\ AskOK'
    BY <1>1, <1>14 DEF MInv, DigestOK, LinkOK, FrameOK, Tagged, AskOK
  <2>2. AheadOK'
    BY <1>1, <1>2, <1>5, <1>14, <1>a DEF MInv, AheadOK, Idle
  <2>3. AccountOK'
    BY <1>1, <1>14 DEF MInv, AccountOK, Tagged, Tracked, Accounted, Occ
  <2> QED
    BY <1>0, <1>6, <1>7, <1>8, <1>12, <1>13, <2>1, <2>2, <2>3 DEF MInv
<1>15. CASE host
  <2> DEFINE f == Written(m)
  <2>0. toHost' = Append(toHost, f) /\ f \in Frame /\ f.id = m
    BY <1>1, <1>9, <1>15
  <2>1. f.op = IF Tagged THEN "tagged" ELSE "write"
    BY DEF Written, Tagged
  <2> HIDE DEF f
  <2>2. /\ Len(toHost) \in Nat
        /\ \A i \in DOMAIN toHost : i \in DOMAIN toHost' /\ toHost'[i] = toHost[i] /\ i <= Len(toHost)
        /\ \A i \in DOMAIN toHost' :
             \/ i \in DOMAIN toHost /\ toHost'[i] = toHost[i]
             \/ i = Len(toHost) + 1 /\ toHost'[i] = f
    BY <2>0, FramesAppend DEF MInv
  <2>3. DigestOK' /\ FrameOK'
    BY <1>1, <2>1, <2>2 DEF MInv, DigestOK, FrameOK, Tagged
  <2>4. LinkOK'
    BY <1>1, <1>15 DEF MInv, LinkOK
  <2>5. AskOK'
    <3>1. ASSUME NEW i \in DOMAIN toHost', toHost'[i].op = "status"
          PROVE  /\ i \in DOMAIN toHost /\ toHost'[i] = toHost[i] /\ toHost[i].id # m
                 /\ toHost[i].id \in driver.asked
      BY <1>3, <2>1, <2>2, <3>1 DEF MInv, AskOK
    <3>2. ASSUME NEW i \in DOMAIN toHost', toHost'[i].op = "status",
                 NEW j \in DOMAIN toHost', j > i
          PROVE  toHost'[j].op = "unanswered" \/ toHost'[j].id # toHost'[i].id
      BY <2>0, <2>2, <3>1, <3>2 DEF MInv, AskOK
    <3>3. ASSUME NEW i \in DOMAIN toHost', toHost'[i].op = "status", NEW j \in DOMAIN toDriver
          PROVE  toDriver[j].id # toHost'[i].id
      BY <3>1, <3>3 DEF MInv, AskOK
    <3>4. /\ \A i \in DOMAIN toDriver :
                /\ toDriver[i].id \in driver.asked
                /\ \A j \in DOMAIN toDriver : j > i => toDriver[j].id # toDriver[i].id
          /\ \A n \in Ids : driver.replies[n] # NoReply => n \notin driver.asked
      BY DEF MInv, AskOK
    <3> QED
      BY <1>1, <3>1, <3>2, <3>3, <3>4 DEF AskOK
  <2>6. AheadOK'
    <3>1. Ahead(m)'
      BY <1>2, <1>5
    <3>2. \A i \in DOMAIN toHost' : toHost'[i].op \in {"write", "tagged"} => Ahead(toHost[i].id)'
      BY <1>5, <1>a, <2>0, <2>2, <3>1 DEF MInv, AheadOK
    <3> QED
      BY <1>1, <1>5, <1>a, <3>1, <3>2 DEF MInv, AheadOK, Idle
  <2>7. AccountOK'
    <3>1. ASSUME Tagged, NEW n \in Ids, Tracked(n)' PROVE Tracked(n)
      <4>1. CASE n = m
        BY <1>2, <3>1, <4>1 DEF Tracked, Tagged
      <4>2. CASE n # m
        BY <1>1, <2>0, <2>2, <3>1, <4>2 DEF Tracked
      <4> QED
        BY <4>1, <4>2
    <3>2. \A n \in Ids : Accounted(n)' <=> Accounted(n)
      BY <1>1 DEF Accounted, Occ
    <3> QED
      BY <1>1, <3>1, <3>2 DEF MInv, AccountOK, Tagged
  <2> QED
    BY <1>0, <1>6, <1>7, <1>8, <1>12, <1>13, <2>3, <2>4, <2>5, <2>6, <2>7 DEF MInv
<1> QED
  BY <1>14, <1>15

\* The host is asked about a message that is not to be written meanwhile.
LEMMA AskStep ==
  ASSUME MInv, NEW m \in Ids, PollAsk(m)
  PROVE  MInv'
<1>0. TypeOK'
  BY TypePoll DEF MInv
<1> DEFINE f == [op |-> "status", id |-> m, digest |-> intents[m].digest]
<1>1. /\ UNCHANGED <<harness, box, order, intents, gen, row, host, receipts, stdin, journal, up,
                     busy, ready, toDriver, executed, repeats, faults>>
      /\ driver' = [driver EXCEPT !.asked = @ \union {m}]
      /\ toHost' = Append(toHost, f)
      /\ busy.stage = "idle" /\ intents[m].state # "none" /\ intents[m].gen = gen /\ m \notin ready
      /\ harness.tagged /\ driver.conn /\ driver.replies[m] = NoReply /\ m \notin driver.asked
  BY BusyShape DEF MInv, PollAsk, Unconfirmed, Polled, Working, Current, mailbox, process, daemon, history
<1>2. /\ driver'.conn = driver.conn /\ driver'.asked = driver.asked \union {m}
      /\ driver'.cursor = driver.cursor /\ driver'.confirmed = driver.confirmed
      /\ driver'.replies = driver.replies
  BY <1>1 DEF MInv, TypeOK, Driver
<1>3. f \in Frame /\ f.id = m /\ f.op = "status" /\ f.digest \in Encodings
  BY <1>1 DEF MInv, TypeOK, Intent, Frame, DigestOK
<1> HIDE DEF f
<1>b. \A n \in Ids : Copies(n) \in Nat
  BY CopiesType DEF MInv
<1>4. \A n \in Ids : Copies(n)' = Copies(n)
  <2>1. \A n \in Ids : f \notin Writes(n)
    BY <1>3 DEF Writes
  <2>2. \A n \in Ids : Copies(n)' = Copies(n) + (IF f \in Writes(n) THEN 1 ELSE 0)
    BY <1>0, <1>1, <1>3, CopiesAppend DEF MInv
  <2> QED
    BY <1>b, <2>1, <2>2
<1>5. /\ OrderOK' /\ BusyOK' /\ IntentOK' /\ CopiesOK'
      /\ \A n \in Ids : (Unspent(n)' <=> Unspent(n)) /\ (Ahead(n)' <=> Ahead(n))
  <2>1. \A n \in Ids : Copies(n)' <= Copies(n)
    BY <1>4, <1>b
  <2> QED
    BY <1>0, <1>1, <2>1, WireStep
<1>6. Tagged
  BY <1>1 DEF MInv, IntentOK, NoIntent, Tagged
<1>7. /\ Len(toHost) \in Nat
      /\ \A i \in DOMAIN toHost : i \in DOMAIN toHost' /\ toHost'[i] = toHost[i] /\ i <= Len(toHost)
      /\ \A i \in DOMAIN toHost' :
           \/ i \in DOMAIN toHost /\ toHost'[i] = toHost[i]
           \/ i = Len(toHost) + 1 /\ toHost'[i] = f
  BY <1>1, <1>3, FramesAppend DEF MInv
<1>a. /\ \A i \in DOMAIN toHost : toHost[i].id \in Ids
      /\ \A i \in DOMAIN stdin : stdin[i] \in Ids
      /\ \A i \in DOMAIN toDriver : toDriver[i].id \in Ids
  BY Elements DEF MInv
<1>8. DigestOK' /\ FrameOK'
  BY <1>1, <1>3, <1>6, <1>7 DEF MInv, DigestOK, FrameOK, Tagged
<1>9. AheadOK'
  BY <1>1, <1>3, <1>5, <1>7, <1>a DEF MInv, AheadOK
<1>10. LinkOK'
  BY <1>1, <1>2 DEF MInv, LinkOK
<1>11. AccountOK'
  <2>1. Tracked(m)
    BY <1>1 DEF Tracked
  <2>2. \A n \in Ids : Tracked(n)' => Tracked(n)
    BY <1>1, <1>3, <1>7, <2>1 DEF Tracked
  <2>3. \A n \in Ids : Accounted(n)' <=> Accounted(n)
    BY <1>1 DEF Accounted, Occ
  <2> QED
    BY <1>1, <2>2, <2>3 DEF MInv, AccountOK, Tagged
<1>12. AskOK'
  <2>1. ASSUME NEW i \in DOMAIN toHost, toHost[i].op = "status"
        PROVE  toHost[i].id \in driver.asked /\ toHost[i].id # m
    BY <1>1, <2>1 DEF MInv, AskOK
  <2>2. \A j \in DOMAIN toDriver : toDriver[j].id \in driver.asked /\ toDriver[j].id # m
    BY <1>1 DEF MInv, AskOK
  <2>3. ASSUME NEW i \in DOMAIN toHost', toHost'[i].op = "status"
        PROVE  /\ toHost'[i].id \in driver'.asked
               /\ \A j \in DOMAIN toDriver : toDriver[j].id # toHost'[i].id
    BY <1>2, <1>3, <1>7, <2>1, <2>2, <2>3 DEF MInv, AskOK
  <2>4. ASSUME NEW i \in DOMAIN toHost', toHost'[i].op = "status",
               NEW j \in DOMAIN toHost', j > i
        PROVE  toHost'[j].op = "unanswered" \/ toHost'[j].id # toHost'[i].id
    <3>1. i \in DOMAIN toHost /\ toHost'[i] = toHost[i]
      BY <1>7, <2>4, FramesAppend, <1>1, <1>3 DEF MInv
    <3> QED
      BY <1>3, <1>7, <2>1, <2>4, <3>1 DEF MInv, AskOK
  <2>5. /\ \A i \in DOMAIN toDriver : \A j \in DOMAIN toDriver : j > i => toDriver[j].id # toDriver[i].id
        /\ \A n \in Ids : driver.replies[n] # NoReply => n \notin driver.asked
    BY DEF MInv, AskOK
  <2> QED
    BY <1>1, <1>2, <2>2, <2>3, <2>4, <2>5 DEF AskOK
<1>13. QuietOK'
  <2>1. ~Unspent(m)
    BY <1>1, BusyShape DEF Unspent, MInv
  <2> QED
    BY <1>2, <1>5, <2>1 DEF MInv, QuietOK
<1>14. ReplyOK'
  BY <1>1, <1>2, <1>4, <1>a DEF MInv, ReplyOK
<1>15. TakenOK' /\ CursorOK'
  BY <1>1, <1>2 DEF MInv, TakenOK, CursorOK
<1> QED
  BY <1>0, <1>5, <1>8, <1>9, <1>10, <1>11, <1>12, <1>13, <1>14, <1>15 DEF MInv

-----------------------------------------------------------------------------
(* The driver *)

\* A new connection starts without questions: none is under way.
LEMMA ConnectStep ==
  ASSUME MInv, Connect
  PROVE  MInv'
<1>0. TypeOK'
  BY TypeDriver DEF MInv
<1>1. /\ UNCHANGED <<harness, box, order, intents, gen, row, host, receipts, stdin, journal, up,
                     busy, ready, toHost, toDriver, executed, repeats, faults>>
      /\ driver' = [driver EXCEPT !.conn = TRUE, !.asked = {}, !.replies = [m \in Ids |-> NoReply]]
      /\ host /\ up /\ ~driver.conn
  BY DEF Connect, Working, mailbox, process, daemon, wire, history
<1>2. /\ driver'.conn = TRUE /\ driver'.asked = {}
      /\ driver'.cursor = driver.cursor /\ driver'.confirmed = driver.confirmed
      /\ \A n \in Ids : driver'.replies[n] = NoReply
  BY <1>1 DEF MInv, TypeOK, Driver
<1>3. driver.asked = {} /\ \A n \in Ids : driver.replies[n] = NoReply
  BY <1>1 DEF MInv, LinkOK
<1>5. /\ OrderOK' /\ BusyOK' /\ IntentOK' /\ CopiesOK'
      /\ AheadOK' /\ DigestOK' /\ FrameOK'
      /\ \A n \in Ids : (Unspent(n)' <=> Unspent(n)) /\ Copies(n)' = Copies(n)
  BY <1>0, <1>1, DriverStep
<1>a. /\ \A i \in DOMAIN toHost : toHost[i].id \in Ids
      /\ \A i \in DOMAIN stdin : stdin[i] \in Ids
      /\ \A i \in DOMAIN toDriver : toDriver[i].id \in Ids
  BY Elements DEF MInv
<1>7. LinkOK'
  BY <1>1, <1>2 DEF MInv, LinkOK
<1>9. AccountOK'
  BY <1>1 DEF MInv, AccountOK, Tagged, Tracked, Accounted, Occ
<1>10. AskOK'
  BY <1>1, <1>2, <1>3 DEF MInv, AskOK
<1>11. QuietOK'
  BY <1>2 DEF QuietOK
<1>12. ReplyOK'
  BY <1>1, <1>2, <1>5, <1>a DEF MInv, ReplyOK, NoReply, Nothing
<1>13. TakenOK' /\ CursorOK'
  BY <1>1, <1>2 DEF MInv, TakenOK, CursorOK, NoReply
<1> QED
  BY <1>0, <1>5, <1>7, <1>9, <1>10, <1>11, <1>12, <1>13 DEF MInv

\* What the driver reads in the journal was answered by the agent.
LEMMA PumpStep ==
  ASSUME MInv, Pump
  PROVE  MInv'
<1>0. TypeOK'
  BY TypeDriver DEF MInv
<1>1. /\ UNCHANGED <<harness, box, order, intents, gen, row, host, receipts, stdin, journal, up,
                     busy, ready, toHost, toDriver, executed, repeats, faults>>
      /\ driver' = Read(driver) /\ driver.cursor < Len(journal)
  BY DEF Pump, mailbox, process, daemon, wire, history
<1>b. driver \in Driver /\ journal \in Seq(Entry) /\ driver.cursor \in Nat
  BY DEF MInv, TypeOK, Driver, Entry
<1>2. /\ driver'.conn = driver.conn /\ driver'.asked = driver.asked
      /\ driver'.cursor = driver.cursor + 1
      /\ driver'.replies = driver.replies
      /\ driver'.confirmed = IF journal[driver.cursor + 1].answer = "accepted"
                               THEN driver.confirmed \union {journal[driver.cursor + 1].id}
                               ELSE driver.confirmed \ {journal[driver.cursor + 1].id}
  BY <1>1, <1>b DEF Driver, Read
<1>3. driver.cursor + 1 \in DOMAIN journal /\ Len(journal) \in Nat
  BY <1>1, <1>b, LenProperties
<1>5. /\ OrderOK' /\ BusyOK' /\ IntentOK' /\ CopiesOK'
      /\ AheadOK' /\ DigestOK' /\ FrameOK'
      /\ \A n \in Ids : (Unspent(n)' <=> Unspent(n)) /\ Copies(n)' = Copies(n)
  BY <1>0, <1>1, DriverStep
<1>a. /\ \A i \in DOMAIN toHost : toHost[i].id \in Ids
      /\ \A i \in DOMAIN stdin : stdin[i] \in Ids
      /\ \A i \in DOMAIN toDriver : toDriver[i].id \in Ids
  BY Elements DEF MInv
<1>7. LinkOK'
  BY <1>1, <1>2 DEF MInv, LinkOK
<1>9. AccountOK'
  BY <1>1 DEF MInv, AccountOK, Tagged, Tracked, Accounted, Occ
<1>10. AskOK'
  BY <1>1, <1>2 DEF MInv, AskOK
<1>11. QuietOK'
  BY <1>2, <1>5 DEF MInv, QuietOK
<1>12. ReplyOK'
  BY <1>1, <1>2, <1>5, <1>a DEF MInv, ReplyOK
<1>13. TakenOK'
  BY <1>1, <1>2, <1>3 DEF MInv, TakenOK
<1>14. CursorOK'
  BY <1>1, <1>2, <1>3, <1>b DEF CursorOK
<1> QED
  BY <1>0, <1>5, <1>7, <1>9, <1>10, <1>11, <1>12, <1>13, <1>14 DEF MInv

\* An answer arrives: it is the one to the question that is under way.
LEMMA ReceiveStep ==
  ASSUME MInv, ReceiveReply
  PROVE  MInv'
<1>0. TypeOK'
  BY TypeDriver DEF MInv
<1> DEFINE reply == Head(toDriver)
<1>1. /\ UNCHANGED <<harness, box, order, intents, gen, row, host, receipts, stdin, journal, up,
                     busy, ready, toHost, executed, repeats, faults>>
      /\ toDriver' = Tail(toDriver) /\ toDriver # <<>> /\ driver.conn
      /\ driver' = IF reply.id \in driver.asked
                     THEN [driver EXCEPT !.asked = @ \ {reply.id},
                                         !.replies[reply.id] = [digest |-> reply.digest,
                                                                state |-> reply.state]]
                     ELSE driver
  BY DEF ReceiveReply, mailbox, process, daemon, history
<1>b. driver \in Driver /\ toDriver \in Seq(Answer)
  BY DEF MInv, TypeOK, Answer
<1>2. 1 \in DOMAIN toDriver /\ reply = toDriver[1] /\ reply.id \in Ids
  <2>1. 1 \in DOMAIN toDriver /\ reply = toDriver[1]
    BY <1>1, <1>b, HeadFirst
  <2> HIDE DEF reply
  <2> QED
    BY <2>1, Elements DEF MInv
<1>3. reply.id \in driver.asked
  BY <1>2 DEF MInv, AskOK
<1>4. /\ driver'.conn = driver.conn /\ driver'.asked = driver.asked \ {reply.id}
      /\ driver'.cursor = driver.cursor /\ driver'.confirmed = driver.confirmed
      /\ driver'.replies[reply.id].state = reply.state
      /\ \A n \in Ids \ {reply.id} : driver'.replies[n] = driver.replies[n]
  BY <1>1, <1>2, <1>3, <1>b DEF Driver
<1> HIDE DEF reply
<1>5. \A i \in DOMAIN toDriver' : /\ i \in Nat /\ i > 0 /\ i + 1 \in DOMAIN toDriver
                                  /\ toDriver'[i] = toDriver[i + 1]
  BY <1>1, <1>b, TailAt
<1>6. \A i \in DOMAIN toDriver' : toDriver'[i].id # reply.id
  <2>1. \A j \in DOMAIN toDriver : j > 1 => toDriver[j].id # toDriver[1].id
    BY <1>2 DEF MInv, AskOK
  <2> QED
    BY <1>2, <1>5, <2>1
<1>8. /\ OrderOK' /\ BusyOK' /\ IntentOK' /\ CopiesOK'
      /\ AheadOK' /\ DigestOK' /\ FrameOK'
      /\ \A n \in Ids : (Unspent(n)' <=> Unspent(n)) /\ Copies(n)' = Copies(n)
  BY <1>0, <1>1, DriverStep
<1>a. /\ \A i \in DOMAIN toHost : toHost[i].id \in Ids
      /\ \A i \in DOMAIN stdin : stdin[i] \in Ids
      /\ \A i \in DOMAIN toDriver : toDriver[i].id \in Ids
  BY Elements DEF MInv
<1>10. LinkOK'
  BY <1>1, <1>4 DEF MInv, LinkOK
<1>12. AccountOK'
  BY <1>1 DEF MInv, AccountOK, Tagged, Tracked, Accounted, Occ
<1>13. AskOK'
  <2>1. ASSUME NEW i \in DOMAIN toHost, toHost[i].op = "status"
        PROVE  /\ toHost[i].id \in driver'.asked
               /\ \A j \in DOMAIN toHost : j > i => toHost[j].op = "unanswered"
                                                      \/ toHost[j].id # toHost[i].id
               /\ \A j \in DOMAIN toDriver' : toDriver'[j].id # toHost[i].id
    BY <1>2, <1>4, <1>5, <2>1 DEF MInv, AskOK
  <2>2. \A i \in DOMAIN toDriver' :
          /\ toDriver'[i].id \in driver'.asked
          /\ \A j \in DOMAIN toDriver' : j > i => toDriver'[j].id # toDriver'[i].id
    BY <1>4, <1>5, <1>6 DEF MInv, AskOK
  <2>3. \A n \in Ids : driver'.replies[n] # NoReply => n \notin driver'.asked
    BY <1>4 DEF MInv, AskOK
  <2> QED
    BY <1>1, <2>1, <2>2, <2>3 DEF AskOK
<1>14. QuietOK'
  BY <1>3, <1>4, <1>8 DEF MInv, QuietOK
<1>15. ReplyOK'
  <2>1. \A i \in DOMAIN toDriver' : toDriver'[i].state \in Nothing => Copies(toDriver'[i].id) = 0
    BY <1>5 DEF MInv, ReplyOK
  <2>2. \A n \in Ids : driver'.replies[n].state \in Nothing => Copies(n) = 0
    BY <1>2, <1>4 DEF MInv, ReplyOK
  <2>3. \A i \in DOMAIN toDriver' : toDriver'[i].id \in Ids
    BY <1>5, <1>a
  <2> QED
    BY <1>8, <2>1, <2>2, <2>3 DEF ReplyOK
<1>16. TakenOK'
  BY <1>1, <1>2, <1>4, <1>5 DEF MInv, TakenOK
<1>17. CursorOK'
  BY <1>1, <1>4 DEF MInv, CursorOK
<1> QED
  BY <1>0, <1>8, <1>10, <1>12, <1>13, <1>14, <1>15, <1>16, <1>17 DEF MInv

\* The fields of a driver that has no runtime.
LEMMA NoDriverFields ==
  /\ NoDriver.conn = FALSE /\ NoDriver.asked = {} /\ NoDriver.cursor = 0 /\ NoDriver.confirmed = {}
  /\ \A n \in Ids : NoDriver.replies[n] = NoReply
  /\ NoReply.state = "none"
BY DEF NoDriver, NoReply

\* The exit of the host is observed: it left nothing behind.
LEMMA ObserveStep ==
  ASSUME MInv, ObserveExit
  PROVE  MInv'
<1>0. TypeOK'
  BY TypeDriver DEF MInv
<1>1. /\ UNCHANGED <<harness, box, order, intents, gen, host, receipts, stdin, journal, up,
                     busy, ready, toHost, toDriver, executed, repeats, faults>>
      /\ driver' = NoDriver /\ row' = "stopped" /\ ~host /\ busy.stage = "idle"
  BY BusyShape DEF MInv, ObserveExit, Working, mailbox, process, daemon, wire, history
<1>2. toHost = <<>> /\ stdin = <<>> /\ toDriver = <<>>
  BY <1>1 DEF MInv, LinkOK
<1>3. \A n \in Ids : Copies(n)' = Copies(n) /\ (Unspent(n)' <=> Unspent(n))
  BY <1>1, CopiesKept DEF Unspent
<1>4. OrderOK' /\ BusyOK' /\ IntentOK'
  BY <1>1 DEF MInv, OrderOK, BusyOK, IntentOK
<1>5. CopiesOK'
  BY <1>1, <1>3 DEF MInv, CopiesOK
<1>6. AheadOK'
  BY <1>1 DEF MInv, AheadOK, Ahead, Before, Queued
<1>7. DigestOK' /\ FrameOK'
  BY <1>1 DEF MInv, DigestOK, FrameOK, Tagged
<1>8. LinkOK'
  BY <1>1, <1>2, NoDriverFields DEF MInv, LinkOK
<1>9. AccountOK'
  BY <1>1 DEF MInv, AccountOK, Tagged, Tracked, Accounted, Occ
<1>10. DOMAIN toHost = {} /\ DOMAIN toDriver = {}
  BY <1>2
<1>11. AskOK' /\ QuietOK'
  BY <1>1, <1>10, NoDriverFields DEF AskOK, QuietOK
<1>12. ReplyOK'
  BY <1>1, <1>10, NoDriverFields DEF ReplyOK, Nothing
<1>13. TakenOK'
  BY <1>1, NoDriverFields DEF MInv, TakenOK
<1>14. CursorOK'
  <2>1. Len(journal) \in Nat
    BY LenProperties DEF MInv, TypeOK
  <2> QED
    BY <1>1, <2>1, NoDriverFields DEF CursorOK
<1> QED
  BY <1>0, <1>4, <1>5, <1>6, <1>7, <1>8, <1>9, <1>11, <1>12, <1>13, <1>14 DEF MInv

\* A new generation has a host without receipts; what it may be sent has no
\* copy, and the intents are of earlier generations.
LEMMA ReviveStep ==
  ASSUME MInv, Revive
  PROVE  MInv'
<1>0. TypeOK'
  BY TypeDriver DEF MInv
<1>1. /\ UNCHANGED <<harness, box, order, intents, up, busy, ready, toHost, toDriver,
                     executed, repeats, faults>>
      /\ driver' = [NoDriver EXCEPT !.known = TRUE] /\ row = "stopped" /\ row' = "live"
      /\ host' = TRUE /\ gen' = gen + 1 /\ receipts' = NoReceipts
      /\ stdin' = <<>> /\ journal' = <<>> /\ busy.stage = "idle" /\ up
  BY BusyShape DEF MInv, Revive, Working, mailbox, daemon, wire, history
<1>2. ~host /\ toHost = <<>> /\ stdin = <<>> /\ toDriver = <<>>
  BY <1>1 DEF MInv, LinkOK
<1>3. \A n \in Ids : Copies(n)' = Copies(n) /\ (Unspent(n)' <=> Unspent(n))
  BY <1>1, <1>2, CopiesKept DEF Unspent
<1>4. /\ driver'.conn = FALSE /\ driver'.asked = {} /\ driver'.cursor = 0 /\ driver'.confirmed = {}
      /\ \A n \in Ids : driver'.replies[n] = NoReply
  BY <1>1, NoDriverFields, ValueTypes DEF Driver
<1>5. gen \in Nat /\ \A n \in Ids : intents[n].gen \in Int /\ intents[n].gen <= gen
  BY BoundsAssumption DEF MInv, TypeOK, Intent, IntentOK
<1>6. OrderOK' /\ BusyOK' /\ IntentOK'
  <2>1. OrderOK' /\ BusyOK'
    BY <1>1 DEF MInv, OrderOK, BusyOK
  <2>2. \A n \in Ids : intents[n].gen <= gen + 1
    BY <1>5
  <2>3. IntentOK'
    BY <1>1, <2>2 DEF MInv, IntentOK
  <2> QED
    BY <2>1, <2>3
<1>7. CopiesOK'
  BY <1>1, <1>3 DEF MInv, CopiesOK
<1>10. DOMAIN toHost = {} /\ DOMAIN toDriver = {} /\ DOMAIN stdin = {} /\ DOMAIN journal' = {}
  BY <1>1, <1>2
<1>8. AheadOK'
  BY <1>1, <1>2 DEF MInv, AheadOK, Ahead, Before, Queued
<1>9. DigestOK' /\ FrameOK'
  BY <1>1 DEF MInv, DigestOK, FrameOK, Tagged
<1>11. LinkOK'
  BY <1>1, <1>2, <1>4 DEF MInv, LinkOK
<1>12. AccountOK'
  <2>1. ASSUME Tagged, NEW n \in Ids, Tracked(n)' PROVE Accounted(n)'
    <3>1. box[n] \in {"none", "queued"} /\ intents[n].state = "none"
      BY <1>1, <1>5, <1>10, <2>1 DEF Tracked
    <3>2. Unspent(n)
      BY <1>1, <3>1, BusyShape DEF MInv, Unspent
    <3>3. Copies(n) <= 0
      BY <2>1, <3>2 DEF MInv, CopiesOK, IntentOK, Tagged
    <3>4. executed[n] + Occ(stdin, {n}) = 0
      BY <3>3, CopiesType DEF MInv, Copies
    <3> QED
      BY <1>1, <1>2, <3>4 DEF Accounted, Occ
  <2> QED
    BY <1>1, <2>1 DEF AccountOK, Tagged
<1>13. AskOK' /\ QuietOK'
  BY <1>1, <1>4, <1>10 DEF AskOK, QuietOK
<1>14. ReplyOK'
  BY <1>1, <1>4, <1>10, NoDriverFields DEF ReplyOK, Nothing
<1>15. TakenOK'
  <2>1. \A n \in Ids : receipts'.of[n].state = "none"
    BY <1>1 DEF NoReceipts, NoReceipt
  <2> QED
    BY <1>1, <1>4, <1>10, <2>1, NoDriverFields DEF MInv, TakenOK
<1>16. CursorOK'
  BY <1>1, <1>4 DEF CursorOK
<1> QED
  BY <1>0, <1>6, <1>7, <1>8, <1>9, <1>11, <1>12, <1>13, <1>14, <1>15, <1>16 DEF MInv

-----------------------------------------------------------------------------
(* The runner host and the agent *)

\* When receipts that tell of every copy allow another, there is none.
LEMMA StatusTrue ==
  ASSUME TypeOK, NEW m \in Ids, NEW digest, Accounted(m)
  PROVE  /\ Status(receipts, m, digest) \in Nothing => executed[m] + Occ(stdin, {m}) = 0
         /\ Status(receipts, m, digest) = "accepted" => receipts.of[m].state = "accepted"
<1>1. receipts.of[m].state \in ReceiptStates /\ receipts.retired \in Nat /\ m \in Nat
  BY ValueTypes DEF TypeOK, Receipts
<1>2. executed[m] + Occ(stdin, {m}) \in Nat
  <2>1. executed[m] \in Nat /\ Occ(stdin, {m}) \in Nat
    BY CopiesType
  <2> QED
    BY <2>1
<1>3. Status(receipts, m, digest) \in Nothing =>
        \/ receipts.of[m].state = "refused"
        \/ receipts.of[m].state = "none" /\ ~(m <= receipts.retired)
  BY <1>1 DEF Status, Nothing, ReceiptStates
<1>4. Status(receipts, m, digest) = "accepted" => receipts.of[m].state = "accepted"
  BY <1>1 DEF Status, ReceiptStates
<1> QED
  BY <1>2, <1>3, <1>4 DEF Accounted

\* What a frame less, and a line more for the agent, does to the copies.
LEMMA CopiesRead ==
  ASSUME TypeOK, TypeOK', toHost # <<>>, toHost' = Tail(toHost), UNCHANGED executed,
         \/ stdin' = stdin
         \/ stdin' = Append(stdin, Head(toHost).id) /\ Head(toHost).op \in {"write", "tagged"},
         NEW n \in Ids
  PROVE  Copies(n)' <= Copies(n)
<1>1. /\ toHost \in Seq(Frame) /\ stdin \in Seq(Ids) /\ Head(toHost) \in Frame
      /\ Head(toHost).id \in Ids
  <2>1. toHost \in Seq(Frame) /\ stdin \in Seq(Ids)
    BY DEF TypeOK
  <2>2. Head(toHost) \in Frame
    BY <2>1, HeadTailProperties
  <2> QED
    BY <2>1, <2>2 DEF Frame
<1>2. Occ(toHost, Writes(n)) = Occ(toHost', Writes(n)) + (IF Head(toHost) \in Writes(n) THEN 1 ELSE 0)
  BY <1>1, OccTail
<1>3. /\ executed'[n] \in Nat /\ Occ(stdin', {n}) \in Nat /\ Occ(toHost', Writes(n)) \in Nat
      /\ Copies(n)' = executed'[n] + Occ(stdin', {n}) + Occ(toHost', Writes(n))
      /\ executed[n] \in Nat /\ Occ(stdin, {n}) \in Nat /\ Occ(toHost, Writes(n)) \in Nat
      /\ Copies(n) = executed[n] + Occ(stdin, {n}) + Occ(toHost, Writes(n))
  BY CopiesType, CopiesTypeNext DEF Copies
<1>4. CASE stdin' = stdin
  BY <1>2, <1>3, <1>4
<1>5. CASE stdin' = Append(stdin, Head(toHost).id) /\ Head(toHost).op \in {"write", "tagged"}
  <2>1. Occ(stdin', {n}) = Occ(stdin, {n}) + (IF Head(toHost).id \in {n} THEN 1 ELSE 0)
    BY <1>1, <1>5, OccAppend
  <2>2. Head(toHost) \in Writes(n) <=> Head(toHost).id = n
    BY <1>1, <1>5 DEF Writes
  <2> QED
    BY <1>2, <1>3, <1>5, <2>1, <2>2
<1> QED
  BY <1>4, <1>5

\* The host reads a frame: it writes a line, answers, or does nothing.
LEMMA HostReadStep ==
  ASSUME MInv, HostRead
  PROVE  MInv'
<1>0. TypeOK'
  BY TypeHost DEF MInv
<1> DEFINE f == Head(toHost)
           s == Status(receipts, f.id, f.digest)
           a == [id |-> f.id, digest |-> f.digest, state |-> s]
           written == \/ f.op = "write"
                      \/ f.op = "tagged" /\ MayBegin(receipts, f.id, f.digest)
<1>1. /\ UNCHANGED <<harness, box, order, intents, gen, row, host, journal, up, busy, ready, driver,
                     executed, repeats, faults>>
      /\ host /\ toHost # <<>> /\ toHost' = Tail(toHost)
      /\ toDriver' = IF f.op = "status" /\ driver.conn THEN Append(toDriver, a) ELSE toDriver
      /\ receipts' = IF written /\ f.op = "tagged" THEN Begin(receipts, f.id, f.digest) ELSE receipts
      /\ stdin' = IF written THEN Append(stdin, f.id) ELSE stdin
  BY DEF HostRead, mailbox, daemon, history
<1>b. /\ toHost \in Seq(Frame) /\ stdin \in Seq(Ids) /\ toDriver \in Seq(Answer)
      /\ receipts \in Receipts
  BY DEF MInv, TypeOK, Answer
<1>2. 1 \in DOMAIN toHost /\ f = toHost[1] /\ f \in Frame
  BY <1>1, <1>b, HeadFirst
<1>3. f.id \in Ids /\ a.id = f.id /\ a.state = s
  BY <1>2 DEF Frame
<1>4. written => f.op \in {"write", "tagged"}
  OBVIOUS
<1>5. \A i \in DOMAIN toHost' : /\ i \in Nat /\ i > 0 /\ i + 1 \in DOMAIN toHost
                                /\ toHost'[i] = toHost[i + 1]
  BY <1>1, <1>b, TailAt
<1> HIDE DEF a, s, written
<1>6. \A n \in Ids : Copies(n)' <= Copies(n)
  BY <1>0, <1>1, <1>4, CopiesRead DEF MInv
<1> HIDE DEF f
<1>7. /\ OrderOK' /\ BusyOK' /\ IntentOK' /\ CopiesOK'
      /\ \A n \in Ids : (Unspent(n)' <=> Unspent(n)) /\ (Ahead(n)' <=> Ahead(n))
  BY <1>0, <1>1, <1>6, WireStep
<1>8. DigestOK' /\ FrameOK'
  BY <1>1, <1>5 DEF MInv, DigestOK, FrameOK, Tagged
<1>9. LinkOK'
  BY <1>1 DEF MInv, LinkOK
<1>c. /\ \A i \in DOMAIN toHost : toHost[i].id \in Ids
      /\ \A i \in DOMAIN stdin : stdin[i] \in Ids
      /\ \A i \in DOMAIN toDriver : toDriver[i].id \in Ids
  BY Elements DEF MInv
<1>d. \A i \in DOMAIN stdin' : (i \in DOMAIN stdin /\ stdin'[i] = stdin[i]) \/ (written /\ stdin'[i] = f.id)
  <2>1. CASE written
    BY <1>1, <1>3, <1>b, <2>1, AppendAt
  <2>2. CASE ~written
    BY <1>1, <2>2
  <2> QED
    BY <2>1, <2>2
<1>10. AheadOK'
  <2>1. busy.stage # "idle" => busy.id \in Ids
    BY DEF MInv, BusyOK
  <2>2. \A i \in DOMAIN toHost' : toHost'[i].op \in {"write", "tagged"} => Ahead(toHost[i].id)'
    BY <1>5, <1>7, <1>c DEF MInv, AheadOK
  <2>3. written => Ahead(f.id)
    BY <1>2, <1>4 DEF MInv, AheadOK
  <2>4. \A i \in DOMAIN stdin' : Ahead(stdin[i])'
    BY <1>3, <1>7, <1>c, <1>d, <2>3 DEF MInv, AheadOK
  <2> QED
    BY <1>1, <1>7, <2>1, <2>2, <2>4 DEF MInv, AheadOK
<1>11. AccountOK'
  <2>1. ASSUME Tagged, NEW n \in Ids, Tracked(n)' PROVE Accounted(n)'
    <3>1. Tracked(n)
      BY <1>1, <1>5, <2>1 DEF Tracked
    <3>2. Accounted(n)
      BY <2>1, <3>1 DEF MInv, AccountOK
    <3>3. f.op # "write"
      BY <1>2, <2>1 DEF MInv, FrameOK
    <3>4. CASE written /\ n = f.id
      <4>1. receipts' = Begin(receipts, f.id, f.digest)
        BY <1>1, <1>4, <3>3, <3>4
      <4>2. receipts'.of[n].state = "written"
        BY <1>3, <1>b, <3>4, <4>1 DEF Begin, Receipts
      <4> QED
        BY <4>2 DEF Accounted
    <3>5. CASE written /\ n # f.id
      <4>1. receipts' = Begin(receipts, f.id, f.digest)
        BY <1>1, <1>4, <3>3, <3>5
      <4>2. receipts'.of[n] = receipts.of[n] /\ receipts'.retired = receipts.retired
        BY <1>3, <1>b, <3>5, <4>1 DEF Begin, Receipts
      <4>3. Occ(stdin', {n}) = Occ(stdin, {n}) + (IF f.id \in {n} THEN 1 ELSE 0)
        BY <1>1, <1>3, <1>b, <3>5, OccAppend
      <4>4. Occ(stdin', {n}) = Occ(stdin, {n})
        <5>1. Occ(stdin, {n}) \in Nat
          BY CopiesType DEF MInv
        <5> QED
          BY <3>5, <4>3, <5>1
      <4>5. Accounted(n)' <=> (executed'[n] + Occ(stdin', {n}) > 0 =>
                                 \/ receipts'.of[n].state \in {"written", "accepted"}
                                 \/ receipts'.of[n].state = "none" /\ n <= receipts'.retired)
        BY DEF Accounted, Occ
      <4> QED
        BY <1>1, <3>2, <4>2, <4>4, <4>5 DEF Accounted
    <3>6. CASE ~written
      BY <1>1, <3>2, <3>6 DEF Accounted, Occ
    <3> QED
      BY <3>4, <3>5, <3>6
  <2> QED
    BY <1>1, <2>1 DEF AccountOK, Tagged
<1>12. f.op = "status" =>
         /\ f.id \in driver.asked /\ driver.conn /\ Tagged /\ Accounted(f.id)
         /\ toDriver' = Append(toDriver, a)
         /\ \A j \in DOMAIN toHost : j > 1 => toHost[j].op = "unanswered" \/ toHost[j].id # f.id
         /\ \A j \in DOMAIN toDriver : toDriver[j].id # f.id
  <2> SUFFICES ASSUME f.op = "status"
               PROVE  /\ f.id \in driver.asked /\ driver.conn /\ Tagged /\ Accounted(f.id)
                      /\ toDriver' = Append(toDriver, a)
                      /\ \A j \in DOMAIN toHost : j > 1 => toHost[j].op = "unanswered"
                                                             \/ toHost[j].id # f.id
                      /\ \A j \in DOMAIN toDriver : toDriver[j].id # f.id
    OBVIOUS
  <2>1. /\ f.id \in driver.asked
        /\ \A j \in DOMAIN toHost : j > 1 => toHost[j].op = "unanswered" \/ toHost[j].id # f.id
        /\ \A j \in DOMAIN toDriver : toDriver[j].id # f.id
    BY <1>2 DEF MInv, AskOK
  <2>2. driver.conn
    BY <2>1 DEF MInv, LinkOK
  <2>3. Tagged
    BY <1>2 DEF MInv, FrameOK
  <2>4. Tracked(f.id)
    BY <1>2 DEF Tracked
  <2>5. Accounted(f.id)
    BY <1>3, <2>3, <2>4 DEF MInv, AccountOK
  <2> QED
    BY <1>1, <2>1, <2>2, <2>3, <2>5
<1>13. f.op # "status" => toDriver' = toDriver
  BY <1>1
<1>14. \A i \in DOMAIN toDriver' :
         \/ i \in DOMAIN toDriver /\ toDriver'[i] = toDriver[i]
         \/ f.op = "status" /\ i = Len(toDriver) + 1 /\ toDriver'[i] = a
  <2>1. CASE f.op = "status"
    <3>1. a \in Answer
      <4>1. s \in {"not_written", "written", "accepted", "refused", "unknown"}
        BY <1>2, <1>3, <1>b, ReceiptTypes DEF s, Frame
      <4>2. f.digest \in Encodings
        BY <1>2, <2>1 DEF MInv, DigestOK
      <4> QED
        BY <1>3, <4>1, <4>2 DEF a, Answer
    <3> QED
      BY <1>12, <1>b, <2>1, <3>1, AppendAt
  <2>2. CASE f.op # "status"
    BY <1>13, <2>2
  <2> QED
    BY <2>1, <2>2
<1>15. AskOK'
  <2>0. \A i \in DOMAIN toDriver : i \in Nat /\ i <= Len(toDriver)
    BY <1>b, LenProperties
  <2>1. ASSUME NEW i \in DOMAIN toHost', toHost'[i].op = "status"
        PROVE  /\ toHost'[i].id \in driver.asked
               /\ \A j \in DOMAIN toHost' : j > i => toHost'[j].op = "unanswered"
                                                       \/ toHost'[j].id # toHost'[i].id
    BY <1>5, <2>1 DEF MInv, AskOK
  <2>2. ASSUME NEW i \in DOMAIN toHost', toHost'[i].op = "status", NEW j \in DOMAIN toDriver'
        PROVE  toDriver'[j].id # toHost'[i].id
    <3>1. \A k \in DOMAIN toDriver : toDriver[k].id # toHost'[i].id
      BY <1>5, <2>2 DEF MInv, AskOK
    <3>2. f.op = "status" => toHost'[i].id # f.id
      BY <1>5, <1>12, <2>2
    <3> QED
      BY <1>3, <1>14, <3>1, <3>2
  <2>3. ASSUME NEW i \in DOMAIN toDriver'
        PROVE  /\ toDriver'[i].id \in driver.asked
               /\ \A j \in DOMAIN toDriver' : j > i => toDriver'[j].id # toDriver'[i].id
    <3>1. CASE i \in DOMAIN toDriver /\ toDriver'[i] = toDriver[i]
      BY <1>3, <1>12, <1>14, <3>1 DEF MInv, AskOK
    <3>2. CASE f.op = "status" /\ i = Len(toDriver) + 1 /\ toDriver'[i] = a
      <4>1. \A j \in DOMAIN toDriver' : ~(j > i)
        BY <1>14, <1>b, <2>0, <3>2, LenProperties
      <4> QED
        BY <1>3, <1>12, <3>2, <4>1
    <3> QED
      BY <1>14, <3>1, <3>2
  <2>4. \A n \in Ids : driver.replies[n] # NoReply => n \notin driver.asked
    BY DEF MInv, AskOK
  <2> QED
    BY <1>1, <2>1, <2>2, <2>3, <2>4 DEF AskOK
<1>16. QuietOK'
  BY <1>1, <1>7 DEF MInv, QuietOK
<1>17. ReplyOK'
  <2>0. \A n \in Ids : Copies(n) \in Nat /\ Copies(n)' \in Nat
    BY <1>0, CopiesType, CopiesTypeNext DEF MInv
  <2>1. \A n \in Ids : Copies(n) = 0 => Copies(n)' = 0
    BY <1>6, <2>0
  <2>x. PICK x \in Ids : x = f.id
    BY <1>3
  <2>2. f.op = "status" /\ s \in Nothing => Copies(x)' = 0
    <3> SUFFICES ASSUME f.op = "status", s \in Nothing PROVE Copies(x)' = 0
      OBVIOUS
    <3>1. executed[x] + Occ(stdin, {x}) = 0
      BY <1>3, <1>12, <2>x, StatusTrue DEF s, MInv
    <3>2. \A i \in DOMAIN toHost' : toHost'[i] \notin Writes(x)
      BY <1>5, <1>12, <2>x DEF Writes
    <3>3. Occ(toHost', Writes(x)) = 0
      <4>1. toHost' \in Seq(Frame)
        BY <1>0 DEF TypeOK
      <4> QED
        BY <3>2, <4>1, OccZero
    <3>4. stdin' = stdin /\ executed' = executed
      BY <1>1, <1>4
    <3>5. Copies(x)' = executed'[x] + Occ(stdin', {x}) + Occ(toHost', Writes(x))
      BY <1>0, CopiesTypeNext
    <3> QED
      BY <3>1, <3>3, <3>4, <3>5
  <2>3. ASSUME NEW i \in DOMAIN toDriver', toDriver'[i].state \in Nothing
        PROVE  Copies(toDriver[i].id)' = 0
    <3>1. CASE i \in DOMAIN toDriver /\ toDriver'[i] = toDriver[i]
      BY <1>c, <2>1, <2>3, <3>1 DEF MInv, ReplyOK
    <3>2. CASE f.op = "status" /\ toDriver'[i] = a
      <4>1. toDriver'[i].id = x /\ s \in Nothing
        BY <1>3, <2>x, <2>3, <3>2
      <4>2. Copies(x)' = 0
        BY <2>2, <3>2, <4>1
      <4> QED
        BY <4>1, <4>2
    <3> QED
      BY <1>14, <3>1, <3>2
  <2>4. \A n \in Ids : driver'.replies[n].state \in Nothing => Copies(n)' = 0
    BY <1>1, <2>1 DEF MInv, ReplyOK
  <2> QED
    BY <2>3, <2>4 DEF ReplyOK
<1>18. TakenOK'
  <2> SUFFICES ASSUME harness.confirms PROVE TakenOK'
    BY <1>1 DEF TakenOK
  <2>1. f.op = "status" /\ s = "accepted" => executed[f.id] > 0
    BY <1>3, <1>12, StatusTrue DEF s, MInv, TakenOK
  <2>2. \A n \in Ids : receipts'.of[n].state = "accepted" => receipts.of[n].state = "accepted"
    <3>1. \A n \in Ids : Begin(receipts, f.id, f.digest).of[n].state
                           = IF n = f.id THEN "written" ELSE receipts.of[n].state
      BY <1>3, <1>b DEF Begin, Receipts
    <3> QED
      BY <1>1, <3>1
  <2>3. \A i \in DOMAIN toDriver' : toDriver'[i].state = "accepted" => executed[toDriver'[i].id] > 0
    BY <1>3, <1>14, <2>1 DEF MInv, TakenOK
  <2> QED
    BY <1>1, <2>2, <2>3 DEF MInv, TakenOK
<1>19. CursorOK'
  BY <1>1 DEF MInv, CursorOK
<1> QED
  BY <1>0, <1>7, <1>8, <1>9, <1>10, <1>11, <1>15, <1>16, <1>17, <1>18, <1>19 DEF MInv

\* A step of the host or of the agent, in general.
LEMMA AgentStep ==
  ASSUME MInv, TypeOK', host,
         UNCHANGED <<harness, box, order, intents, gen, row, host, up, busy, ready, driver,
                     toHost, toDriver, repeats>>,
         \A n \in Ids : Copies(n)' <= Copies(n),
         \A n \in Ids : executed'[n] >= executed[n],
         \A i \in DOMAIN stdin' : \E j \in DOMAIN stdin : stdin'[i] = stdin[j],
         Len(journal') >= Len(journal),
         Tagged => \A n \in Ids : Accounted(n) => Accounted(n)',
         harness.confirms =>
           /\ \A n \in Ids : receipts'.of[n].state = "accepted" =>
                               receipts.of[n].state = "accepted" \/ executed'[n] > 0
           /\ \A i \in DOMAIN journal' :
                journal'[i].answer = "accepted" => executed'[journal'[i].id] > 0
  PROVE  MInv'
<1>1. /\ OrderOK' /\ BusyOK' /\ IntentOK' /\ CopiesOK'
      /\ \A n \in Ids : (Unspent(n)' <=> Unspent(n)) /\ (Ahead(n)' <=> Ahead(n))
  BY WireStep
<1>2. DigestOK' /\ FrameOK' /\ LinkOK' /\ AskOK'
  BY DEF MInv, DigestOK, FrameOK, Tagged, LinkOK, AskOK
<1>3. /\ \A i \in DOMAIN toHost : toHost[i].id \in Ids
      /\ \A i \in DOMAIN stdin : stdin[i] \in Ids
      /\ \A i \in DOMAIN toDriver : toDriver[i].id \in Ids
  BY Elements DEF MInv
<1>4. AheadOK'
  <2>1. busy.stage # "idle" => busy.id \in Ids
    BY DEF MInv, BusyOK
  <2>2. \A i \in DOMAIN stdin' : Ahead(stdin[i])'
    <3>1. ASSUME NEW i \in DOMAIN stdin' PROVE Ahead(stdin[i])'
      <4>1. PICK j \in DOMAIN stdin : stdin'[i] = stdin[j]
        OBVIOUS
      <4>2. PICK x \in Ids : x = stdin[j]
        BY <1>3
      <4>3. Ahead(x)
        BY <4>2 DEF MInv, AheadOK
      <4>4. Ahead(x)'
        BY <1>1, <4>3
      <4> QED
        BY <4>1, <4>2, <4>4
    <3> QED
      BY <3>1
  <2> QED
    BY <1>1, <1>3, <2>1, <2>2 DEF MInv, AheadOK
<1>5. AccountOK'
  BY DEF MInv, AccountOK, Tagged, Tracked
<1>6. QuietOK'
  BY <1>1 DEF MInv, QuietOK
<1>7. ReplyOK'
  <2>1. \A n \in Ids : Copies(n) \in Nat /\ Copies(n)' \in Nat
    BY CopiesType, CopiesTypeNext DEF MInv
  <2>2. \A n \in Ids : Copies(n) = 0 => Copies(n)' = 0
    BY <2>1
  <2> QED
    BY <1>3, <2>2 DEF MInv, ReplyOK
<1>8. TakenOK'
  <2> SUFFICES ASSUME harness.confirms PROVE TakenOK'
    BY DEF TakenOK
  <2>1. \A n \in Ids : executed[n] \in Nat /\ executed'[n] \in Nat
    BY DEF MInv, TypeOK
  <2>2. \A n \in Ids : executed[n] > 0 => executed'[n] > 0
    BY <2>1
  <2>3. busy.stage = "mark" => executed'[busy.id] > 0
    BY <2>2 DEF MInv, TakenOK, BusyOK
  <2>4. \A n \in Ids :
          \/ executed'[n] > 0
          \/ /\ box[n] # "delivered" /\ n \notin driver.confirmed
             /\ driver.replies[n].state # "accepted" /\ receipts'.of[n].state # "accepted"
    BY <2>2 DEF MInv, TakenOK
  <2>5. \A i \in DOMAIN toDriver : toDriver[i].state = "accepted" => executed'[toDriver[i].id] > 0
    BY <1>3, <2>2 DEF MInv, TakenOK
  <2> QED
    BY <2>3, <2>4, <2>5 DEF TakenOK
<1>9. CursorOK'
  <2>1. Len(journal) \in Nat /\ Len(journal') \in Nat /\ driver.cursor \in Nat
    BY LenProperties DEF MInv, TypeOK, Driver
  <2> QED
    BY <2>1 DEF MInv, CursorOK
<1> QED
  BY <1>1, <1>2, <1>4, <1>5, <1>6, <1>7, <1>8, <1>9 DEF MInv

\* A receipt is pruned, and its id is remembered as retired.
LEMMA PruneStep ==
  ASSUME MInv, NEW m \in Ids, PruneReceipt(m)
  PROVE  MInv'
<1>0. TypeOK'
  BY TypeHost DEF MInv
<1>1. /\ UNCHANGED <<harness, box, order, intents, gen, row, host, stdin, journal, up, busy, ready,
                     driver, toHost, toDriver, executed, repeats>>
      /\ host /\ receipts' = Prune(receipts, m)
  BY DEF PruneReceipt, mailbox, daemon, wire, history
<1>2. receipts \in Receipts /\ Ids \subseteq Nat /\ receipts.retired \in Nat
  BY ValueTypes DEF MInv, TypeOK, Receipts
<1>3. /\ receipts'.of[m].state = "none" /\ m <= receipts'.retired
      /\ \A n \in Ids \ {m} : receipts'.of[n] = receipts.of[n]
      /\ receipts'.retired \in Nat /\ receipts.retired <= receipts'.retired
  BY <1>1, <1>2 DEF Prune, Receipts, NoReceipt
<1>4. \A n \in Ids : Copies(n)' <= Copies(n)
  <2>1. \A n \in Ids : Copies(n)' = Copies(n) /\ Copies(n) \in Nat
    BY <1>1, CopiesKept, CopiesType DEF MInv
  <2> QED
    BY <2>1
<1>5. \A n \in Ids : executed'[n] >= executed[n]
  <2>1. \A n \in Ids : executed[n] \in Nat
    BY CopiesType DEF MInv
  <2> QED
    BY <1>1, <2>1
<1>6. Len(journal') >= Len(journal)
  BY <1>1, LenProperties DEF MInv, TypeOK
<1>7. \A n \in Ids : Accounted(n) => Accounted(n)'
  <2>1. ASSUME NEW n \in Ids, Accounted(n) PROVE Accounted(n)'
    <3>1. CASE n = m
      BY <1>3, <3>1 DEF Accounted
    <3>2. CASE n # m
      <4>1. receipts'.of[n] = receipts.of[n] /\ (n <= receipts.retired => n <= receipts'.retired)
        BY <1>2, <1>3, <3>2
      <4> QED
        BY <1>1, <2>1, <4>1 DEF Accounted, Occ
    <3> QED
      BY <3>1, <3>2
  <2> QED
    BY <2>1
<1>8. \A n \in Ids : receipts'.of[n].state = "accepted" => receipts.of[n].state = "accepted"
  BY <1>3
<1>9. harness.confirms => \A i \in DOMAIN journal' :
        journal'[i].answer = "accepted" => executed'[journal'[i].id] > 0
  BY <1>1 DEF MInv, TakenOK
<1>10. \A i \in DOMAIN stdin' : \E j \in DOMAIN stdin : stdin'[i] = stdin[j]
  BY <1>1
<1> QED
  BY <1>0, <1>1, <1>4, <1>5, <1>6, <1>7, <1>8, <1>9, <1>10, AgentStep

\* An answer of the agent changes the receipt of its message alone.
LEMMA ObserveAt ==
  ASSUME NEW r \in Receipts, NEW m \in Ids, NEW a \in {"accepted", "refused"}
  PROVE  /\ Observe(r, m, a).retired = r.retired
         /\ \A n \in Ids \ {m} : Observe(r, m, a).of[n] = r.of[n]
         /\ Observe(r, m, a).of[m].state =
              IF r.of[m].state = "written" THEN a ELSE r.of[m].state
BY DEF Observe, Receipts

\* The agent takes a message: one copy less in its input, one more taken.
LEMMA AcceptStep ==
  ASSUME MInv, AgentAccept
  PROVE  MInv'
<1>0. TypeOK'
  BY TypeHost DEF MInv
<1>b. /\ stdin \in Seq(Ids) /\ receipts \in Receipts /\ journal \in Seq(Entry)
      /\ executed \in [Ids -> Nat]
  BY DEF MInv, TypeOK, Entry
<1>1. stdin # <<>> /\ host
  BY DEF AgentAccept
<1>2. PICK m \in Ids : m = Head(stdin)
  BY <1>1, <1>b, HeadTailProperties
<1>3. /\ UNCHANGED <<harness, box, order, intents, gen, row, host, up, busy, ready, driver,
                     toHost, toDriver, repeats>>
      /\ executed' = [executed EXCEPT ![m] = @ + 1]
      /\ receipts' = Observe(receipts, m, "accepted")
      /\ stdin' = Tail(stdin)
      /\ \/ journal' = journal
         \/ journal' = Append(journal, [id |-> m, answer |-> "accepted"])
  BY <1>2 DEF AgentAccept, mailbox, daemon, wire
<1>4. /\ receipts'.retired = receipts.retired
      /\ \A n \in Ids \ {m} : receipts'.of[n] = receipts.of[n]
      /\ receipts'.of[m].state = IF receipts.of[m].state = "written" THEN "accepted"
                                                                     ELSE receipts.of[m].state
  BY <1>3, <1>b, ObserveAt
<1>5. \A n \in Ids : executed'[n] = executed[n] + (IF n = m THEN 1 ELSE 0)
  BY <1>3, <1>b
<1>6. \A n \in Ids : executed'[n] >= executed[n] /\ (executed[n] > 0 => executed'[n] > 0)
  BY <1>5, <1>b
<1>7. executed'[m] > 0
  BY <1>5, <1>b
<1>8. \A n \in Ids : /\ Occ(stdin, {n}) = Occ(stdin', {n}) + (IF n = m THEN 1 ELSE 0)
                     /\ executed'[n] + Occ(stdin', {n}) = executed[n] + Occ(stdin, {n})
  <2>1. ASSUME NEW n \in Ids
        PROVE  /\ Occ(stdin, {n}) = Occ(stdin', {n}) + (IF n = m THEN 1 ELSE 0)
               /\ executed'[n] + Occ(stdin', {n}) = executed[n] + Occ(stdin, {n})
    <3>1. Occ(stdin, {n}) = Occ(Tail(stdin), {n}) + (IF Head(stdin) \in {n} THEN 1 ELSE 0)
      BY <1>1, <1>b, OccTail
    <3>2. Occ(stdin, {n}) \in Nat /\ Occ(stdin', {n}) \in Nat /\ executed[n] \in Nat
      BY <1>0, CopiesType, CopiesTypeNext DEF MInv
    <3>3. Occ(stdin, {n}) = Occ(stdin', {n}) + (IF n = m THEN 1 ELSE 0)
      BY <1>2, <1>3, <3>1
    <3> QED
      BY <1>5, <3>2, <3>3
  <2> QED
    BY <2>1
<1>9. \A n \in Ids : Copies(n)' <= Copies(n)
  <2>1. ASSUME NEW n \in Ids PROVE Copies(n)' <= Copies(n)
    <3>1. Copies(n)' = executed'[n] + Occ(stdin', {n}) + Occ(toHost', Writes(n)) /\ Copies(n)' \in Nat
      BY <1>0, CopiesTypeNext
    <3>2. Copies(n) = executed[n] + Occ(stdin, {n}) + Occ(toHost, Writes(n))
      BY DEF Copies
    <3>3. Copies(n)' = Copies(n)
      BY <1>3, <1>8, <3>1, <3>2
    <3> QED
      BY <3>1, <3>3
  <2> QED
    BY <2>1
<1>10. \A n \in Ids : Accounted(n) => Accounted(n)'
  <2>1. ASSUME NEW n \in Ids, Accounted(n) PROVE Accounted(n)'
    <3>1. Accounted(n)' <=> (executed'[n] + Occ(stdin', {n}) > 0 =>
                               \/ receipts'.of[n].state \in {"written", "accepted"}
                               \/ receipts'.of[n].state = "none" /\ n <= receipts'.retired)
      BY DEF Accounted, Occ
    <3>2. \/ receipts'.of[n].state = receipts.of[n].state
          \/ receipts.of[n].state = "written" /\ receipts'.of[n].state = "accepted"
      BY <1>4
    <3> QED
      BY <1>4, <1>8, <2>1, <3>1, <3>2 DEF Accounted
  <2> QED
    BY <2>1
<1>11. \A n \in Ids : receipts'.of[n].state = "accepted" =>
                        receipts.of[n].state = "accepted" \/ executed'[n] > 0
  BY <1>4, <1>7
<1>12. [id |-> m, answer |-> "accepted"] \in Entry
  BY DEF Entry
<1>13. Len(journal') >= Len(journal)
  <2>1. Len(journal) \in Nat
    BY <1>b, LenProperties
  <2>2. Len(journal') \in {Len(journal), Len(journal) + 1}
    BY <1>3, <1>b, <1>12, AppendProperties
  <2> QED
    BY <2>1, <2>2
<1>14. harness.confirms => \A i \in DOMAIN journal' :
         journal'[i].answer = "accepted" => executed'[journal'[i].id] > 0
  <2>1. ASSUME harness.confirms, NEW i \in DOMAIN journal, journal[i].answer = "accepted"
        PROVE  executed'[journal[i].id] > 0
    <3>1. journal[i].id \in Ids
      BY <2>1, Elements DEF MInv
    <3> QED
      BY <1>6, <2>1, <3>1 DEF MInv, TakenOK
  <2>2. CASE journal' = journal
    BY <2>1, <2>2
  <2>3. CASE journal' = Append(journal, [id |-> m, answer |-> "accepted"])
    <3>1. \A i \in DOMAIN journal' : \/ i \in DOMAIN journal /\ journal'[i] = journal[i]
                                     \/ journal'[i] = [id |-> m, answer |-> "accepted"]
      BY <1>b, <1>12, <2>3, AppendAt
    <3>2. [id |-> m, answer |-> "accepted"].id = m
      OBVIOUS
    <3> QED
      BY <1>7, <2>1, <3>1, <3>2
  <2> QED
    BY <1>3, <2>2, <2>3
<1>15. \A i \in DOMAIN stdin' : \E j \in DOMAIN stdin : stdin'[i] = stdin[j]
  BY <1>1, <1>3, <1>b, TailAt
<1> QED
  BY <1>0, <1>1, <1>3, <1>6, <1>9, <1>10, <1>11, <1>13, <1>14, <1>15, AgentStep

\* The agent refuses a message: its only copy is gone.
LEMMA RefuseStep ==
  ASSUME MInv, AgentRefuse
  PROVE  MInv'
<1>0. TypeOK'
  BY TypeHost DEF MInv
<1>b. /\ stdin \in Seq(Ids) /\ receipts \in Receipts /\ journal \in Seq(Entry)
      /\ executed \in [Ids -> Nat]
  BY DEF MInv, TypeOK, Entry
<1>1. stdin # <<>> /\ host /\ harness.confirms
  BY DEF AgentRefuse
<1>2. PICK m \in Ids : m = Head(stdin)
  BY <1>1, <1>b, HeadTailProperties
<1>3. /\ UNCHANGED <<harness, box, order, intents, gen, row, host, up, busy, ready, driver,
                     toHost, toDriver, executed, repeats>>
      /\ receipts' = Observe(receipts, m, "refused")
      /\ stdin' = Tail(stdin)
      /\ journal' = Append(journal, [id |-> m, answer |-> "refused"])
  BY <1>2 DEF AgentRefuse, mailbox, daemon, wire, history
<1>4. /\ receipts'.retired = receipts.retired
      /\ \A n \in Ids \ {m} : receipts'.of[n] = receipts.of[n]
      /\ receipts'.of[m].state = IF receipts.of[m].state = "written" THEN "refused"
                                                                     ELSE receipts.of[m].state
  BY <1>3, <1>b, ObserveAt
<1>5. \A n \in Ids : executed'[n] >= executed[n]
  BY <1>3, <1>b
<1>6. \A n \in Ids : /\ Occ(stdin, {n}) = Occ(stdin', {n}) + (IF n = m THEN 1 ELSE 0)
                     /\ Occ(stdin, {n}) \in Nat /\ Occ(stdin', {n}) \in Nat /\ executed[n] \in Nat
                     /\ Occ(toHost, Writes(n)) \in Nat
  <2>1. ASSUME NEW n \in Ids
        PROVE  /\ Occ(stdin, {n}) = Occ(stdin', {n}) + (IF n = m THEN 1 ELSE 0)
               /\ Occ(stdin, {n}) \in Nat /\ Occ(stdin', {n}) \in Nat /\ executed[n] \in Nat
               /\ Occ(toHost, Writes(n)) \in Nat
    <3>1. Occ(stdin, {n}) = Occ(Tail(stdin), {n}) + (IF Head(stdin) \in {n} THEN 1 ELSE 0)
      BY <1>1, <1>b, OccTail
    <3>2. /\ Occ(stdin, {n}) \in Nat /\ Occ(stdin', {n}) \in Nat /\ executed[n] \in Nat
          /\ Occ(toHost, Writes(n)) \in Nat
      BY <1>0, CopiesType, CopiesTypeNext DEF MInv
    <3> QED
      BY <1>2, <1>3, <3>1, <3>2
  <2> QED
    BY <2>1
<1>7. \A n \in Ids : /\ Copies(n) = executed[n] + Occ(stdin, {n}) + Occ(toHost, Writes(n))
                     /\ Copies(n)' = executed[n] + Occ(stdin', {n}) + Occ(toHost, Writes(n))
  BY <1>0, <1>3, CopiesTypeNext DEF Copies
<1>8. \A n \in Ids : Copies(n)' <= Copies(n)
  <2>1. ASSUME NEW n \in Ids PROVE Copies(n)' <= Copies(n)
    <3>1. Occ(stdin', {n}) <= Occ(stdin, {n})
      BY <1>6
    <3>2. /\ Occ(stdin, {n}) \in Nat /\ Occ(stdin', {n}) \in Nat /\ executed[n] \in Nat
          /\ Occ(toHost, Writes(n)) \in Nat
      BY <1>6
    <3>3. /\ Copies(n) = executed[n] + Occ(stdin, {n}) + Occ(toHost, Writes(n))
          /\ Copies(n)' = executed[n] + Occ(stdin', {n}) + Occ(toHost, Writes(n))
      BY <1>7
    <3> QED
      BY <3>1, <3>2, <3>3
  <2> QED
    BY <2>1
<1>9. executed[m] + Occ(stdin', {m}) = 0
  <2>1. Copies(m) <= 1
    BY <1>1 DEF MInv, CopiesOK, IntentOK
  <2> QED
    BY <1>6, <1>7, <2>1
<1>10. \A n \in Ids : Accounted(n) => Accounted(n)'
  <2>1. ASSUME NEW n \in Ids, Accounted(n) PROVE Accounted(n)'
    <3>1. Accounted(n)' <=> (executed'[n] + Occ(stdin', {n}) > 0 =>
                               \/ receipts'.of[n].state \in {"written", "accepted"}
                               \/ receipts'.of[n].state = "none" /\ n <= receipts'.retired)
      BY DEF Accounted, Occ
    <3>2. CASE n = m
      BY <1>3, <1>9, <3>1, <3>2
    <3>3. CASE n # m
      <4>1. Occ(stdin', {n}) = Occ(stdin, {n})
        BY <1>6, <3>3
      <4> QED
        BY <1>3, <1>4, <2>1, <3>1, <3>3, <4>1 DEF Accounted
    <3> QED
      BY <3>2, <3>3
  <2> QED
    BY <2>1
<1>11. \A n \in Ids : receipts'.of[n].state = "accepted" => receipts.of[n].state = "accepted"
  BY <1>4
<1>12. [id |-> m, answer |-> "refused"] \in Entry
  BY DEF Entry
<1>13. Len(journal') >= Len(journal)
  <2>1. Len(journal) \in Nat
    BY <1>b, LenProperties
  <2>2. Len(journal') = Len(journal) + 1
    BY <1>3, <1>b, <1>12, AppendProperties
  <2> QED
    BY <2>1, <2>2
<1>14. \A i \in DOMAIN journal' :
         journal'[i].answer = "accepted" => executed'[journal'[i].id] > 0
  <2>1. \A i \in DOMAIN journal' : \/ i \in DOMAIN journal /\ journal'[i] = journal[i]
                                   \/ journal'[i] = [id |-> m, answer |-> "refused"]
    BY <1>3, <1>b, <1>12, AppendAt
  <2>2. [id |-> m, answer |-> "refused"].answer = "refused"
    OBVIOUS
  <2> QED
    BY <1>1, <1>3, <2>1, <2>2 DEF MInv, TakenOK
<1>15. \A i \in DOMAIN stdin' : \E j \in DOMAIN stdin : stdin'[i] = stdin[j]
  BY <1>1, <1>3, <1>b, TailAt
<1> QED
  BY <1>0, <1>1, <1>3, <1>5, <1>8, <1>10, <1>11, <1>13, <1>14, <1>15, AgentStep

-----------------------------------------------------------------------------
(* Faults *)

\* A step after which the driver has no connection, in general: whoever asked
\* forgets that it did.
LEMMA CutStep ==
  ASSUME MInv, TypeOK', BusyOK', IntentOK', CopiesOK',
         UNCHANGED <<harness, box, order, intents, gen, receipts, journal>>,
         driver'.conn = FALSE, driver'.asked = {}, toDriver' = <<>>,
         \A n \in Ids : driver'.replies[n] = NoReply,
         harness.confirms =>
           \A n \in driver'.confirmed : n \in driver.confirmed \/ executed'[n] > 0,
         driver'.cursor <= Len(journal),
         row' = "stopped" => ~host',
         ~host' => toHost' = <<>> /\ stdin' = <<>>,
         \A i \in DOMAIN toHost' : /\ i \in DOMAIN toHost /\ toHost'[i].id = toHost[i].id
                                   /\ toHost'[i].op # "status"
                                   /\ \/ toHost'[i].op = "unanswered"
                                      \/ toHost'[i].op = toHost[i].op,
         \A i \in DOMAIN stdin' : i \in DOMAIN stdin /\ stdin'[i] = stdin[i],
         \A n \in Ids : /\ executed'[n] >= executed[n]
                        /\ executed'[n] + Occ(stdin', {n}) <= executed[n] + Occ(stdin, {n}),
         busy' = busy \/ busy'.stage = "idle"
  PROVE  MInv'
<1>1. /\ \A i \in DOMAIN toHost : toHost[i].id \in Ids
      /\ \A i \in DOMAIN stdin : stdin[i] \in Ids
  BY Elements DEF MInv
<1>2. \A n : Ahead(n)' <=> Ahead(n)
  BY DEF Ahead, Before, Queued
<1>3. OrderOK'
  BY DEF MInv, OrderOK
<1>4. DigestOK' /\ FrameOK' /\ LinkOK'
  BY DEF MInv, DigestOK, FrameOK, Tagged, LinkOK
<1>5. AheadOK'
  <2>1. busy'.stage # "idle" => Ahead(busy.id)'
    BY DEF MInv, AheadOK, Ahead, Before, Queued
  <2>2. \A i \in DOMAIN toHost' : toHost'[i].op \in {"write", "tagged"} => Ahead(toHost[i].id)'
    BY DEF MInv, AheadOK, Ahead, Before, Queued
  <2>3. \A i \in DOMAIN stdin' : Ahead(stdin[i])'
    BY DEF MInv, AheadOK, Ahead, Before, Queued
  <2>4. \A n \in Ids : intents'[n].state # "none" => Ahead(n)'
    BY <1>2 DEF MInv, AheadOK
  <2> QED
    BY <2>1, <2>2, <2>3, <2>4 DEF AheadOK
<1>6. AccountOK'
  <2>1. ASSUME Tagged, NEW n \in Ids, Tracked(n)' PROVE Accounted(n)'
    <3>1. Tracked(n)
      BY <2>1 DEF Tracked
    <3>2. Accounted(n)
      BY <2>1, <3>1 DEF MInv, AccountOK
    <3>3. Accounted(n)' <=> (executed'[n] + Occ(stdin', {n}) > 0 =>
                               \/ receipts'.of[n].state \in {"written", "accepted"}
                               \/ receipts'.of[n].state = "none" /\ n <= receipts'.retired)
      BY DEF Accounted, Occ
    <3>4. /\ executed[n] \in Nat /\ Occ(stdin, {n}) \in Nat
          /\ executed'[n] \in Nat /\ Occ(stdin', {n}) \in Nat
      BY CopiesType, CopiesTypeNext DEF MInv
    <3>5. executed'[n] + Occ(stdin', {n}) > 0 => executed[n] + Occ(stdin, {n}) > 0
      BY <3>4
    <3> QED
      BY <3>2, <3>3, <3>5 DEF Accounted
  <2> QED
    BY <2>1 DEF AccountOK, Tagged
<1>7. AskOK' /\ QuietOK'
  <2>1. DOMAIN toDriver' = {}
    OBVIOUS
  <2> QED
    BY <2>1 DEF AskOK, QuietOK
<1>8. ReplyOK'
  <2>1. DOMAIN toDriver' = {}
    OBVIOUS
  <2> QED
    BY <2>1 DEF ReplyOK, NoReply, Nothing
<1>9. TakenOK'
  <2> SUFFICES ASSUME harness.confirms PROVE TakenOK'
    BY DEF TakenOK
  <2>1. \A n \in Ids : executed[n] \in Nat /\ executed'[n] \in Nat
    BY DEF MInv, TypeOK
  <2>2. \A n \in Ids : executed[n] > 0 => executed'[n] > 0
    <3>1. ASSUME NEW n \in Ids, executed[n] > 0 PROVE executed'[n] > 0
      <4>1. executed'[n] >= executed[n]
        OBVIOUS
      <4> QED
        BY <2>1, <3>1, <4>1
    <3> QED
      BY <3>1
  <2>3. busy'.stage = "mark" => executed'[busy'.id] > 0
    BY <2>2 DEF MInv, TakenOK, BusyOK
  <2>4. \A n \in Ids :
          \/ executed'[n] > 0
          \/ /\ box[n] # "delivered" /\ n \notin driver'.confirmed
             /\ driver'.replies[n].state # "accepted" /\ receipts.of[n].state # "accepted"
    BY <2>2, NoDriverFields DEF MInv, TakenOK
  <2>5. \A i \in DOMAIN journal : journal[i].answer = "accepted" => executed'[journal[i].id] > 0
    <3>1. \A i \in DOMAIN journal : journal[i].id \in Ids
      BY Elements DEF MInv
    <3> QED
      BY <2>2, <3>1 DEF MInv, TakenOK
  <2>6. DOMAIN toDriver' = {}
    OBVIOUS
  <2> QED
    BY <2>3, <2>4, <2>5, <2>6 DEF TakenOK
<1>10. CursorOK'
  BY DEF CursorOK
<1> QED
  BY <1>3, <1>4, <1>5, <1>6, <1>7, <1>8, <1>9, <1>10 DEF MInv

\* What a lost connection leaves of the frames under way.
LEMMA LostFrames ==
  ASSUME TypeOK, TypeOK', Lost, UNCHANGED <<executed, stdin>>
  PROVE  /\ toDriver' = <<>> /\ (toHost = <<>> => toHost' = <<>>)
         /\ \A i \in DOMAIN toHost' : /\ i \in DOMAIN toHost /\ toHost'[i].id = toHost[i].id
                                      /\ toHost'[i].op # "status"
                                      /\ \/ toHost'[i].op = "unanswered"
                                         \/ toHost'[i].op = toHost[i].op
         /\ \A n \in Ids : Copies(n)' <= Copies(n)
<1>1. PICK k \in 0 .. Len(toHost) : /\ DOMAIN toHost' = 1 .. k
                                    /\ \A i \in 1 .. k : toHost'[i] = Unanswered(toHost[i])
  BY LostType
<1>2. toHost \in Seq(Frame) /\ DOMAIN toHost = 1 .. Len(toHost) /\ Len(toHost) \in Nat
  BY LenProperties DEF TypeOK
<1>3. \A i \in 1 .. k : i \in DOMAIN toHost /\ toHost[i] \in Frame
  BY <1>1, <1>2, Elements
<1>4. \A f \in Frame : /\ Unanswered(f).id = f.id /\ Unanswered(f).op # "status"
                       /\ Unanswered(f).op = "unanswered" \/ Unanswered(f) = f
  BY DEF Unanswered, Frame
<1>5. \A i \in DOMAIN toHost' : /\ i \in DOMAIN toHost /\ toHost'[i].id = toHost[i].id
                                /\ toHost'[i].op # "status"
                                /\ \/ toHost'[i].op = "unanswered"
                                   \/ toHost'[i] = toHost[i]
  BY <1>1, <1>3, <1>4
<1>6. toHost = <<>> => toHost' = <<>>
  <2>1. toHost' \in Seq(Frame)
    BY DEF TypeOK
  <2>2. ASSUME toHost = <<>> PROVE toHost' = <<>>
    <3>1. DOMAIN toHost' = {}
      BY <1>5, <2>2
    <3>2. Len(toHost') = 0
      BY <2>1, <3>1, LenProperties
    <3> QED
      BY <2>1, <3>2, EmptySeq
  <2> QED
    BY <2>2
<1>7. ASSUME NEW n \in Ids PROVE Copies(n)' <= Copies(n)
  <2>1. \A i \in 1 .. k : toHost'[i] \in Writes(n) => toHost[i] \in Writes(n)
    BY <1>1, <1>5 DEF Writes
  <2>2. Occ(toHost', Writes(n)) <= Occ(toHost, Writes(n))
    BY <1>1, <1>2, <2>1, OccPrefix
  <2>3. /\ executed[n] \in Nat /\ Occ(stdin, {n}) \in Nat /\ Occ(toHost, Writes(n)) \in Nat
        /\ Occ(toHost', Writes(n)) \in Nat
        /\ Copies(n)' = executed'[n] + Occ(stdin', {n}) + Occ(toHost', Writes(n))
    BY CopiesType, CopiesTypeNext
  <2>4. Copies(n) = executed[n] + Occ(stdin, {n}) + Occ(toHost, Writes(n))
    BY DEF Copies
  <2> QED
    BY <2>2, <2>3, <2>4
<1>8. toDriver' = <<>>
  BY DEF Lost
<1> QED
  BY <1>5, <1>6, <1>7, <1>8

\* A lost connection loses frames and answers, and writes nothing.
LEMMA DisconnectStep ==
  ASSUME MInv, Disconnect
  PROVE  MInv'
<1>0. TypeOK'
  BY TypeFaults DEF MInv
<1>1. /\ UNCHANGED <<harness, box, order, intents, gen, row, host, receipts, stdin, journal, up,
                     busy, ready, executed, repeats>>
      /\ driver' = [driver EXCEPT !.conn = FALSE, !.asked = {}, !.replies = [m \in Ids |-> NoReply]]
      /\ Lost
  BY DEF Disconnect, mailbox, process, daemon, history
<1>2. /\ driver'.conn = FALSE /\ driver'.asked = {}
      /\ driver'.cursor = driver.cursor /\ driver'.confirmed = driver.confirmed
      /\ \A n \in Ids : driver'.replies[n] = NoReply
  BY <1>1 DEF MInv, TypeOK, Driver
<1>3. /\ toDriver' = <<>> /\ (toHost = <<>> => toHost' = <<>>)
      /\ \A i \in DOMAIN toHost' : /\ i \in DOMAIN toHost /\ toHost'[i].id = toHost[i].id
                                   /\ toHost'[i].op # "status"
                                   /\ \/ toHost'[i].op = "unanswered"
                                      \/ toHost'[i].op = toHost[i].op
      /\ \A n \in Ids : Copies(n)' <= Copies(n)
  BY <1>0, <1>1, LostFrames DEF MInv
<1>4. BusyOK' /\ IntentOK' /\ CopiesOK'
  BY <1>0, <1>1, <1>3, WireStep
<1>5. driver'.cursor <= Len(journal)
  BY <1>2 DEF MInv, CursorOK
<1>6. (row' = "stopped" => ~host') /\ (~host' => toHost' = <<>> /\ stdin' = <<>>)
  BY <1>1, <1>3 DEF MInv, LinkOK
<1>7. \A n \in Ids : /\ executed'[n] >= executed[n]
                     /\ executed'[n] + Occ(stdin', {n}) <= executed[n] + Occ(stdin, {n})
  <2>1. \A n \in Ids : executed[n] \in Nat /\ Occ(stdin, {n}) \in Nat
    BY CopiesType DEF MInv
  <2> QED
    BY <1>1, <2>1
<1> QED
  BY <1>0, <1>1, <1>2, <1>3, <1>4, <1>5, <1>6, <1>7, CutStep

\* The daemon dies.  Of what it forgot, only a write that it had not marked
\* and that nobody confirms lets the message be written once more.
LEMMA CrashStep ==
  ASSUME MInv, Crash
  PROVE  MInv'
<1>0. TypeOK'
  BY TypeFaults DEF MInv
<1>1. /\ UNCHANGED <<harness, box, order, intents, gen, row, host, receipts, stdin, journal,
                     executed>>
      /\ busy' = Idle /\ ready' = {} /\ up' = FALSE /\ up
      /\ repeats' = IF busy.stage = "mark" /\ ~harness.confirms
                      THEN [repeats EXCEPT ![busy.id] = @ + 1] ELSE repeats
      /\ Lost
  BY DEF Crash, mailbox, process
<1>2. PICK c \in 0 .. driver.cursor : driver' = [NoDriver EXCEPT !.cursor = c]
  BY DEF Crash
<1>3. driver.cursor \in Nat /\ Len(journal) \in Nat /\ driver.cursor <= Len(journal)
  BY LenProperties DEF MInv, TypeOK, Driver, CursorOK
<1>4. /\ driver'.conn = FALSE /\ driver'.asked = {}
      /\ driver'.cursor = c /\ driver'.confirmed = {}
      /\ \A n \in Ids : driver'.replies[n] = NoReply
  BY <1>2, <1>3, NoDriverFields, ValueTypes DEF Driver
<1>5. /\ toDriver' = <<>> /\ (toHost = <<>> => toHost' = <<>>)
      /\ \A i \in DOMAIN toHost' : /\ i \in DOMAIN toHost /\ toHost'[i].id = toHost[i].id
                                   /\ toHost'[i].op # "status"
                                   /\ \/ toHost'[i].op = "unanswered"
                                      \/ toHost'[i].op = toHost[i].op
      /\ \A n \in Ids : Copies(n)' <= Copies(n)
  BY <1>0, <1>1, LostFrames DEF MInv
<1>6. busy'.stage = "idle"
  BY <1>1 DEF Idle
<1>7. BusyOK'
  BY <1>1, <1>6 DEF BusyOK
<1>8. IntentOK'
  BY <1>1 DEF MInv, IntentOK
<1>9. CopiesOK'
  <2>1. ASSUME NEW n \in Ids
        PROVE  Copies(n)' <= 1 + repeats'[n] /\ (Unspent(n)' => Copies(n)' <= repeats'[n])
    <3>1. /\ Copies(n) \in Nat /\ Copies(n)' \in Nat /\ repeats[n] \in Nat /\ repeats'[n] \in Nat
          /\ Copies(n)' <= Copies(n)
      BY <1>0, <1>5, CopiesType, CopiesTypeNext DEF MInv
    <3>2. Copies(n) <= 1 + repeats[n] /\ (Unspent(n) => Copies(n) <= repeats[n])
      BY DEF MInv, CopiesOK
    <3>3. repeats \in [Ids -> Nat]
      BY DEF MInv, TypeOK
    <3>4. repeats'[n] >= repeats[n]
      BY <1>1, <3>1, <3>3
    <3>5. ASSUME Unspent(n)', ~Unspent(n) PROVE Copies(n)' <= repeats'[n]
      <4>1. box[n] \in {"none", "queued"} /\ intents[n].state = "none"
        BY <1>1, <1>6, <3>5 DEF Unspent
      <4>2. busy.stage = "mark" /\ busy.id = n
        BY <3>5, <4>1, BusyShape DEF MInv, Unspent
      <4>3. ~harness.confirms
        BY <4>1, <4>2 DEF MInv, BusyOK
      <4>4. repeats'[n] = repeats[n] + 1
        BY <1>1, <3>3, <4>2, <4>3
      <4> QED
        BY <3>1, <3>2, <4>4
    <3> QED
      BY <3>1, <3>2, <3>4, <3>5
  <2> QED
    BY <2>1 DEF CopiesOK
<1>10. driver'.cursor <= Len(journal)
  BY <1>3, <1>4
<1>11. (row' = "stopped" => ~host') /\ (~host' => toHost' = <<>> /\ stdin' = <<>>)
  BY <1>1, <1>5 DEF MInv, LinkOK
<1>12. \A n \in Ids : /\ executed'[n] >= executed[n]
                      /\ executed'[n] + Occ(stdin', {n}) <= executed[n] + Occ(stdin, {n})
  <2>1. \A n \in Ids : executed[n] \in Nat /\ Occ(stdin, {n}) \in Nat
    BY CopiesType DEF MInv
  <2> QED
    BY <1>1, <2>1
<1> QED
  BY <1>0, <1>1, <1>4, <1>5, <1>6, <1>7, <1>8, <1>9, <1>10, <1>11, <1>12, CutStep

\* A restarted daemon believes what the journal says of accepted messages.
LEMMA RestartStep ==
  ASSUME MInv, Restart
  PROVE  MInv'
<1>0. TypeOK'
  BY TypeFaults DEF MInv
<1>1. /\ UNCHANGED <<harness, box, order, intents, gen, host, receipts, stdin, journal, busy, ready,
                     toHost, toDriver, executed, repeats>>
      /\ ~up /\ up'
  BY DEF Restart, mailbox, process, wire, history
<1>2. ~driver.conn /\ busy.stage = "idle" /\ toDriver = <<>>
  BY <1>1 DEF MInv, LinkOK, BusyOK
<1>3. driver.asked = {} /\ \A n \in Ids : driver.replies[n] = NoReply
  BY <1>2 DEF MInv, LinkOK
<1>b. /\ driver \in Driver /\ driver.cursor \in Nat /\ Len(journal) \in Nat
      /\ driver.cursor <= Len(journal) /\ DOMAIN journal = 1 .. Len(journal)
  BY LenProperties DEF MInv, TypeOK, Driver, CursorOK
<1>4. harness.confirms => \A n \in ConfirmedUpTo(driver.cursor) : executed[n] > 0
  <2>1. ASSUME harness.confirms, NEW n \in ConfirmedUpTo(driver.cursor) PROVE executed[n] > 0
    <3>1. PICK i \in 1 .. driver.cursor : journal[i] = [id |-> n, answer |-> "accepted"]
      BY <2>1 DEF ConfirmedUpTo
    <3>2. i \in DOMAIN journal
      BY <1>b
    <3>3. journal[i].id = n /\ journal[i].answer = "accepted"
      BY <3>1
    <3> QED
      BY <2>1, <3>2, <3>3 DEF MInv, TakenOK
  <2> QED
    BY <2>1
<1>5. \/ driver' = [driver EXCEPT !.known = TRUE, !.confirmed = ConfirmedUpTo(driver.cursor)]
      \/ driver' = [NoDriver EXCEPT !.known = TRUE, !.degraded = TRUE]
      \/ driver' = NoDriver
      \/ driver' = driver
  BY DEF Restart
<1>6. (row' = "stopped" => ~host') /\ (~host' => toHost' = <<>> /\ stdin' = <<>>)
  BY <1>1 DEF Restart, MInv, LinkOK
<1>7. /\ driver'.conn = FALSE /\ driver'.asked = {}
      /\ driver'.cursor <= Len(journal)
      /\ driver'.confirmed \in {{}, driver.confirmed, ConfirmedUpTo(driver.cursor)}
      /\ \A n \in Ids : driver'.replies[n] = NoReply
  <2>1. driver.conn = FALSE
    BY <1>2, <1>b DEF Driver
  <2>2. CASE driver' = [driver EXCEPT !.known = TRUE, !.confirmed = ConfirmedUpTo(driver.cursor)]
    BY <1>3, <1>b, <2>1, <2>2 DEF Driver
  <2>3. CASE driver' = [NoDriver EXCEPT !.known = TRUE, !.degraded = TRUE]
    BY <1>b, <2>3, NoDriverFields, ValueTypes DEF Driver
  <2>4. CASE driver' = NoDriver
    BY <1>b, <2>4, NoDriverFields
  <2>5. CASE driver' = driver
    BY <1>3, <1>b, <2>1, <2>5
  <2> QED
    BY <1>5, <2>2, <2>3, <2>4, <2>5
<1>8. \A n \in Ids : /\ executed'[n] >= executed[n]
                     /\ executed'[n] + Occ(stdin', {n}) <= executed[n] + Occ(stdin, {n})
  <2>1. \A n \in Ids : executed[n] \in Nat /\ Occ(stdin, {n}) \in Nat
    BY CopiesType DEF MInv
  <2> QED
    BY <1>1, <2>1
<1>9. BusyOK' /\ IntentOK'
  BY <1>1, <1>2 DEF MInv, BusyOK, IntentOK
<1>10. CopiesOK'
  <2>1. \A n \in Ids : Copies(n)' = Copies(n) /\ (Unspent(n)' <=> Unspent(n))
    BY <1>1, CopiesKept DEF Unspent
  <2> QED
    BY <1>1, <2>1 DEF MInv, CopiesOK
<1>11. \A i \in DOMAIN toHost' : /\ i \in DOMAIN toHost /\ toHost'[i].id = toHost[i].id
                                 /\ toHost'[i].op # "status"
                                 /\ toHost'[i].op = toHost[i].op
  BY <1>1, <1>3 DEF MInv, AskOK
<1>12. harness.confirms =>
         \A n \in driver'.confirmed : n \in driver.confirmed \/ executed'[n] > 0
  BY <1>1, <1>4, <1>7
<1>13. \A i \in DOMAIN stdin' : i \in DOMAIN stdin /\ stdin'[i] = stdin[i]
  BY <1>1
<1> QED
  BY <1>0, <1>1, <1>2, <1>6, <1>7, <1>8, <1>9, <1>10, <1>11, <1>12, <1>13, CutStep

\* The agent exits: what it took of its input was written to it.
LEMMA ExitStep ==
  ASSUME MInv, HostExit \/ StopDegraded
  PROVE  MInv'
<1>0. TypeOK'
  BY TypeFaults DEF MInv
<1>1. /\ UNCHANGED <<harness, box, order, intents, gen, row, receipts, journal, up, busy, ready,
                     repeats>>
      /\ host' = FALSE /\ stdin' = <<>> /\ toHost' = <<>> /\ toDriver' = <<>>
      /\ driver' = [driver EXCEPT !.conn = FALSE, !.asked = {}, !.replies = [m \in Ids |-> NoReply]]
  BY DEF HostExit, StopDegraded, Exits, mailbox, daemon
<1>2. PICK k \in 0 .. Len(stdin) :
        executed' = [m \in Ids |-> executed[m] + Cardinality({i \in 1 .. k : stdin[i] = m})]
  BY DEF HostExit, StopDegraded, Exits
<1>3. /\ driver'.conn = FALSE /\ driver'.asked = {}
      /\ driver'.cursor = driver.cursor /\ driver'.confirmed = driver.confirmed
      /\ \A n \in Ids : driver'.replies[n] = NoReply
  BY <1>1 DEF MInv, TypeOK, Driver
<1>4. \A n \in Ids : Occ(stdin', {n}) = 0 /\ Occ(toHost', Writes(n)) = 0
  BY <1>1, OccEmpty
<1>5. ASSUME NEW n \in Ids
      PROVE  /\ executed'[n] >= executed[n]
             /\ executed'[n] + Occ(stdin', {n}) <= executed[n] + Occ(stdin, {n})
             /\ Copies(n)' <= Copies(n)
  <2>1. /\ executed[n] \in Nat /\ Occ(stdin, {n}) \in Nat /\ Occ(toHost, Writes(n)) \in Nat
        /\ executed'[n] \in Nat
        /\ Copies(n)' = executed'[n] + Occ(stdin', {n}) + Occ(toHost', Writes(n))
    BY <1>0, CopiesType, CopiesTypeNext DEF MInv
  <2> DEFINE taken == Cardinality({i \in 1 .. k : stdin[i] = n})
  <2>2. taken \in Nat /\ taken <= Occ(stdin, {n})
    BY TakenType DEF MInv, TypeOK
  <2>3. executed'[n] = executed[n] + taken
    BY <1>2
  <2>4. Copies(n) = executed[n] + Occ(stdin, {n}) + Occ(toHost, Writes(n))
    BY DEF Copies
  <2> HIDE DEF taken
  <2> QED
    BY <1>4, <2>1, <2>2, <2>3, <2>4
<1>6. BusyOK' /\ IntentOK' /\ CopiesOK'
  BY <1>0, <1>1, <1>5, WireStep
<1>7. driver'.cursor <= Len(journal)
  BY <1>3 DEF MInv, CursorOK
<1>8. DOMAIN toHost' = {} /\ DOMAIN stdin' = {}
  BY <1>1
<1> QED
  BY <1>0, <1>1, <1>3, <1>5, <1>6, <1>7, <1>8, CutStep

-----------------------------------------------------------------------------
(* The theorems *)

\* Nothing is on its way, and nothing was taken.
LEMMA MInvInit == Init => MInv
<1> SUFFICES ASSUME Init PROVE MInv
  OBVIOUS
<1>0. TypeOK
  BY TypeInit
<1>1. /\ box = [m \in Ids |-> "none"] /\ order = [m \in Ids |-> m]
      /\ intents = [m \in Ids |-> NoIntent]
      /\ gen = 1 /\ row = "live" /\ host = TRUE /\ receipts = NoReceipts
      /\ stdin = <<>> /\ journal = <<>> /\ up = TRUE /\ busy = Idle /\ ready = {}
      /\ driver = [NoDriver EXCEPT !.known = TRUE]
      /\ toHost = <<>> /\ toDriver = <<>>
      /\ executed = [m \in Ids |-> 0] /\ repeats = [m \in Ids |-> 0]
  BY DEF Init
<1>2. /\ DOMAIN stdin = {} /\ DOMAIN toHost = {} /\ DOMAIN toDriver = {} /\ DOMAIN journal = {}
      /\ Len(journal) = 0
  BY <1>1
<1>3. /\ driver.conn = FALSE /\ driver.asked = {} /\ driver.cursor = 0 /\ driver.confirmed = {}
      /\ \A n \in Ids : driver.replies[n] = NoReply
  BY <1>1, NoDriverFields, ValueTypes DEF Driver
<1>4. \A n \in Ids : Copies(n) = 0 /\ repeats[n] = 0 /\ executed[n] = 0 /\ Occ(stdin, {n}) = 0
  BY <1>1, OccEmpty DEF Copies
<1>5. busy.stage = "idle"
  BY <1>1 DEF Idle
<1>6. \A n \in Ids : intents[n] = NoIntent /\ NoIntent.state = "none" /\ NoIntent.gen = 0
  BY <1>1 DEF NoIntent
<1>7. Ids \subseteq Nat
  BY ValueTypes
<1>8. OrderOK
  BY <1>1, <1>7 DEF OrderOK
<1>9. DigestOK /\ AheadOK /\ FrameOK
  BY <1>2, <1>5, <1>6 DEF DigestOK, AheadOK, FrameOK
<1>10. BusyOK /\ IntentOK
  BY <1>1, <1>4, <1>5, <1>6 DEF BusyOK, IntentOK
<1>11. LinkOK /\ AskOK /\ QuietOK /\ CursorOK
  BY <1>1, <1>2, <1>3 DEF LinkOK, AskOK, QuietOK, CursorOK
<1>12. AccountOK
  BY <1>4 DEF AccountOK, Accounted
<1>13. ReplyOK /\ CopiesOK
  <2>1. ReplyOK
    BY <1>2, <1>3, NoDriverFields DEF ReplyOK, Nothing
  <2>2. ASSUME NEW n \in Ids PROVE Copies(n) <= 1 + repeats[n] /\ Copies(n) <= repeats[n]
    <3>1. Copies(n) = 0 /\ repeats[n] = 0
      BY <1>4
    <3> QED
      BY <3>1
  <2>3. CopiesOK
    BY <2>2 DEF CopiesOK
  <2> QED
    BY <2>1, <2>3
<1>14. TakenOK
  <2>1. \A n \in Ids : box[n] = "none" /\ receipts.of[n].state = "none"
    BY <1>1 DEF NoReceipts, NoReceipt
  <2> QED
    BY <1>2, <1>3, <1>5, <2>1, NoDriverFields DEF TakenOK
<1> QED
  BY <1>0, <1>8, <1>9, <1>10, <1>11, <1>12, <1>13, <1>14 DEF MInv

\* A stuttering step keeps the invariant.
LEMMA MInvStutter ==
  ASSUME MInv, UNCHANGED vars
  PROVE  MInv'
<1>1. UNCHANGED <<harness, box, order, intents, gen, row, host, receipts, stdin, journal, up, busy,
                  ready, driver, toHost, toDriver, executed, repeats, faults>>
  BY DEF vars, mailbox, process, daemon, wire, history
<1>2. TypeOK'
  BY TypeStutter DEF MInv
<1>3. /\ OrderOK' /\ BusyOK' /\ IntentOK' /\ CopiesOK' /\ AheadOK' /\ DigestOK' /\ FrameOK'
      /\ \A n \in Ids : (Unspent(n)' <=> Unspent(n)) /\ Copies(n)' = Copies(n)
  BY <1>1, <1>2, DriverStep
<1>4. LinkOK' /\ AskOK' /\ CursorOK'
  BY <1>1 DEF MInv, LinkOK, AskOK, CursorOK
<1>5. AccountOK'
  BY <1>1 DEF MInv, AccountOK, Tagged, Tracked, Accounted, Occ
<1>6. QuietOK'
  BY <1>1, <1>3 DEF MInv, QuietOK
<1>7. ReplyOK'
  <2>1. \A i \in DOMAIN toDriver : toDriver[i].id \in Ids
    BY Elements DEF MInv
  <2> QED
    BY <1>1, <1>3, <2>1 DEF MInv, ReplyOK
<1>8. TakenOK'
  BY <1>1 DEF MInv, TakenOK
<1> QED
  BY <1>2, <1>3, <1>4, <1>5, <1>6, <1>7, <1>8 DEF MInv

\* Every step keeps the invariant.
LEMMA MInvNext ==
  ASSUME MInv, [Next]_vars
  PROVE  MInv'
<1>1. ASSUME NEW m \in Ids,
             \/ Send(m) \/ Cancel(m) \/ Drop(m) \/ \E n \in Ids : Resend(m, n)
      PROVE  MInv'
  BY <1>1, SendStep, RemoveStep, ResendStep
<1>2. ASSUME NEW m \in Ids, Prepare(m) \/ Deliver(m) \/ MarkDelivered(m)
      PROVE  MInv'
  BY <1>2, PrepareStep, ConfirmedStep, WriteStep, MarkStep
<1>3. ASSUME NEW m \in Ids, \/ HoldStale(m) \/ PollConfirmed(m) \/ PollAsk(m) \/ PollReply(m)
                            \/ LaneTimeout(m) \/ PollTimeout(m)
      PROVE  MInv'
  BY <1>3, HoldStep, ConfirmedStep, AskStep, ReplyStep
<1>4. ASSUME NEW m \in Ids, PruneReceipt(m) PROVE MInv'
  BY <1>4, PruneStep
<1>5. CASE Connect \/ Pump \/ ReceiveReply \/ ObserveExit \/ Revive
  BY <1>5, ConnectStep, PumpStep, ReceiveStep, ObserveStep, ReviveStep
<1>6. CASE HostRead \/ AgentAccept \/ AgentRefuse
  BY <1>6, HostReadStep, AcceptStep, RefuseStep
<1>7. CASE Disconnect \/ Crash \/ Restart \/ HostExit \/ StopDegraded
  BY <1>7, DisconnectStep, CrashStep, RestartStep, ExitStep
<1>8. CASE UNCHANGED vars
  BY <1>8, MInvStutter
<1> QED
  BY <1>1, <1>2, <1>3, <1>4, <1>5, <1>6, <1>7, <1>8 DEF Next, DaemonStep

\* The invariant holds throughout.
LEMMA MInvAlways == Spec => []MInv
<1>1. MInv /\ [Next]_vars => MInv'
  BY MInvNext
<1> QED
  BY <1>1, MInvInit, PTL DEF Spec

\* The mailbox, the intents, the receipts and the frames keep their types for
\* any number of messages, encodings, generations and faults; in particular a
\* refused message is retried at most once (retryRefusedDeliveryConfirmation).
THEOREM MailTypeCorrect == Spec => []TypeOK
<1>1. MInv => TypeOK
  BY DEF MInv
<1> QED
  BY <1>1, MInvAlways, PTL

\* The agent takes no message twice, whatever crashes, is lost, is pruned or
\* comes late, except one that a harness without confirmations was sent just
\* before a crash (driver.deliver, commitMessageDelivery, DeliveryReceipts).
THEOREM MailOnceCorrect == Spec => []AtMostOnce
<1>1. ASSUME MInv PROVE AtMostOnce
  <2>1. ASSUME NEW m \in Ids PROVE executed[m] <= 1 + repeats[m]
    <3>1. /\ executed[m] \in Nat /\ Occ(stdin, {m}) \in Nat /\ Occ(toHost, Writes(m)) \in Nat
          /\ repeats[m] \in Nat
      BY <1>1, CopiesType DEF MInv
    <3>2. Copies(m) <= 1 + repeats[m]
      BY <1>1 DEF MInv, CopiesOK
    <3> QED
      BY <3>1, <3>2 DEF Copies
  <2> QED
    BY <2>1 DEF AtMostOnce
<1> QED
  BY <1>1, MInvAlways, PTL

\* For a confirming harness, whatever commitMessageDelivery marks delivered was
\* taken by the agent, across crashes, restarts and answers that come late.
THEOREM MailTakenCorrect == Spec => []DeliveredWasTaken
<1>1. MInv => DeliveredWasTaken
  BY DEF MInv, TakenOK, DeliveredWasTaken
<1> QED
  BY <1>1, MInvAlways, PTL

\* No line in the agent's input was written past a message that is still queued
\* before it: held messages block, and a resend keeps the place in the queue.
THEOREM MailOrderCorrect == Spec => []InOrder
<1>1. MInv => InOrder
  BY DEF MInv, AheadOK, Ahead, InOrder
<1> QED
  BY <1>1, MInvAlways, PTL

=============================================================================
