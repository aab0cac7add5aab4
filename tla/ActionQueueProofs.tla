-------------------------- MODULE ActionQueueProofs --------------------------
(***************************************************************************)
(* Safety of the action queue, for every palette of requests, every set of *)
(* claimants and every bound.  The inductive invariant has five parts:     *)
(*   LaneInv   the rows are well formed and what one row says of another   *)
(*             (order, references) holds;                                  *)
(*   RowTrue   what a row records of the outside (reports, the origin) is  *)
(*             true;                                                       *)
(*   Outside   the commits are a graph, and the target has moved forward   *)
(*             through every landing;                                      *)
(*   MailInv   instructions and tokens belong to rows of their executors;  *)
(*   Control   what the daemon relies on inside a capture.                 *)
(* A step changes rows only as Follows allows, and that keeps LaneInv.     *)
(***************************************************************************)
EXTENDS ActionQueue, SequenceTheorems, TLAPS

-----------------------------------------------------------------------------
(* The inductive invariant *)

Started(r) == r.status \notin {"queued", "cancelled"}

\* One row by itself.
RowInv(r) ==
  /\ r \in Row /\ r.attempt <= MaxAttempt
  /\ r.status = "waiting" <=> r.reason # "none"
  /\ r.status = "queued" => r.token = 0 /\ r.attempt < MaxAttempt /\ r.expectedHead = Nothing
  /\ r.executor = "capture" /\ r.reason = "executor" => r.attempt < MaxAttempt
  /\ r.status \in Active => r.attempt >= 1 \/ (r.executor = "capture" /\ r.reason = "executor")

\* Every row before a is out of the way.
Cleared(l, a) ==
  \A b \in DOMAIN l : l[b].position < l[a].position => l[b].status \in Final

InOrder(l) == \A b \in DOMAIN l : Started(l[b]) => Cleared(l, b)

\* A reference points to a row of the lane, backwards as long as that matters.
RefersBack(l, a) ==
  l[a].ref # 0 =>
    /\ l[a].ref \in DOMAIN l
    /\ \/ l[a].status \in Final \/ l[l[a].ref].status \in Final
       \/ l[l[a].ref].position < l[a].position

\* The action referred to can no longer give the output.
RefDead(l, a) ==
  /\ l[a].ref # 0
  /\ \/ l[l[a].ref].status = "cancelled"
     \/ l[l[a].ref].status = "succeeded" /\ l[l[a].ref].output = Nothing

LaneInv(l) ==
  /\ l \in Seq(Row) /\ Len(l) <= MaxActions
  /\ \A a \in DOMAIN l : RowInv(l[a]) /\ l[a].position <= Len(l)
  /\ \A a, b \in DOMAIN l : l[a].position = l[b].position => a = b
  /\ InOrder(l)
  /\ \A a \in DOMAIN l : /\ RefersBack(l, a)
                         /\ l[a].failure = "input_unresolved" => RefDead(l, a)
                         /\ l[a].attempt > 0 => Resolves(l, a)

\* Nothing the attempt of row r landed, of the landings ld, contains its HEAD.
Unlanded(a, r, cs, ld) ==
  \A l \in ld : l[1] = a /\ l[2] = r.attempt => r.expectedHead \notin cs[l[3]].past

\* Row a against the reports sd, the commits cs with the target at tg, the landings ld.
RowTrue(a, r, sd, cs, tg, ld) ==
  /\ r.executor \in {"agent", "external"} /\ r.status = "succeeded" => <<a, r.attempt>> \in sd
  /\ \A l \in ld : l[1] = a => l[2] <= r.attempt
  /\ r.executor = "capture" /\ r.status = "succeeded" => r.output \in cs[tg].holds
  /\ r.executor = "capture" /\ r.status = "failed" => Unlanded(a, r, cs, ld)

\* The ancestors of a commit came before it; theirs, and their changes, are its own.
Graph(cs) ==
  /\ cs \in Seq([past: SUBSET Nat, holds: SUBSET Nat])
  /\ \A c \in DOMAIN cs : /\ c \in cs[c].past /\ cs[c].past \subseteq cs[c].holds
                          /\ cs[c].holds \subseteq 1 .. c
  /\ \A c \in DOMAIN cs : \A d \in cs[c].past : /\ cs[d].past \subseteq cs[c].past
                                               /\ cs[d].holds \subseteq cs[c].holds

Outside ==
  /\ paused \in BOOLEAN /\ lifecycle \in {"active", "archived"}
  /\ placed \in BOOLEAN /\ busy \in BOOLEAN
  /\ Graph(commits) /\ head \in DOMAIN commits /\ target \in DOMAIN commits
  /\ requests \in 0 .. MaxRequests /\ faults \in 0 .. MaxFaults
  /\ said \subseteq Ids \X (0 .. MaxAttempt)
  /\ landed \subseteq Ids \X (1 .. MaxAttempt) \X Past(target)

MailInv ==
  /\ mailbox \subseteq Ids \X (1 .. MaxAttempt)
  /\ known \subseteq Ids \X (1 .. MaxAttempt) \X (Claimants \union {"bee"})
  /\ \A m \in mailbox : lane[m[1]].executor = "agent"
  /\ \A k \in known : lane[k[1]].executor \in {"agent", "external"}

Work(cs) == [id: Nat, cellHead: {0} \union DOMAIN cs,
             report: {"none", "landed", "nothing_to_capture", "unlanded"}]

Control ==
  /\ pc \in {"rest", "begun", "again", "effected", "down"}
  /\ work \in Work(commits)
  /\ pc \in {"begun", "again", "effected"} =>
       /\ work.id \in Ids /\ lane[work.id].executor = "capture"
       /\ lane[work.id].status \in Active /\ lane[work.id].attempt >= 1
  /\ pc \in {"begun", "again"} => Unlanded(work.id, lane[work.id], commits, landed)
  /\ pc = "effected" =>
       IF work.report = "unlanded" THEN Unlanded(work.id, lane[work.id], commits, landed)
       ELSE work.cellHead \in Holds(target)

IInv ==
  /\ LaneInv(lane)
  /\ \A a \in Ids : RowTrue(a, lane[a], said, commits, target, landed)
  /\ Outside /\ MailInv /\ Control

-----------------------------------------------------------------------------
(* What the operators on rows return *)

Static(r, s) ==
  /\ s.executor = r.executor /\ s.ref = r.ref /\ s.mode = r.mode /\ s.position = r.position

\* The fields of a row have their types.
LEMMA RowFields ==
  ASSUME NEW r \in Row
  PROVE  /\ r.executor \in Executors /\ r.ref \in Nat /\ r.position \in Nat
         /\ r.status \in {"queued", "running", "waiting", "succeeded", "failed", "cancelled"}
         /\ r.reason \in {"none", "input", "executor", "uncertain"}
         /\ r.attempt \in Nat /\ r.token \in Nat
         /\ r.expectedHead \in Nat \union {Nothing} /\ r.output \in Nat \union {Nothing}
         /\ r.failure \in {"none", "input_unresolved", "other"}
BY DEF Row

\* A new attempt (dispatch, offer, capture).
LEMMA OpenedFacts ==
  ASSUME NEW r \in Row, NEW status \in {"running", "waiting"}, NEW reason \in {"none", "executor"}
  PROVE  LET s == Opened(r, status, reason)
         IN  /\ s \in Row /\ Static(r, s) /\ s.status = status /\ s.reason = reason
             /\ s.attempt = r.attempt + 1 /\ s.expectedHead = Nothing /\ s.output = Nothing
             /\ s.failure = "none"
<1> DEFINE t == IF r.executor \in {"agent", "external"} THEN r.attempt + 1 ELSE 0
           n == r.attempt + 1
           s == [r EXCEPT !.status = status, !.reason = reason, !.attempt = n, !.token = t,
                          !.dispatched = TRUE, !.delivered = FALSE, !.claimedBy = "none",
                          !.question = "none", !.expectedHead = Nothing, !.output = Nothing,
                          !.failure = "none"]
<1>1. t \in Nat /\ n \in Nat
  BY DEF Row
<1>2. Opened(r, status, reason) = s
  BY Zenon DEF Opened
<1> HIDE DEF t, n
<1>3. s \in Row
  BY <1>1, ZenonT(60) DEF Row, Nothing
<1>4. /\ Static(r, s) /\ s.status = status /\ s.reason = reason
      /\ s.attempt = n /\ s.expectedHead = Nothing /\ s.output = Nothing
      /\ s.failure = "none"
  BY <1>1 DEF Row, Static
<1> QED
  BY <1>2, <1>3, <1>4, Zenon DEF n

\* retryAction's row.
LEMMA RequeuedFacts ==
  ASSUME NEW r \in Row
  PROVE  LET s == Requeued(r)
         IN  /\ s \in Row /\ Static(r, s) /\ s.status = "queued" /\ s.reason = "none"
             /\ s.attempt = r.attempt /\ s.expectedHead = Nothing /\ s.output = Nothing
             /\ s.failure = "none" /\ s.token = 0
BY ZenonT(60) DEF Requeued, Row, Static

\* Parked.
LEMMA WaitingFacts ==
  ASSUME NEW r \in Row, NEW reason \in {"input", "executor", "uncertain"}
  PROVE  LET s == Waiting(r, reason)
         IN  /\ s \in Row /\ Static(r, s) /\ s.status = "waiting" /\ s.reason = reason
             /\ s.attempt = r.attempt /\ s.expectedHead = r.expectedHead /\ s.output = r.output
             /\ s.failure = r.failure
BY ZenonT(60) DEF Waiting, Row, Static

\* failActionRow's row.
LEMMA FailedFacts ==
  ASSUME NEW r \in Row, NEW failure \in {"input_unresolved", "other"}
  PROVE  LET s == Failed(r, failure)
         IN  /\ s \in Row /\ Static(r, s) /\ s.status = "failed" /\ s.reason = "none"
             /\ s.attempt = r.attempt /\ s.expectedHead = r.expectedHead /\ s.output = r.output
             /\ s.failure = failure
<1>1. Failed(r, failure) \in Row
  BY ZenonT(60) DEF Failed, Row
<1>2. Static(r, Failed(r, failure))
  BY DEF Failed, Row, Static
<1> QED
  BY <1>1, <1>2 DEF Failed, Row

\* The row of a success.
LEMMA SucceededFacts ==
  ASSUME NEW r \in Row, NEW output \in Nat \union {Nothing}
  PROVE  LET s == Succeeded(r, output)
         IN  /\ s \in Row /\ Static(r, s) /\ s.status = "succeeded" /\ s.reason = "none"
             /\ s.attempt = r.attempt /\ s.expectedHead = r.expectedHead /\ s.output = output
             /\ s.failure = "none"
<1>1. Succeeded(r, output) \in Row
  BY ZenonT(60) DEF Succeeded, Row, Nothing
<1>2. Static(r, Succeeded(r, output))
  BY DEF Succeeded, Row, Static
<1> QED
  BY <1>1, <1>2 DEF Succeeded, Row

-----------------------------------------------------------------------------
(* How rows may change *)

\* Row a of lane l may become r.
Follows(l, a, r) ==
  /\ Static(l[a], r)
  /\ l[a].status \in Final => r.status = l[a].status /\ r.output = l[a].output
  /\ Started(r) => Started(l[a]) \/ Cleared(l, a)
  /\ r.failure = "input_unresolved" => l[a].failure = "input_unresolved" \/ RefDead(l, a)
  /\ r.attempt > 0 => l[a].attempt > 0 \/ Resolves(l, a)

\* The rows of a lane have their types.
LEMMA LaneFacts ==
  ASSUME NEW l, LaneInv(l)
  PROVE  /\ l \in Seq(Row) /\ Len(l) \in Nat /\ DOMAIN l = 1 .. Len(l)
         /\ \A a \in DOMAIN l : /\ l[a] \in Row /\ RowInv(l[a])
                                /\ l[a].position \in Nat /\ l[a].attempt \in Nat /\ l[a].ref \in Nat
<1>1. l \in Seq(Row) /\ \A a \in DOMAIN l : RowInv(l[a])
  BY DEF LaneInv
<1>2. Len(l) \in Nat /\ DOMAIN l = 1 .. Len(l)
  BY <1>1, LenProperties
<1>3. \A a \in DOMAIN l : l[a] \in Row
  BY <1>1 DEF RowInv
<1> QED
  BY <1>1, <1>2, <1>3, RowFields

\* Rows that change as Follows allows keep what rows say of each other.
LEMMA LaneStep ==
  ASSUME NEW l, LaneInv(l), NEW m \in Seq(Row), Len(m) = Len(l),
         \A a \in DOMAIN l : RowInv(m[a]) /\ Follows(l, a, m[a])
  PROVE  LaneInv(m)
<1>1. /\ DOMAIN m = DOMAIN l
      /\ \A a \in DOMAIN l : /\ m[a].position = l[a].position /\ m[a].ref = l[a].ref
                             /\ l[a].status \in Final => /\ m[a].status = l[a].status
                                                         /\ m[a].output = l[a].output
  BY LaneFacts, LenProperties DEF Follows, Static
<1>2. InOrder(m)
  BY <1>1 DEF LaneInv, InOrder, Follows, Cleared
<1>3. ASSUME NEW a \in DOMAIN l
      PROVE  /\ RefersBack(m, a)
             /\ m[a].failure = "input_unresolved" => RefDead(m, a)
             /\ m[a].attempt > 0 => Resolves(m, a)
  <2>1. l[a].ref # 0 => l[a].ref \in DOMAIN l
    BY DEF LaneInv, RefersBack
  <2>2. RefersBack(m, a)
    BY <1>1, <2>1 DEF LaneInv, RefersBack
  <2>3. m[a].failure = "input_unresolved" => RefDead(m, a)
    BY <1>1, <2>1 DEF LaneInv, RefDead, Follows, Final
  <2>4. m[a].attempt > 0 => Resolves(m, a)
    BY <1>1, <2>1 DEF LaneInv, Resolves, Follows, Final
  <2> QED
    BY <2>2, <2>3, <2>4
<1>4. /\ \A a \in DOMAIN m : RowInv(m[a]) /\ m[a].position <= Len(m)
      /\ \A a, b \in DOMAIN m : m[a].position = m[b].position => a = b
  BY <1>1 DEF LaneInv
<1> QED
  BY <1>1, <1>2, <1>3, <1>4 DEF LaneInv

\* The scheduler releases an action only when everything before it is done.
LEMMA ReleasedCleared ==
  ASSUME NEW l, LaneInv(l), NEW a \in Releasable(l)
  PROVE  a \in DOMAIN l /\ l[a].status = "queued" /\ Cleared(l, a)
<1>1. a \in DOMAIN l /\ l[a].status = "queued" /\ PredecessorDone(l, a)
  BY DEF Releasable
<1>2. ASSUME NEW b \in DOMAIN l, l[b].position < l[a].position, l[b].status # "cancelled"
      PROVE  l[b].status \in Final
  <2>1. PICK c \in DOMAIN l : /\ l[c].position < l[a].position /\ l[c].status = "succeeded"
                              /\ l[b].position <= l[c].position
    BY <1>1, <1>2 DEF PredecessorDone
  <2>2. CASE l[b].position < l[c].position
    BY <2>1, <2>2 DEF LaneInv, InOrder, Cleared, Started
  <2>3. CASE l[b].position = l[c].position
    BY <2>1, <2>3 DEF LaneInv, Final
  <2> QED
    BY <2>1, <2>2, <2>3, LaneFacts
<1> QED
  BY <1>1, <1>2 DEF Cleared, Final

-----------------------------------------------------------------------------
(* A step that changes one row *)

\* What a row must be to take the place of row a.
Fits(a, r, sd) ==
  RowInv(r) /\ Follows(lane, a, r) /\ RowTrue(a, r, sd, commits, target, landed)

\* The rows after one of them has changed; said may grow.
LEMMA RowUpdate ==
  ASSUME IInv, NEW a \in Ids, NEW r, Fits(a, r, said'), Put(a, r), said \subseteq said',
         UNCHANGED <<commits, target, landed>>
  PROVE  /\ Ids' = Ids /\ LaneInv(lane)' /\ lane'[a] = r
         /\ \A b \in Ids : /\ RowTrue(b, lane[b], said, commits, target, landed)'
                           /\ lane'[b].executor = lane[b].executor
<1>1. LaneInv(lane) /\ Ids = 1 .. Len(lane) /\ lane \in Seq(Row) /\ r \in Row
  BY LaneFacts DEF IInv, Ids, Fits, RowInv
<1>2. /\ lane' \in Seq(Row) /\ Len(lane') = Len(lane)
      /\ \A b \in Ids : lane'[b] = IF b = a THEN r ELSE lane[b]
  BY <1>1, ExceptSeq DEF Put
<1>3. Ids' = Ids
  BY <1>1, <1>2, LenProperties DEF Ids
<1>4. ASSUME NEW b \in Ids PROVE RowInv(lane'[b]) /\ Follows(lane, b, lane'[b])
  BY <1>1, <1>2 DEF Fits, Follows, Static, LaneInv, Ids
<1>5. LaneInv(lane')
  BY <1>1, <1>2, <1>4, LaneStep DEF Ids
<1>6. ASSUME NEW b \in Ids
      PROVE  RowTrue(b, lane'[b], said', commits, target, landed)
  <2>1. CASE b = a
    BY <1>2, <2>1 DEF Fits
  <2>2. CASE b # a
    BY <1>2, <2>2 DEF IInv, RowTrue
  <2> QED
    BY <2>1, <2>2
<1>7. \A b \in Ids : lane'[b].executor = lane[b].executor
  BY <1>4 DEF Follows, Static
<1> QED
  BY <1>2, <1>3, <1>5, <1>6, <1>7

\* The loop or a handler comes to rest; everything but rows, reports and mail is
\* as it was or has its type.
ComesToRest ==
  /\ pc' = "rest" /\ (work' = work \/ work' = NoWork)
  /\ UNCHANGED <<target, landed, outside>>
  /\ paused' \in BOOLEAN /\ lifecycle' \in {"active", "archived"}
  /\ requests' \in 0 .. MaxRequests /\ faults' \in 0 .. MaxFaults

\* The mail and the tokens after a step that changes no executor.
MailFits ==
  /\ mailbox' \subseteq Ids \X (1 .. MaxAttempt)
  /\ known' \subseteq Ids \X (1 .. MaxAttempt) \X (Claimants \union {"bee"})
  /\ \A m \in mailbox' : lane[m[1]].executor = "agent"
  /\ \A k \in known' : lane[k[1]].executor \in {"agent", "external"}

\* Mail that is left alone fits.
LEMMA MailKept ==
  ASSUME IInv
  PROVE  /\ mailbox' \subseteq mailbox /\ known' = known => MailFits
         /\ \A a \in Ids : Withdrawn(lane[a], a) \subseteq mailbox
BY DEF IInv, MailInv, MailFits, Withdrawn

\* NoWork has the type of work.
LEMMA NoWorkType ==
  ASSUME NEW cs
  PROVE  NoWork \in Work(cs)
BY DEF NoWork, Work

\* The invariant after a step at rest that keeps the rows' part of it.
LEMMA AtRest ==
  ASSUME IInv, ComesToRest, MailFits, Ids' = Ids, LaneInv(lane)',
         \A b \in Ids : /\ RowTrue(b, lane[b], said, commits, target, landed)'
                        /\ lane'[b].executor = lane[b].executor,
         said' \subseteq Ids \X (0 .. MaxAttempt)
  PROVE  IInv'
<1>1. Outside'
  BY DEF IInv, Outside, ComesToRest, outside, Past
<1>2. MailInv'
  <2>1. \A m \in mailbox' : m[1] \in Ids
    BY DEF MailFits
  <2>2. \A k \in known' : k[1] \in Ids
    BY DEF MailFits
  <2> QED
    BY <2>1, <2>2 DEF MailFits, MailInv
<1>3. Control'
  <2>1. work' \in Work(commits')
    BY NoWorkType DEF IInv, Control, ComesToRest, outside
  <2> QED
    BY <2>1 DEF Control, ComesToRest
<1> QED
  BY <1>1, <1>2, <1>3 DEF IInv

\* A step at rest that changes one row.
LEMMA OneRow ==
  ASSUME IInv, NEW a \in Ids, NEW r, Fits(a, r, said'), Put(a, r), ComesToRest, MailFits,
         said \subseteq said', said' \subseteq Ids \X (0 .. MaxAttempt)
  PROVE  IInv'
<1>1. UNCHANGED <<commits, target, landed>>
  BY DEF ComesToRest, outside
<1>2. /\ Ids' = Ids /\ LaneInv(lane)'
      /\ \A b \in Ids : /\ RowTrue(b, lane[b], said, commits, target, landed)'
                        /\ lane'[b].executor = lane[b].executor
  BY <1>1, RowUpdate
<1> QED
  BY <1>2, AtRest

-----------------------------------------------------------------------------
(* The commits *)

\* Ancestors and changes a new commit may have.
Rooted(past, holds) ==
  /\ past \subseteq holds /\ holds \subseteq DOMAIN commits
  /\ \A d \in past : Past(d) \subseteq past /\ Holds(d) \subseteq holds

\* Commits cs with the target at tg become cs2 with the target at tg2: none is lost,
\* and the target has moved to itself or to a descendant.
Forward(cs, tg, cs2, tg2) ==
  /\ Graph(cs2) /\ DOMAIN cs \subseteq DOMAIN cs2 /\ \A c \in DOMAIN cs : cs2[c] = cs[c]
  /\ tg2 \in DOMAIN cs2 /\ tg \in cs2[tg2].past

\* Every commit has a past of its own.
LEMMA GraphFacts ==
  ASSUME IInv
  PROVE  /\ Graph(commits) /\ head \in DOMAIN commits /\ target \in DOMAIN commits
         /\ head \in Nat /\ target \in Nat
         /\ Len(commits) \in Nat /\ DOMAIN commits = 1 .. Len(commits)
         /\ \A c \in DOMAIN commits : /\ c \in Past(c) /\ c \in Holds(c) /\ Past(c) \subseteq Holds(c)
                                     /\ Holds(c) \subseteq 1 .. c /\ Rooted(Past(c), Holds(c))
<1>1. Graph(commits) /\ head \in DOMAIN commits /\ target \in DOMAIN commits
  BY DEF IInv, Outside
<1>2. Len(commits) \in Nat /\ DOMAIN commits = 1 .. Len(commits)
  BY <1>1, LenProperties DEF Graph
<1>3. ASSUME NEW c \in DOMAIN commits
      PROVE  /\ c \in Past(c) /\ c \in Holds(c) /\ Past(c) \subseteq Holds(c)
             /\ Holds(c) \subseteq 1 .. c /\ Rooted(Past(c), Holds(c))
  <2>1. c \in Past(c) /\ Past(c) \subseteq Holds(c) /\ Holds(c) \subseteq 1 .. c
    BY <1>1 DEF Graph, Past, Holds
  <2>2. 1 .. c \subseteq DOMAIN commits
    BY <1>2
  <2>3. \A d \in Past(c) : Past(d) \subseteq Past(c) /\ Holds(d) \subseteq Holds(c)
    BY <1>1 DEF Graph, Past, Holds
  <2> QED
    BY <2>1, <2>2, <2>3 DEF Rooted
<1> QED
  BY <1>1, <1>2, <1>3

\* A new commit leaves the others as they are.
LEMMA GrownFacts ==
  ASSUME IInv, NEW past, NEW holds, Rooted(past, holds)
  PROVE  LET cs == Grown(past, holds)
             n == Len(commits) + 1
         IN  /\ Graph(cs) /\ DOMAIN commits \subseteq DOMAIN cs
             /\ \A c \in DOMAIN commits : cs[c] = commits[c]
             /\ n \in DOMAIN cs /\ past \subseteq cs[n].past /\ holds \subseteq cs[n].holds
<1> DEFINE cs == Grown(past, holds)
           n == Len(commits) + 1
           new == [past |-> past \union {n}, holds |-> holds \union {n}]
<1>1. /\ Graph(commits) /\ Len(commits) \in Nat /\ DOMAIN commits = 1 .. Len(commits)
      /\ commits \in Seq([past: SUBSET Nat, holds: SUBSET Nat])
  BY GraphFacts DEF Graph
<1>2. n \in Nat /\ 1 .. n = DOMAIN commits \union {n} /\ n \notin DOMAIN commits
  BY <1>1
<1>3. past \subseteq holds /\ holds \subseteq DOMAIN commits /\ DOMAIN commits \subseteq Nat
  BY <1>1 DEF Rooted
<1>4. new \in [past: SUBSET Nat, holds: SUBSET Nat]
  BY <1>2, <1>3
<1>5. cs = Append(commits, new)
  BY DEF Grown
<1> HIDE DEF new, n, cs
<1>6. /\ cs \in Seq([past: SUBSET Nat, holds: SUBSET Nat]) /\ Len(cs) = n
      /\ \A c \in 1 .. Len(commits) : cs[c] = commits[c]
      /\ cs[n] = new
  BY <1>1, <1>4, <1>5, AppendProperties DEF n
<1>7. DOMAIN cs = DOMAIN commits \union {n}
  BY <1>2, <1>6, LenProperties
<1>8. cs[n].past = past \union {n} /\ cs[n].holds = holds \union {n}
  BY <1>6 DEF new
<1>9. ASSUME NEW c \in DOMAIN cs
      PROVE  /\ c \in cs[c].past /\ cs[c].past \subseteq cs[c].holds /\ cs[c].holds \subseteq 1 .. c
             /\ \A d \in cs[c].past : cs[d].past \subseteq cs[c].past /\ cs[d].holds \subseteq cs[c].holds
  <2>1. CASE c \in DOMAIN commits
    <3>1. /\ c \in Past(c) /\ Past(c) \subseteq Holds(c) /\ Holds(c) \subseteq 1 .. c
          /\ Rooted(Past(c), Holds(c))
      BY <2>1, GraphFacts
    <3>2. cs[c] = commits[c] /\ \A d \in Past(c) : cs[d] = commits[d]
      BY <1>1, <1>6, <2>1, <3>1 DEF Rooted
    <3> QED
      BY <3>1, <3>2 DEF Past, Holds, Rooted
  <2>2. CASE c = n
    <3>1. \A d \in past : cs[d] = commits[d]
      BY <1>1, <1>3, <1>6
    <3>2. \A d \in past : cs[d].past \subseteq past /\ cs[d].holds \subseteq holds
      BY <3>1 DEF Rooted, Past, Holds
    <3>3. holds \subseteq 1 .. n /\ n \in 1 .. n
      BY <1>2, <1>3
    <3> QED
      BY <1>3, <1>8, <2>2, <3>2, <3>3
  <2> QED
    BY <1>7, <2>1, <2>2
<1>10. Graph(cs)
  BY <1>6, <1>9 DEF Graph
<1> QED
  BY <1>1, <1>6, <1>7, <1>8, <1>10 DEF cs, n

\* What is in the target stays in it.
LEMMA ForwardFacts ==
  ASSUME IInv, Forward(commits, target, commits', target')
  PROVE  /\ Past(target) \subseteq Past(target)' /\ Holds(target) \subseteq Holds(target)'
         /\ target' \in Past(target)'
BY GraphFacts DEF Forward, Graph, Past, Holds

-----------------------------------------------------------------------------
(* Which rows fit *)

\* Row a of the lane, its type and what the invariant says of it.
LEMMA RowOf ==
  ASSUME IInv, NEW a \in Ids
  PROVE  /\ lane[a] \in Row /\ RowInv(lane[a])
         /\ RowTrue(a, lane[a], said, commits, target, landed)
         /\ lane[a].attempt \in Nat /\ lane[a].position \in Nat
         /\ lane[a].expectedHead \in Nat \union {Nothing}
         /\ lane[a].output \in Nat \union {Nothing}
<1>1. /\ lane[a] \in Row /\ RowInv(lane[a])
      /\ RowTrue(a, lane[a], said, commits, target, landed)
  BY LaneFacts DEF IInv, Ids
<1> QED
  BY <1>1, RowFields

\* A failure with its reason; a capture whose HEAD has landed never fails.
LEMMA FailedFits ==
  ASSUME IInv, NEW a \in Ids, NEW failure \in {"input_unresolved", "other"},
         NEW sd, said \subseteq sd, lane[a].status \notin Final,
         Started(lane[a]) \/ Cleared(lane, a),
         failure = "input_unresolved" => RefDead(lane, a),
         lane[a].executor = "capture" => Unlanded(a, lane[a], commits, landed)
  PROVE  Fits(a, Failed(lane[a], failure), sd)
<1> DEFINE s == Failed(lane[a], failure)
<1>1. /\ s \in Row /\ Static(lane[a], s) /\ s.status = "failed" /\ s.reason = "none"
      /\ s.attempt = lane[a].attempt /\ s.expectedHead = lane[a].expectedHead
      /\ s.output = lane[a].output /\ s.failure = failure
  BY RowOf, FailedFacts
<1> HIDE DEF s
<1>2. RowInv(s)
  BY <1>1, RowOf DEF RowInv, Active
<1>3. Follows(lane, a, s)
  BY <1>1 DEF Follows, Started
<1>4. RowTrue(a, s, sd, commits, target, landed)
  BY <1>1, RowOf DEF RowTrue, Unlanded, Static, Holds
<1> QED
  BY <1>2, <1>3, <1>4 DEF Fits, s

\* A success with its report, or with its work in the target.
LEMMA SucceededFits ==
  ASSUME IInv, NEW a \in Ids, NEW output \in Nat \union {Nothing},
         NEW sd, said \subseteq sd, lane[a].status \notin Final, Started(lane[a]),
         lane[a].executor \in {"agent", "external"} => <<a, lane[a].attempt>> \in sd,
         lane[a].executor = "capture" => output \in Holds(target)
  PROVE  Fits(a, Succeeded(lane[a], output), sd)
<1> DEFINE s == Succeeded(lane[a], output)
<1>1. /\ s \in Row /\ Static(lane[a], s) /\ s.status = "succeeded" /\ s.reason = "none"
      /\ s.attempt = lane[a].attempt /\ s.expectedHead = lane[a].expectedHead
      /\ s.output = output /\ s.failure = "none"
  <2>1. lane[a] \in Row
    BY RowOf
  <2> QED
    BY <2>1, SucceededFacts
<1> HIDE DEF s
<1>2. RowInv(s)
  BY <1>1, RowOf DEF RowInv, Active
<1>3. Follows(lane, a, s)
  BY <1>1 DEF Follows, Started
<1>4. RowTrue(a, s, sd, commits, target, landed)
  BY <1>1, RowOf DEF RowTrue, Unlanded, Static, Holds
<1> QED
  BY <1>2, <1>3, <1>4 DEF Fits, s

\* An attempt parked, or a capture held back.
LEMMA WaitingFits ==
  ASSUME IInv, NEW a \in Ids, NEW reason \in {"input", "executor", "uncertain"},
         lane[a].status \notin Final \union {"failed"}, Started(lane[a]) \/ Cleared(lane, a),
         IF reason = "executor" THEN lane[a].executor = "capture" /\ lane[a].attempt < MaxAttempt
         ELSE lane[a].attempt >= 1
  PROVE  Fits(a, Waiting(lane[a], reason), said)
<1> DEFINE s == Waiting(lane[a], reason)
<1>1. /\ s \in Row /\ Static(lane[a], s) /\ s.status = "waiting" /\ s.reason = reason
      /\ s.attempt = lane[a].attempt /\ s.expectedHead = lane[a].expectedHead
      /\ s.output = lane[a].output /\ s.failure = lane[a].failure
  BY RowOf, WaitingFacts
<1> HIDE DEF s
<1>2. RowInv(s)
  BY <1>1, RowOf DEF RowInv, Active, Static
<1>3. Follows(lane, a, s)
  BY <1>1 DEF Follows, Started
<1>4. RowTrue(a, s, said, commits, target, landed)
  BY <1>1, RowOf DEF RowTrue, Static
<1> QED
  BY <1>2, <1>3, <1>4 DEF Fits, s

\* A new attempt of a row whose turn it is.
LEMMA OpenedFits ==
  ASSUME IInv, NEW a \in Ids, NEW status \in {"running", "waiting"},
         NEW reason \in {"none", "executor"}, status = "waiting" <=> reason = "executor",
         lane[a].status \in {"queued", "waiting"}, lane[a].attempt < MaxAttempt,
         Started(lane[a]) \/ Cleared(lane, a), Resolves(lane, a),
         lane[a].executor = "capture" => reason = "none"
  PROVE  /\ Fits(a, Opened(lane[a], status, reason), said)
         /\ \A l \in landed : ~(l[1] = a /\ l[2] = lane[a].attempt + 1)
<1> DEFINE s == Opened(lane[a], status, reason)
<1>1. /\ s \in Row /\ Static(lane[a], s) /\ s.status = status /\ s.reason = reason
      /\ s.attempt = lane[a].attempt + 1 /\ s.expectedHead = Nothing /\ s.output = Nothing
      /\ s.failure = "none"
  BY RowOf, OpenedFacts
<1> HIDE DEF s
<1>2. RowInv(s)
  BY <1>1, RowOf, QueueAssumption DEF RowInv, Static
<1>3. Follows(lane, a, s)
  BY <1>1 DEF Follows, Final
<1>4. \A l \in landed : l[1] = a => l[2] <= lane[a].attempt /\ l[2] \in Nat
  <2>1. \A l \in landed : l[2] \in 1 .. MaxAttempt
    BY DEF IInv, Outside
  <2> QED
    <3>1. \A l \in landed : l[1] = a => l[2] <= lane[a].attempt
      BY RowOf DEF RowTrue
    <3>2. 1 .. MaxAttempt \subseteq Nat
      BY QueueAssumption
    <3> QED
      BY <2>1, <3>1, <3>2
<1>5. \A l \in landed : ~(l[1] = a /\ l[2] = lane[a].attempt + 1)
  BY <1>4, RowOf
<1>6. RowTrue(a, s, said, commits, target, landed)
  <2>1. \A l \in landed : l[1] = a => l[2] <= s.attempt
    BY <1>1, <1>4, RowOf
  <2> QED
    BY <1>1, <2>1 DEF RowTrue
<1> QED
  BY <1>2, <1>3, <1>5, <1>6 DEF Fits, s

\* A row that differs from one that fits only in what the invariant does not read.
LEMMA AlikeFits ==
  ASSUME NEW a, NEW r, NEW s \in Row, NEW sd, Fits(a, r, sd),
         Static(r, s), s.status = r.status, s.reason = r.reason, s.attempt = r.attempt,
         s.expectedHead = r.expectedHead, s.output = r.output, s.failure = r.failure,
         s.token = r.token \/ s.token = 0
  PROVE  Fits(a, s, sd)
<1>1. RowInv(s)
  BY DEF Fits, RowInv, Static
<1>2. Follows(lane, a, s)
  BY DEF Fits, Follows, Static, Started
<1>3. RowTrue(a, s, sd, commits, target, landed)
  BY DEF Fits, RowTrue, Unlanded, Static
<1> QED
  BY <1>1, <1>2, <1>3 DEF Fits

\* A row fits its own place.
LEMMA SelfFits ==
  ASSUME IInv, NEW a \in Ids
  PROVE  Fits(a, lane[a], said)
BY RowOf DEF Fits, Follows, Static

-----------------------------------------------------------------------------
(* The scheduler *)

\* The row the scheduler takes up.
LEMMA ReleasedRow ==
  ASSUME IInv, NEW a, Released(a)
  PROVE  /\ a \in Ids /\ lane[a].status = "queued" /\ Cleared(lane, a)
         /\ lane[a].attempt < MaxAttempt /\ pc = "rest"
<1>1. a \in Ids /\ lane[a].status = "queued" /\ Cleared(lane, a) /\ pc = "rest"
  BY ReleasedCleared DEF IInv, Released, Ids
<1> QED
  BY <1>1, RowOf DEF RowInv

\* A step at rest that leaves everything but one row, the mail and the bee alone.
LEMMA PlainRest ==
  ASSUME IInv, pc = "rest",
         UNCHANGED <<paused, target, pc, work, requests, faults, outside, history>>,
         lifecycle' \in {lifecycle, "active", "archived"}
  PROVE  /\ ComesToRest /\ said \subseteq said' /\ said' \subseteq Ids \X (0 .. MaxAttempt)
         /\ said' = said
BY DEF IInv, Outside, ComesToRest, history

\* FailUnresolved: a reference before the action is done, so it cannot resolve later.
LEMMA FailUnresolvedKeeps ==
  ASSUME IInv, NEW a \in Ids, FailUnresolved(a)
  PROVE  IInv'
<1>1. /\ lane[a].status = "queued" /\ Cleared(lane, a) /\ pc = "rest"
      /\ ~Resolves(lane, a) /\ Put(a, Failed(lane[a], "input_unresolved"))
  BY ReleasedRow DEF FailUnresolved
<1>2. ComesToRest /\ said' = said /\ said' \subseteq Ids \X (0 .. MaxAttempt) /\ MailFits
  BY <1>1, PlainRest, MailKept DEF FailUnresolved
<1>3. RefDead(lane, a)
  <2>1. RefersBack(lane, a)
    BY DEF IInv, LaneInv, Ids
  <2> QED
    BY <1>1, <2>1 DEF RefersBack, RefDead, Resolves, Cleared, Final
<1>4. Unlanded(a, lane[a], commits, landed)
  <2>1. ~(lane[a].attempt > 0) /\ lane[a].attempt \in Nat
    BY <1>1, RowOf DEF IInv, LaneInv, Ids
  <2>2. \A l \in landed : l[2] \in 1 .. MaxAttempt
    BY DEF IInv, Outside
  <2> QED
    BY <2>1, <2>2 DEF Unlanded
<1>5. Fits(a, Failed(lane[a], "input_unresolved"), said')
  BY <1>1, <1>2, <1>3, <1>4, FailedFits DEF Final
<1> QED
  BY <1>1, <1>2, <1>5, OneRow

\* DispatchAgentAction: a new attempt, and its instruction.
LEMMA DispatchAgentKeeps ==
  ASSUME IInv, NEW a \in Ids, DispatchAgentAction(a)
  PROVE  IInv'
<1> DEFINE r == Opened(lane[a], "running", "none")
<1>1. /\ lane[a].status = "queued" /\ Cleared(lane, a) /\ pc = "rest"
      /\ lane[a].attempt < MaxAttempt /\ Resolves(lane, a) /\ lane[a].executor = "agent"
      /\ Put(a, r) /\ mailbox' = mailbox \union {<<a, lane[a].attempt + 1>>} /\ known' = known
  BY ReleasedRow DEF DispatchAgentAction
<1>2. ComesToRest /\ said' = said /\ said' \subseteq Ids \X (0 .. MaxAttempt)
  BY <1>1, PlainRest DEF DispatchAgentAction
<1>3. MailFits
  <2>1. lane[a].attempt + 1 \in 1 .. MaxAttempt
    BY <1>1, RowOf, QueueAssumption
  <2> QED
    BY <1>1, <2>1 DEF IInv, MailInv, MailFits
<1>4. Fits(a, r, said')
  BY <1>1, <1>2, OpenedFits
<1> HIDE DEF r
<1> QED
  BY <1>1, <1>2, <1>3, <1>4, OneRow

\* DispatchArchiveAction: the command is queued, or there is nothing to do.
LEMMA DispatchArchiveKeeps ==
  ASSUME IInv, NEW a \in Ids, DispatchArchiveAction(a)
  PROVE  IInv'
<1> DEFINE o == Opened(lane[a], "running", "none")
           r == IF lifecycle = "archived" THEN Succeeded(o, 0) ELSE [o EXCEPT !.command = "queued"]
<1>1. /\ lane[a].status = "queued" /\ Cleared(lane, a) /\ pc = "rest"
      /\ lane[a].attempt < MaxAttempt /\ Resolves(lane, a) /\ lane[a].executor = "archive"
      /\ Put(a, r)
  BY ReleasedRow DEF DispatchArchiveAction
<1>2. ComesToRest /\ said' = said /\ said' \subseteq Ids \X (0 .. MaxAttempt) /\ MailFits
  BY <1>1, PlainRest, MailKept DEF DispatchArchiveAction
<1>3. Fits(a, o, said) /\ o \in Row /\ o.executor = "archive" /\ o.status = "running"
      /\ o.attempt \in Nat
  <2>1. lane[a] \in Row
    BY RowOf
  <2>2. o \in Row /\ Static(lane[a], o) /\ o.status = "running"
    BY <2>1, OpenedFacts
  <2>3. Fits(a, o, said)
    BY <1>1, OpenedFits
  <2> QED
    BY <1>1, <2>2, <2>3, RowFields DEF Static
<1> HIDE DEF o
<1>4. CASE lifecycle = "archived"
  <2>1. r = Succeeded(o, 0)
    BY <1>4
  <2>2. /\ r \in Row /\ Static(o, r) /\ r.status = "succeeded" /\ r.reason = "none"
        /\ r.attempt = o.attempt /\ r.expectedHead = o.expectedHead /\ r.failure = "none"
    <3> HIDE DEF r
    <3>1. 0 \in Nat \union {Nothing}
      OBVIOUS
    <3> QED
      BY <1>3, <2>1, <3>1, SucceededFacts
  <2> HIDE DEF r
  <2>3. RowInv(r)
    BY <1>3, <2>2 DEF Fits, RowInv, Active
  <2>4. Follows(lane, a, r)
    BY <1>1, <1>3, <2>2 DEF Fits, Follows, Static, Started, Final
  <2>5. RowTrue(a, r, said, commits, target, landed)
    BY <1>3, <2>2 DEF Fits, RowTrue, Static, Active
  <2> QED
    BY <2>3, <2>4, <2>5, <1>1, <1>2, OneRow DEF Fits
<1>5. CASE lifecycle # "archived"
  <2>1. r = [o EXCEPT !.command = "queued"]
    BY <1>5
  <2>2. /\ r \in Row /\ Static(o, r) /\ r.status = o.status /\ r.reason = o.reason
        /\ r.attempt = o.attempt /\ r.expectedHead = o.expectedHead /\ r.output = o.output
        /\ r.failure = o.failure /\ r.token = o.token
    BY <1>3, <2>1 DEF Row, Static
  <2> HIDE DEF r
  <2> QED
    BY <1>1, <1>2, <1>3, <2>2, AlikeFits, OneRow
<1> QED
  BY <1>4, <1>5

\* ReconcileArchiveAction: the command's end is the action's.
LEMMA ReconcileArchiveKeeps ==
  ASSUME IInv, NEW a \in Ids, ReconcileArchiveAction(a)
  PROVE  IInv'
<1>1. lane[a].executor = "archive" /\ lane[a].status = "running" /\ pc = "rest"
  BY DEF ReconcileArchiveAction
<1>2. ComesToRest /\ said' = said /\ said' \subseteq Ids \X (0 .. MaxAttempt) /\ MailFits
  BY <1>1, PlainRest, MailKept DEF ReconcileArchiveAction
<1>3. Fits(a, Succeeded(lane[a], 0), said') /\ Fits(a, Failed(lane[a], "other"), said')
  <2>1. 0 \in Nat \union {Nothing}
    OBVIOUS
  <2> QED
    BY <1>1, <1>2, <2>1, SucceededFits, FailedFits DEF Started, Final
<1>4. Put(a, Succeeded(lane[a], 0)) \/ Put(a, Failed(lane[a], "other"))
  BY DEF ReconcileArchiveAction
<1> QED
  BY <1>2, <1>3, <1>4, OneRow

\* OfferExternal: a new attempt that waits for its claimant.
LEMMA OfferKeeps ==
  ASSUME IInv, NEW a \in Ids, OfferExternal(a)
  PROVE  IInv'
<1> DEFINE r == Opened(lane[a], "waiting", "executor")
<1>1. /\ lane[a].status = "queued" /\ Cleared(lane, a) /\ pc = "rest"
      /\ lane[a].attempt < MaxAttempt /\ Resolves(lane, a) /\ lane[a].executor = "external"
      /\ Put(a, r)
  BY ReleasedRow DEF OfferExternal
<1>2. ComesToRest /\ said' = said /\ said' \subseteq Ids \X (0 .. MaxAttempt) /\ MailFits
  BY <1>1, PlainRest, MailKept DEF OfferExternal
<1>3. Fits(a, r, said')
  BY <1>1, <1>2, OpenedFits
<1> HIDE DEF r
<1> QED
  BY <1>1, <1>2, <1>3, OneRow

-----------------------------------------------------------------------------
(* Captures *)

\* HoldCapture: the action waits for its cell.
LEMMA HoldCaptureKeeps ==
  ASSUME IInv, NEW a \in Ids, HoldCapture(a)
  PROVE  IInv'
<1>1. /\ lane[a].status = "queued" /\ Cleared(lane, a) /\ pc = "rest"
      /\ lane[a].attempt < MaxAttempt /\ lane[a].executor = "capture"
      /\ Put(a, Waiting(lane[a], "executor"))
  BY ReleasedRow DEF HoldCapture
<1>2. ComesToRest /\ said' = said /\ said' \subseteq Ids \X (0 .. MaxAttempt) /\ MailFits
  BY <1>1, PlainRest, MailKept DEF HoldCapture
<1>3. Fits(a, Waiting(lane[a], "executor"), said')
  BY <1>1, <1>2, WaitingFits DEF Final
<1> QED
  BY <1>1, <1>2, <1>3, OneRow

\* BeginCellCaptureAttempt: the attempt is new, so nothing of it has landed.
LEMMA BeginCaptureKeeps ==
  ASSUME IInv, NEW a \in Ids, BeginCellCaptureAttempt(a)
  PROVE  IInv'
<1> DEFINE o == Opened(lane[a], "running", "none")
           h == IF placed THEN head ELSE Nothing
           r == [o EXCEPT !.expectedHead = h]
<1>1. /\ lane[a].status \in {"queued", "waiting"}
      /\ Started(lane[a]) \/ Cleared(lane, a)
      /\ lane[a].attempt < MaxAttempt /\ Resolves(lane, a) /\ lane[a].executor = "capture"
      /\ Put(a, r)
  <2>1. CASE Released(a) /\ lane[a].executor = "capture"
    BY <2>1, ReleasedRow DEF BeginCellCaptureAttempt
  <2>2. CASE HeldForExecutor(a)
    BY <2>2, RowOf DEF BeginCellCaptureAttempt, HeldForExecutor, RowInv, Started
  <2> QED
    BY <2>1, <2>2 DEF BeginCellCaptureAttempt
<1>2. Fits(a, o, said) /\ \A l \in landed : ~(l[1] = a /\ l[2] = lane[a].attempt + 1)
  BY <1>1, OpenedFits
<1>3. /\ o \in Row /\ Static(lane[a], o) /\ o.status = "running" /\ o.attempt = lane[a].attempt + 1
      /\ o.attempt \in Nat
  <2>1. lane[a] \in Row
    BY RowOf
  <2>2. /\ o \in Row /\ Static(lane[a], o) /\ o.status = "running"
        /\ o.attempt = lane[a].attempt + 1
    BY <2>1, OpenedFacts
  <2> QED
    BY <2>2, RowFields
<1> HIDE DEF o
<1>4. h \in Nat \union {Nothing}
  BY GraphFacts
<1> HIDE DEF h
<1>5. /\ r \in Row /\ Static(o, r) /\ r.status = o.status /\ r.reason = o.reason
      /\ r.attempt = o.attempt /\ r.expectedHead = h /\ r.output = o.output
      /\ r.failure = o.failure /\ r.token = o.token
  BY <1>3, <1>4 DEF Row, Static
<1> HIDE DEF r
<1>6. Fits(a, r, said)
  <2>1. RowInv(r)
    BY <1>2, <1>3, <1>5 DEF Fits, RowInv, Static
  <2>2. Follows(lane, a, r)
    BY <1>2, <1>5 DEF Fits, Follows, Static, Started
  <2>3. RowTrue(a, r, said, commits, target, landed)
    BY <1>2, <1>3, <1>5 DEF Fits, RowTrue, Static
  <2> QED
    BY <2>1, <2>2, <2>3 DEF Fits
<1>7. /\ UNCHANGED <<paused, lifecycle, mailbox, known, target, requests, faults, commits, head,
                     placed, busy, said, landed>>
      /\ pc' = "begun" /\ work' = [NoWork EXCEPT !.id = a, !.cellHead = head]
  BY DEF BeginCellCaptureAttempt, outside, history
<1>8. /\ Ids' = Ids /\ LaneInv(lane)' /\ lane'[a] = r
      /\ \A b \in Ids : /\ RowTrue(b, lane[b], said, commits, target, landed)'
                        /\ lane'[b].executor = lane[b].executor
  <2>1. Fits(a, r, said') /\ said \subseteq said'
    BY <1>6, <1>7
  <2> QED
    BY <1>1, <1>7, <2>1, RowUpdate
<1>9. Outside'
  BY <1>7, <1>8 DEF IInv, Outside, Past
<1>10. MailInv'
  <2>1. MailFits
    BY <1>7, MailKept
  <2> QED
    BY <1>8, <2>1 DEF MailFits, MailInv
<1>11. Control'
  <2>1. a \in Nat /\ head \in DOMAIN commits
    BY LaneFacts DEF IInv, Ids, Outside
  <2>2. work' \in Work(commits') /\ work'.id = a
    BY <1>7, <2>1 DEF NoWork, Work
  <2>3. /\ lane'[a].executor = "capture" /\ lane'[a].status = "running"
        /\ lane'[a].attempt >= 1 /\ lane'[a].attempt = lane[a].attempt + 1
    BY <1>1, <1>3, <1>5, <1>8, RowOf DEF Static
  <2>4. Unlanded(a, lane'[a], commits', landed')
    BY <1>2, <1>7, <2>3 DEF Unlanded
  <2> QED
    BY <1>7, <1>8, <2>2, <2>3, <2>4 DEF Control, Active
<1> QED
  BY <1>8, <1>9, <1>10, <1>11 DEF IInv

\* RefuseCapture: nothing of the attempt has landed.
LEMMA RefuseCaptureKeeps ==
  ASSUME IInv, RefuseCapture
  PROVE  IInv'
<1> DEFINE a == work.id
<1>1. /\ a \in Ids /\ lane[a].status \in Active /\ Unlanded(a, lane[a], commits, landed)
      /\ Put(a, Failed(lane[a], "other"))
  BY DEF RefuseCapture, IInv, Control
<1>2. ComesToRest /\ said' = said /\ said' \subseteq Ids \X (0 .. MaxAttempt)
  BY DEF RefuseCapture, IInv, Outside, ComesToRest, history
<1>3. MailFits
  BY MailKept DEF RefuseCapture
<1> HIDE DEF a
<1>4. Fits(a, Failed(lane[a], "other"), said')
  BY <1>1, <1>2, FailedFits DEF Active, Final, Started
<1> QED
  BY <1>1, <1>2, <1>3, <1>4, OneRow

\* SettleCapture: the report is about the target as it is.
LEMMA SettleCaptureKeeps ==
  ASSUME IInv, SettleCapture
  PROVE  IInv'
<1> DEFINE a == work.id
<1>1. /\ a \in Ids /\ lane[a].executor = "capture" /\ lane[a].status \in Active
      /\ work.cellHead \in Nat \union {Nothing}
      /\ IF work.report = "unlanded" THEN Unlanded(a, lane[a], commits, landed)
         ELSE work.cellHead \in Holds(target)
      /\ IF work.report = "unlanded" THEN Put(a, Failed(lane[a], "other"))
         ELSE Put(a, Succeeded(lane[a], work.cellHead))
  <2>1. work.cellHead \in Nat
    BY GraphFacts DEF IInv, Control, Work
  <2> QED
    BY <2>1 DEF SettleCapture, IInv, Control
<1>2. ComesToRest /\ said' = said /\ said' \subseteq Ids \X (0 .. MaxAttempt)
  BY DEF SettleCapture, IInv, Outside, ComesToRest, history
<1>3. MailFits
  BY MailKept DEF SettleCapture
<1> HIDE DEF a
<1>4. CASE work.report = "unlanded"
  <2>1. Fits(a, Failed(lane[a], "other"), said')
    BY <1>1, <1>2, <1>4, FailedFits DEF Active, Final, Started
  <2> QED
    BY <1>1, <1>2, <1>3, <1>4, <2>1, OneRow
<1>5. CASE work.report # "unlanded"
  <2>1. Fits(a, Succeeded(lane[a], work.cellHead), said')
    BY <1>1, <1>2, <1>5, SucceededFits DEF Active, Final, Started
  <2> QED
    BY <1>1, <1>2, <1>3, <1>5, <2>1, OneRow
<1> QED
  BY <1>4, <1>5

\* The lane is left alone and the step ends at rest.
LEMMA LaneLeft ==
  ASSUME IInv, lane' = lane, ComesToRest, MailFits, said' = said
  PROVE  IInv'
<1>1. Ids' = Ids /\ said' \subseteq Ids \X (0 .. MaxAttempt)
  BY DEF Ids, IInv, Outside
<1>2. LaneInv(lane)' /\ \A b \in Ids : RowTrue(b, lane[b], said, commits, target, landed)'
  BY DEF IInv, ComesToRest, outside
<1> QED
  BY <1>1, <1>2, AtRest

\* SettleThrows: the row is left running.
LEMMA SettleThrowsKeeps ==
  ASSUME IInv, SettleThrows
  PROVE  IInv'
<1>1. ComesToRest /\ said' = said /\ lane' = lane
  BY QueueAssumption DEF SettleThrows, IInv, Outside, ComesToRest, history
<1>2. MailFits
  BY MailKept DEF SettleThrows
<1> QED
  BY <1>1, <1>2, LaneLeft

\* LoseReceipt: the attempt waits for the origin's answer.
LEMMA LoseReceiptKeeps ==
  ASSUME IInv, NEW a \in Ids, LoseReceipt(a)
  PROVE  IInv'
<1>1. /\ lane[a].status = "running" /\ pc = "rest" /\ Put(a, Waiting(lane[a], "uncertain"))
  BY DEF LoseReceipt
<1>2. ComesToRest /\ said' = said /\ said' \subseteq Ids \X (0 .. MaxAttempt) /\ MailFits
  BY <1>1, PlainRest, MailKept DEF LoseReceipt
<1>3. Fits(a, Waiting(lane[a], "uncertain"), said')
  BY <1>1, <1>2, WaitingFits, RowOf DEF Final, Started, RowInv, Active
<1> QED
  BY <1>1, <1>2, <1>3, OneRow

\* What captureWork may report of the HEAD, and the commits and the target it leaves:
\* the branch only moves forward, and when the capture is not refused, to the work.
LEMMA CapturesFacts ==
  ASSUME IInv, NEW mode \in {"merge", "rebase"}, NEW c \in Captures(mode, head)
  PROVE  /\ c.report \in {"landed", "nothing_to_capture", "unlanded"}
         /\ Forward(commits, target, c.commits, c.target)
         /\ c.report # "unlanded" => head \in c.commits[c.target].holds
<1> DEFINE Result(report, cs, to) == [report |-> report, commits |-> cs, target |-> to]
           new == Len(commits) + 1
           holds == Holds(target) \union Holds(head)
           merged == Grown(Past(target) \union Past(head), holds)
           replayed == Grown(Past(target), holds)
<1>1. /\ \A t \in {head, target} : Rooted(Past(t), Holds(t)) /\ t \in Past(t) /\ t \in Holds(t)
      /\ Past(target) \subseteq Holds(target) /\ Past(head) \subseteq Holds(head)
      /\ Graph(commits) /\ head \in DOMAIN commits /\ target \in DOMAIN commits
  BY GraphFacts
<1>2. Rooted(Past(target) \union Past(head), holds) /\ Rooted(Past(target), holds)
  BY <1>1 DEF Rooted
<1>3. /\ Forward(commits, target, merged, new) /\ holds \subseteq merged[new].holds
      /\ Forward(commits, target, replayed, new) /\ holds \subseteq replayed[new].holds
  <2>1. /\ Graph(merged) /\ DOMAIN commits \subseteq DOMAIN merged
        /\ \A d \in DOMAIN commits : merged[d] = commits[d]
        /\ new \in DOMAIN merged /\ target \in merged[new].past /\ holds \subseteq merged[new].holds
    <3> DEFINE past == Past(target) \union Past(head)
    <3>1. Rooted(past, holds) /\ target \in past
      BY <1>1, <1>2
    <3> HIDE DEF holds, past
    <3>2. LET cs == Grown(past, holds)
          IN  /\ Graph(cs) /\ DOMAIN commits \subseteq DOMAIN cs
              /\ \A d \in DOMAIN commits : cs[d] = commits[d]
              /\ new \in DOMAIN cs /\ past \subseteq cs[new].past /\ holds \subseteq cs[new].holds
      BY <3>1, GrownFacts
    <3>3. merged = Grown(past, holds)
      BY DEF past
    <3> QED
      BY <3>1, <3>2, <3>3
  <2>2. /\ Graph(replayed) /\ DOMAIN commits \subseteq DOMAIN replayed
        /\ \A d \in DOMAIN commits : replayed[d] = commits[d]
        /\ new \in DOMAIN replayed /\ target \in replayed[new].past
        /\ holds \subseteq replayed[new].holds
    <3> HIDE DEF holds
    <3> QED
      BY <1>1, <1>2, GrownFacts
  <2> HIDE DEF merged, replayed, new, holds
  <2> QED
    BY <2>1, <2>2 DEF Forward
<1>4. Forward(commits, target, commits, target)
  BY <1>1 DEF Forward, Past
<1>5. \/ c = Result("nothing_to_capture", commits, target) /\ head \in Holds(target)
      \/ c = Result("landed", commits, head) /\ target \in Past(head)
      \/ c = Result("unlanded", commits, target)
      \/ c = Result("landed", merged, new)
      \/ c = Result("landed", replayed, new)
  BY <1>1 DEF Captures
<1> HIDE DEF merged, replayed, new
<1>6. CASE c = Result("landed", commits, head) /\ target \in Past(head)
  BY <1>1, <1>6 DEF Forward, Past, Holds
<1>7. CASE c = Result("landed", merged, new) \/ c = Result("landed", replayed, new)
  BY <1>1, <1>3, <1>7
<1>8. CASE c = Result("nothing_to_capture", commits, target) /\ head \in Holds(target)
  BY <1>4, <1>8 DEF Holds
<1>9. CASE c = Result("unlanded", commits, target)
  BY <1>4, <1>9
<1> QED
  BY <1>5, <1>6, <1>7, <1>8, <1>9

\* What moves the target forward, adding a landing of the row under way or none,
\* keeps what is true of the rows.
LEMMA ForwardRows ==
  ASSUME IInv, UNCHANGED <<lane, said>>, Forward(commits, target, commits', target'),
         landed \subseteq landed',
         \A l \in landed' \ landed : /\ l \in Ids \X (1 .. MaxAttempt) \X {target'}
                                    /\ l[2] = lane[l[1]].attempt /\ lane[l[1]].status \in Active
  PROVE  /\ Ids' = Ids /\ LaneInv(lane)'
         /\ \A b \in Ids : RowTrue(b, lane[b], said, commits, target, landed)'
         /\ landed' \subseteq Ids \X (1 .. MaxAttempt) \X Past(target)'
         /\ Holds(target) \subseteq Holds(target)'
         /\ \A r : Unlanded(work.id, r, commits, landed) => Unlanded(work.id, r, commits', landed)
<1>1. Ids' = Ids /\ LaneInv(lane)'
  BY DEF Ids, IInv
<1>2. /\ Past(target) \subseteq Past(target)' /\ Holds(target) \subseteq Holds(target)'
      /\ target' \in Past(target)'
  BY ForwardFacts
<1>3. \A l \in landed : /\ l \in Ids \X (1 .. MaxAttempt) \X Past(target) /\ l[3] \in DOMAIN commits
                       /\ commits'[l[3]] = commits[l[3]]
  <2>1. Past(target) \subseteq DOMAIN commits
    BY GraphFacts DEF Rooted
  <2> QED
    BY <2>1 DEF IInv, Outside, Forward
<1>4. ASSUME NEW b, NEW r, Unlanded(b, r, commits, landed)
      PROVE  Unlanded(b, r, commits', landed)
  BY <1>3, <1>4 DEF Unlanded
<1>5. ASSUME NEW b \in Ids
      PROVE  RowTrue(b, lane[b], said, commits', target', landed')
  <2>1. RowTrue(b, lane[b], said, commits, target, landed) /\ lane[b].attempt \in Nat
    BY RowOf
  <2>2. \A l \in landed' : l[1] = b => l[2] <= lane[b].attempt
    BY <2>1 DEF RowTrue
  <2>3. lane[b].executor = "capture" /\ lane[b].status = "failed" => Unlanded(b, lane[b], commits', landed')
    <3>1. lane[b].status = "failed" => \A l \in landed' : l[1] = b => l \in landed
      BY DEF Active
    <3> QED
      BY <1>4, <2>1, <3>1 DEF RowTrue, Unlanded
  <2> QED
    BY <1>2, <2>1, <2>2, <2>3 DEF RowTrue, Holds
<1>6. landed' \subseteq Ids \X (1 .. MaxAttempt) \X Past(target)'
  <2>1. ASSUME NEW l \in landed' PROVE l \in Ids \X (1 .. MaxAttempt) \X Past(target)'
    <3>1. CASE l \in landed
      BY <1>2, <1>3, <3>1
    <3>2. CASE l \notin landed
      BY <1>2, <3>2
    <3> QED
      BY <3>1, <3>2
  <2> QED
    BY <2>1
<1> QED
  BY <1>1, <1>2, <1>4, <1>5, <1>6

\* ExecuteCapture of an attempt under way of which nothing with its HEAD has landed.
LEMMA ExecuteCaptureKeeps ==
  ASSUME IInv, NEW a \in Ids, ExecuteCapture(a), lane[a].executor = "capture",
         lane[a].status \in Active, lane[a].attempt >= 1,
         Unlanded(a, lane[a], commits, landed), work.id = a
  PROVE  IInv'
<1>1. lane[a].mode \in {"merge", "rebase"} /\ lane[a].attempt \in 1 .. MaxAttempt
  BY RowOf, QueueAssumption DEF Row, RowInv
<1>2. /\ lane' = lane /\ said' = said /\ mailbox' = mailbox /\ known' = known /\ head' = head
      /\ paused' = paused /\ lifecycle' = lifecycle /\ placed' = placed /\ busy' = busy
      /\ requests' = requests /\ faults' \in 0 .. MaxFaults /\ pc' = "effected"
  BY QueueAssumption DEF ExecuteCapture, IInv, Outside
<1>3. PICK report \in {"landed", "nothing_to_capture", "unlanded"} :
        /\ work' = [id |-> a, cellHead |-> head, report |-> report]
        /\ Forward(commits, target, commits', target')
        /\ report # "unlanded" => head \in Holds(target)'
        /\ landed' = IF report = "landed" THEN landed \union {<<a, lane[a].attempt, target'>>}
                     ELSE landed
  <2>1. CASE \E c \in Captures(lane[a].mode, head) :
               /\ commits' = c.commits /\ target' = c.target
               /\ work' = [id |-> a, cellHead |-> head, report |-> c.report]
               /\ landed' = IF c.report = "landed"
                            THEN landed \union {<<a, lane[a].attempt, c.target>>} ELSE landed
    BY <1>1, <2>1, CapturesFacts DEF Holds
  <2>2. CASE /\ work' = [id |-> a, cellHead |-> head, report |-> "unlanded"]
             /\ UNCHANGED <<commits, target, landed>>
    BY <2>2, GraphFacts DEF Forward, Past
  <2> QED
    BY <2>1, <2>2 DEF ExecuteCapture
<1>4. /\ Ids' = Ids /\ LaneInv(lane)'
      /\ \A b \in Ids : RowTrue(b, lane[b], said, commits, target, landed)'
      /\ landed' \subseteq Ids \X (1 .. MaxAttempt) \X Past(target)'
      /\ Unlanded(a, lane[a], commits', landed)
  <2>1. landed \subseteq landed'
    BY <1>3
  <2>2. ASSUME NEW l \in landed' \ landed
        PROVE  /\ l \in Ids \X (1 .. MaxAttempt) \X {target'}
               /\ l[2] = lane[l[1]].attempt /\ lane[l[1]].status \in Active
    <3>1. l = <<a, lane[a].attempt, target'>>
      BY <1>3, <2>2
    <3> QED
      BY <1>1, <3>1
  <2>3. UNCHANGED <<lane, said>> /\ Forward(commits, target, commits', target')
    BY <1>2, <1>3
  <2> QED
    BY <2>1, <2>2, <2>3, ForwardRows
<1>5. Outside'
  <2>1. Graph(commits') /\ head' \in DOMAIN commits' /\ target' \in DOMAIN commits'
    BY <1>2, <1>3, GraphFacts DEF Forward
  <2> QED
    BY <1>2, <1>4, <2>1 DEF IInv, Outside
<1>6. MailInv'
  BY <1>2, <1>4 DEF IInv, MailInv
<1>7. Control'
  <2>1. a \in Nat /\ head \in DOMAIN commits'
    BY <1>3, LaneFacts DEF IInv, Ids, Outside, Forward
  <2>2. work' \in Work(commits')
    BY <1>3, <2>1 DEF Work
  <2>3. /\ work'.id = a /\ work'.cellHead = head /\ work'.report = report
        /\ report = "unlanded" => landed' = landed
    BY <1>3
  <2> QED
    BY <1>2, <1>3, <1>4, <2>2, <2>3 DEF Control
<1> QED
  BY <1>4, <1>5, <1>6, <1>7 DEF IInv

\* RunCapture: the attempt was opened in this step, or the origin was asked.
LEMMA RunCaptureKeeps ==
  ASSUME IInv, RunCapture
  PROVE  IInv'
BY ExecuteCaptureKeeps DEF RunCapture, IInv, Control

\* ReconcileUncertainCapture: the target has moved forward through every landing, so
\* a HEAD that is not in it has not landed.
LEMMA ReconcileUncertainKeeps ==
  ASSUME IInv, NEW a \in Ids, ReconcileUncertainCapture(a)
  PROVE  IInv'
<1>1. /\ lane[a].executor = "capture" /\ lane[a].status = "waiting" /\ lane[a].reason = "uncertain"
      /\ pc = "rest" /\ lane[a].attempt >= 1
  BY RowOf DEF ReconcileUncertainCapture, Uncertain, RowInv, Active
<1>2. lane[a].expectedHead \notin Past(target) => Unlanded(a, lane[a], commits, landed)
  <2>1. \A l \in landed : Past(l[3]) \subseteq Past(target)
    BY GraphFacts DEF IInv, Outside, Rooted
  <2> QED
    BY <2>1 DEF Unlanded, Past
<1>3. ASSUME NEW r, Reconciled(a, r), Fits(a, r, said) PROVE IInv'
  <2>1. ComesToRest /\ said' = said /\ said' \subseteq Ids \X (0 .. MaxAttempt) /\ MailFits
    BY <1>1, <1>3, PlainRest, MailKept DEF Reconciled
  <2> QED
    BY <1>3, <2>1, OneRow DEF Reconciled
<1>4. CASE /\ lane[a].expectedHead \in Past(target)
           /\ Reconciled(a, Succeeded(lane[a], lane[a].expectedHead))
  <2>1. lane[a].expectedHead \in Nat \union {Nothing} /\ lane[a].expectedHead \in Holds(target)
    BY <1>4, RowOf, GraphFacts
  <2>2. Fits(a, Succeeded(lane[a], lane[a].expectedHead), said)
    BY <1>1, <2>1, SucceededFits DEF Final, Started
  <2> QED
    BY <1>3, <1>4, <2>2
<1>5. CASE lane[a].expectedHead \notin Past(target) /\ Reconciled(a, Failed(lane[a], "other"))
  <2>1. Fits(a, Failed(lane[a], "other"), said)
    BY <1>1, <1>2, <1>5, FailedFits DEF Final, Started
  <2> QED
    BY <1>3, <1>5, <2>1
<1>6. CASE lane[a].expectedHead \notin Past(target) /\ CaptureAgain(a)
  <2>1. /\ UNCHANGED <<lane, paused, lifecycle, mailbox, known, target, requests, faults, commits,
                       head, placed, busy, said, landed>>
        /\ pc' = "again" /\ work' = [NoWork EXCEPT !.id = a, !.cellHead = head]
    BY <1>6 DEF CaptureAgain, outside, history
  <2>2. Ids' = Ids /\ LaneInv(lane)' /\ \A b \in Ids : RowTrue(b, lane[b], said, commits, target, landed)'
    BY <2>1 DEF IInv, Ids
  <2>3. Outside' /\ MailInv'
    BY <2>1, <2>2 DEF IInv, Outside, MailInv, Past
  <2>4. Control'
    <3>1. a \in Nat /\ head \in DOMAIN commits
      BY LaneFacts DEF IInv, Ids, Outside
    <3>2. work' \in Work(commits') /\ work'.id = a
      BY <2>1, <3>1 DEF NoWork, Work
    <3> QED
      BY <1>1, <1>2, <1>6, <2>1, <2>2, <3>2 DEF Control, Active
  <2> QED
    BY <2>2, <2>3, <2>4 DEF IInv
<1> QED
  BY <1>4, <1>5, <1>6 DEF ReconcileUncertainCapture

\* A function on the ids with rows as values is a lane of the same length.
LEMMA LaneOfRows ==
  ASSUME IInv, NEW m \in [Ids -> Row]
  PROVE  m \in Seq(Row) /\ Len(m) = Len(lane) /\ DOMAIN m = Ids
<1>1. Len(lane) \in Nat /\ Ids = 1 .. Len(lane)
  BY LaneFacts DEF IInv, Ids
<1>2. m \in Seq(Row)
  BY <1>1, SeqDef
<1> QED
  BY <1>1, <1>2

\* Boot: captures that were running are uncertain.
LEMMA BootKeeps ==
  ASSUME IInv, Boot
  PROVE  IInv'
<1> DEFINE R(b) == IF lane[b].executor = "capture" /\ lane[b].status = "running"
                   THEN Waiting(lane[b], "uncertain") ELSE lane[b]
<1>1. ASSUME NEW b \in Ids PROVE Fits(b, R(b), said)
  <2>1. lane[b].status = "running" => Fits(b, Waiting(lane[b], "uncertain"), said)
    BY WaitingFits, RowOf DEF RowInv, Final, Started, Active
  <2> QED
    BY <2>1, SelfFits
<1>2. lane' = [b \in Ids |-> R(b)] /\ \A b \in Ids : R(b) \in Row
  BY <1>1 DEF Boot, Fits, RowInv
<1> HIDE DEF R
<1>3. /\ lane' \in Seq(Row) /\ Len(lane') = Len(lane) /\ Ids' = Ids
      /\ \A b \in Ids : lane'[b] = R(b)
  BY <1>2, LaneOfRows DEF Ids
<1>4. LaneInv(lane)'
  BY <1>1, <1>3, LaneStep DEF IInv, Ids, Fits
<1>5. ComesToRest /\ said' = said /\ said' \subseteq Ids \X (0 .. MaxAttempt)
  BY DEF Boot, IInv, Outside, ComesToRest, history
<1>6. MailFits
  BY MailKept DEF Boot
<1>7. \A b \in Ids : /\ RowTrue(b, lane[b], said, commits, target, landed)'
                     /\ lane'[b].executor = lane[b].executor
  BY <1>1, <1>3, <1>5 DEF Fits, Follows, Static, ComesToRest, outside
<1> QED
  BY <1>3, <1>4, <1>5, <1>6, <1>7, AtRest

\* Nothing of the lane changes: there may be new commits, the HEAD may be any of them,
\* and the target may have moved forward.
LEMMA LaneUntouched ==
  ASSUME IInv, UNCHANGED <<lane, said, landed, work>>, pc' \in {pc, "rest", "down"},
         Forward(commits, target, commits', target'), head' \in DOMAIN commits',
         paused' \in BOOLEAN, lifecycle' \in {"active", "archived"}, placed' \in BOOLEAN,
         busy' \in BOOLEAN, requests' \in 0 .. MaxRequests, faults' \in 0 .. MaxFaults, MailFits
  PROVE  IInv'
<1>1. /\ Ids' = Ids /\ LaneInv(lane)'
      /\ \A b \in Ids : RowTrue(b, lane[b], said, commits, target, landed)'
      /\ landed' \subseteq Ids \X (1 .. MaxAttempt) \X Past(target)'
      /\ Holds(target) \subseteq Holds(target)'
      /\ \A r : Unlanded(work.id, r, commits, landed) => Unlanded(work.id, r, commits', landed)
  BY ForwardRows
<1>2. Outside'
  BY <1>1 DEF IInv, Outside, Forward
<1>3. MailInv'
  BY <1>1 DEF MailFits, MailInv
<1>4. Control'
  <2>1. work' \in Work(commits')
    BY DEF IInv, Control, Work, Forward
  <2> QED
    BY <1>1, <2>1 DEF IInv, Control
<1> QED
  BY <1>1, <1>2, <1>3, <1>4 DEF IInv

\* The same when there is no new commit: the target stays.
LEMMA NothingMoves ==
  ASSUME IInv, UNCHANGED <<lane, said, landed, work, commits, target>>, pc' \in {pc, "rest", "down"},
         head' \in DOMAIN commits,
         paused' \in BOOLEAN, lifecycle' \in {"active", "archived"}, placed' \in BOOLEAN,
         busy' \in BOOLEAN, requests' \in 0 .. MaxRequests, faults' \in 0 .. MaxFaults, MailFits
  PROVE  IInv'
<1>1. Forward(commits, target, commits', target') /\ head' \in DOMAIN commits'
  BY GraphFacts DEF Forward, Past
<1> QED
  BY <1>1, LaneUntouched

\* The variables no lemma says more about have their types.
LEMMA OutsideTypes ==
  ASSUME IInv
  PROVE  /\ head \in DOMAIN commits /\ paused \in BOOLEAN /\ lifecycle \in {"active", "archived"}
         /\ placed \in BOOLEAN /\ busy \in BOOLEAN /\ requests \in 0 .. MaxRequests
         /\ faults \in 0 .. MaxFaults
BY DEF IInv, Outside

\* Commit: on top of the HEAD, in its place or on top of both branches, the new commit
\* has the ancestors it must have, and the target stays.
LEMMA CommitKeeps ==
  ASSUME IInv, Commit
  PROVE  IInv'
<1> DEFINE before == Past(head) \ {head}
           kept == UNION {Holds(c) : c \in before}
<1>1. /\ head' = Len(commits) + 1
      /\ UNCHANGED <<lane, paused, lifecycle, mailbox, known, target, placed, busy, pc, work,
                     requests, faults, said, landed>>
      /\ \/ commits' = Grown(Past(head), Holds(head))
         \/ commits' = Grown(before, kept)
         \/ commits' = Grown(Past(head) \union Past(target), Holds(head) \union Holds(target))
  BY DEF Commit, AgentOnly, history
<1>2. /\ Rooted(Past(head), Holds(head)) /\ Rooted(Past(target), Holds(target))
      /\ head \in Nat /\ head \in Past(head) /\ Past(head) \subseteq 1 .. head
      /\ \A d \in Past(head) : d \in DOMAIN commits /\ Past(d) \subseteq Holds(d)
                              /\ d \in Holds(d) /\ Holds(d) \subseteq 1 .. d
  BY GraphFacts DEF Rooted
<1>3. Rooted(before, kept)
  <2>1. ASSUME NEW d \in before PROVE Past(d) \subseteq before /\ Holds(d) \subseteq kept
    <3>1. d \in 1 .. head /\ d # head /\ Past(d) \subseteq Past(head) /\ Past(d) \subseteq 1 .. d
      BY <1>2 DEF Rooted
    <3>2. head \notin Past(d)
      BY <1>2, <3>1
    <3> QED
      BY <3>1, <3>2
  <2>2. before \subseteq kept /\ kept \subseteq DOMAIN commits
    <3>1. \A d \in before : d \in Holds(d) /\ Holds(d) \subseteq Holds(head)
      BY <1>2 DEF Rooted
    <3> QED
      BY <1>2, <3>1 DEF Rooted
  <2> HIDE DEF before, kept
  <2> QED
    BY <2>1, <2>2 DEF Rooted
<1>4. Rooted(Past(head) \union Past(target), Holds(head) \union Holds(target))
  BY <1>2 DEF Rooted
<1> HIDE DEF before, kept
<1>5. PICK past, holds : Rooted(past, holds) /\ commits' = Grown(past, holds)
  BY <1>1, <1>2, <1>3, <1>4
<1>6. Forward(commits, target, commits', target') /\ head' \in DOMAIN commits'
  BY <1>1, <1>5, GrownFacts, GraphFacts DEF Forward, Past
<1> QED
  BY <1>1, <1>6, MailKept, OutsideTypes, LaneUntouched

\* Elsewhere: the owner of the origin adds a commit to the target.
LEMMA ElsewhereKeeps ==
  ASSUME IInv, Elsewhere
  PROVE  IInv'
<1>1. /\ UNCHANGED <<lane, said, landed, work, head, mailbox, known, paused, faults>> /\ pc' = pc
      /\ requests' \in 0 .. MaxRequests /\ lifecycle' \in {"active", "archived"}
      /\ placed' \in BOOLEAN /\ busy' \in BOOLEAN
  <2>1. /\ UNCHANGED <<lane, said, landed, work, head, mailbox, known, paused, faults>> /\ pc' = pc
        /\ requests' = requests + 1 /\ requests < MaxRequests
    BY DEF Elsewhere, Request, history
  <2>2. lifecycle' \in {lifecycle, "archived"} /\ placed' \in {placed, FALSE} /\ busy' \in {busy, TRUE}
    BY DEF Elsewhere
  <2> QED
    <3>1. requests' \in 0 .. MaxRequests
      BY <2>1, QueueAssumption, OutsideTypes
    <3> QED
      BY <2>1, <2>2, <3>1, OutsideTypes
<1>2. Forward(commits, target, commits', target')
  <2>1. CASE UNCHANGED <<commits, target>>
    BY <2>1, GraphFacts DEF Forward, Past
  <2>2. CASE commits' = Grown(Past(target), Holds(target)) /\ target' = Len(commits) + 1
    <3>1. Rooted(Past(target), Holds(target)) /\ target \in Past(target)
      BY GraphFacts
    <3> QED
      BY <2>2, <3>1, GrownFacts DEF Forward
  <2> QED
    BY <2>1, <2>2 DEF Elsewhere
<1>3. head' \in DOMAIN commits'
  BY <1>1, <1>2, OutsideTypes DEF Forward
<1> QED
  BY <1>1, <1>2, <1>3, MailKept, OutsideTypes, LaneUntouched

\* Steps that leave the lane and the origin alone.
LEMMA OthersKeep ==
  ASSUME IInv
  PROVE  Crash \/ Checkout \/ SetPaused \/ CellIdle => IInv'
<1>1. ASSUME Crash PROVE IInv'
  <2>1. /\ UNCHANGED <<lane, said, landed, work, commits, target, head, placed, busy, mailbox, known,
                       paused, lifecycle, requests>>
        /\ pc' = "down" /\ faults' \in 0 .. MaxFaults
    BY <1>1, QueueAssumption, OutsideTypes DEF Crash, outside, history
  <2> QED
    BY <2>1, MailKept, OutsideTypes, NothingMoves
<1>2. ASSUME Checkout PROVE IInv'
  <2>1. /\ UNCHANGED <<lane, said, landed, work, commits, target, placed, busy, mailbox, known,
                       paused, lifecycle, requests, faults, pc>>
        /\ head' \in DOMAIN commits
    BY <1>2 DEF Checkout, AgentOnly, history
  <2> QED
    BY <2>1, MailKept, OutsideTypes, NothingMoves
<1>3. ASSUME SetPaused PROVE IInv'
  <2>1. /\ UNCHANGED <<lane, said, landed, work, commits, target, head, placed, busy, mailbox, known,
                       lifecycle, faults, pc>>
        /\ paused' \in BOOLEAN /\ requests' \in 0 .. MaxRequests
    BY <1>3, QueueAssumption, OutsideTypes DEF SetPaused, Request, outside, history
  <2> QED
    BY <2>1, MailKept, OutsideTypes, NothingMoves
<1>4. ASSUME CellIdle PROVE IInv'
  <2>1. /\ UNCHANGED <<lane, said, landed, work, commits, target, head, placed, mailbox, known,
                       paused, lifecycle, requests, faults, pc>>
        /\ busy' = FALSE
    BY <1>4 DEF CellIdle, history
  <2> QED
    BY <2>1, MailKept, OutsideTypes, NothingMoves
<1> QED
  BY <1>1, <1>2, <1>3, <1>4

-----------------------------------------------------------------------------
(* The agent, claimants, and the commands of the bee *)

\* An attempt that waited runs: it was under way before.
LEMMA ResumedFits ==
  ASSUME IInv, NEW a \in Ids, NEW s \in Row, lane[a].status = "waiting", lane[a].attempt >= 1,
         Static(lane[a], s), s.status = "running", s.reason = "none",
         s.attempt = lane[a].attempt, s.expectedHead = lane[a].expectedHead,
         s.output = lane[a].output, s.failure = lane[a].failure
  PROVE  Fits(a, s, said)
<1>1. RowInv(s)
  BY RowOf DEF RowInv, Static, Active
<1>2. Follows(lane, a, s)
  BY DEF Follows, Started, Final
<1>3. RowTrue(a, s, said, commits, target, landed)
  BY RowOf DEF RowTrue, Static
<1> QED
  BY <1>1, <1>2, <1>3 DEF Fits

\* Where mail and tokens point.
LEMMA Addresses ==
  ASSUME IInv
  PROVE  /\ \A a, n : <<a, n>> \in mailbox =>
              a \in Ids /\ n \in 1 .. MaxAttempt /\ lane[a].executor = "agent"
         /\ \A a, n, who : <<a, n, who>> \in known =>
              /\ a \in Ids /\ n \in 1 .. MaxAttempt /\ who \in Claimants \union {"bee"}
              /\ lane[a].executor \in {"agent", "external"}
<1>1. ASSUME NEW a, NEW n, <<a, n>> \in mailbox
      PROVE  a \in Ids /\ n \in 1 .. MaxAttempt /\ lane[a].executor = "agent"
  BY <1>1 DEF IInv, MailInv
<1>2. ASSUME NEW a, NEW n, NEW who, <<a, n, who>> \in known
      PROVE  /\ a \in Ids /\ n \in 1 .. MaxAttempt /\ who \in Claimants \union {"bee"}
             /\ lane[a].executor \in {"agent", "external"}
  BY <1>2 DEF IInv, MailInv
<1> QED
  BY <1>1, <1>2

\* Deliver: the mark is evidence only.
LEMMA DeliverKeeps ==
  ASSUME IInv, NEW a, NEW n, Deliver(a, n)
  PROVE  IInv'
<1>1. /\ pc = "rest" /\ <<a, n>> \in mailbox /\ mailbox' = mailbox \ {<<a, n>>}
      /\ known' = known \union {<<a, n, "bee">>} /\ a \in Ids /\ n \in 1 .. MaxAttempt
      /\ lane[a].executor = "agent"
  BY Addresses DEF Deliver
<1>2. ComesToRest /\ said' = said /\ said' \subseteq Ids \X (0 .. MaxAttempt)
  BY <1>1, PlainRest DEF Deliver
<1>3. MailFits
  BY <1>1 DEF IInv, MailInv, MailFits
<1>4. CASE lane' = lane
  BY <1>2, <1>3, <1>4, LaneLeft
<1>5. CASE lane' = [lane EXCEPT ![a].delivered = TRUE]
  <2> DEFINE s == [lane[a] EXCEPT !.delivered = TRUE]
  <2>1. Put(a, s)
    BY <1>5 DEF Put
  <2>2. /\ s \in Row /\ Static(lane[a], s) /\ s.status = lane[a].status
        /\ s.reason = lane[a].reason /\ s.attempt = lane[a].attempt
        /\ s.expectedHead = lane[a].expectedHead /\ s.output = lane[a].output
        /\ s.failure = lane[a].failure /\ s.token = lane[a].token
    <3>1. lane[a] \in Row
      BY <1>1, RowOf
    <3> QED
      BY <3>1 DEF Row, Static
  <2> HIDE DEF s
  <2>3. Fits(a, s, said')
    BY <1>1, <1>2, <2>2, SelfFits, AlikeFits
  <2> QED
    BY <1>1, <1>2, <1>3, <2>1, <2>3, OneRow
<1> QED
  BY <1>4, <1>5 DEF Deliver

\* DeliverUnmarked: the agent knows the token, the row does not know.
LEMMA DeliverUnmarkedKeeps ==
  ASSUME IInv, NEW a, NEW n, DeliverUnmarked(a, n)
  PROVE  IInv'
<1>1. /\ a \in Ids /\ n \in 1 .. MaxAttempt /\ lane[a].executor = "agent"
      /\ mailbox' = mailbox /\ known' = known \union {<<a, n, "bee">>}
  BY Addresses DEF DeliverUnmarked
<1>2. MailFits
  BY <1>1 DEF IInv, MailInv, MailFits
<1>3. /\ UNCHANGED <<lane, said, landed, work, commits, target, paused, lifecycle, head, placed, busy,
                     requests>>
      /\ faults' \in 0 .. MaxFaults /\ pc' = "down"
  BY QueueAssumption, OutsideTypes DEF DeliverUnmarked, outside, history
<1> QED
  BY <1>2, <1>3, OutsideTypes, NothingMoves

\* ClaimAction: the offer runs.
LEMMA ClaimKeeps ==
  ASSUME IInv, NEW a \in Ids, NEW e \in Claimants, ClaimAction(a, e)
  PROVE  IInv'
<1> DEFINE s == [lane[a] EXCEPT !.status = "running", !.reason = "none", !.claimedBy = e]
<1>1. /\ pc = "rest" /\ lane[a].executor = "external" /\ lane[a].status = "waiting"
      /\ Put(a, s) /\ known' = known \union {<<a, lane[a].attempt, e>>} /\ mailbox' = mailbox
  BY DEF ClaimAction
<1>2. ComesToRest /\ said' = said /\ said' \subseteq Ids \X (0 .. MaxAttempt)
  BY <1>1, PlainRest DEF ClaimAction
<1>3. lane[a] \in Row /\ lane[a].attempt \in 1 .. MaxAttempt
  BY <1>1, RowOf, QueueAssumption DEF RowInv, Active
<1>4. MailFits
  BY <1>1, <1>3 DEF IInv, MailInv, MailFits
<1>5. /\ s \in Row /\ Static(lane[a], s) /\ s.status = "running"
      /\ s.reason = "none" /\ s.attempt = lane[a].attempt
      /\ s.expectedHead = lane[a].expectedHead /\ s.output = lane[a].output
      /\ s.failure = lane[a].failure
  BY <1>3, ZenonT(60) DEF Row, Static
<1> HIDE DEF s
<1>6. Fits(a, s, said')
  BY <1>1, <1>2, <1>3, <1>5, ResumedFits
<1> QED
  BY <1>1, <1>2, <1>4, <1>6, OneRow

\* A report that is accepted is about an attempt under way.
LEMMA AuthenticRow ==
  ASSUME IInv, NEW a, NEW n, NEW who, Authentic(a, n, who),
         lane[a].status \notin Final \union {"failed"}
  PROVE  /\ a \in Ids /\ lane[a] \in Row /\ Started(lane[a]) /\ lane[a].attempt = n
         /\ lane[a].attempt >= 1 /\ <<a, n>> \in Ids \X (0 .. MaxAttempt)
         /\ lane[a].executor \in {"agent", "external"}
<1>1. /\ a \in Ids /\ n \in 1 .. MaxAttempt /\ lane[a].executor \in {"agent", "external"}
      /\ lane[a].token = n /\ lane[a].attempt = n
  BY Addresses DEF Authentic
<1> QED
  BY <1>1, RowOf, QueueAssumption DEF RowInv, Started, Final

\* ReportQuestion parks the attempt.
LEMMA ReportQuestionKeeps ==
  ASSUME IInv, NEW a, NEW n, NEW who, ReportQuestion(a, n, who)
  PROVE  IInv'
<1> DEFINE w == Waiting(lane[a], "input")
           s == [w EXCEPT !.question = "open"]
<1>1. /\ pc = "rest" /\ a \in Ids /\ lane[a] \in Row /\ Started(lane[a])
      /\ lane[a].attempt >= 1 /\ lane[a].status \notin Final \union {"failed"} /\ Put(a, s)
  BY AuthenticRow DEF ReportQuestion
<1>2. ComesToRest /\ said' = said /\ said' \subseteq Ids \X (0 .. MaxAttempt) /\ MailFits
  BY <1>1, PlainRest, MailKept DEF ReportQuestion
<1>3. Fits(a, w, said) /\ w \in Row
  BY <1>1, WaitingFits DEF Fits, RowInv
<1> HIDE DEF w
<1>4. /\ s \in Row /\ Static(w, s) /\ s.status = w.status /\ s.reason = w.reason
      /\ s.attempt = w.attempt /\ s.expectedHead = w.expectedHead /\ s.output = w.output
      /\ s.failure = w.failure /\ s.token = w.token
  BY <1>3 DEF Row, Static
<1> HIDE DEF s
<1>5. Fits(a, s, said')
  BY <1>2, <1>3, <1>4, AlikeFits
<1> QED
  BY <1>1, <1>2, <1>5, OneRow

\* Every output that may be reported is a commit or nothing.
LEMMA OutputsType ==
  ASSUME IInv, NEW r, NEW output \in Outputs(r)
  PROVE  output \in Nat \union {Nothing}
BY GraphFacts DEF Outputs

\* ReportResult settles the attempt, or leaves it to the operator.
LEMMA ReportResultKeeps ==
  ASSUME IInv, NEW a, NEW n, NEW who, ReportResult(a, n, who)
  PROVE  IInv'
<1>1. /\ pc = "rest" /\ a \in Ids /\ lane[a] \in Row /\ Started(lane[a]) /\ lane[a].attempt = n
      /\ lane[a].attempt >= 1 /\ lane[a].status \notin Final \union {"failed"}
      /\ lane[a].executor \in {"agent", "external"} /\ <<a, n>> \in Ids \X (0 .. MaxAttempt)
  BY AuthenticRow DEF ReportResult
<1>2. ComesToRest /\ said \subseteq said' /\ said' \subseteq Ids \X (0 .. MaxAttempt)
  BY <1>1 DEF ReportResult, ComesToRest, IInv, Outside
<1>3. MailFits
  BY MailKept DEF ReportResult
<1>4. CASE \E output \in Outputs(lane[a]) :
             Put(a, Succeeded(lane[a], output)) /\ said' = said \union {<<a, n>>}
  <2>1. PICK output \in Outputs(lane[a]) : Put(a, Succeeded(lane[a], output))
    BY <1>4
  <2>2. output \in Nat \union {Nothing} /\ <<a, lane[a].attempt>> \in said'
    BY <1>1, <1>4, OutputsType
  <2>3. Fits(a, Succeeded(lane[a], output), said')
    BY <1>1, <1>2, <2>2, SucceededFits
  <2> QED
    BY <1>1, <1>2, <1>3, <2>1, <2>3, OneRow
<1>5. CASE Put(a, Failed(lane[a], "other"))
  <2>1. Fits(a, Failed(lane[a], "other"), said')
    BY <1>1, <1>2, FailedFits
  <2> QED
    BY <1>1, <1>2, <1>3, <1>5, <2>1, OneRow
<1>6. CASE Put(a, Waiting(lane[a], "uncertain")) /\ said' = said
  <2>1. Fits(a, Waiting(lane[a], "uncertain"), said')
    BY <1>1, <1>6, WaitingFits
  <2> QED
    BY <1>1, <1>2, <1>3, <1>6, <2>1, OneRow
<1> QED
  BY <1>4, <1>5, <1>6 DEF ReportResult

\* ExecuteArchiveCommand changes the command and the bee, not the action.
LEMMA ArchiveCommandKeeps ==
  ASSUME IInv, NEW a \in Ids, ExecuteArchiveCommand(a)
  PROVE  IInv'
<1>1. /\ ComesToRest /\ said' = said /\ said' \subseteq Ids \X (0 .. MaxAttempt)
      /\ mailbox' = mailbox /\ known' = known
  BY QueueAssumption DEF ExecuteArchiveCommand, ComesToRest, IInv, Outside, history
<1>2. PICK c \in {"done", "failed"} : Put(a, [lane[a] EXCEPT !.command = c])
  BY DEF ExecuteArchiveCommand
<1> DEFINE s == [lane[a] EXCEPT !.command = c]
<1>3. /\ s \in Row /\ Static(lane[a], s) /\ s.status = lane[a].status
      /\ s.reason = lane[a].reason /\ s.attempt = lane[a].attempt
      /\ s.expectedHead = lane[a].expectedHead /\ s.output = lane[a].output
      /\ s.failure = lane[a].failure /\ s.token = lane[a].token
  <2>1. lane[a] \in Row
    BY RowOf
  <2> QED
    BY <2>1 DEF Row, Static
<1> HIDE DEF s
<1>4. Fits(a, s, said') /\ Put(a, s) /\ MailFits
  BY <1>1, <1>2, <1>3, SelfFits, AlikeFits, MailKept DEF s
<1> QED
  BY <1>1, <1>4, OneRow

-----------------------------------------------------------------------------
(* Operators *)

\* An operator's request at rest.
LEMMA RequestRest ==
  ASSUME IInv, Request, UNCHANGED <<paused, target, pc, work, faults, outside, landed>>,
         lifecycle' \in {lifecycle, "active"}
  PROVE  ComesToRest
BY QueueAssumption DEF Request, IInv, Outside, ComesToRest

\* CancelAction: nothing that has ended is cancelled.
LEMMA CancelKeeps ==
  ASSUME IInv, NEW a \in Ids, CancelAction(a)
  PROVE  IInv'
<1> DEFINE s == [lane[a] EXCEPT !.status = "cancelled", !.reason = "none", !.token = 0]
<1>1. Put(a, s) /\ lane[a].status \notin Final /\ mailbox' \subseteq mailbox /\ known' = known
  BY MailKept DEF CancelAction, Cancellable, Active, Final
<1>2. ComesToRest /\ said' = said /\ said' \subseteq Ids \X (0 .. MaxAttempt)
  BY RequestRest DEF CancelAction, history, IInv, Outside
<1>3. /\ s \in Row /\ Static(lane[a], s) /\ s.status = "cancelled" /\ s.reason = "none"
      /\ s.attempt = lane[a].attempt /\ s.expectedHead = lane[a].expectedHead
      /\ s.failure = lane[a].failure
  <2>1. lane[a] \in Row
    BY RowOf
  <2> QED
    BY <2>1, ZenonT(60) DEF Row, Static
<1> HIDE DEF s
<1>4. Fits(a, s, said')
  <2>1. RowInv(s)
    BY <1>3, RowOf DEF RowInv, Active
  <2>2. Follows(lane, a, s)
    BY <1>1, <1>3 DEF Follows, Started
  <2>3. RowTrue(a, s, said, commits, target, landed)
    BY <1>3, RowOf DEF RowTrue, Static, Active
  <2> QED
    BY <1>2, <2>1, <2>2, <2>3 DEF Fits
<1> QED
  BY <1>1, <1>2, <1>4, MailKept, OneRow

\* RetryAction: the row is queued again, its attempt counted.
LEMMA RetryKeeps ==
  ASSUME IInv, NEW a \in Ids, RetryAction(a)
  PROVE  IInv'
<1> DEFINE s == Requeued(lane[a])
<1>1. /\ Put(a, s) /\ lane[a].attempt < MaxAttempt /\ lane[a].status \notin Final
      /\ mailbox' = mailbox /\ known' = known
  BY RowOf DEF RetryAction, RowInv, Final
<1>2. ComesToRest /\ said' = said /\ said' \subseteq Ids \X (0 .. MaxAttempt)
  BY RequestRest DEF RetryAction, history, IInv, Outside
<1>3. /\ s \in Row /\ Static(lane[a], s) /\ s.status = "queued" /\ s.reason = "none"
      /\ s.attempt = lane[a].attempt /\ s.expectedHead = Nothing /\ s.output = Nothing
      /\ s.failure = "none" /\ s.token = 0
  <2>1. lane[a] \in Row
    BY RowOf
  <2> QED
    BY <2>1, RequeuedFacts
<1> HIDE DEF s
<1>4. Fits(a, s, said')
  <2>1. RowInv(s)
    BY <1>1, <1>3, RowOf DEF RowInv, Active
  <2>2. Follows(lane, a, s)
    BY <1>1, <1>3 DEF Follows, Started
  <2>3. RowTrue(a, s, said, commits, target, landed)
    BY <1>3, RowOf DEF RowTrue
  <2> QED
    BY <1>2, <2>1, <2>2, <2>3 DEF Fits
<1> QED
  BY <1>1, <1>2, <1>4, MailKept, OneRow

\* CompleteAction: the operator's word is a report.
LEMMA CompleteKeeps ==
  ASSUME IInv, NEW a \in Ids, CompleteAction(a)
  PROVE  IInv'
<1>1. PICK output \in Outputs(lane[a]) :
        Put(a, [Succeeded(lane[a], output) EXCEPT
                  !.token = IF lane[a].status = "failed" THEN 0 ELSE @,
                  !.question = IF @ = "open" THEN "closed" ELSE @])
  BY DEF CompleteAction
<1>2. /\ lane[a].executor = "agent" /\ lane[a].status \in {"running", "failed", "waiting"}
      /\ mailbox' \subseteq mailbox /\ known' = known
      /\ said' = said \union {<<a, lane[a].attempt>>}
  BY RowOf, MailKept DEF CompleteAction, RowInv
<1>3. ComesToRest
  <2>1. /\ Request /\ UNCHANGED <<paused, target, pc, work, faults, outside, landed>>
        /\ lifecycle' \in {lifecycle, "active"}
    BY DEF CompleteAction
  <2> QED
    BY <2>1, RequestRest
<1>4. said \subseteq said' /\ said' \subseteq Ids \X (0 .. MaxAttempt)
  <2>1. lane[a].attempt \in 0 .. MaxAttempt
    BY RowOf, QueueAssumption DEF RowInv
  <2> QED
    BY <1>2, <2>1 DEF IInv, Outside
<1>5. output \in Nat \union {Nothing}
  BY OutputsType
<1> DEFINE w == Succeeded(lane[a], output)
           t == IF lane[a].status = "failed" THEN 0 ELSE w.token
           q == IF w.question = "open" THEN "closed" ELSE w.question
           s == [w EXCEPT !.token = t, !.question = q]
<1>6. Fits(a, w, said')
  BY <1>2, <1>4, <1>5, SucceededFits DEF Started, Final
<1>7. w \in Row /\ Put(a, s)
  BY <1>1, <1>6 DEF Fits, RowInv
<1> HIDE DEF w
<1>8. t \in Nat /\ (t = w.token \/ t = 0) /\ q \in {"none", "open", "closed"}
  BY <1>7 DEF Row
<1> HIDE DEF t, q
<1>9. /\ s \in Row /\ Static(w, s) /\ s.status = w.status /\ s.reason = w.reason
      /\ s.attempt = w.attempt /\ s.expectedHead = w.expectedHead /\ s.output = w.output
      /\ s.failure = w.failure /\ s.token = t
  BY <1>7, <1>8, ZenonT(60) DEF Row, Static
<1> HIDE DEF s
<1>10. Fits(a, s, said')
  BY <1>6, <1>8, <1>9, AlikeFits
<1> QED
  BY <1>2, <1>3, <1>4, <1>7, <1>10, MailKept, OneRow

\* CloseQuestion, and AnswerQuestion of an attempt that does not wait for it.
LEMMA QuestionClosedFits ==
  ASSUME IInv, NEW a \in Ids
  PROVE  Fits(a, [lane[a] EXCEPT !.question = "closed"], said)
<1> DEFINE s == [lane[a] EXCEPT !.question = "closed"]
<1>1. /\ s \in Row /\ Static(lane[a], s) /\ s.status = lane[a].status
      /\ s.reason = lane[a].reason /\ s.attempt = lane[a].attempt
      /\ s.expectedHead = lane[a].expectedHead /\ s.output = lane[a].output
      /\ s.failure = lane[a].failure /\ s.token = lane[a].token
  <2>1. lane[a] \in Row
    BY RowOf
  <2> QED
    BY <2>1 DEF Row, Static
<1> HIDE DEF s
<1>2. Fits(a, s, said)
  BY <1>1, SelfFits, AlikeFits
<1> QED
  BY <1>2 DEF s

\* AnswerQuestion: the attempt resumes.
LEMMA AnswerKeeps ==
  ASSUME IInv, NEW a \in Ids, AnswerQuestion(a)
  PROVE  IInv'
<1> DEFINE s == [lane[a] EXCEPT !.question = "closed", !.status = "running", !.reason = "none"]
<1>1. /\ IF lane[a].reason = "input" THEN Put(a, s)
         ELSE Put(a, [lane[a] EXCEPT !.question = "closed"])
      /\ mailbox' = mailbox /\ known' = known
  BY DEF AnswerQuestion
<1>2. ComesToRest /\ said' = said /\ said' \subseteq Ids \X (0 .. MaxAttempt) /\ MailFits
  <2>1. /\ Request /\ UNCHANGED <<paused, target, pc, work, faults, outside, landed>>
        /\ lifecycle' \in {lifecycle, "active"} /\ said' = said
    BY DEF AnswerQuestion, history
  <2> QED
    BY <1>1, <2>1, RequestRest, MailKept DEF IInv, Outside
<1>3. CASE lane[a].reason = "input"
  <2>1. lane[a] \in Row /\ lane[a].status = "waiting" /\ lane[a].attempt >= 1
    BY <1>3, RowOf DEF RowInv, Active
  <2>2. /\ s \in Row /\ Static(lane[a], s) /\ s.status = "running" /\ s.reason = "none"
        /\ s.attempt = lane[a].attempt /\ s.expectedHead = lane[a].expectedHead
        /\ s.output = lane[a].output /\ s.failure = lane[a].failure
    BY <2>1, ZenonT(60) DEF Row, Static
  <2> HIDE DEF s
  <2> QED
    BY <1>1, <1>2, <1>3, <2>1, <2>2, ResumedFits, OneRow
<1>4. CASE lane[a].reason # "input"
  BY <1>1, <1>2, <1>4, QuestionClosedFits, OneRow
<1> QED
  BY <1>3, <1>4

\* CloseQuestion: the attempt waits on.
LEMMA CloseKeeps ==
  ASSUME IInv, NEW a \in Ids, CloseQuestion(a)
  PROVE  IInv'
<1>1. /\ Put(a, [lane[a] EXCEPT !.question = "closed"])
      /\ mailbox' = mailbox /\ known' = known /\ said' = said
  BY DEF CloseQuestion, history
<1>2. /\ Request /\ UNCHANGED <<paused, target, pc, work, faults, outside, landed>>
      /\ lifecycle' \in {lifecycle, "active"}
  BY DEF CloseQuestion, history
<1>3. ComesToRest /\ said' \subseteq Ids \X (0 .. MaxAttempt) /\ MailFits
  BY <1>1, <1>2, RequestRest, MailKept DEF IInv, Outside
<1> QED
  BY <1>1, <1>3, QuestionClosedFits, OneRow

\* CancelMessage: the agent's attempt fails with its instruction.
LEMMA CancelMessageKeeps ==
  ASSUME IInv, NEW a, NEW n, CancelMessage(a, n)
  PROVE  IInv'
<1>1. a \in Ids /\ lane[a].executor = "agent" /\ mailbox' \subseteq mailbox /\ known' = known
  BY Addresses DEF CancelMessage
<1>2. ComesToRest /\ said' = said /\ said' \subseteq Ids \X (0 .. MaxAttempt) /\ MailFits
  <2>1. /\ Request /\ UNCHANGED <<paused, target, pc, work, faults, outside, landed>>
        /\ lifecycle' \in {lifecycle, "active"} /\ said' = said
    BY DEF CancelMessage, history
  <2> QED
    BY <1>1, <2>1, RequestRest, MailKept DEF IInv, Outside
<1>3. CASE lane' = lane
  BY <1>2, <1>3, LaneLeft
<1>4. CASE Put(a, Failed(lane[a], "other")) /\ lane[a].status \in Active
  <2>1. Fits(a, Failed(lane[a], "other"), said')
    BY <1>1, <1>2, <1>4, FailedFits DEF Active, Final, Started
  <2> QED
    BY <1>1, <1>2, <1>4, <2>1, OneRow
<1> QED
  BY <1>3, <1>4 DEF CancelMessage, Put

\* EnqueueActions: the new rows come after all others and refer backwards.
LEMMA EnqueueKeeps ==
  ASSUME IInv, NEW items \in Requests, EnqueueActions(items)
  PROVE  IInv'
<1> DEFINE N == Len(lane)
           K == Len(items)
           fresh == [i \in DOMAIN items |-> NewRow(items[i], N + i, N)]
<1>1. /\ lane \in Seq(Row) /\ N \in Nat /\ Ids = 1 .. N /\ LaneInv(lane)
      /\ items \in Seq(Item) /\ K \in Nat /\ DOMAIN items = 1 .. K
      /\ MaxActions \in Nat /\ MaxAttempt \in Nat \ {0}
  BY LaneFacts, LenProperties, QueueAssumption DEF IInv, Ids
<1>2. /\ pc = "rest" /\ N + K <= MaxActions /\ RefsBackwards(items, N)
      /\ lane' = lane \o fresh
      /\ UNCHANGED <<paused, lifecycle, mailbox, known, target, pc, work, requests, faults, outside,
                     history>>
  BY DEF EnqueueActions
<1>3. ASSUME NEW i \in 1 .. K
      PROVE  LET r == NewRow(items[i], N + i, N)
             IN  /\ r \in Row /\ r.position = N + i /\ r.status = "queued" /\ r.reason = "none"
                 /\ r.attempt = 0 /\ r.token = 0 /\ r.expectedHead = Nothing /\ r.failure = "none"
                 /\ r.ref # 0 => r.ref \in 1 .. N \/ r.ref \in (N + 1) .. (N + i - 1)
  <2>1. items[i] \in Item /\ items[i].refItem < i /\ items[i].refAction <= N
    BY <1>1, <1>2, ElementOfSeq DEF RefsBackwards
  <2> DEFINE f == IF items[i].refItem > 0 THEN N + items[i].refItem ELSE items[i].refAction
  <2>2. f \in Nat /\ (f # 0 => f \in 1 .. N \/ f \in (N + 1) .. (N + i - 1))
    BY <1>1, <2>1 DEF Item
  <2> HIDE DEF f
  <2>3. N + i \in Nat
    BY <1>1
  <2> QED
    BY <2>1, <2>2, <2>3 DEF NewRow, f, Row, Item, Nothing
<1>4. fresh \in Seq(Row) /\ Len(fresh) = K /\ \A i \in 1 .. K : fresh[i] = NewRow(items[i], N + i, N)
  <2>1. fresh \in [1 .. K -> Row]
    BY <1>1, <1>3
  <2>2. fresh \in Seq(Row)
    BY <1>1, <2>1, SeqDef
  <2> QED
    BY <1>1, <2>1, <2>2
<1> HIDE DEF fresh
<1>5. /\ lane' \in Seq(Row) /\ Len(lane') = N + K /\ DOMAIN lane' = 1 .. (N + K)
      /\ \A j \in 1 .. N : lane'[j] = lane[j]
      /\ \A j \in (N + 1) .. (N + K) : lane'[j] = NewRow(items[j - N], j, N)
  <2>1. /\ lane' \in Seq(Row) /\ Len(lane') = N + K
        /\ \A j \in 1 .. N + K : lane'[j] = IF j <= N THEN lane[j] ELSE fresh[j - N]
    BY <1>1, <1>2, <1>4, ConcatProperties, ZenonT(60)
  <2>2. \A j \in (N + 1) .. (N + K) : j - N \in 1 .. K /\ N + (j - N) = j /\ ~(j <= N)
    BY <1>1
  <2>3. DOMAIN lane' = 1 .. (N + K)
    BY <2>1, LenProperties
  <2>4. ASSUME NEW j \in 1 .. N PROVE lane'[j] = lane[j]
    <3>1. j \in 1 .. N + K /\ j <= N
      BY <1>1
    <3> QED
      BY <2>1, <3>1
  <2>5. ASSUME NEW j \in (N + 1) .. (N + K) PROVE lane'[j] = NewRow(items[j - N], j, N)
    <3>1. j \in 1 .. N + K
      BY <1>1
    <3> QED
      BY <1>4, <2>1, <2>2, <3>1
  <2> QED
    BY <2>1, <2>3, <2>4, <2>5
<1>6. ASSUME NEW j \in (N + 1) .. (N + K)
      PROVE  /\ lane'[j] \in Row /\ lane'[j].position = j /\ lane'[j].status = "queued"
             /\ lane'[j].reason = "none" /\ lane'[j].attempt = 0 /\ lane'[j].token = 0
             /\ lane'[j].expectedHead = Nothing /\ lane'[j].failure = "none"
             /\ lane'[j].ref # 0 => lane'[j].ref \in 1 .. N \/ lane'[j].ref \in (N + 1) .. (j - 1)
  <2>1. j - N \in 1 .. K /\ N + (j - N) = j /\ lane'[j] = NewRow(items[j - N], N + (j - N), N)
    BY <1>1, <1>5
  <2> QED
    BY <1>3, <2>1
<1>7. ASSUME NEW j \in 1 .. N
      PROVE  /\ lane'[j] = lane[j] /\ RowInv(lane[j]) /\ lane[j].position \in 0 .. N
             /\ lane[j].ref # 0 => lane[j].ref \in 1 .. N
  <2>1. j \in Ids /\ RowInv(lane[j]) /\ lane[j].position <= N /\ RefersBack(lane, j)
    BY <1>1 DEF LaneInv, Ids
  <2>2. lane[j].position \in Nat
    BY <2>1, RowOf
  <2> QED
    BY <1>1, <1>5, <2>1, <2>2 DEF RefersBack, Ids
<1>8. \A j \in 1 .. (N + K) : j \in 1 .. N \/ j \in (N + 1) .. (N + K)
  BY <1>1
<1>9. LaneInv(lane')
  <2>1. \A j \in 1 .. (N + K) : RowInv(lane'[j]) /\ lane'[j].position <= N + K
    <3>1. ASSUME NEW j \in (N + 1) .. (N + K) PROVE RowInv(lane'[j]) /\ lane'[j].position <= N + K
      BY <1>1, <1>6 DEF RowInv, Active
    <3>2. ASSUME NEW j \in 1 .. N PROVE RowInv(lane'[j]) /\ lane'[j].position <= N + K
      BY <1>1, <1>7
    <3> QED
      BY <1>8, <3>1, <3>2
  <2>2. ASSUME NEW i \in 1 .. (N + K), NEW j \in 1 .. (N + K),
               lane'[i].position = lane'[j].position
        PROVE  i = j
    <3>1. CASE i \in 1 .. N /\ j \in 1 .. N
      BY <1>1, <1>7, <2>2, <3>1 DEF LaneInv, Ids
    <3> QED
      BY <1>1, <1>6, <1>7, <1>8, <2>2, <3>1
  <2>3. InOrder(lane')
    <3>1. SUFFICES ASSUME NEW b \in 1 .. (N + K), Started(lane'[b]), NEW c \in 1 .. (N + K),
                          lane'[c].position < lane'[b].position
                   PROVE  lane'[c].status \in Final
      BY <1>5 DEF InOrder, Cleared
    <3>2. b \in 1 .. N
      BY <1>6, <1>8, <3>1 DEF Started
    <3>3. c \in 1 .. N
      BY <1>1, <1>6, <1>7, <1>8, <3>1, <3>2
    <3> QED
      BY <1>1, <1>7, <3>1, <3>2, <3>3 DEF LaneInv, InOrder, Cleared, Ids
  <2>4. ASSUME NEW j \in 1 .. (N + K)
        PROVE  /\ RefersBack(lane', j)
               /\ lane'[j].failure = "input_unresolved" => RefDead(lane', j)
               /\ lane'[j].attempt > 0 => Resolves(lane', j)
    <3>1. CASE j \in 1 .. N
      <4>1. /\ RefersBack(lane, j)
            /\ lane[j].failure = "input_unresolved" => RefDead(lane, j)
            /\ lane[j].attempt > 0 => Resolves(lane, j)
        BY <1>1, <3>1 DEF LaneInv, Ids
      <4>2. lane[j].ref # 0 => /\ lane[j].ref \in 1 .. (N + K)
                               /\ lane'[lane[j].ref] = lane[lane[j].ref]
        BY <1>1, <1>7, <3>1
      <4> QED
        BY <1>5, <1>7, <3>1, <4>1, <4>2 DEF RefersBack, RefDead, Resolves
    <3>2. CASE j \in (N + 1) .. (N + K)
      <4>1. ASSUME lane'[j].ref # 0
            PROVE  /\ lane'[j].ref \in 1 .. (N + K)
                   /\ lane'[lane'[j].ref].position < lane'[j].position
        <5>1. CASE lane'[j].ref \in 1 .. N
          <6>1. lane'[lane'[j].ref].position \in 0 .. N
            BY <1>7, <5>1
          <6>2. lane'[j].position = j
            BY <1>6, <3>2
          <6> QED
            BY <1>1, <3>2, <5>1, <6>1, <6>2
        <5>2. CASE lane'[j].ref \in (N + 1) .. (j - 1)
          BY <1>1, <1>6, <3>2, <5>2
        <5> QED
          BY <1>6, <3>2, <4>1, <5>1, <5>2
      <4> QED
        BY <1>5, <1>6, <3>2, <4>1 DEF RefersBack
    <3> QED
      BY <1>8, <3>1, <3>2
  <2> QED
    BY <1>2, <1>5, <2>1, <2>2, <2>3, <2>4 DEF LaneInv
<1>10. Ids \subseteq Ids' /\ Ids' = 1 .. (N + K) /\ \A b \in Ids : lane'[b] = lane[b]
  BY <1>1, <1>5 DEF Ids
<1>11. ASSUME NEW b \in Ids' PROVE RowTrue(b, lane[b], said, commits, target, landed)'
  <2>1. CASE b \in 1 .. N
    BY <1>1, <1>2, <1>10, <2>1, RowOf DEF outside, history
  <2>2. CASE b \in (N + 1) .. (N + K)
    <3>1. b \notin Ids
      BY <1>1, <2>2
    <3>2. \A l \in landed : l[1] # b
      BY <3>1 DEF IInv, Outside
    <3> QED
      BY <1>2, <1>6, <2>2, <3>2 DEF RowTrue, outside, history
  <2> QED
    BY <1>8, <1>10, <2>1, <2>2
<1>12. Outside'
  BY <1>2, <1>10 DEF IInv, Outside, outside, history, Past
<1>13. MailInv'
  <2>1. /\ mailbox' = mailbox /\ known' = known /\ \A m \in mailbox : m[1] \in Ids
        /\ \A k \in known : k[1] \in Ids
    BY <1>2 DEF IInv, MailInv
  <2> QED
    BY <1>10, <2>1 DEF IInv, MailInv
<1>14. Control'
  BY <1>2 DEF IInv, Control, outside, history, Holds
<1> QED
  BY <1>9, <1>11, <1>12, <1>13, <1>14 DEF IInv

\* ReorderActions: queued rows exchange positions that are all after what has
\* started, and references among them still point backwards.
LEMMA ReorderKeeps ==
  ASSUME IInv, ReorderActions
  PROVE  IInv'
<1> DEFINE queued == {a \in Ids : lane[a].status = "queued"}
           positions == {lane[a].position : a \in queued}
           P(order, a) == IF a \in queued THEN [lane[a] EXCEPT !.position = order[a]] ELSE lane[a]
<1>1. PICK order \in [queued -> positions] :
        /\ \A a, b \in queued : order[a] = order[b] => a = b
        /\ OrderKeepsRefs(order)
        /\ lane' = [a \in Ids |-> P(order, a)]
  BY DEF ReorderActions
<1>2. LaneInv(lane) /\ Ids = DOMAIN lane
  BY DEF IInv, Ids
<1>3. ASSUME NEW a \in queued
      PROVE  /\ a \in Ids /\ lane[a].status = "queued"
             /\ \E c \in queued : order[a] = lane[c].position
  BY <1>1
<1>4. ASSUME NEW a \in Ids
      PROVE  /\ P(order, a) \in Row /\ RowInv(P(order, a))
             /\ P(order, a).position = IF a \in queued THEN order[a] ELSE lane[a].position
             /\ P(order, a).executor = lane[a].executor /\ P(order, a).ref = lane[a].ref
             /\ P(order, a).status = lane[a].status /\ P(order, a).output = lane[a].output
             /\ P(order, a).failure = lane[a].failure /\ P(order, a).attempt = lane[a].attempt
             /\ P(order, a).mode = lane[a].mode
             /\ P(order, a).expectedHead = lane[a].expectedHead
  <2>1. lane[a] \in Row /\ RowInv(lane[a])
    BY RowOf
  <2>2. CASE a \in queued
    <3>1. order[a] \in Nat
      <4>1. PICK c \in queued : order[a] = lane[c].position
        BY <1>3, <2>2
      <4> QED
        BY <4>1, RowOf
    <3> DEFINE s == [lane[a] EXCEPT !.position = order[a]]
    <3>2. /\ s \in Row /\ s.position = order[a] /\ s.executor = lane[a].executor
          /\ s.ref = lane[a].ref /\ s.status = lane[a].status /\ s.output = lane[a].output
          /\ s.failure = lane[a].failure /\ s.attempt = lane[a].attempt /\ s.mode = lane[a].mode
          /\ s.expectedHead = lane[a].expectedHead /\ s.reason = lane[a].reason
          /\ s.token = lane[a].token
      BY <2>1, <3>1 DEF Row
    <3>3. P(order, a) = s
      BY <2>2
    <3> HIDE DEF s, P, queued
    <3>4. RowInv(s)
      BY <2>1, <3>2 DEF RowInv
    <3> QED
      BY <2>2, <3>2, <3>3, <3>4
  <2>3. CASE a \notin queued
    BY <2>1, <2>3
  <2> QED
    BY <2>2, <2>3
<1>5. \A a \in Ids : a \in queued <=> lane[a].status = "queued"
  OBVIOUS
<1>6. queued \subseteq Ids /\ DOMAIN order = queued
  BY <1>1
<1> HIDE DEF P, queued, positions
<1>7. /\ lane' \in Seq(Row) /\ Len(lane') = Len(lane) /\ Ids' = Ids
      /\ \A a \in Ids : lane'[a] = P(order, a)
  BY <1>1, <1>4, LaneOfRows DEF Ids
<1>8. ASSUME NEW a \in Ids
      PROVE  /\ RowInv(lane'[a])
             /\ lane'[a].position = IF a \in queued THEN order[a] ELSE lane[a].position
             /\ lane'[a].executor = lane[a].executor /\ lane'[a].ref = lane[a].ref
             /\ lane'[a].status = lane[a].status /\ lane'[a].output = lane[a].output
             /\ lane'[a].failure = lane[a].failure /\ lane'[a].attempt = lane[a].attempt
             /\ lane'[a].mode = lane[a].mode /\ lane'[a].expectedHead = lane[a].expectedHead
  BY <1>4, <1>7
\* A started row that has not ended stays before every queued row.
<1>9. ASSUME NEW a \in queued, NEW b \in Ids, Started(lane[b])
      PROVE  lane[b].position < order[a]
  <2>1. PICK c \in queued : order[a] = lane[c].position
    BY <1>3
  <2>2. c \in Ids /\ lane[c].status = "queued"
    BY <1>3
  <2>3. ~(lane[c].position < lane[b].position)
    BY <1>2, <1>9, <2>2 DEF LaneInv, InOrder, Cleared, Final
  <2>4. lane[c].position # lane[b].position
    BY <1>2, <1>9, <2>2 DEF LaneInv, Started
  <2> QED
    BY <2>1, <2>2, <2>3, <2>4, RowOf
<1>10. LaneInv(lane')
  <2>1. \A a \in Ids : RowInv(lane'[a]) /\ lane'[a].position <= Len(lane')
    <3>1. ASSUME NEW a \in queued PROVE order[a] <= Len(lane)
      BY <1>2, <1>3, <1>6 DEF LaneInv
    <3>2. \A a \in Ids : lane[a].position <= Len(lane)
      BY <1>2 DEF LaneInv
    <3> QED
      BY <1>7, <1>8, <3>1, <3>2
  <2>2. ASSUME NEW a \in Ids, NEW b \in Ids, lane'[a].position = lane'[b].position
        PROVE  a = b
    <3>1. \A c, d \in Ids : lane[c].position = lane[d].position => c = d
      BY <1>2 DEF LaneInv
    <3>2. ASSUME NEW c \in queued, NEW d \in Ids, d \notin queued PROVE order[c] # lane[d].position
      BY <1>3, <1>6, <3>1, <3>2
    <3> QED
      BY <1>1, <1>8, <2>2, <3>1, <3>2
  <2>3. InOrder(lane')
    <3>1. SUFFICES ASSUME NEW b \in Ids, Started(lane'[b]), NEW c \in Ids,
                          lane'[c].position < lane'[b].position
                   PROVE  lane'[c].status \in Final
      BY <1>7 DEF InOrder, Cleared, Ids
    <3>2. Started(lane[b]) /\ b \notin queued /\ lane'[b].position = lane[b].position
      BY <1>5, <1>8, <3>1 DEF Started
    <3>3. CASE c \in queued
      <4>1. order[c] < lane[b].position /\ lane[b].position < order[c]
        BY <1>8, <1>9, <3>1, <3>2, <3>3
      <4>2. order[c] \in Nat /\ lane[b].position \in Nat
        BY <1>3, <1>6, <3>3, RowOf
      <4> QED
        BY <4>1, <4>2
    <3>4. CASE c \notin queued
      BY <1>2, <1>8, <3>1, <3>2, <3>4 DEF LaneInv, InOrder, Cleared
    <3> QED
      BY <3>3, <3>4
  <2>4. ASSUME NEW a \in Ids
        PROVE  /\ RefersBack(lane', a)
               /\ lane'[a].failure = "input_unresolved" => RefDead(lane', a)
               /\ lane'[a].attempt > 0 => Resolves(lane', a)
    <3>1. /\ RefersBack(lane, a)
          /\ lane[a].failure = "input_unresolved" => RefDead(lane, a)
          /\ lane[a].attempt > 0 => Resolves(lane, a)
          /\ lane[a].ref # 0 => lane[a].ref \in Ids
      BY <1>2 DEF LaneInv, RefersBack
    <3>2. /\ lane'[a].failure = "input_unresolved" => RefDead(lane', a)
          /\ lane'[a].attempt > 0 => Resolves(lane', a)
      BY <1>8, <3>1 DEF RefDead, Resolves
    <3>3. ASSUME lane[a].ref # 0, lane[a].status \notin Final, lane[lane[a].ref].status \notin Final
          PROVE  lane'[lane[a].ref].position < lane'[a].position
      <4> DEFINE b == lane[a].ref
      <4>1. b \in Ids /\ lane[b].position < lane[a].position /\ lane[b].status \notin Final
        BY <3>1, <3>3 DEF RefersBack
      <4>2. CASE a \in queued /\ b \in queued
        BY <1>1, <1>6, <1>8, <4>2 DEF OrderKeepsRefs
      <4>3. CASE a \in queued /\ b \notin queued
        <5>1. Started(lane[b])
          BY <1>5, <4>1, <4>3 DEF Started, Final
        <5> QED
          BY <1>8, <1>9, <4>1, <4>3, <5>1
      <4>4. CASE a \notin queued
        <5>1. Started(lane[a])
          BY <1>5, <3>3, <4>4 DEF Started, Final
        <5> QED
          BY <1>2, <4>1, <5>1 DEF LaneInv, InOrder, Cleared
      <4> QED
        BY <4>2, <4>3, <4>4
    <3>4. RefersBack(lane', a)
      BY <1>7, <1>8, <3>1, <3>3 DEF RefersBack, Ids
    <3> QED
      BY <3>2, <3>4
  <2> QED
    BY <1>2, <1>7, <2>1, <2>2, <2>3, <2>4 DEF LaneInv, Ids
<1>11. ComesToRest /\ said' = said /\ said' \subseteq Ids \X (0 .. MaxAttempt) /\ MailFits
  <2>1. /\ Request /\ UNCHANGED <<paused, target, pc, work, faults, outside, landed>>
        /\ lifecycle' \in {lifecycle, "active"} /\ said' = said
        /\ mailbox' = mailbox /\ known' = known
    BY DEF ReorderActions, history
  <2> QED
    BY <2>1, RequestRest, MailKept DEF IInv, Outside
<1>12. \A b \in Ids : /\ RowTrue(b, lane[b], said, commits, target, landed)'
                      /\ lane'[b].executor = lane[b].executor
  <2>1. ASSUME NEW b \in Ids PROVE RowTrue(b, lane'[b], said, commits, target, landed)
    BY <1>8, RowOf DEF RowTrue, Unlanded
  <2> QED
    BY <1>8, <1>11, <2>1 DEF ComesToRest, outside
<1> QED
  BY <1>7, <1>10, <1>11, <1>12, AtRest

-----------------------------------------------------------------------------
(* The invariant, and what it gives *)

\* The empty lane.
LEMMA InitIInv ==
  Init => IInv
<1> SUFFICES ASSUME Init PROVE IInv
  OBVIOUS
<1>1. lane = <<>> /\ Ids = {}
  BY DEF Init, Ids
<1>2. LaneInv(lane)
  BY <1>1, EmptySeq, QueueAssumption DEF LaneInv, InOrder
<1>3. Outside
  <2>1. requests \in 0 .. MaxRequests /\ faults \in 0 .. MaxFaults
    BY QueueAssumption DEF Init
  <2>2. Graph(commits) /\ head \in DOMAIN commits /\ target \in DOMAIN commits
    <3> DEFINE one == [past |-> {1}, holds |-> {1}]
               two == [past |-> {1, 2}, holds |-> {1, 2}]
    <3>1. one \in [past: SUBSET Nat, holds: SUBSET Nat] /\ two \in [past: SUBSET Nat, holds: SUBSET Nat]
      OBVIOUS
    <3> HIDE DEF one, two
    <3>2. commits = <<one, two>> /\ head = 2 /\ target = 1
      BY DEF Init, one, two
    <3>3. /\ commits \in Seq([past: SUBSET Nat, holds: SUBSET Nat]) /\ DOMAIN commits = {1, 2}
          /\ commits[1] = one /\ commits[2] = two
      BY <3>1, <3>2
    <3> QED
      BY <3>2, <3>3 DEF Graph, one, two
  <2>3. /\ paused \in BOOLEAN /\ lifecycle \in {"active", "archived"} /\ placed \in BOOLEAN
        /\ busy \in BOOLEAN /\ said = {} /\ landed = {}
    BY Zenon DEF Init
  <2> QED
    BY <2>1, <2>2, <2>3 DEF Outside
<1>4. MailInv
  BY <1>1 DEF Init, MailInv
<1>5. Control
  BY NoWorkType DEF Init, Control
<1> QED
  BY <1>1, <1>2, <1>3, <1>4, <1>5 DEF IInv

\* Every step keeps it.
LEMMA NextIInv ==
  IInv /\ [Next]_vars => IInv'
<1> SUFFICES ASSUME IInv, [Next]_vars PROVE IInv'
  OBVIOUS
<1>1. ASSUME NEW a \in Ids, Schedule(a) PROVE IInv'
  BY <1>1, FailUnresolvedKeeps, DispatchAgentKeeps, DispatchArchiveKeeps, ReconcileArchiveKeeps,
     OfferKeeps, HoldCaptureKeeps, BeginCaptureKeeps, LoseReceiptKeeps, ReconcileUncertainKeeps,
     Zenon DEF Schedule
<1>2. ASSUME Step PROVE IInv'
  BY <1>1, <1>2, RefuseCaptureKeeps, RunCaptureKeeps, SettleCaptureKeeps, Zenon DEF Step
<1>3. ASSUME Mailing PROVE IInv'
  BY <1>3, DeliverKeeps, DeliverUnmarkedKeeps, CancelMessageKeeps, Zenon DEF Mailing
<1>4. ASSUME Reporting PROVE IInv'
  BY <1>4, ReportQuestionKeeps, ReportResultKeeps, Zenon DEF Reporting
<1>5. ASSUME NEW a \in Ids, Operate(a) \/ ExecuteArchiveCommand(a) PROVE IInv'
  BY <1>5, CancelKeeps, RetryKeeps, CompleteKeeps, AnswerKeeps, CloseKeeps, ArchiveCommandKeeps,
     Zenon DEF Operate
<1>6. ASSUME NEW a \in Ids, NEW e \in Claimants, ClaimAction(a, e) PROVE IInv'
  BY <1>6, ClaimKeeps
<1>7. ASSUME NEW items \in Requests, EnqueueActions(items) PROVE IInv'
  BY <1>7, EnqueueKeeps
<1>8. ASSUME UNCHANGED vars PROVE IInv'
  <2>1. LaneInv(lane)' /\ \A a \in Ids' : RowTrue(a, lane[a], said, commits, target, landed)'
    BY <1>8 DEF vars, IInv, Ids
  <2>2. Outside'
    BY <1>8 DEF vars, IInv, Outside, Ids, Past
  <2>3. MailInv'
    BY <1>8 DEF vars, IInv, MailInv, Ids
  <2>4. Control'
    BY <1>8 DEF vars, IInv, Control, Ids, Holds
  <2> QED
    BY <2>1, <2>2, <2>3, <2>4 DEF IInv
<1> QED
  BY <1>2, <1>3, <1>4, <1>5, <1>6, <1>7, <1>8, SettleThrowsKeeps, BootKeeps, CommitKeeps,
     ElsewhereKeeps, OthersKeep, ReorderKeeps, Zenon DEF Next

\* IInv is an invariant of the action queue.
LEMMA Invariance ==
  Spec => []IInv
BY InitIInv, NextIInv, PTL DEF Spec

\* The variables keep their types, and every bound holds: whatever operators, agents,
\* claimants, crashes and the origin do, in every order.
THEOREM QueueTypes ==
  Spec => []TypeOK
<1>1. ASSUME IInv PROVE TypeOK
  <2>1. /\ lane \in Seq(Row) /\ Len(lane) <= MaxActions
        /\ \A a \in Ids : lane[a].attempt <= MaxAttempt /\ lane[a].position <= Len(lane)
    BY <1>1 DEF IInv, LaneInv, RowInv, Ids
  <2>2. /\ commits \in Seq([past: SUBSET Nat, holds: SUBSET Nat])
        /\ \A c \in DOMAIN commits :
              c \in Past(c) /\ Past(c) \subseteq Holds(c) /\ Holds(c) \subseteq 1 .. c
        /\ landed \subseteq Ids \X (1 .. MaxAttempt) \X DOMAIN commits
    <3>1. Past(target) \subseteq DOMAIN commits /\ Graph(commits)
      BY <1>1, GraphFacts DEF Rooted
    <3>2. landed \subseteq Ids \X (1 .. MaxAttempt) \X Past(target)
      BY <1>1 DEF IInv, Outside
    <3>3. \A l \in landed : l \in Ids \X (1 .. MaxAttempt) \X DOMAIN commits
      BY <3>1, <3>2
    <3> QED
      BY <3>1, <3>3 DEF Graph, Past, Holds
  <2>3. /\ paused \in BOOLEAN /\ lifecycle \in {"active", "archived"}
        /\ head \in DOMAIN commits /\ target \in DOMAIN commits /\ placed \in BOOLEAN
        /\ busy \in BOOLEAN /\ requests \in 0 .. MaxRequests /\ faults \in 0 .. MaxFaults
        /\ said \subseteq Ids \X (0 .. MaxAttempt)
    BY <1>1 DEF IInv, Outside
  <2>4. /\ mailbox \subseteq Ids \X (1 .. MaxAttempt)
        /\ known \subseteq Ids \X (1 .. MaxAttempt) \X (Claimants \union {"bee"})
    BY <1>1 DEF IInv, MailInv
  <2>5. /\ pc \in {"rest", "begun", "again", "effected", "down"}
        /\ work \in [id: Nat, cellHead: {0} \union DOMAIN commits,
                     report: {"none", "landed", "nothing_to_capture", "unlanded"}]
    BY <1>1 DEF IInv, Control, Work
  <2> QED
    BY <2>1, <2>2, <2>3, <2>4, <2>5 DEF TypeOK
<1> QED
  BY <1>1, Invariance, PTL

\* Nothing is started past an action that has not succeeded or been cancelled, in a
\* lane of any length, with any references, retried and reordered at will.
THEOREM QueueIsSequential ==
  Spec => []Sequential
<1>1. IInv => Sequential
  BY DEF IInv, LaneInv, InOrder, Cleared, Started, Sequential, Ids
<1> QED
  BY <1>1, Invariance, PTL

\* An action fails for its input only when the action it refers to can no longer give
\* it: references point backwards through every append and every reorder.
THEOREM ReferencesAreHonest ==
  Spec => []RefsHonest
<1>1. IInv => RefsHonest
  BY DEF IInv, LaneInv, RefDead, RefsHonest, Ids
<1> QED
  BY <1>1, Invariance, PTL

\* A success an agent or claimant reports was reported for the attempt the row is at.
THEOREM OutcomesAreCurrent ==
  Spec => []OutcomeIsCurrent
<1>1. IInv => OutcomeIsCurrent
  BY DEF IInv, RowTrue, OutcomeIsCurrent
<1> QED
  BY <1>1, Invariance, PTL

\* What a capture says of the origin is true, for any graph of commits the agent and
\* the owner of the origin make, with any number of attempts, lost receipts and crashes:
\* the work of a success is in the target, and a failure has landed nothing that
\* contains the HEAD its attempt was opened for.
THEOREM CapturesAreHonest ==
  Spec => []LandHonest
<1>1. IInv => LandHonest
  BY DEF IInv, RowTrue, Unlanded, LandHonest, Past, Holds
<1> QED
  BY <1>1, Invariance, PTL

=============================================================================
